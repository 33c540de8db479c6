----------------------------- MODULE Staleness ------------------------------
(* What a door that answers from memory promises: whoever is inside was    *)
(* entitled to it at most Window ticks ago.  Five implement it: the site   *)
(* check of typescript/portal/src/routes/site-access.ts (SiteAccess), the  *)
(* MCP gateway of typescript/mcp-gateway (Gateway), the portal's own MCP   *)
(* channel (ToolChannel), its consent to tokens (Consent) and its pages    *)
(* about the projects' health (ProjectHealth), which let statements in.    *)
(***************************************************************************)
EXTENDS Naturals

CONSTANTS Users, Window

VARIABLES
  inside,  \* who is being let in, or has a connection open
  since    \* the time since each user was last entitled

Init == inside = {} /\ since \in [Users -> Nat]

Admit ==
  /\ \E A \in SUBSET Users : (\A u \in A : since[u] <= Window) /\ inside' = inside \cup A
  /\ UNCHANGED since
Leave == inside' \subseteq inside /\ UNCHANGED since

\* Somebody becomes entitled, at once; who ceases to be is so from the next tick on.
Entitle == \E u \in Users : since' = [since EXCEPT ![u] = 0] /\ UNCHANGED inside

\* Time passes.  For those who are entitled `since` stays at 0.
Tick ==
  /\ since' \in [Users -> Nat]
  /\ \A u \in Users : since'[u] \in {since[u], since[u] + 1}
  /\ \A u \in inside : since'[u] <= Window
  /\ UNCHANGED inside

Next == Admit \/ Leave \/ Entitle \/ Tick

Spec == Init /\ [][Next]_<<inside, since>>

(* What that amounts to.                                                   *)
NobodyStale == \A u \in inside : since[u] <= Window
=============================================================================
