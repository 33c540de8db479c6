--------------------------- MODULE TemplateAccess ---------------------------
(* Who may write the template repository                                   *)
(* (typescript/portal/src/services/community-center.ts): administrators,   *)
(* kept so by role changes and by what a starting portal adds, and those   *)
(* whom an administrator granted by hand.  The administrators are a        *)
(* relation in Keto, the collaborators rows in Gitea.                      *)
(***************************************************************************)
EXTENDS Naturals, FiniteSets

CONSTANTS Users, Ops, MaxOps  \* bound on the operations begun

ASSUME TemplateAccessAssumption == MaxOps \in Nat

VARIABLES
  admins,  \* the administrators in Keto
  collab,  \* the collaborators of the repository
  byHand,  \* who was granted by hand
  clean,   \* whom the last step was about of an operation alone with them that saw their role
  begun,
  ops

accessVars == <<admins, collab, byHand, clean, begun, ops>>

Kinds == {"idle", "promote", "demote", "grant", "revoke", "startup"}
\* `alone`, `sure`: history; was no other operation about the same users under way, and did
\* the check see every administrator that the operation is about?
Op == [kind : Kinds, at : {"begin", "repo"}, about : SUBSET Users, alone : BOOLEAN,
       sure : BOOLEAN]
Free == [kind |-> "idle", at |-> "begin", about |-> {}, alone |-> FALSE, sure |-> TRUE]

AccessTypeOK ==
  /\ admins \subseteq Users /\ collab \subseteq Users /\ byHand \subseteq Users
  /\ clean \subseteq Users /\ begun \in 0 .. MaxOps
  /\ ops \in [Ops -> Op]

AccessInit ==
  /\ admins \in SUBSET Users /\ admins # {} /\ collab \in SUBSET Users
  /\ byHand = collab \ admins /\ clean = {u \in Users : u \in admins => u \in collab}
  /\ begun = 0 /\ ops = [o \in Ops |-> Free]

-----------------------------------------------------------------------------
(* Operations of the portal.  Each is about one user, the start of a       *)
(* portal about every administrator that it lists.                         *)

Others(o, us) == {q \in Ops \ {o} : ops[q].about \cap us # {}}

\* From here on neither this operation nor those about the same users are alone.
Takes(o, kind, at, us) ==
  ops' = [q \in Ops |->
            CASE q = o -> [Free EXCEPT !.kind = kind, !.at = at, !.about = us,
                                       !.alone = Others(o, us) = {}]
              [] q \in Others(o, us) -> [ops[q] EXCEPT !.alone = FALSE]
              [] OTHER -> ops[q]]
Frees(o) == ops' = [ops EXCEPT ![o] = Free]

\* The session's role is read once, as the request comes in; nobody demotes himself.
MayAsk(kind, u) == IF kind = "demote" THEN admins \ {u} # {} ELSE admins # {}

Ask(o, kind, u) ==
  /\ ops[o].kind = "idle" /\ begun < MaxOps /\ begun' = begun + 1
  /\ kind \in {"promote", "demote", "grant", "revoke"} /\ MayAsk(kind, u)
  /\ Takes(o, kind, "begin", {u}) /\ UNCHANGED <<admins, collab, byHand, clean>>

\* A call that fails ends the operation, or the portal dies: the lookup of its own user, the
\* list of the administrators, the change of the role or of the repository.  (Keto may have
\* changed the role and failed on a tuple of the retired groups.)
GivesUp(o) ==
  /\ ops[o].kind # "idle" /\ Frees(o) /\ UNCHANGED <<admins, collab, byHand, clean, begun>>

SetUserAdmin(o) ==
  /\ ops[o].kind \in {"promote", "demote"} /\ ops[o].at = "begin"
  /\ admins' = IF ops[o].kind = "promote" THEN admins \cup ops[o].about
                                          ELSE admins \ ops[o].about
  /\ clean' = clean \ ops[o].about
  /\ ops' = [ops EXCEPT ![o].at = "repo"] /\ UNCHANGED <<collab, byHand, begun>>

RefusesNobody(o, seen) == FALSE
\* The access of administrators follows their role, and is not to be had by hand.
Refuses(o, seen) == ops[o].about \subseteq seen

\* adminGiteaUsernames: an administrator whose identity cannot be looked up is left out of
\* the set, and the check takes him for nobody special.
Check(o) ==
  /\ ops[o].kind \in {"grant", "revoke"} /\ ops[o].at = "begin"
  /\ \E seen \in SUBSET admins :
       IF Refuses(o, seen) THEN Frees(o)
       ELSE ops' = [ops EXCEPT ![o].at = "repo",
                               ![o].sure = ops[o].about \cap (admins \ seen) = {}]
  /\ UNCHANGED <<admins, collab, byHand, clean, begun>>

\* One collaborator is set or removed; only a step taken alone, and by who knew whom he had
\* before him, says how things stand.
Settled(o) == ops[o].alone /\ ops[o].sure
Settles(o, us) == clean' = IF Settled(o) THEN clean \cup us ELSE clean \ us

SetCollaborator(o, reachable) ==
  /\ ops[o].kind \in {"promote", "grant"} /\ ops[o].at = "repo" /\ reachable
  /\ collab' = collab \cup ops[o].about
  /\ byHand' = IF ops[o].kind = "grant" THEN byHand \cup ops[o].about ELSE byHand \ ops[o].about
  /\ Settles(o, ops[o].about) /\ Frees(o) /\ UNCHANGED <<admins, begun>>

RemoveCollaborator(o) ==
  /\ ops[o].kind \in {"demote", "revoke"} /\ ops[o].at = "repo"
  /\ collab' = collab \ ops[o].about /\ byHand' = byHand \ ops[o].about
  /\ Settles(o, ops[o].about) /\ Frees(o) /\ UNCHANGED <<admins, begun>>

-----------------------------------------------------------------------------
(* What a starting portal adds.                                            *)

ListAdmins(o) ==
  /\ ops[o].kind = "idle" /\ begun < MaxOps /\ begun' = begun + 1
  /\ Takes(o, "startup", "repo", admins) /\ UNCHANGED <<admins, collab, byHand, clean>>

\* One administrator after the other; one who cannot be added is passed over.
Next1(o, u) ==
  IF ops[o].about = {u} THEN Frees(o) ELSE ops' = [ops EXCEPT ![o].about = @ \ {u}]
PassOver(o, u) ==
  /\ ops[o].kind = "startup" /\ u \in ops[o].about
  /\ Next1(o, u) /\ UNCHANGED <<admins, collab, byHand, clean, begun>>
AddAdmin(o, u, reachable) ==
  /\ ops[o].kind = "startup" /\ u \in ops[o].about /\ reachable
  /\ collab' = collab \cup {u} /\ Settles(o, {u})
  /\ Next1(o, u) /\ UNCHANGED <<admins, byHand, begun>>

Requests(reachable) ==
  \E o \in Ops :
    \/ GivesUp(o) \/ SetUserAdmin(o) \/ Check(o)
    \/ SetCollaborator(o, reachable) \/ RemoveCollaborator(o)
    \/ \E u \in Users : PassOver(o, u) \/ AddAdmin(o, u, reachable)
    \/ \E k \in Kinds, u \in Users : Ask(o, k, u)
Startup == \E o \in Ops : ListAdmins(o)

AccessNext == (\E reachable \in BOOLEAN : Requests(reachable)) \/ Startup
AccessSpec == AccessInit /\ [][AccessNext]_accessVars

-----------------------------------------------------------------------------
(* Whoever was last dealt with by an operation that had him to itself,     *)
(* knew his role and came to its end may write the template exactly if he  *)
(* is an administrator or was granted by hand: a demoted administrator who *)
(* still may, or a promoted one who may not, is the mark of an overlap or  *)
(* of a failed call, which only a start of the portal repairs, and for     *)
(* administrators only.  (A revoke whose check could not look up an        *)
(* administrator takes his access away.  With the types of the variables.) *)
AccessFollowsRole ==
  /\ AccessTypeOK
  /\ \A u \in clean : u \in collab <=> u \in admins \/ u \in byHand
=============================================================================
