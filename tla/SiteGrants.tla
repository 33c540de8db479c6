----------------------------- MODULE SiteGrants -----------------------------
(* Who may use the site of one project, as effectiveSitePerm of            *)
(* typescript/portal/src/services/access.ts answers it, for the doors that *)
(* ask, SiteAccess, Gateway and Consent, and the clock that these and the  *)
(* ToolChannel share.  Of a permission only its being at least `read`      *)
(* matters to them.                                                        *)
(***************************************************************************)
EXTENDS Naturals

CONSTANTS
  Users,  \* visitors, each with one session cookie and one MCP token
  Delay,  \* the longest that a call takes, in ticks
  Cap     \* where the clocks of the history variables stop (a bound)

ASSUME SiteGrantsAssumption == Delay \in Nat /\ Cap \in Nat \ {0}

VARIABLES
  permitted,     \* the users with a grant of `read` or more
  sincePermitted \* history: how long ago each was last one of them

grantVars == <<permitted, sincePermitted>>

GrantsTypeOK == permitted \in SUBSET Users /\ sincePermitted \in [Users -> 0..Cap]

\* How long ago it was that a fact, which holds of the users of S, held.
NeverSince(S) == [u \in Users |-> IF u \in S THEN 0 ELSE Cap]
Later(since, S) ==
  [u \in Users |-> IF u \in S THEN 0 ELSE IF since[u] = Cap THEN Cap ELSE since[u] + 1]

GrantsInit == permitted \in SUBSET Users /\ sincePermitted = NeverSince(permitted)

Grant(u) ==
  /\ u \notin permitted
  /\ permitted' = permitted \cup {u}
  /\ sincePermitted' = [sincePermitted EXCEPT ![u] = 0]
Revoke(u) == u \in permitted /\ permitted' = permitted \ {u} /\ UNCHANGED sincePermitted
=============================================================================
