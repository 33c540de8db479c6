----------------------------- MODULE SiteAccess -----------------------------
(* The door of a project's website: GET /access/site/:slug of              *)
(* typescript/portal/src/routes/site-access.ts, which the Ingress asks     *)
(* before every request.  Two maps remember the answers of Kratos (whose   *)
(* session is this?) and of the grants (may they read?), each for a time   *)
(* from when the answer ARRIVED, which is later than it was true.  A step  *)
(* is what happens between two awaits.                                     *)
(***************************************************************************)
EXTENDS SiteGrants

CONSTANTS
  Visits,     \* requests at once (a bound)
  None,
  SessionTTL, SessionNegTTL, PermTTL \* in ticks

ASSUME SiteAccessAssumption ==
  /\ None \notin BOOLEAN
  /\ SessionTTL \in Nat \ {0} /\ SessionNegTTL \in 1..SessionTTL /\ PermTTL \in Nat \ {0}

VARIABLES
  alive,        \* Kratos: whose sessions are valid
  sinceAlive,   \* history
  sessionCache, \* by cookie: was there a session? and for how long that is believed
  permCache,    \* by user and slug: was there a permission?
  visit

siteVars == <<alive, sinceAlive, sessionCache, permCache, visit>>

Entry(ttl) == [val : BOOLEAN \cup {None}, left : 0..ttl]
NoEntry == [val |-> None, left |-> 0]

Visit == [pc : {"idle", "session", "toldSession", "perm", "toldPerm", "in"},
          user : Users \cup {None}, answer : BOOLEAN,
          age : 0..Delay]  \* of the call under way
NoVisit == [pc |-> "idle", user |-> None, answer |-> FALSE, age |-> 0]

SiteTypeOK ==
  /\ GrantsTypeOK
  /\ alive \in SUBSET Users /\ sinceAlive \in [Users -> 0..Cap]
  /\ sessionCache \in [Users -> Entry(SessionTTL)]
  /\ permCache \in [Users -> Entry(PermTTL)]
  /\ visit \in [Visits -> Visit]

SiteInit ==
  /\ GrantsInit
  /\ alive \in SUBSET Users /\ sinceAlive = NeverSince(alive)
  /\ sessionCache = [u \in Users |-> NoEntry]
  /\ permCache = [u \in Users |-> NoEntry]
  /\ visit = [v \in Visits |-> NoVisit]

-----------------------------------------------------------------------------
\* cacheGet, cacheSet.  (The flush of a map of more than 5000 entries is `Flush`.)
Expired(e) == e.val # None    \* a mutant: an entry counts for as long as it is there
Hit(e) == e.left > 0
Set(val, ttl) == [val |-> val, left |-> ttl]
Aged(e) == IF e.left = 0 THEN e ELSE [e EXCEPT !.left = @ - 1]

Call(v, pc) == [visit[v] EXCEPT !.pc = pc, !.answer = FALSE, !.age = 0]

\* The permission, of a user that is known: from the map, or asked for.
Permission(v, u) ==
  IF Hit(permCache[u])
  THEN IF permCache[u].val THEN [NoVisit EXCEPT !.pc = "in", !.user = u] ELSE NoVisit
  ELSE [Call(v, "perm") EXCEPT !.user = u]

Arrive(v, u) ==
  /\ visit[v].pc = "idle"
  /\ visit' = [visit EXCEPT ![v] =
       IF ~Hit(sessionCache[u]) THEN [Call(v, "session") EXCEPT !.user = u]
       ELSE IF sessionCache[u].val THEN Permission(v, u)
       ELSE NoVisit]
  /\ UNCHANGED <<grantVars, alive, sinceAlive, sessionCache, permCache>>

\* toSession: an outage and "no session" look alike.
AnswerSession(v) ==
  /\ visit[v].pc = "session"
  /\ \E a \in {visit[v].user \in alive, FALSE} :
       visit' = [visit EXCEPT ![v].pc = "toldSession", ![v].answer = a]
  /\ UNCHANGED <<grantVars, alive, sinceAlive, sessionCache, permCache>>

SessionLife(val) == IF val THEN SessionTTL ELSE SessionNegTTL
StoreSession(v) ==
  LET u == visit[v].user
      val == visit[v].answer
  IN /\ visit[v].pc = "toldSession"
     /\ sessionCache' = [sessionCache EXCEPT ![u] = Set(val, SessionLife(val))]
     /\ visit' = [visit EXCEPT ![v] = IF val THEN Permission(v, u) ELSE NoVisit]
     /\ UNCHANGED <<grantVars, alive, sinceAlive, permCache>>

\* getProjectBySlug and effectiveSitePerm
AnswerPermission(v) ==
  /\ visit[v].pc = "perm"
  /\ visit' = [visit EXCEPT ![v].pc = "toldPerm", ![v].answer = visit[v].user \in permitted]
  /\ UNCHANGED <<grantVars, alive, sinceAlive, sessionCache, permCache>>
\* A database that fails is answered with 403 and not remembered.
PermissionFails(v) ==
  /\ visit[v].pc = "perm"
  /\ visit' = [visit EXCEPT ![v] = NoVisit]
  /\ UNCHANGED <<grantVars, alive, sinceAlive, sessionCache, permCache>>

PermLife == PermTTL
StorePermission(v) ==
  LET u == visit[v].user
  IN /\ visit[v].pc = "toldPerm"
     /\ permCache' = [permCache EXCEPT ![u] = Set(visit[v].answer, PermLife)]
     /\ visit' = [visit EXCEPT ![v] =
          IF visit[v].answer THEN [NoVisit EXCEPT !.pc = "in", !.user = u] ELSE NoVisit]
     /\ UNCHANGED <<grantVars, alive, sinceAlive, sessionCache>>

\* The answer 200 is sent.
Respond(v) ==
  /\ visit[v].pc = "in"
  /\ visit' = [visit EXCEPT ![v] = NoVisit]
  /\ UNCHANGED <<grantVars, alive, sinceAlive, sessionCache, permCache>>

Flush ==
  /\ \/ sessionCache' = [u \in Users |-> NoEntry] /\ UNCHANGED permCache
     \/ permCache' = [u \in Users |-> NoEntry] /\ UNCHANGED sessionCache
  /\ UNCHANGED <<grantVars, alive, sinceAlive, visit>>

-----------------------------------------------------------------------------
LogIn(u) ==
  /\ u \notin alive /\ alive' = alive \cup {u}
  /\ sinceAlive' = [sinceAlive EXCEPT ![u] = 0]
  /\ UNCHANGED <<grantVars, sessionCache, permCache, visit>>
LogOut(u) ==
  /\ u \in alive /\ alive' = alive \ {u}
  /\ UNCHANGED <<grantVars, sinceAlive, sessionCache, permCache, visit>>
EditGrant(u) == (Grant(u) \/ Revoke(u)) /\ UNCHANGED siteVars

\* A call takes Delay at most, and an answer is sent at once.
SiteTick ==
  /\ \A v \in Visits :
       visit[v].pc # "in" /\ (visit[v].pc # "idle" => visit[v].age < Delay)
  /\ visit' = [v \in Visits |-> IF visit[v].pc = "idle" THEN visit[v]
                                ELSE [visit[v] EXCEPT !.age = @ + 1]]
  /\ sinceAlive' = Later(sinceAlive, alive)
  /\ sincePermitted' = Later(sincePermitted, permitted)
  /\ sessionCache' = [u \in Users |-> Aged(sessionCache[u])]
  /\ permCache' = [u \in Users |-> Aged(permCache[u])]
  /\ UNCHANGED <<permitted, alive>>

SiteNext ==
  \/ \E v \in Visits :
       \/ \E u \in Users : Arrive(v, u)
       \/ AnswerSession(v) \/ StoreSession(v) \/ AnswerPermission(v) \/ PermissionFails(v)
       \/ StorePermission(v) \/ Respond(v)
  \/ \E u \in Users : LogIn(u) \/ LogOut(u) \/ EditGrant(u)
  \/ Flush \/ SiteTick

SiteSpec == SiteInit /\ [][SiteNext]_<<grantVars, siteVars>>

-----------------------------------------------------------------------------
Admitted == {visit[v].user : v \in {w \in Visits : visit[w].pc = "in"}}

PermissionDoor == INSTANCE Staleness WITH
  inside <- Admitted, since <- sincePermitted, Window <- PermTTL + Delay - 1
SessionDoor == INSTANCE Staleness WITH
  inside <- Admitted, since <- sinceAlive, Window <- SessionTTL + 2 * Delay - 1

(* A revoked permission shuts the site within the lifetime of an entry and *)
(* the time that a lookup takes, although the answer of a lookup is stored *)
(* as if it were news, and an older one may be stored over a newer.  A     *)
(* session that ended opens the site for no longer than the lifetime of an *)
(* entry and two calls.  (With the types of the variables.)                *)
SiteBounded == PermissionDoor!Spec /\ SessionDoor!Spec /\ []SiteTypeOK
=============================================================================
