----------------------------- MODULE DoorsProofs ----------------------------
(* Proofs that the site check, the gateway, the tool channel and the       *)
(* consent implement Staleness: whoever is inside was entitled to it at    *)
(* most a window ago, for any users, any number of requests, streams,      *)
(* channels and forms, and any lives of the memories and lengths of the    *)
(* calls that satisfy the assumptions.  And that the places of the tool    *)
(* channel are counted.                                                    *)
EXTENDS SiteAccess, Gateway, ToolChannel, Consent, FiniteSetTheorems, TLAPS

\* A clock of the histories: it stops at Cap, and stands at 0 while the fact holds.
LEMMA LaterCounts ==
  ASSUME NEW since \in [Users -> 0..Cap], NEW S
  PROVE  /\ Later(since, S) \in [Users -> 0..Cap]
         /\ \A u \in Users : /\ u \in S => Later(since, S)[u] = 0
                             /\ Later(since, S)[u] <= since[u] + 1
                             /\ u \notin S => Later(since, S)[u] \in {since[u], since[u] + 1}
<1>1. ASSUME NEW u \in Users
      PROVE  /\ Later(since, S)[u] \in 0..Cap
             /\ u \in S => Later(since, S)[u] = 0
             /\ Later(since, S)[u] <= since[u] + 1
             /\ u \notin S => Later(since, S)[u] \in {since[u], since[u] + 1}
  <2>1. since[u] \in 0..Cap /\ Cap \in Nat
    BY SiteGrantsAssumption
  <2> QED BY <2>1 DEF Later
<1> QED BY <1>1 DEF Later

LEMMA NeverSinceStarts ==
  ASSUME NEW S
  PROVE  NeverSince(S) \in [Users -> 0..Cap] /\ \A u \in Users : u \in S => NeverSince(S)[u] = 0
  BY SiteGrantsAssumption DEF NeverSince

-----------------------------------------------------------------------------
(* The site check.                                                         *)

\* A request knows how old, at most, what it was told is.
VisitOK(q) ==
  /\ q.pc # "idle" => q.user \in Users
  /\ q.pc = "toldSession" /\ q.answer => sinceAlive[q.user] <= q.age
  /\ q.pc \in {"perm", "toldPerm"} => sinceAlive[q.user] <= SessionTTL + Delay - 1 + q.age
  /\ q.pc = "toldPerm" /\ q.answer => sincePermitted[q.user] <= q.age
  /\ q.pc = "in" => /\ sinceAlive[q.user] <= SessionTTL + 2 * Delay - 1
                    /\ sincePermitted[q.user] <= PermTTL + Delay - 1

\* An entry that is believed says yes or no, and its age and its life make up a constant.
EntryOK(e, since, ttl) ==
  e.left > 0 => e.val \in BOOLEAN /\ (e.val => since + e.left <= ttl + Delay)

SiteInv ==
  /\ SiteTypeOK
  /\ \A u \in permitted : sincePermitted[u] = 0
  /\ \A u \in alive : sinceAlive[u] = 0
  /\ \A u \in Users : /\ EntryOK(sessionCache[u], sinceAlive[u], SessionTTL)
                      /\ EntryOK(permCache[u], sincePermitted[u], PermTTL)
  /\ \A v \in Visits : VisitOK(visit[v])

DoorSteps ==
  /\ [PermissionDoor!Next]_<<Admitted, sincePermitted>>
  /\ [SessionDoor!Next]_<<Admitted, sinceAlive>>

\* One request goes on, and nothing else changes that it depends on.
LEMMA VisitMoves ==
  ASSUME SiteInv, NEW v \in Visits,
         \A w \in Visits \ {v} : visit'[w] = visit[w],
         UNCHANGED <<sinceAlive, sincePermitted>>,
         VisitOK(visit[v])', visit[v].pc # "in" \/ visit'[v].pc # "in"
  PROVE  DoorSteps
<1>1. CASE visit'[v].pc # "in"
  <2>1. Admitted' \subseteq Admitted
    BY <1>1 DEF Admitted
  <2> QED BY <2>1 DEF DoorSteps, PermissionDoor!Next, PermissionDoor!Leave,
                      SessionDoor!Next, SessionDoor!Leave
<1>2. CASE visit'[v].pc = "in" /\ visit[v].pc # "in"
  <2> DEFINE u == visit'[v].user
  <2>1. u \in Users /\ sinceAlive[u] <= SessionTTL + 2 * Delay - 1
        /\ sincePermitted[u] <= PermTTL + Delay - 1
    BY <1>2 DEF VisitOK
  <2>2. Admitted' = Admitted \cup {u}
    BY <1>2 DEF Admitted
  <2>3. PermissionDoor!Admit /\ SessionDoor!Admit
    BY <2>1, <2>2 DEF PermissionDoor!Admit, SessionDoor!Admit
  <2> QED BY <2>3 DEF DoorSteps, PermissionDoor!Next, SessionDoor!Next
<1> QED BY <1>1, <1>2

\* What is left of the invariant when one request has gone on.
LEMMA VisitKept ==
  ASSUME SiteInv, NEW v \in Visits,
         visit' \in [Visits -> Visit], \A w \in Visits \ {v} : visit'[w] = visit[w],
         UNCHANGED <<grantVars, alive, sinceAlive>>,
         VisitOK(visit[v])',
         sessionCache' \in [Users -> Entry(SessionTTL)], permCache' \in [Users -> Entry(PermTTL)],
         \A u \in Users : /\ EntryOK(sessionCache'[u], sinceAlive[u], SessionTTL)
                          /\ EntryOK(permCache'[u], sincePermitted[u], PermTTL)
  PROVE  SiteInv'
<1>1. \A w \in Visits : VisitOK(visit[w])'
  <2> SUFFICES ASSUME NEW w \in Visits \ {v} PROVE VisitOK(visit[w])'
    OBVIOUS
  <2>1. VisitOK(visit[w]) /\ visit'[w] = visit[w]
    BY DEF SiteInv
  <2> QED BY <2>1 DEF VisitOK, grantVars
<1>2. SiteTypeOK'
  BY DEF SiteInv, SiteTypeOK, GrantsTypeOK, grantVars
<1> QED BY <1>1, <1>2 DEF SiteInv, grantVars, EntryOK

Waits(q, pc, u) ==
  /\ q \in Visit /\ q.pc = pc /\ q.user = u /\ q.age = 0

LEMMA TypeOfCall ==
  ASSUME NEW v \in Visits, visit[v] \in Visit, NEW u \in Users,
         NEW pc \in {"session", "perm"}
  PROVE  Waits([Call(v, pc) EXCEPT !.user = u], pc, u)
<1> DEFINE called == [[visit[v] EXCEPT !.pc = pc] EXCEPT !.answer = FALSE]
<1>1. [visit[v] EXCEPT !.pc = pc] \in Visit /\ [visit[v] EXCEPT !.pc = pc].pc = pc
  BY DEF Visit
<1>2. called \in Visit /\ called.pc = pc
  BY <1>1 DEF Visit
<1>3. Call(v, pc) = [called EXCEPT !.age = 0]
  BY DEF Call, Visit
<1>4. 0 \in 0..Delay
  BY SiteGrantsAssumption
<1>5. [called EXCEPT !.age = 0] \in Visit
  BY <1>2, <1>4 DEF Visit
<1>6. Call(v, pc) \in Visit /\ Call(v, pc).pc = pc /\ Call(v, pc).age = 0
  BY <1>2, <1>3, <1>5 DEF Visit
<1> QED BY <1>6 DEF Visit, Waits

LEMMA TypeOfNone == NoVisit \in Visit /\ NoVisit.pc = "idle" /\ NoVisit.age = 0
  BY SiteGrantsAssumption DEF NoVisit, Visit

LEMMA TypeOfEntrance ==
  ASSUME NEW u \in Users
  PROVE  Waits([NoVisit EXCEPT !.pc = "in", !.user = u], "in", u)
  BY TypeOfNone DEF Visit, Waits

\* The permission of a user whose session is known.
LEMMA PermissionKnown ==
  ASSUME SiteInv, NEW v \in Visits, NEW u \in Users,
         sinceAlive[u] <= SessionTTL + Delay - 1,
         visit' = [visit EXCEPT ![v] = Permission(v, u)],
         UNCHANGED <<sinceAlive, sincePermitted>>
  PROVE  /\ visit' \in [Visits -> Visit] /\ VisitOK(visit[v])'
<1>t. /\ visit[v] \in Visit /\ visit \in [Visits -> Visit] /\ Delay \in Nat /\ PermTTL \in Nat
      /\ sinceAlive[u] \in Nat /\ sincePermitted[u] \in Nat /\ permCache[u].left \in Nat
      /\ SessionTTL \in Nat /\ PermTTL > 0
  BY SiteGrantsAssumption, SiteAccessAssumption
     DEF SiteInv, SiteTypeOK, GrantsTypeOK, Entry
<1>n. NoVisit \in Visit /\ NoVisit.pc = "idle"
  BY <1>t DEF NoVisit, Visit
<1>1. CASE Hit(permCache[u])
  <2>1. permCache[u].val \in BOOLEAN
        /\ (permCache[u].val => sincePermitted[u] <= PermTTL + Delay - 1)
    BY <1>1, <1>t DEF Hit, SiteInv, EntryOK
  <2>2. CASE permCache[u].val
    <3>1. visit' = [visit EXCEPT ![v] = [NoVisit EXCEPT !.pc = "in", !.user = u]]
      BY <1>1, <2>2 DEF Permission
    <3>2. /\ visit' \in [Visits -> Visit]
          /\ visit'[v].pc = "in" /\ visit'[v].user = u
      BY ZenonT(30), <1>t, <3>1, TypeOfEntrance DEF Waits
    <3>3. /\ sinceAlive[u] <= SessionTTL + 2 * Delay - 1
          /\ sincePermitted[u] <= PermTTL + Delay - 1
      BY <1>t, <2>1, <2>2
    <3> QED BY <3>2, <3>3 DEF VisitOK
  <2>3. CASE ~permCache[u].val
    <3>1. Permission(v, u) = NoVisit
      BY <1>1, <2>3 DEF Permission
    <3>2. visit'[v] = NoVisit /\ visit' \in [Visits -> Visit]
      BY <1>t, <1>n, <3>1
    <3> QED BY <1>n, <3>2 DEF VisitOK
  <2> QED BY <2>2, <2>3
<1>2. CASE ~Hit(permCache[u])
  <2>1. visit' = [visit EXCEPT ![v] = [Call(v, "perm") EXCEPT !.user = u]]
    BY <1>2 DEF Permission
  <2>2. Waits([Call(v, "perm") EXCEPT !.user = u], "perm", u)
    BY <1>t, TypeOfCall
  <2>3. /\ visit' \in [Visits -> Visit]
        /\ visit'[v].pc = "perm" /\ visit'[v].user = u /\ visit'[v].age = 0
    BY <1>t, <2>1, <2>2 DEF Waits
  <2>4. sinceAlive[u] <= SessionTTL + Delay - 1 + 0
    BY <1>t
  <2> QED BY <2>3, <2>4 DEF VisitOK
<1> QED BY <1>1, <1>2

\* A visit's own steps.
LEMMA SiteVisit ==
  ASSUME SiteInv, NEW v \in Visits,
         \/ \E u \in Users : Arrive(v, u)
         \/ AnswerSession(v) \/ StoreSession(v) \/ AnswerPermission(v) \/ PermissionFails(v)
         \/ StorePermission(v) \/ Respond(v)
  PROVE  SiteInv' /\ DoorSteps
<1> DEFINE q == visit[v]
<1>t. /\ visit \in [Visits -> Visit] /\ q \in Visit /\ VisitOK(q) /\ q.answer \in BOOLEAN
      /\ sessionCache \in [Users -> Entry(SessionTTL)] /\ permCache \in [Users -> Entry(PermTTL)]
      /\ \A u \in Users : /\ EntryOK(sessionCache[u], sinceAlive[u], SessionTTL)
                          /\ EntryOK(permCache[u], sincePermitted[u], PermTTL)
  BY DEF SiteInv, SiteTypeOK, Visit
<1>c. /\ Delay \in Nat /\ SessionTTL \in Nat /\ SessionTTL > 0 /\ PermTTL \in Nat /\ PermTTL > 0
      /\ SessionNegTTL \in 1..SessionTTL
  BY SiteGrantsAssumption, SiteAccessAssumption
<1>u. \A u \in Users : sinceAlive[u] \in Nat /\ sincePermitted[u] \in Nat
  <2>1. sinceAlive \in [Users -> 0..Cap] /\ sincePermitted \in [Users -> 0..Cap]
    BY DEF SiteInv, SiteTypeOK, GrantsTypeOK
  <2>2. 0..Cap \subseteq Nat
    BY SiteGrantsAssumption
  <2> QED BY <2>1, <2>2
<1>1. ASSUME NEW u \in Users, Arrive(v, u) PROVE SiteInv' /\ DoorSteps
  <2>1. /\ UNCHANGED <<grantVars, alive, sinceAlive, sessionCache, permCache>>
        /\ \A w \in Visits \ {v} : visit'[w] = visit[w]
        /\ q.pc = "idle"
    BY <1>1, <1>t DEF Arrive
  <2>2. visit' \in [Visits -> Visit] /\ VisitOK(visit[v])'
    <3>1. CASE ~Hit(sessionCache[u])
      <4>1. visit' = [visit EXCEPT ![v] = [Call(v, "session") EXCEPT !.user = u]]
        BY <1>1, <3>1 DEF Arrive
      <4>2. Waits([Call(v, "session") EXCEPT !.user = u], "session", u)
        BY <1>t, TypeOfCall
      <4> QED BY <1>t, <4>1, <4>2 DEF Waits, VisitOK
    <3>2. CASE Hit(sessionCache[u]) /\ sessionCache[u].val
      <4>1. visit' = [visit EXCEPT ![v] = Permission(v, u)]
        BY <1>1, <3>2 DEF Arrive
      <4>2. sinceAlive[u] + sessionCache[u].left <= SessionTTL + Delay
            /\ sessionCache[u].left > 0
        BY <1>t, <3>2 DEF EntryOK, Hit
      <4>3. sinceAlive[u] <= SessionTTL + Delay - 1
        BY <1>t, <1>c, <1>u, <4>2 DEF Entry
      <4> QED BY <2>1, <4>1, <4>3, PermissionKnown DEF grantVars
    <3>3. CASE Hit(sessionCache[u]) /\ ~sessionCache[u].val
      <4>1. visit' = [visit EXCEPT ![v] = NoVisit]
        BY <1>1, <3>3, Zenon DEF Arrive
      <4>2. visit'[v].pc = "idle" /\ visit' \in [Visits -> Visit]
        BY <1>t, <4>1, TypeOfNone
      <4> QED BY <4>2 DEF VisitOK
    <3> QED BY <3>1, <3>2, <3>3
  <2> QED BY <1>t, <2>1, <2>2, VisitKept, VisitMoves DEF grantVars
<1>2. CASE AnswerSession(v)
  <2>1. /\ UNCHANGED <<grantVars, alive, sinceAlive, sessionCache, permCache>>
        /\ q.pc = "session"
    BY <1>2 DEF AnswerSession
  <2>2. ASSUME NEW a \in BOOLEAN, a => q.user \in alive,
               visit' = [visit EXCEPT ![v].pc = "toldSession", ![v].answer = a]
        PROVE  SiteInv' /\ DoorSteps
    <3>1. /\ visit' \in [Visits -> Visit] /\ \A w \in Visits \ {v} : visit'[w] = visit[w]
          /\ visit'[v].pc = "toldSession" /\ visit'[v].answer = a /\ visit'[v].user = q.user
          /\ visit'[v].age = q.age
      BY <1>t, <2>2 DEF Visit
    <3>2. a => sinceAlive[q.user] <= q.age
      <4>1. q.age \in 0..Delay
        BY <1>t DEF Visit
      <4>2. a => sinceAlive[q.user] = 0
        BY <2>2 DEF SiteInv
      <4> QED BY <1>c, <4>1, <4>2
    <3>3. VisitOK(visit[v])'
      BY <1>t, <2>1, <3>1, <3>2 DEF VisitOK
    <3> QED BY <1>t, <2>1, <3>1, <3>3, VisitKept, VisitMoves DEF grantVars
  <2>3. CASE visit' = [visit EXCEPT ![v].pc = "toldSession", ![v].answer = FALSE]
    BY <2>2, <2>3
  <2>4. CASE visit' = [visit EXCEPT ![v].pc = "toldSession", ![v].answer = q.user \in alive]
    <3>1. (q.user \in alive) \in BOOLEAN
      OBVIOUS
    <3> QED BY <2>2, <2>4, <3>1, Zenon
  <2> QED BY <1>2, <2>3, <2>4, Zenon DEF AnswerSession
<1>3. CASE StoreSession(v)
  <2> DEFINE u == q.user
             val == q.answer
             e == Set(val, SessionLife(val))
  <2>1. /\ UNCHANGED <<grantVars, alive, sinceAlive, permCache>>
        /\ q.pc = "toldSession" /\ u \in Users
        /\ sessionCache' = [sessionCache EXCEPT ![u] = e]
        /\ visit' = [visit EXCEPT ![v] = IF val THEN Permission(v, u) ELSE NoVisit]
    BY <1>3, <1>t DEF StoreSession, VisitOK
  <2>2. val => sinceAlive[u] <= Delay
    <3>1. q.age \in 0..Delay
      BY <1>t DEF Visit
    <3>2. val => sinceAlive[u] <= q.age
      BY <1>t, <2>1 DEF VisitOK
    <3> QED BY <1>c, <1>u, <2>1, <3>1, <3>2
  <2>3. /\ \A w \in Visits \ {v} : visit'[w] = visit[w]
        /\ visit' \in [Visits -> Visit] /\ VisitOK(visit[v])'
    <3>1. CASE val
      <4>1. sinceAlive[u] <= SessionTTL + Delay - 1
        BY <1>c, <1>u, <2>1, <2>2, <3>1
      <4>2. visit' = [visit EXCEPT ![v] = Permission(v, u)]
        BY <2>1, <3>1
      <4> QED BY <1>t, <2>1, <4>1, <4>2, PermissionKnown DEF grantVars
    <3>2. CASE ~val
      <4>1. visit' = [visit EXCEPT ![v] = NoVisit]
        BY <2>1, <3>2, Zenon
      <4>2. /\ \A w \in Visits \ {v} : visit'[w] = visit[w]
            /\ visit'[v].pc = "idle" /\ visit' \in [Visits -> Visit]
        BY <1>t, <4>1, TypeOfNone
      <4> QED BY <4>2 DEF VisitOK
    <3> QED BY <3>1, <3>2
  <2>4. e \in Entry(SessionTTL) /\ e.val = val /\ (val => e.left = SessionTTL)
    <3>1. SessionLife(val) \in 0..SessionTTL /\ (val => SessionLife(val) = SessionTTL)
      BY <1>t, <1>c DEF SessionLife
    <3> QED BY <1>t, <3>1 DEF Set, Entry
  <2>5. sessionCache' \in [Users -> Entry(SessionTTL)]
    BY <1>t, <2>1, <2>4
  <2>6. \A w \in Users : EntryOK(sessionCache'[w], sinceAlive[w], SessionTTL)
    <3>1. val => sinceAlive[u] + SessionTTL <= SessionTTL + Delay
      BY <1>c, <1>u, <2>1, <2>2
    <3>2. EntryOK(e, sinceAlive[u], SessionTTL)
      BY <1>t, <2>4, <3>1 DEF EntryOK
    <3> QED BY <1>t, <2>1, <3>2
  <2> QED BY <1>t, <2>1, <2>3, <2>5, <2>6, VisitKept, VisitMoves DEF grantVars
<1>4. CASE AnswerPermission(v)
  <2> DEFINE a == q.user \in permitted
  <2>1. /\ UNCHANGED <<grantVars, alive, sinceAlive, sessionCache, permCache>>
        /\ q.pc = "perm" /\ a \in BOOLEAN
        /\ visit' = [visit EXCEPT ![v].pc = "toldPerm", ![v].answer = a]
    BY <1>4 DEF AnswerPermission
  <2>2. /\ visit' \in [Visits -> Visit] /\ \A w \in Visits \ {v} : visit'[w] = visit[w]
        /\ visit'[v].pc = "toldPerm" /\ visit'[v].answer = a /\ visit'[v].user = q.user
        /\ visit'[v].age = q.age
    BY <1>t, <2>1 DEF Visit
  <2>3. a => sincePermitted[q.user] <= q.age
    <3>1. q.age \in 0..Delay
      BY <1>t DEF Visit
    <3>2. a => sincePermitted[q.user] = 0
      BY DEF SiteInv
    <3> QED BY <1>c, <3>1, <3>2
  <2>4. VisitOK(visit[v])'
    BY <1>t, <2>1, <2>2, <2>3 DEF VisitOK, grantVars
  <2> QED BY <1>t, <2>1, <2>2, <2>4, VisitKept, VisitMoves DEF grantVars
<1>5. CASE PermissionFails(v) \/ Respond(v)
  <2>1. /\ UNCHANGED <<grantVars, alive, sinceAlive, sessionCache, permCache>>
        /\ visit' = [visit EXCEPT ![v] = NoVisit]
    BY <1>5 DEF PermissionFails, Respond
  <2>2. /\ \A w \in Visits \ {v} : visit'[w] = visit[w]
        /\ visit'[v].pc = "idle" /\ visit' \in [Visits -> Visit]
    BY <1>t, <2>1, TypeOfNone
  <2>3. VisitOK(visit[v])'
    BY <2>2 DEF VisitOK
  <2> QED BY <1>t, <2>1, <2>2, <2>3, VisitKept, VisitMoves DEF grantVars
<1>6. CASE StorePermission(v)
  <2> DEFINE u == q.user
             val == q.answer
             e == Set(val, PermLife)
  <2>1. /\ UNCHANGED <<grantVars, alive, sinceAlive, sessionCache>>
        /\ q.pc = "toldPerm" /\ u \in Users
        /\ permCache' = [permCache EXCEPT ![u] = e]
        /\ visit' = [visit EXCEPT ![v] =
             IF val THEN [NoVisit EXCEPT !.pc = "in", !.user = u] ELSE NoVisit]
    BY <1>6, <1>t DEF StorePermission, VisitOK
  <2>2. /\ val => sincePermitted[u] <= Delay
        /\ sinceAlive[u] <= SessionTTL + 2 * Delay - 1
    <3>1. q.age \in 0..Delay
      BY <1>t DEF Visit
    <3>2. /\ val => sincePermitted[u] <= q.age
          /\ sinceAlive[u] <= SessionTTL + Delay - 1 + q.age
      BY <1>t, <2>1 DEF VisitOK
    <3> QED BY <1>c, <1>u, <2>1, <3>1, <3>2
  <2>3. /\ \A w \in Visits \ {v} : visit'[w] = visit[w]
        /\ visit' \in [Visits -> Visit] /\ VisitOK(visit[v])'
    <3>1. CASE val
      <4>1. visit' = [visit EXCEPT ![v] = [NoVisit EXCEPT !.pc = "in", !.user = u]]
        BY <2>1, <3>1
      <4>2. /\ \A w \in Visits \ {v} : visit'[w] = visit[w]
            /\ visit'[v].pc = "in" /\ visit'[v].user = u /\ visit' \in [Visits -> Visit]
        <5>1. Waits([NoVisit EXCEPT !.pc = "in", !.user = u], "in", u)
          BY <2>1, TypeOfEntrance
        <5> QED BY <1>t, <4>1, <5>1 DEF Waits
      <4>3. sincePermitted[u] <= PermTTL + Delay - 1
        BY <1>c, <1>u, <2>1, <2>2, <3>1
      <4> QED BY <2>1, <2>2, <4>2, <4>3 DEF VisitOK, grantVars
    <3>2. CASE ~val
      <4>1. visit' = [visit EXCEPT ![v] = NoVisit]
        BY <2>1, <3>2, Zenon
      <4>2. /\ \A w \in Visits \ {v} : visit'[w] = visit[w]
            /\ visit'[v].pc = "idle" /\ visit' \in [Visits -> Visit]
        BY <1>t, <4>1, TypeOfNone
      <4> QED BY <4>2 DEF VisitOK
    <3> QED BY <3>1, <3>2
  <2>4. e \in Entry(PermTTL) /\ e.val = val /\ e.left = PermTTL
    BY <1>t, <1>c DEF Set, Entry, PermLife
  <2>5. permCache' \in [Users -> Entry(PermTTL)]
    BY <1>t, <2>1, <2>4
  <2>6. \A w \in Users : EntryOK(permCache'[w], sincePermitted[w], PermTTL)
    <3>1. EntryOK(e, sincePermitted[u], PermTTL)
      BY <1>t, <1>c, <1>u, <2>1, <2>2, <2>4 DEF EntryOK
    <3> QED BY <1>t, <2>1, <3>1
  <2> QED BY <1>t, <2>1, <2>2, <2>3, <2>5, <2>6, VisitKept, VisitMoves DEF grantVars
<1> QED BY <1>1, <1>2, <1>3, <1>4, <1>5, <1>6

\* The histories move on for somebody, who is entitled again; or nothing of the site's does.
LEMMA SiteOutside ==
  ASSUME SiteInv,
         (\E u \in Users : LogIn(u) \/ LogOut(u) \/ EditGrant(u)) \/ Flush
           \/ UNCHANGED <<grantVars, siteVars>>
  PROVE  SiteInv' /\ DoorSteps
<1>t. SiteTypeOK
  BY DEF SiteInv
<1>c. 0 \in 0..Cap
  BY SiteGrantsAssumption
<1>n. NoEntry \in Entry(SessionTTL) /\ NoEntry \in Entry(PermTTL) /\ NoEntry.left = 0
  BY SiteAccessAssumption DEF NoEntry, Entry
<1>s. ASSUME UNCHANGED <<visit, sinceAlive, sincePermitted>>
      PROVE  DoorSteps
  BY <1>s DEF DoorSteps, Admitted
<1>1. ASSUME NEW u \in Users, LogIn(u) PROVE SiteInv' /\ DoorSteps
  <2>1. /\ UNCHANGED <<grantVars, sessionCache, permCache, visit>>
        /\ alive' = alive \cup {u} /\ sinceAlive' = [sinceAlive EXCEPT ![u] = 0]
    BY <1>1 DEF LogIn
  <2>2. SiteTypeOK'
    BY <1>t, <1>c, <2>1 DEF SiteTypeOK, GrantsTypeOK, grantVars
  <2>3. \A w \in Users : sinceAlive'[w] <= sinceAlive[w] /\ sinceAlive[w] \in Nat
    <3>1. sinceAlive \in [Users -> 0..Cap] /\ 0..Cap \subseteq Nat
      BY <1>t, SiteGrantsAssumption DEF SiteTypeOK
    <3> QED BY <2>1, <3>1
  <2>4. \A w \in alive' : sinceAlive'[w] = 0
    BY <1>t, <2>1 DEF SiteInv, SiteTypeOK
  <2>5. ASSUME NEW v \in Visits PROVE VisitOK(visit[v])'
    <3>1. VisitOK(visit[v]) /\ visit[v] \in Visit
      BY <1>t DEF SiteInv, SiteTypeOK
    <3>2. CASE visit[v].pc = "idle"
      BY <2>1, <3>2 DEF VisitOK
    <3>3. CASE visit[v].pc # "idle"
      <4> DEFINE w == visit[v].user
      <4>1. /\ sinceAlive'[w] = sinceAlive[w] \/ sinceAlive'[w] = 0
            /\ sinceAlive'[w] <= sinceAlive[w] /\ sinceAlive[w] \in Nat /\ w \in Users
        BY <1>t, <2>1, <2>3, <3>1, <3>3 DEF VisitOK, SiteTypeOK
      <4>2. /\ visit[v].age \in Nat /\ Delay \in Nat /\ SessionTTL \in Nat \ {0}
        BY <3>1, SiteGrantsAssumption, SiteAccessAssumption DEF Visit
      <4>3. sinceAlive'[w] = 0 => /\ sinceAlive'[w] <= visit[v].age
                                  /\ sinceAlive'[w] <= SessionTTL + Delay - 1 + visit[v].age
                                  /\ sinceAlive'[w] <= SessionTTL + 2 * Delay - 1
        BY <4>2
      <4> QED BY <2>1, <3>1, <4>1, <4>3 DEF VisitOK, grantVars
    <3> QED BY <3>2, <3>3
  <2>6. ASSUME NEW w \in Users
        PROVE  EntryOK(sessionCache'[w], sinceAlive'[w], SessionTTL)
    <3>1. EntryOK(sessionCache[w], sinceAlive[w], SessionTTL)
          /\ sessionCache[w].left \in 0..SessionTTL
      BY <1>t DEF SiteInv, SiteTypeOK, Entry
    <3>2. Delay \in Nat /\ SessionTTL \in Nat
      BY SiteGrantsAssumption, SiteAccessAssumption
    <3>3. sinceAlive[w] + sessionCache[w].left <= SessionTTL + Delay =>
            sinceAlive'[w] + sessionCache[w].left <= SessionTTL + Delay
      <4>1. sinceAlive' \in [Users -> 0..Cap] /\ 0..Cap \subseteq Nat
        BY <2>2, SiteGrantsAssumption DEF SiteTypeOK
      <4> QED BY <2>3, <3>1, <3>2, <4>1
    <3> QED BY <2>1, <3>1, <3>3 DEF EntryOK
  <2>7. SiteInv'
    BY <2>1, <2>2, <2>4, <2>5, <2>6 DEF SiteInv, grantVars
  <2>8. SessionDoor!Entitle /\ UNCHANGED <<Admitted, sincePermitted>>
    BY <2>1 DEF SessionDoor!Entitle, Admitted, grantVars
  <2> QED BY <2>7, <2>8 DEF DoorSteps, SessionDoor!Next
<1>2. ASSUME NEW u \in Users, Grant(u), UNCHANGED siteVars PROVE SiteInv' /\ DoorSteps
  <2>1. /\ UNCHANGED siteVars
        /\ permitted' = permitted \cup {u} /\ sincePermitted' = [sincePermitted EXCEPT ![u] = 0]
    BY <1>2 DEF Grant
  <2>2. SiteTypeOK'
    BY <1>t, <1>c, <2>1 DEF SiteTypeOK, GrantsTypeOK, siteVars
  <2>3. \A w \in Users : sincePermitted'[w] <= sincePermitted[w] /\ sincePermitted[w] \in Nat
    <3>1. sincePermitted \in [Users -> 0..Cap] /\ 0..Cap \subseteq Nat
      BY <1>t, SiteGrantsAssumption DEF SiteTypeOK, GrantsTypeOK
    <3> QED BY <2>1, <3>1
  <2>4. \A w \in permitted' : sincePermitted'[w] = 0
    BY <1>t, <2>1 DEF SiteInv, SiteTypeOK, GrantsTypeOK
  <2>5. ASSUME NEW v \in Visits PROVE VisitOK(visit[v])'
    <3>1. VisitOK(visit[v]) /\ visit[v] \in Visit
      BY <1>t DEF SiteInv, SiteTypeOK
    <3>2. CASE visit[v].pc = "idle"
      BY <2>1, <3>2 DEF VisitOK, siteVars
    <3>3. CASE visit[v].pc # "idle"
      <4> DEFINE w == visit[v].user
      <4>1. /\ sincePermitted'[w] = sincePermitted[w] \/ sincePermitted'[w] = 0
            /\ w \in Users
        BY <1>t, <2>1, <3>1, <3>3 DEF VisitOK, SiteTypeOK, GrantsTypeOK
      <4>2. /\ visit[v].age \in Nat /\ Delay \in Nat /\ PermTTL \in Nat \ {0}
        BY <3>1, SiteGrantsAssumption, SiteAccessAssumption DEF Visit
      <4>3. sincePermitted'[w] = 0 => /\ sincePermitted'[w] <= visit[v].age
                                      /\ sincePermitted'[w] <= PermTTL + Delay - 1
        BY <4>2
      <4> QED BY <2>1, <3>1, <4>1, <4>3 DEF VisitOK, siteVars
    <3> QED BY <3>2, <3>3
  <2>6. ASSUME NEW w \in Users
        PROVE  EntryOK(permCache'[w], sincePermitted'[w], PermTTL)
    <3>1. EntryOK(permCache[w], sincePermitted[w], PermTTL)
          /\ permCache[w].left \in 0..PermTTL
      BY <1>t DEF SiteInv, SiteTypeOK, Entry
    <3>2. Delay \in Nat /\ PermTTL \in Nat
      BY SiteGrantsAssumption, SiteAccessAssumption
    <3>3. sincePermitted[w] + permCache[w].left <= PermTTL + Delay =>
            sincePermitted'[w] + permCache[w].left <= PermTTL + Delay
      <4>1. sincePermitted' \in [Users -> 0..Cap] /\ 0..Cap \subseteq Nat
        BY <2>2, SiteGrantsAssumption DEF SiteTypeOK, GrantsTypeOK
      <4> QED BY <2>3, <3>1, <3>2, <4>1
    <3> QED BY <2>1, <3>1, <3>3 DEF EntryOK, siteVars
  <2>7. SiteInv'
    BY <2>1, <2>2, <2>4, <2>5, <2>6 DEF SiteInv, siteVars
  <2>8. PermissionDoor!Entitle /\ UNCHANGED <<Admitted, sinceAlive>>
    BY <2>1 DEF PermissionDoor!Entitle, Admitted, siteVars
  <2> QED BY <2>7, <2>8 DEF DoorSteps, PermissionDoor!Next
<1>3. ASSUME NEW u \in Users, LogOut(u) \/ (Revoke(u) /\ UNCHANGED siteVars)
      PROVE  SiteInv' /\ DoorSteps
  <2>1. /\ UNCHANGED <<sessionCache, permCache, visit, sinceAlive, sincePermitted>>
        /\ alive' \subseteq alive /\ permitted' \subseteq permitted
    BY <1>3 DEF LogOut, Revoke, siteVars, grantVars
  <2>2. SiteInv'
    BY <2>1 DEF SiteInv, SiteTypeOK, GrantsTypeOK, VisitOK, EntryOK
  <2> QED BY <1>s, <2>1, <2>2
<1>4. CASE Flush
  <2>1. /\ UNCHANGED <<grantVars, alive, sinceAlive, visit>>
        /\ \/ sessionCache' = [u \in Users |-> NoEntry] /\ UNCHANGED permCache
           \/ permCache' = [u \in Users |-> NoEntry] /\ UNCHANGED sessionCache
    BY <1>4 DEF Flush
  <2>2. \A n \in Nat, m \in Nat : EntryOK(NoEntry, n, m)
    BY <1>n DEF EntryOK
  <2>3. SiteTypeOK'
    BY <1>t, <1>n, <2>1 DEF SiteTypeOK, GrantsTypeOK, grantVars
  <2>4. \A u \in Users : /\ EntryOK(sessionCache'[u], sinceAlive[u], SessionTTL)
                         /\ EntryOK(permCache'[u], sincePermitted[u], PermTTL)
    BY <1>n, <2>1 DEF SiteInv, EntryOK
  <2>5. SiteInv'
    BY <2>1, <2>3, <2>4 DEF SiteInv, VisitOK, grantVars
  <2> QED BY <1>s, <2>1, <2>5 DEF grantVars
<1>5. CASE UNCHANGED <<grantVars, siteVars>>
  <2>1. SiteInv'
    BY <1>5 DEF grantVars, siteVars, SiteInv, SiteTypeOK, GrantsTypeOK, VisitOK, EntryOK
  <2> QED BY <1>5, <1>s, <2>1 DEF grantVars, siteVars
<1> QED BY <1>1, <1>2, <1>3, <1>4, <1>5 DEF EditGrant

\* An entry gets older.
LEMMA EntryAges ==
  ASSUME NEW ttl \in Nat, NEW e \in Entry(ttl), NEW since \in Nat, NEW later \in Nat,
         later <= since + 1, EntryOK(e, since, ttl)
  PROVE  Aged(e) \in Entry(ttl) /\ EntryOK(Aged(e), later, ttl)
<1>1. Delay \in Nat /\ e.left \in 0..ttl
  BY SiteGrantsAssumption DEF Entry
<1>2. CASE e.left = 0
  BY <1>2 DEF Aged, EntryOK
<1>3. CASE e.left # 0
  <2>1. Aged(e) = [e EXCEPT !.left = @ - 1] /\ e.left - 1 \in 0..ttl
    BY <1>1, <1>3 DEF Aged
  <2>2. Aged(e) \in Entry(ttl) /\ Aged(e).left = e.left - 1 /\ Aged(e).val = e.val
    BY <2>1 DEF Entry
  <2>3. since + e.left <= ttl + Delay => later + (e.left - 1) <= ttl + Delay
    BY <1>1
  <2>4. e.left > 0
    BY <1>1, <1>3
  <2> QED BY <2>2, <2>3, <2>4 DEF EntryOK
<1> QED BY <1>2, <1>3

LEMMA SiteTicks == ASSUME SiteInv, SiteTick PROVE SiteInv' /\ DoorSteps
<1>t. /\ SiteTypeOK /\ visit \in [Visits -> Visit]
      /\ sinceAlive \in [Users -> 0..Cap] /\ sincePermitted \in [Users -> 0..Cap]
      /\ 0..Cap \subseteq Nat /\ Delay \in Nat /\ SessionTTL \in Nat /\ PermTTL \in Nat
  BY SiteGrantsAssumption, SiteAccessAssumption DEF SiteInv, SiteTypeOK, GrantsTypeOK
<1>1. /\ \A v \in Visits : visit[v].pc # "in" /\ (visit[v].pc # "idle" => visit[v].age < Delay)
      /\ visit' = [v \in Visits |-> IF visit[v].pc = "idle" THEN visit[v]
                                    ELSE [visit[v] EXCEPT !.age = @ + 1]]
      /\ sinceAlive' = Later(sinceAlive, alive)
      /\ sincePermitted' = Later(sincePermitted, permitted)
      /\ sessionCache' = [u \in Users |-> Aged(sessionCache[u])]
      /\ permCache' = [u \in Users |-> Aged(permCache[u])]
      /\ UNCHANGED <<permitted, alive>>
  BY DEF SiteTick
<1>2. /\ sinceAlive' \in [Users -> 0..Cap] /\ sincePermitted' \in [Users -> 0..Cap]
      /\ \A u \in Users : /\ sinceAlive'[u] <= sinceAlive[u] + 1
                          /\ sinceAlive'[u] \in {sinceAlive[u], sinceAlive[u] + 1}
                          /\ sincePermitted'[u] <= sincePermitted[u] + 1
                          /\ sincePermitted'[u] \in {sincePermitted[u], sincePermitted[u] + 1}
      /\ \A u \in alive : sinceAlive'[u] = 0
      /\ \A u \in permitted : sincePermitted'[u] = 0
  <2>1. alive \subseteq Users /\ permitted \subseteq Users
    BY <1>t DEF SiteTypeOK, GrantsTypeOK
  <2>2. /\ \A u \in alive : sinceAlive[u] = 0
        /\ \A u \in permitted : sincePermitted[u] = 0
    BY DEF SiteInv
  <2> QED BY <1>t, <1>1, <2>1, <2>2, LaterCounts
<1>3. ASSUME NEW v \in Visits
      PROVE  visit'[v] \in Visit /\ VisitOK(visit[v])' /\ visit'[v].pc # "in"
  <2>1. visit[v] \in Visit /\ VisitOK(visit[v]) /\ visit[v].pc # "in"
    BY <1>1, <1>t DEF SiteInv
  <2>2. CASE visit[v].pc = "idle"
    <3>1. visit'[v] = visit[v]
      BY <1>1, <2>2
    <3> QED BY <2>1, <2>2, <3>1 DEF VisitOK
  <2>3. CASE visit[v].pc # "idle"
    <3> DEFINE u == visit[v].user
    <3>1. visit'[v] = [visit[v] EXCEPT !.age = @ + 1] /\ visit[v].age < Delay
      BY <1>1, <2>3
    <3>2. visit[v].age \in 0..Delay /\ visit[v].age + 1 \in 0..Delay
      BY <1>t, <2>1, <3>1 DEF Visit
    <3>3. /\ visit'[v] \in Visit /\ visit'[v].pc = visit[v].pc /\ visit'[v].user = u
          /\ visit'[v].answer = visit[v].answer /\ visit'[v].age = visit[v].age + 1
      BY <2>1, <3>1, <3>2 DEF Visit
    <3>4. u \in Users
      BY <2>1, <2>3 DEF VisitOK
    <3>5. /\ sinceAlive[u] \in Nat /\ sinceAlive'[u] \in Nat
          /\ sincePermitted[u] \in Nat /\ sincePermitted'[u] \in Nat
      BY <1>t, <1>2, <3>4
    <3>6. /\ sinceAlive[u] <= visit[v].age => sinceAlive'[u] <= visit[v].age + 1
          /\ sinceAlive[u] <= SessionTTL + Delay - 1 + visit[v].age =>
               sinceAlive'[u] <= SessionTTL + Delay - 1 + (visit[v].age + 1)
          /\ sincePermitted[u] <= visit[v].age => sincePermitted'[u] <= visit[v].age + 1
      BY <1>t, <1>2, <3>2, <3>4, <3>5
    <3> QED BY <2>1, <3>3, <3>4, <3>6 DEF VisitOK
  <2> QED BY <2>2, <2>3
<1>4. ASSUME NEW u \in Users
      PROVE  /\ sessionCache'[u] \in Entry(SessionTTL) /\ permCache'[u] \in Entry(PermTTL)
             /\ EntryOK(sessionCache'[u], sinceAlive'[u], SessionTTL)
             /\ EntryOK(permCache'[u], sincePermitted'[u], PermTTL)
  <2>1. /\ sessionCache[u] \in Entry(SessionTTL) /\ permCache[u] \in Entry(PermTTL)
        /\ EntryOK(sessionCache[u], sinceAlive[u], SessionTTL)
        /\ EntryOK(permCache[u], sincePermitted[u], PermTTL)
    BY <1>t DEF SiteInv, SiteTypeOK
  <2>2. /\ sinceAlive[u] \in Nat /\ sinceAlive'[u] \in Nat
        /\ sincePermitted[u] \in Nat /\ sincePermitted'[u] \in Nat
    BY <1>t, <1>2
  <2>3. sessionCache'[u] = Aged(sessionCache[u]) /\ permCache'[u] = Aged(permCache[u])
    BY <1>1
  <2> QED BY <1>t, <1>2, <2>1, <2>2, <2>3, EntryAges
<1>5. SiteTypeOK'
  <2>1. /\ visit' \in [Visits -> Visit]
        /\ sessionCache' \in [Users -> Entry(SessionTTL)]
        /\ permCache' \in [Users -> Entry(PermTTL)]
    BY <1>1, <1>3, <1>4
  <2> QED BY <1>t, <1>1, <1>2, <2>1 DEF SiteTypeOK, GrantsTypeOK
<1>6. SiteInv'
  BY <1>1, <1>2, <1>3, <1>4, <1>5 DEF SiteInv
<1>7. Admitted = {} /\ Admitted' = {}
  BY <1>1, <1>3 DEF Admitted
<1>8. PermissionDoor!Tick /\ SessionDoor!Tick
  <2>1. sinceAlive' \in [Users -> Nat] /\ sincePermitted' \in [Users -> Nat]
    BY <1>t, <1>2
  <2> QED BY <1>2, <1>7, <2>1 DEF PermissionDoor!Tick, SessionDoor!Tick
<1> QED BY <1>6, <1>8 DEF DoorSteps, PermissionDoor!Next, SessionDoor!Next

\* The site check implements Staleness for the permission, with the window of one entry and
\* one call, and for the session, with the window of one entry and two calls.
THEOREM SiteImplementsStaleness == SiteSpec => SiteBounded
<1>1. SiteInit => SiteInv /\ PermissionDoor!Init /\ SessionDoor!Init
  <2> SUFFICES ASSUME SiteInit PROVE SiteInv /\ PermissionDoor!Init /\ SessionDoor!Init
    OBVIOUS
  <2>1. NoEntry \in Entry(SessionTTL) /\ NoEntry \in Entry(PermTTL) /\ NoEntry.left = 0
    BY SiteAccessAssumption DEF NoEntry, Entry
  <2>2. /\ sinceAlive \in [Users -> 0..Cap] /\ sincePermitted \in [Users -> 0..Cap]
        /\ \A u \in alive : sinceAlive[u] = 0
        /\ \A u \in permitted : sincePermitted[u] = 0
        /\ alive \subseteq Users /\ permitted \subseteq Users
    BY NeverSinceStarts DEF SiteInit, GrantsInit
  <2>3. SiteTypeOK
    BY <2>1, <2>2, TypeOfNone DEF SiteInit, SiteTypeOK, GrantsTypeOK
  <2>4. /\ \A u \in Users : /\ EntryOK(sessionCache[u], sinceAlive[u], SessionTTL)
                            /\ EntryOK(permCache[u], sincePermitted[u], PermTTL)
        /\ \A v \in Visits : VisitOK(visit[v]) /\ visit[v].pc # "in"
    BY <2>1, TypeOfNone DEF SiteInit, EntryOK, VisitOK
  <2>5. Admitted = {}
    BY <2>4 DEF Admitted
  <2>6. sinceAlive \in [Users -> Nat] /\ sincePermitted \in [Users -> Nat]
    <3>1. 0..Cap \subseteq Nat
      BY SiteGrantsAssumption
    <3> QED BY <2>2, <3>1
  <2> QED BY <2>2, <2>3, <2>4, <2>5, <2>6 DEF SiteInv, PermissionDoor!Init, SessionDoor!Init
<1>2. SiteInv /\ [SiteNext]_<<grantVars, siteVars>> => SiteInv' /\ DoorSteps
  BY SiteVisit, SiteOutside, SiteTicks DEF SiteNext
<1>3. SiteInv => SiteTypeOK
  BY DEF SiteInv
<1> QED BY <1>1, <1>2, <1>3, PTL
        DEF SiteSpec, SiteBounded, DoorSteps, PermissionDoor!Spec, SessionDoor!Spec

-----------------------------------------------------------------------------
(* The MCP gateway.                                                        *)

\* How long ago, at most, the token and the permission of a connection were good, and how
\* long ago a refused token was bad.
StreamOK(q) ==
  /\ q.pc # "idle" \/ q.open => q.user \in Users
  /\ q.open /\ q.pc = "idle" =>
       /\ sinceActive[q.user] + q.timer <= Interval + 2 * Delay
       /\ sincePermitted[q.user] + q.timer <= Interval + Delay
  /\ q.open /\ q.pc \in {"introspect", "toldToken"} =>
       /\ sinceActive[q.user] <= Interval + 2 * Delay + q.age
       /\ sincePermitted[q.user] <= Interval + Delay + q.age
  /\ q.pc = "toldToken" => IF q.answer THEN sinceActive[q.user] <= q.age
                                       ELSE sinceBad[q.user] <= q.age
  /\ q.pc \in {"perm", "toldPerm"} =>
       /\ sinceActive[q.user] <= Delay + q.age
       /\ q.open => sincePermitted[q.user] <= Interval + 2 * Delay + q.age
  /\ q.pc = "toldPerm" /\ q.answer => sincePermitted[q.user] <= q.age
  /\ q.pc = "refused" => ~q.open /\ sinceBad[q.user] <= NegTTL + Delay - 1

GateInv ==
  /\ GateTypeOK
  /\ \A u \in permitted : sincePermitted[u] = 0
  /\ \A u \in active : sinceActive[u] = 0
  /\ \A u \in Users \ active : sinceBad[u] = 0
  /\ \A u \in Users : refused[u] > 0 => sinceBad[u] + refused[u] <= NegTTL + Delay
  /\ \A s \in Streams : StreamOK(stream[s])

GateSteps ==
  /\ [TokenDoor!Next]_<<Connected, sinceActive>>
  /\ [GrantDoor!Next]_<<Connected, sincePermitted>>
  /\ [RefusalDoor!Next]_<<Refused, sinceBad>>

LEMMA GateConstants ==
  /\ Delay \in Nat /\ Interval \in Nat /\ NegTTL \in Nat /\ NegTTL > 0
  /\ Cap \in Nat /\ 0..Cap \subseteq Nat /\ 0 \in 0..Cap /\ 0 \in 0..Delay
  BY SiteGrantsAssumption, GatewayAssumption

LEMMA GateClocks ==
  ASSUME GateTypeOK
  PROVE  /\ sinceActive \in [Users -> 0..Cap] /\ sinceBad \in [Users -> 0..Cap]
         /\ sincePermitted \in [Users -> 0..Cap]
         /\ \A u \in Users : sinceActive[u] \in Nat /\ sincePermitted[u] \in Nat
                             /\ sinceBad[u] \in Nat /\ refused[u] \in Nat
  BY GateConstants DEF GateTypeOK, GrantsTypeOK

\* The users that one connection, or one refusal, adds to those who are inside.
LEMMA StreamMoves ==
  ASSUME GateInv, NEW s \in Streams,
         \A t \in Streams \ {s} : stream'[t] = stream[t],
         UNCHANGED <<sinceActive, sincePermitted>>,
         \/ sinceBad' = sinceBad
         \/ stream'[s].pc # "refused" /\ stream[s].pc # "refused",
         sinceBad' = sinceBad \/ \E u \in Users : sinceBad' = [sinceBad EXCEPT ![u] = 0],
         StreamOK(stream[s])',
         stream'[s].open => \/ stream[s].open /\ stream'[s].user = stream[s].user
                            \/ /\ ~stream[s].open
                               /\ stream'[s].pc = "idle" /\ stream'[s].timer = Interval,
         stream'[s].pc = "refused" => stream[s].pc # "refused"
  PROVE  GateSteps
<1>c. Delay \in Nat /\ Interval \in Nat /\ NegTTL \in Nat
  BY GateConstants
<1>1. [TokenDoor!Next]_<<Connected, sinceActive>> /\ [GrantDoor!Next]_<<Connected, sincePermitted>>
  <2>1. CASE stream'[s].open /\ ~(stream[s].open /\ stream'[s].user = stream[s].user)
    <3> DEFINE u == stream'[s].user
    <3>1. /\ u \in Users /\ sinceActive[u] + Interval <= Interval + 2 * Delay
          /\ sincePermitted[u] + Interval <= Interval + Delay
      BY <2>1 DEF StreamOK
    <3>2. sinceActive[u] \in Nat /\ sincePermitted[u] \in Nat
      BY <3>1, GateClocks DEF GateInv
    <3>3. sinceActive[u] <= Interval + 3 * Delay /\ sincePermitted[u] <= Interval + 3 * Delay
      BY <1>c, <3>1, <3>2
    <3>4. Connected' = Connected \cup {u}
      BY <2>1 DEF Connected
    <3>5. TokenDoor!Admit /\ GrantDoor!Admit
      BY <3>1, <3>3, <3>4 DEF TokenDoor!Admit, GrantDoor!Admit
    <3> QED BY <3>5 DEF TokenDoor!Next, GrantDoor!Next
  <2>2. CASE stream'[s].open /\ stream[s].open /\ stream'[s].user = stream[s].user
    <3>1. Connected' = Connected
      BY <2>2 DEF Connected
    <3> QED BY <3>1
  <2>3. CASE ~stream'[s].open
    <3>1. Connected' \subseteq Connected
      BY <2>3 DEF Connected
    <3>2. TokenDoor!Leave /\ GrantDoor!Leave
      BY <3>1 DEF TokenDoor!Leave, GrantDoor!Leave
    <3> QED BY <3>2 DEF TokenDoor!Next, GrantDoor!Next
  <2> QED BY <2>1, <2>2, <2>3
<1>2. [RefusalDoor!Next]_<<Refused, sinceBad>>
  <2>1. CASE stream'[s].pc = "refused"
    <3> DEFINE u == stream'[s].user
    <3>1. sinceBad' = sinceBad /\ u \in Users /\ sinceBad[u] <= NegTTL + Delay - 1
      BY <2>1 DEF StreamOK
    <3>2. Refused' = Refused \cup {u}
      BY <2>1 DEF Refused
    <3>3. RefusalDoor!Admit
      BY <3>1, <3>2 DEF RefusalDoor!Admit
    <3> QED BY <3>3 DEF RefusalDoor!Next
  <2>2. CASE stream'[s].pc # "refused" /\ sinceBad' = sinceBad
    <3>1. Refused' \subseteq Refused
      BY <2>2 DEF Refused
    <3> QED BY <2>2, <3>1 DEF RefusalDoor!Next, RefusalDoor!Leave
  <2>3. CASE stream'[s].pc # "refused" /\ sinceBad' # sinceBad
    <3>1. Refused' = Refused
      BY <2>3 DEF Refused
    <3>2. RefusalDoor!Entitle
      BY <2>3, <3>1 DEF RefusalDoor!Entitle
    <3> QED BY <3>2 DEF RefusalDoor!Next
  <2> QED BY <2>1, <2>2, <2>3
<1> QED BY <1>1, <1>2 DEF GateSteps

\* What is left of the invariant when one connection has gone on; somebody's token may have
\* become bad.
LEMMA StreamKept ==
  ASSUME GateInv, NEW s \in Streams,
         stream' \in [Streams -> Stream], \A t \in Streams \ {s} : stream'[t] = stream[t],
         UNCHANGED <<grantVars, sinceActive>>, active' \subseteq active,
         sinceBad' = sinceBad \/ \E u \in Users : sinceBad' = [sinceBad EXCEPT ![u] = 0],
         \A u \in Users \ active' : sinceBad'[u] = 0,
         refused' \in [Users -> 0..NegTTL],
         \A u \in Users : refused'[u] > 0 => sinceBad[u] + refused'[u] <= NegTTL + Delay,
         StreamOK(stream[s])'
  PROVE  GateInv'
<1>t. /\ sinceBad \in [Users -> 0..Cap] /\ sinceBad' \in [Users -> 0..Cap]
      /\ \A u \in Users : sinceBad'[u] = sinceBad[u] \/ sinceBad'[u] = 0
      /\ \A u \in Users : sinceBad[u] \in Nat /\ refused'[u] \in 0..NegTTL
  BY GateClocks, GateConstants DEF GateInv
<1>1. \A t \in Streams : StreamOK(stream[t])'
  <2> SUFFICES ASSUME NEW t \in Streams \ {s} PROVE StreamOK(stream[t])'
    OBVIOUS
  <2>1. StreamOK(stream[t]) /\ stream'[t] = stream[t] /\ stream[t] \in Stream
    BY DEF GateInv, GateTypeOK
  <2>2. CASE stream[t].pc \in {"toldToken", "refused"}
    <3> DEFINE u == stream[t].user
    <3>1. u \in Users /\ stream[t].age \in 0..Delay
      BY <2>1, <2>2 DEF StreamOK, Stream
    <3>2. sinceBad'[u] = 0 => sinceBad'[u] <= stream[t].age /\ sinceBad'[u] <= NegTTL + Delay - 1
      BY <3>1, GateConstants
    <3>3. sinceBad'[u] = sinceBad[u] \/ sinceBad'[u] = 0
      BY <1>t, <3>1
    <3> QED BY <2>1, <2>2, <3>2, <3>3 DEF StreamOK, grantVars
  <2>3. CASE stream[t].pc \notin {"toldToken", "refused"}
    BY <2>1, <2>3 DEF StreamOK, grantVars
  <2> QED BY <2>2, <2>3
<1>2. GateTypeOK'
  BY <1>t DEF GateInv, GateTypeOK, GrantsTypeOK, grantVars
<1>3. ASSUME NEW u \in Users, refused'[u] > 0
      PROVE  sinceBad'[u] + refused'[u] <= NegTTL + Delay
  <2>1. sinceBad[u] + refused'[u] <= NegTTL + Delay
    BY <1>3
  <2> QED BY <1>t, <2>1, GateConstants
<1> QED BY <1>1, <1>2, <1>3 DEF GateInv, grantVars

LEMMA TypeOfNoStream ==
  NoStream \in Stream /\ NoStream.pc = "idle" /\ ~NoStream.open /\ NoStream.timer = 0
  BY GateConstants DEF NoStream, Stream

\* 401: what a request, or a stream, becomes whose user is u.
LEMMA TypeOfRefused ==
  ASSUME NEW u \in Users
  PROVE  LET q == [NoStream EXCEPT !.pc = "refused", !.user = u]
         IN q \in Stream /\ q.pc = "refused" /\ q.user = u /\ ~q.open
  BY TypeOfNoStream DEF Stream

\* A connection goes on to a call, or from it.
LEMMA TypeOfStep ==
  ASSUME NEW q \in Stream, NEW pc \in {"idle", "introspect", "toldToken", "perm", "toldPerm"}
  PROVE  LET r == [q EXCEPT !.pc = pc, !.age = 0]
         IN r \in Stream /\ r.pc = pc /\ r.age = 0 /\ r.user = q.user /\ r.open = q.open
            /\ r.timer = q.timer /\ r.answer = q.answer
<1>1. 0 \in 0..Delay
  BY GateConstants
<1> QED BY <1>1 DEF Stream

\* Nothing is known of a slot that is free.
LEMMA NoStreamOK ==
  ASSUME GateInv, NEW s \in Streams, stream' = [stream EXCEPT ![s] = NoStream]
  PROVE  /\ stream' \in [Streams -> Stream] /\ \A t \in Streams \ {s} : stream'[t] = stream[t]
         /\ stream'[s].pc = "idle" /\ ~stream'[s].open /\ StreamOK(stream[s])'
<1>1. /\ stream' \in [Streams -> Stream] /\ \A t \in Streams \ {s} : stream'[t] = stream[t]
      /\ stream'[s] = NoStream
  BY TypeOfNoStream DEF GateInv, GateTypeOK
<1> QED BY <1>1, TypeOfNoStream DEF StreamOK

\* A check of the token begins, of a connection or of a stream that is open.
LEMMA GateStarts ==
  ASSUME GateInv, NEW s \in Streams, NEW rec \in Stream,
         rec.user \in Users, rec.pc = "idle",
         stream' = [stream EXCEPT ![s] = Start(s, rec)],
         UNCHANGED <<grantVars, active, sinceActive, sinceBad, refused>>,
         stream[s].pc = "idle", rec.open = stream[s].open,
         rec.open => /\ rec.user = stream[s].user
                     /\ sinceActive[rec.user] <= Interval + 2 * Delay
                     /\ sincePermitted[rec.user] <= Interval + Delay
  PROVE  GateInv' /\ GateSteps
<1> DEFINE u == rec.user
<1>t. /\ stream \in [Streams -> Stream] /\ refused \in [Users -> 0..NegTTL]
      /\ \A w \in Users : refused[w] > 0 => sinceBad[w] + refused[w] <= NegTTL + Delay
      /\ rec.open \in BOOLEAN /\ \A w \in Users \ active : sinceBad[w] = 0
  BY DEF GateInv, GateTypeOK, Stream
<1>k. /\ sinceBad[u] \in Nat /\ refused[u] \in Nat /\ sinceActive[u] \in Nat
      /\ sincePermitted[u] \in Nat
  BY GateClocks DEF GateInv
<1>1. CASE Remembered(u) /\ rec.open
  <2>1. stream' = [stream EXCEPT ![s] = NoStream]
    BY <1>1 DEF Start
  <2> QED BY <1>t, <2>1, NoStreamOK, StreamKept, StreamMoves DEF grantVars
<1>2. CASE Remembered(u) /\ ~rec.open
  <2>1. stream' = [stream EXCEPT ![s] = [NoStream EXCEPT !.pc = "refused", !.user = u]]
    BY <1>2 DEF Start
  <2>2. /\ stream' \in [Streams -> Stream] /\ \A t \in Streams \ {s} : stream'[t] = stream[t]
        /\ stream'[s].pc = "refused" /\ stream'[s].user = u /\ ~stream'[s].open
    <3> DEFINE q == [NoStream EXCEPT !.pc = "refused", !.user = u]
    <3>1. q \in Stream /\ q.pc = "refused" /\ q.user = u /\ ~q.open
      BY TypeOfRefused
    <3>2. stream' = [stream EXCEPT ![s] = q]
      BY <2>1
    <3> HIDE DEF q
    <3> QED BY <1>t, <3>1, <3>2
  <2>3. sinceBad[u] <= NegTTL + Delay - 1
    <3>1. refused[u] > 0
      BY <1>2 DEF Remembered
    <3>2. sinceBad[u] + refused[u] <= NegTTL + Delay
      BY <3>1, <1>t
    <3> QED BY <1>k, <3>1, <3>2, GateConstants
  <2>4. StreamOK(stream[s])'
    BY <2>2, <2>3 DEF StreamOK
  <2> QED BY <1>t, <2>2, <2>4, StreamKept, StreamMoves DEF grantVars
<1>3. CASE ~Remembered(u)
  <2> DEFINE q == [rec EXCEPT !.pc = "introspect", !.age = 0]
  <2>1. stream' = [stream EXCEPT ![s] = q]
    BY <1>3 DEF Start
  <2>2. q \in Stream /\ q.pc = "introspect" /\ q.age = 0 /\ q.user = u /\ q.open = rec.open
    BY TypeOfStep
  <2>3. /\ stream' \in [Streams -> Stream] /\ \A t \in Streams \ {s} : stream'[t] = stream[t]
        /\ stream'[s] = q
    BY <1>t, <2>1, <2>2
  <2>4. rec.open => /\ sinceActive[u] <= Interval + 2 * Delay + 0
                    /\ sincePermitted[u] <= Interval + Delay + 0
    BY <1>k, GateConstants
  <2>5. StreamOK(stream[s])'
    BY <2>2, <2>3, <2>4 DEF StreamOK, grantVars
  <2> QED BY <1>t, <2>2, <2>3, <2>5, StreamKept, StreamMoves DEF grantVars
<1> QED BY <1>1, <1>2, <1>3

LEMMA GateStream ==
  ASSUME GateInv, NEW s \in Streams,
         \/ \E u \in Users : Connect(s, u)
         \/ Revalidate(s) \/ Introspect(s) \/ IntrospectFails(s) \/ TokenTold(s)
         \/ AskPermission(s) \/ PermTold(s) \/ Close(s)
  PROVE  GateInv' /\ GateSteps
<1> DEFINE q == stream[s]
           u == q.user
<1>t. /\ stream \in [Streams -> Stream] /\ q \in Stream /\ StreamOK(q)
      /\ refused \in [Users -> 0..NegTTL]
      /\ \A w \in Users : refused[w] > 0 => sinceBad[w] + refused[w] <= NegTTL + Delay
      /\ \A w \in Users \ active : sinceBad[w] = 0
      /\ \A w \in active : sinceActive[w] = 0
      /\ \A w \in permitted : sincePermitted[w] = 0
  BY DEF GateInv, GateTypeOK
<1>q. q.age \in 0..Delay /\ q.open \in BOOLEAN /\ q.answer \in BOOLEAN /\ q.timer \in 0..Interval
  BY <1>t DEF Stream
<1>k. \A w \in Users : sinceActive[w] \in Nat /\ sincePermitted[w] \in Nat /\ sinceBad[w] \in Nat
  BY GateClocks DEF GateInv
<1>1. ASSUME NEW w \in Users, Connect(s, w) PROVE GateInv' /\ GateSteps
  <2> DEFINE rec == [NoStream EXCEPT !.user = w]
  <2>1. rec \in Stream /\ rec.user = w /\ rec.pc = "idle" /\ ~rec.open
    BY TypeOfNoStream DEF Stream
  <2>2. /\ stream' = [stream EXCEPT ![s] = Start(s, rec)]
        /\ UNCHANGED <<grantVars, active, sinceActive, sinceBad, refused>>
        /\ q.pc = "idle" /\ ~q.open
    BY <1>1, TypeOfNoStream DEF Connect
  <2>3. rec.open = q.open
    BY <1>q, <2>1, <2>2 DEF Stream
  <2> HIDE DEF rec
  <2> QED BY <2>1, <2>2, <2>3, GateStarts
<1>2. CASE Revalidate(s)
  <2> DEFINE rec == [q EXCEPT !.timer = Interval]
  <2>1. Interval \in 0..Interval
    BY GateConstants
  <2>2. rec \in Stream /\ rec.user = u /\ rec.pc = q.pc /\ rec.open = q.open
    BY <1>t, <2>1 DEF Stream
  <2>3. /\ stream' = [stream EXCEPT ![s] = Start(s, rec)]
        /\ UNCHANGED <<grantVars, active, sinceActive, sinceBad, refused>>
        /\ q.open /\ q.timer = 0 /\ q.pc = "idle"
    BY <1>2 DEF Revalidate
  <2>4. u \in Users /\ sinceActive[u] + 0 <= Interval + 2 * Delay
        /\ sincePermitted[u] + 0 <= Interval + Delay
    BY <1>t, <2>3 DEF StreamOK
  <2>5. sinceActive[u] <= Interval + 2 * Delay /\ sincePermitted[u] <= Interval + Delay
    BY <1>k, <2>4, GateConstants
  <2> HIDE DEF rec
  <2> QED BY <2>2, <2>3, <2>4, <2>5, GateStarts
<1>3. CASE Introspect(s)
  <2> DEFINE a == u \in active
  <2>1. /\ UNCHANGED <<grantVars, active, sinceActive, sinceBad, refused>>
        /\ q.pc = "introspect" /\ a \in BOOLEAN /\ u \in Users
        /\ stream' = [stream EXCEPT ![s].pc = "toldToken", ![s].answer = a]
    BY <1>3, <1>t DEF Introspect, StreamOK
  <2>2. /\ stream' \in [Streams -> Stream] /\ \A t \in Streams \ {s} : stream'[t] = stream[t]
        /\ stream'[s].pc = "toldToken" /\ stream'[s].answer = a /\ stream'[s].user = u
        /\ stream'[s].age = q.age /\ stream'[s].open = q.open
    BY <1>t, <2>1 DEF Stream
  <2>3. IF a THEN sinceActive[u] <= q.age ELSE sinceBad[u] <= q.age
    BY <1>t, <1>q, <2>1, GateConstants
  <2>4. StreamOK(stream[s])'
    BY <1>t, <2>1, <2>2, <2>3 DEF StreamOK, grantVars
  <2> QED BY <1>t, <2>1, <2>2, <2>4, StreamKept, StreamMoves DEF grantVars
<1>4. CASE IntrospectFails(s)
  <2>1. /\ UNCHANGED <<grantVars, active, sinceActive, refused>>
        /\ q.pc = "introspect" /\ u \in Users
        /\ stream' = [stream EXCEPT ![s].pc = "toldToken", ![s].answer = FALSE]
        /\ sinceBad' = [sinceBad EXCEPT ![u] = 0]
    BY <1>4, <1>t DEF IntrospectFails, StreamOK
  <2>2. /\ stream' \in [Streams -> Stream] /\ \A t \in Streams \ {s} : stream'[t] = stream[t]
        /\ stream'[s].pc = "toldToken" /\ ~stream'[s].answer /\ stream'[s].user = u
        /\ stream'[s].age = q.age /\ stream'[s].open = q.open
    BY <1>t, <2>1 DEF Stream
  <2>3. sinceBad'[u] <= q.age /\ \A w \in Users \ active : sinceBad'[w] = 0
    <3>1. sinceBad \in [Users -> 0..Cap]
      BY GateClocks DEF GateInv
    <3> QED BY <1>t, <1>q, <2>1, <3>1, GateConstants
  <2>4. StreamOK(stream[s])'
    BY <1>t, <2>1, <2>2, <2>3 DEF StreamOK, grantVars
  <2>5. q.pc # "refused" /\ stream'[s].pc # "refused"
    BY <2>1, <2>2
  <2> QED BY <1>t, <2>1, <2>2, <2>3, <2>4, <2>5, StreamKept, StreamMoves DEF grantVars
<1>5. CASE TokenTold(s)
  <2>1. /\ UNCHANGED <<grantVars, active, sinceActive, sinceBad>>
        /\ q.pc = "toldToken" /\ u \in Users
        /\ IF q.answer THEN sinceActive[u] <= q.age ELSE sinceBad[u] <= q.age
    BY <1>5, <1>t DEF TokenTold, StreamOK
  <2>2. CASE ~q.answer /\ refused' = [refused EXCEPT ![u] = Lifetime]
             /\ stream' = [stream EXCEPT ![s] = Refuse(s)]
    <3>1. sinceBad[u] <= Delay /\ sinceBad[u] + NegTTL <= NegTTL + Delay
          /\ sinceBad[u] <= NegTTL + Delay - 1
      BY <1>k, <1>q, <2>1, <2>2, GateConstants
    <3>2. NegTTL \in 0..NegTTL
      BY GateConstants
    <3>3. /\ refused' \in [Users -> 0..NegTTL]
          /\ \A w \in Users : refused'[w] > 0 => sinceBad[w] + refused'[w] <= NegTTL + Delay
      BY <1>t, <2>1, <2>2, <3>1, <3>2 DEF Lifetime
    <3>4. CASE q.open
      <4>1. stream' = [stream EXCEPT ![s] = NoStream]
        BY <2>2, <3>4 DEF Refuse
      <4> QED BY <1>t, <2>1, <3>3, <4>1, NoStreamOK, StreamKept, StreamMoves DEF grantVars
    <3>5. CASE ~q.open
      <4> DEFINE r == [NoStream EXCEPT !.pc = "refused", !.user = u]
      <4>1. r \in Stream /\ r.pc = "refused" /\ r.user = u /\ ~r.open
        BY <2>1, TypeOfRefused
      <4>2. stream' = [stream EXCEPT ![s] = r]
        BY <2>2, <3>5 DEF Refuse
      <4> HIDE DEF r
      <4>3. /\ stream' \in [Streams -> Stream] /\ \A t \in Streams \ {s} : stream'[t] = stream[t]
            /\ stream'[s].pc = "refused" /\ stream'[s].user = u /\ ~stream'[s].open
        BY <1>t, <4>1, <4>2
      <4>4. StreamOK(stream[s])'
        BY <2>1, <3>1, <4>3 DEF StreamOK
      <4> QED BY <1>t, <2>1, <3>3, <4>3, <4>4, StreamKept, StreamMoves DEF grantVars
    <3> QED BY <1>q, <3>4, <3>5
  <2>3. CASE q.answer /\ refused' = refused
             /\ stream' = [stream EXCEPT ![s] =
                  [q EXCEPT !.pc = "perm", !.age = 0, !.answer = FALSE]]
    <3> DEFINE r == [q EXCEPT !.pc = "perm", !.age = 0, !.answer = FALSE]
    <3>1. /\ stream' \in [Streams -> Stream] /\ \A t \in Streams \ {s} : stream'[t] = stream[t]
          /\ stream'[s].pc = "perm" /\ stream'[s].age = 0 /\ stream'[s].user = u
          /\ stream'[s].open = q.open
      <4>1. 0 \in 0..Delay
        BY GateConstants
      <4>2. [q EXCEPT !.pc = "perm", !.age = 0] \in Stream
        BY <1>t, TypeOfStep
      <4>3. r = [[q EXCEPT !.pc = "perm", !.age = 0] EXCEPT !.answer = FALSE]
        BY <1>t DEF Stream
      <4>4. r \in Stream /\ r.pc = "perm" /\ r.age = 0 /\ r.user = u /\ r.open = q.open
        BY <1>t, <4>1, <4>2, <4>3 DEF Stream
      <4>5. stream' = [stream EXCEPT ![s] = r]
        BY <2>3
      <4> HIDE DEF r
      <4> QED BY <1>t, <4>4, <4>5
    <3>2. /\ sinceActive[u] <= Delay + 0
          /\ q.open => sincePermitted[u] <= Interval + 2 * Delay + 0
      <4>1. q.open => sincePermitted[u] <= Interval + Delay + q.age
        BY <1>t, <2>1 DEF StreamOK
      <4> QED BY <1>k, <1>q, <2>1, <2>3, <4>1, GateConstants
    <3>3. StreamOK(stream[s])'
      BY <2>1, <3>1, <3>2 DEF StreamOK, grantVars
    <3> QED BY <1>t, <2>1, <2>3, <3>1, <3>3, StreamKept, StreamMoves DEF grantVars
  <2>4. CASE refused' = refused /\ stream' = [stream EXCEPT ![s] = NoStream]
    BY <1>t, <2>1, <2>4, NoStreamOK, StreamKept, StreamMoves DEF grantVars
  <2> QED BY <1>5, <2>2, <2>3, <2>4 DEF TokenTold
<1>6. CASE AskPermission(s)
  <2>1. /\ UNCHANGED <<grantVars, active, sinceActive, sinceBad, refused>>
        /\ q.pc = "perm" /\ u \in Users
    BY <1>6, <1>t DEF AskPermission, StreamOK
  <2>2. ASSUME NEW a \in BOOLEAN, a => u \in permitted,
               stream' = [stream EXCEPT ![s].pc = "toldPerm", ![s].answer = a]
        PROVE  GateInv' /\ GateSteps
    <3>1. /\ stream' \in [Streams -> Stream] /\ \A t \in Streams \ {s} : stream'[t] = stream[t]
          /\ stream'[s].pc = "toldPerm" /\ stream'[s].answer = a /\ stream'[s].user = u
          /\ stream'[s].age = q.age /\ stream'[s].open = q.open
      BY <1>t, <2>2 DEF Stream
    <3>2. a => sincePermitted[u] <= q.age
      BY <1>t, <1>q, <2>2, GateConstants
    <3>3. StreamOK(stream[s])'
      BY <1>t, <2>1, <3>1, <3>2 DEF StreamOK, grantVars
    <3> QED BY <1>t, <2>1, <3>1, <3>3, StreamKept, StreamMoves DEF grantVars
  <2>3. CASE stream' = [stream EXCEPT ![s].pc = "toldPerm", ![s].answer = FALSE]
    BY <2>2, <2>3
  <2>4. CASE stream' = [stream EXCEPT ![s].pc = "toldPerm", ![s].answer = u \in permitted]
    <3>1. (u \in permitted) \in BOOLEAN
      OBVIOUS
    <3> QED BY <2>2, <2>4, <3>1, Zenon
  <2> QED BY <1>6, <2>3, <2>4, Zenon DEF AskPermission
<1>7. CASE PermTold(s)
  <2>1. /\ UNCHANGED <<grantVars, active, sinceActive, sinceBad, refused>>
        /\ q.pc = "toldPerm" /\ u \in Users
    BY <1>7, <1>t DEF PermTold, StreamOK
  <2>2. CASE ~q.answer
    <3>1. stream' = [stream EXCEPT ![s] = NoStream]
      BY <1>7, <2>2, Zenon DEF PermTold, StillValid
    <3> QED BY <1>t, <2>1, <3>1, NoStreamOK, StreamKept, StreamMoves DEF grantVars
  <2>3. CASE q.answer
    <3> DEFINE n == IF q.open THEN q.timer ELSE Interval
               r == [q EXCEPT !.pc = "idle", !.answer = FALSE, !.age = 0, !.open = TRUE,
                              !.timer = n]
    <3>1. stream' = [stream EXCEPT ![s] = r]
      BY <1>7, <2>3 DEF PermTold, StillValid
    <3>2. n \in 0..Interval /\ (q.open \/ n = Interval)
      BY <1>q, GateConstants
    <3>3. r \in Stream /\ r.pc = "idle" /\ r.user = u /\ r.open /\ r.timer = n
      <4> HIDE DEF n
      <4> DEFINE a == [q EXCEPT !.pc = "idle", !.age = 0]
                 b == [a EXCEPT !.answer = FALSE]
                 c == [b EXCEPT !.open = TRUE]
      <4>1. a \in Stream /\ a.pc = "idle" /\ a.user = u
        BY <1>t, TypeOfStep
      <4>2. r = [c EXCEPT !.timer = n]
        BY <1>t DEF Stream
      <4> HIDE DEF a
      <4>3. b \in Stream /\ b.pc = "idle" /\ b.user = u
        BY <4>1 DEF Stream
      <4> HIDE DEF b
      <4>4. c \in Stream /\ c.pc = "idle" /\ c.user = u /\ c.open
        BY <4>3 DEF Stream
      <4> HIDE DEF c, r
      <4> QED BY <3>2, <4>2, <4>4 DEF Stream
    <3> HIDE DEF r
    <3>4. /\ stream' \in [Streams -> Stream] /\ \A t \in Streams \ {s} : stream'[t] = stream[t]
          /\ stream'[s] = r
      BY <1>t, <3>1, <3>3
    <3>5. /\ sinceActive[u] + n <= Interval + 2 * Delay
          /\ sincePermitted[u] + n <= Interval + Delay
      <4> HIDE DEF n
      <4>1. sinceActive[u] <= Delay + q.age /\ sincePermitted[u] <= q.age
        BY <1>t, <2>1, <2>3 DEF StreamOK
      <4> QED BY <1>k, <1>q, <2>1, <3>2, <4>1, GateConstants
    <3>6. StreamOK(stream[s])'
      BY <2>1, <3>3, <3>4, <3>5 DEF StreamOK, grantVars
    <3>7. stream'[s].open => \/ q.open /\ stream'[s].user = u
                             \/ ~q.open /\ stream'[s].pc = "idle" /\ stream'[s].timer = Interval
      BY <1>q, <3>2, <3>3, <3>4
    <3>8. stream'[s].pc # "refused" /\ q.pc # "refused"
      BY <2>1, <3>3, <3>4
    <3> QED BY <1>t, <2>1, <3>4, <3>6, <3>7, <3>8, StreamKept, StreamMoves DEF grantVars
  <2> QED BY <1>q, <2>2, <2>3
<1>8. CASE Close(s)
  <2>1. /\ UNCHANGED <<grantVars, active, sinceActive, sinceBad, refused>>
        /\ stream' = [stream EXCEPT ![s] = NoStream]
    BY <1>8 DEF Close
  <2>2. /\ stream' \in [Streams -> Stream] /\ \A t \in Streams \ {s} : stream'[t] = stream[t]
        /\ stream'[s].pc = "idle" /\ ~stream'[s].open /\ StreamOK(stream[s])'
    BY <2>1, NoStreamOK
  <2>3. GateInv'
    BY <1>t, <2>1, <2>2, StreamKept DEF grantVars
  <2>4. /\ sinceBad' = sinceBad /\ UNCHANGED <<sinceActive, sincePermitted>>
        /\ stream'[s].pc # "refused"
    BY <2>1, <2>2 DEF grantVars
  <2>5. GateSteps
    BY <2>2, <2>4, StreamMoves
  <2> QED BY <2>3, <2>5
<1> QED BY <1>1, <1>2, <1>3, <1>4, <1>5, <1>6, <1>7, <1>8

LEMMA GateOutside ==
  ASSUME GateInv, NEW u \in Users, Expire(u) \/ ChangeGrant(u) \/ Evict(u)
  PROVE  GateInv' /\ GateSteps
<1>t. /\ stream \in [Streams -> Stream] /\ \A s \in Streams : StreamOK(stream[s])
      /\ refused \in [Users -> 0..NegTTL]
      /\ sinceActive \in [Users -> 0..Cap] /\ sinceBad \in [Users -> 0..Cap]
      /\ sincePermitted \in [Users -> 0..Cap]
      /\ active \subseteq Users /\ permitted \subseteq Users
  BY GateClocks DEF GateInv, GateTypeOK, GrantsTypeOK
<1>k. \A w \in Users : sinceBad[w] \in Nat /\ sincePermitted[w] \in Nat /\ refused[w] \in 0..NegTTL
  BY <1>t, GateClocks DEF GateInv
<1>1. CASE Expire(u)
  <2>1. /\ active' = active \ {u} /\ sinceBad' = [sinceBad EXCEPT ![u] = 0]
        /\ UNCHANGED <<grantVars, sinceActive, refused, stream>>
    BY <1>1 DEF Expire
  <2>2. /\ sinceBad' \in [Users -> 0..Cap]
        /\ \A w \in Users : sinceBad'[w] = sinceBad[w] \/ sinceBad'[w] = 0
        /\ \A w \in Users \ active' : sinceBad'[w] = 0
    BY <1>t, <2>1, GateConstants DEF GateInv
  <2>3. \A s \in Streams : StreamOK(stream[s])'
    <3> SUFFICES ASSUME NEW s \in Streams PROVE StreamOK(stream[s])'
      OBVIOUS
    <3>1. stream'[s] = stream[s] /\ StreamOK(stream[s]) /\ stream[s].age \in 0..Delay
      BY <1>t, <2>1 DEF Stream
    <3>2. CASE stream[s].pc \in {"toldToken", "refused"}
      <4> DEFINE w == stream[s].user
      <4>1. w \in Users
        BY <3>1, <3>2 DEF StreamOK
      <4>2. sinceBad'[w] = sinceBad[w] \/ sinceBad'[w] = 0
        BY <2>2, <4>1
      <4>3. sinceBad'[w] = 0 => sinceBad'[w] <= stream[s].age /\ sinceBad'[w] <= NegTTL + Delay - 1
        BY <3>1, GateConstants
      <4> QED BY <2>1, <3>1, <3>2, <4>2, <4>3 DEF StreamOK, grantVars
    <3>3. CASE stream[s].pc \notin {"toldToken", "refused"}
      BY <2>1, <3>1, <3>3 DEF StreamOK, grantVars
    <3> QED BY <3>2, <3>3
  <2>4. ASSUME NEW w \in Users, refused'[w] > 0 PROVE sinceBad'[w] + refused'[w] <= NegTTL + Delay
    <3>1. sinceBad[w] + refused[w] <= NegTTL + Delay /\ refused'[w] = refused[w]
      BY <2>1, <2>4 DEF GateInv
    <3> QED BY <1>k, <2>2, <3>1, GateConstants
  <2>5. GateInv'
    BY <1>t, <2>1, <2>2, <2>3, <2>4 DEF GateInv, GateTypeOK, GrantsTypeOK, grantVars
  <2>6. Connected' = Connected /\ Refused' = Refused
    BY <2>1 DEF Connected, Refused
  <2>7. RefusalDoor!Entitle
    BY <2>1, <2>6 DEF RefusalDoor!Entitle
  <2> QED BY <2>1, <2>5, <2>6, <2>7 DEF GateSteps, RefusalDoor!Next, grantVars
<1>2. CASE ChangeGrant(u)
  <2>1. UNCHANGED gateVars /\ (Grant(u) \/ Revoke(u))
    BY <1>2 DEF ChangeGrant
  <2>2. /\ permitted' \subseteq Users /\ sincePermitted' \in [Users -> 0..Cap]
        /\ \A w \in Users : sincePermitted'[w] = sincePermitted[w] \/ sincePermitted'[w] = 0
        /\ \A w \in permitted' : sincePermitted'[w] = 0
        /\ sincePermitted' = sincePermitted \/ sincePermitted' = [sincePermitted EXCEPT ![u] = 0]
    <3>1. CASE Grant(u)
      BY <1>t, <3>1, GateConstants DEF Grant, GateInv
    <3>2. CASE Revoke(u)
      BY <1>t, <3>2 DEF Revoke, GateInv
    <3> QED BY <2>1, <3>1, <3>2
  <2>3. \A s \in Streams : StreamOK(stream[s])'
    <3> SUFFICES ASSUME NEW s \in Streams PROVE StreamOK(stream[s])'
      OBVIOUS
    <3> DEFINE w == stream[s].user
    <3>1. stream'[s] = stream[s] /\ StreamOK(stream[s]) /\ stream[s] \in Stream
      BY <1>t, <2>1 DEF gateVars
    <3>2. CASE w \in Users
      <4>1. /\ sincePermitted'[w] \in Nat /\ sincePermitted[w] \in Nat
            /\ sincePermitted'[w] <= sincePermitted[w]
        BY <1>k, <2>2, <3>2
      <4>2. stream[s].age \in Nat /\ stream[s].timer \in Nat
        BY <3>1, GateConstants DEF Stream
      <4> QED BY <2>1, <3>1, <4>1, <4>2, GateConstants DEF StreamOK, gateVars
    <3>3. CASE w \notin Users
      BY <2>1, <3>1, <3>3 DEF StreamOK, gateVars
    <3> QED BY <3>2, <3>3
  <2>4. GateInv'
    BY <1>t, <2>1, <2>2, <2>3 DEF GateInv, GateTypeOK, GrantsTypeOK, gateVars
  <2>5. Connected' = Connected /\ Refused' = Refused
    BY <2>1 DEF Connected, Refused, gateVars
  <2>6. sincePermitted' = sincePermitted \/ GrantDoor!Entitle
    BY <2>2, <2>5 DEF GrantDoor!Entitle
  <2> QED BY <2>1, <2>4, <2>5, <2>6 DEF GateSteps, GrantDoor!Next, gateVars
<1>3. CASE Evict(u)
  <2>1. /\ refused' = [refused EXCEPT ![u] = 0]
        /\ UNCHANGED <<grantVars, active, sinceActive, sinceBad, stream>>
    BY <1>3 DEF Evict
  <2>2. /\ refused' \in [Users -> 0..NegTTL]
        /\ \A w \in Users : refused'[w] > 0 => refused'[w] = refused[w]
    BY <1>t, <2>1, GateConstants
  <2>3. \A s \in Streams : StreamOK(stream[s])'
    BY <1>t, <2>1 DEF StreamOK, grantVars
  <2>4. GateInv'
    BY <1>t, <2>1, <2>2, <2>3 DEF GateInv, GateTypeOK, GrantsTypeOK, grantVars
  <2>5. Connected' = Connected /\ Refused' = Refused
    BY <2>1 DEF Connected, Refused
  <2> QED BY <2>1, <2>4, <2>5 DEF GateSteps, grantVars
<1> QED BY <1>1, <1>2, <1>3

\* A stream while a tick passes.
LEMMA StreamAges ==
  ASSUME GateInv, GateTick, NEW s \in Streams
  PROVE  /\ stream'[s] \in Stream /\ stream'[s].pc = stream[s].pc
         /\ stream'[s].user = stream[s].user /\ stream'[s].open = stream[s].open
         /\ stream'[s].answer = stream[s].answer
         /\ stream'[s].age = IF Waiting(s) THEN stream[s].age + 1 ELSE stream[s].age
         /\ stream'[s].timer = IF stream[s].open THEN stream[s].timer - 1 ELSE stream[s].timer
<1> DEFINE a == IF Waiting(s) THEN stream[s].age + 1 ELSE stream[s].age
           n == IF stream[s].open THEN stream[s].timer - 1 ELSE stream[s].timer
           r == [stream[s] EXCEPT !.age = a]
<1>1. stream[s] \in Stream
  BY DEF GateInv, GateTypeOK
<1>2. a \in 0..Delay /\ n \in 0..Interval
  <2>1. stream[s].age \in 0..Delay /\ stream[s].timer \in 0..Interval /\ stream[s].open \in BOOLEAN
    BY <1>1 DEF Stream
  <2>2. /\ Waiting(s) => stream[s].age < Delay
        /\ stream[s].open => stream[s].timer > 0
    BY DEF GateTick
  <2>3. a \in 0..Delay
    BY <2>1, <2>2, GateConstants
  <2>4. n \in 0..Interval
    BY <2>1, <2>2, GateConstants
  <2> QED BY <2>3, <2>4
<1>3. stream'[s] = [stream[s] EXCEPT !.age = a, !.timer = n]
  BY DEF GateTick
<1> HIDE DEF a, n
<1>4. stream'[s] = [r EXCEPT !.timer = n]
  BY <1>1, <1>3 DEF Stream
<1>5. /\ r \in Stream /\ r.pc = stream[s].pc /\ r.user = stream[s].user /\ r.open = stream[s].open
      /\ r.answer = stream[s].answer /\ r.age = a
  BY <1>1, <1>2 DEF Stream
<1> HIDE DEF r
<1>6. /\ stream'[s] \in Stream /\ stream'[s].pc = r.pc /\ stream'[s].user = r.user
      /\ stream'[s].open = r.open /\ stream'[s].answer = r.answer /\ stream'[s].age = r.age
      /\ stream'[s].timer = n
  BY <1>2, <1>4, <1>5 DEF Stream
<1> QED BY <1>5, <1>6 DEF a, n

LEMMA GateTicks == ASSUME GateInv, GateTick PROVE GateInv' /\ GateSteps
<1>t. /\ stream \in [Streams -> Stream] /\ \A s \in Streams : StreamOK(stream[s])
      /\ refused \in [Users -> 0..NegTTL]
      /\ sinceActive \in [Users -> 0..Cap] /\ sinceBad \in [Users -> 0..Cap]
      /\ sincePermitted \in [Users -> 0..Cap]
      /\ active \subseteq Users /\ permitted \subseteq Users
  BY GateClocks DEF GateInv, GateTypeOK, GrantsTypeOK
<1>1. /\ \A s \in Streams : stream[s].pc # "refused"
      /\ \A s \in Streams : Waiting(s) => stream[s].age < Delay
      /\ \A s \in Streams : stream[s].open => stream[s].timer > 0
      /\ sinceActive' = Later(sinceActive, active)
      /\ sinceBad' = Later(sinceBad, Users \ active)
      /\ sincePermitted' = Later(sincePermitted, permitted)
      /\ refused' = [u \in Users |-> IF refused[u] = 0 THEN 0 ELSE refused[u] - 1]
      /\ UNCHANGED <<permitted, active>>
      /\ stream' \in [Streams -> Stream]
  <2>1. \A s \in Streams : stream'[s] \in Stream
    BY StreamAges
  <2> QED BY <2>1 DEF GateTick
<1>2. /\ sinceActive' \in [Users -> 0..Cap] /\ sinceBad' \in [Users -> 0..Cap]
      /\ sincePermitted' \in [Users -> 0..Cap]
      /\ \A u \in Users : /\ sinceActive'[u] \in {sinceActive[u], sinceActive[u] + 1}
                           /\ sinceBad'[u] \in {sinceBad[u], sinceBad[u] + 1}
                           /\ sincePermitted'[u] \in {sincePermitted[u], sincePermitted[u] + 1}
      /\ \A u \in active : sinceActive'[u] = 0
      /\ \A u \in permitted : sincePermitted'[u] = 0
      /\ \A u \in Users \ active : sinceBad'[u] = 0
  BY <1>t, <1>1, LaterCounts DEF GateInv
<1>k. \A u \in Users : /\ sinceActive[u] \in Nat /\ sinceActive'[u] \in Nat
                       /\ sinceBad[u] \in Nat /\ sinceBad'[u] \in Nat
                       /\ sincePermitted[u] \in Nat /\ sincePermitted'[u] \in Nat
  BY <1>t, <1>2, GateConstants
<1>3. ASSUME NEW s \in Streams PROVE StreamOK(stream[s])'
  <2> DEFINE u == stream[s].user
  <2>1. CASE stream[s].pc = "idle" /\ ~stream[s].open
    BY <2>1, StreamAges DEF StreamOK
  <2>2. CASE stream[s].pc # "idle" \/ stream[s].open
    <3>1. u \in Users /\ StreamOK(stream[s]) /\ stream[s].pc # "refused"
      BY <1>t, <1>1, <2>2 DEF StreamOK
    <3>2. stream[s].age \in 0..Delay /\ stream[s].timer \in 0..Interval
      BY <1>t DEF Stream
    <3>3. CASE stream[s].pc = "idle"
      <4>1. stream'[s].pc = "idle" /\ stream'[s].open /\ stream'[s].user = u
            /\ stream'[s].timer = stream[s].timer - 1
        BY <2>2, <3>3, StreamAges
      <4>2. /\ sinceActive[u] + stream[s].timer <= Interval + 2 * Delay
            /\ sincePermitted[u] + stream[s].timer <= Interval + Delay
        BY <2>2, <3>1, <3>3 DEF StreamOK
      <4>3. /\ sinceActive'[u] + (stream[s].timer - 1) <= Interval + 2 * Delay
            /\ sincePermitted'[u] + (stream[s].timer - 1) <= Interval + Delay
        BY <1>k, <1>2, <3>1, <3>2, <4>2, GateConstants
      <4> QED BY <3>1, <4>1, <4>3 DEF StreamOK
    <3>4. CASE stream[s].pc # "idle"
      <4>1. /\ stream'[s].pc = stream[s].pc /\ stream'[s].user = u
            /\ stream'[s].open = stream[s].open /\ stream'[s].answer = stream[s].answer
            /\ stream'[s].age = stream[s].age + 1
        BY <3>1, <3>4, StreamAges DEF Waiting
      <4>2. ASSUME NEW m \in Nat
            PROVE  /\ sinceActive[u] <= m + stream[s].age =>
                        sinceActive'[u] <= m + (stream[s].age + 1)
                   /\ sincePermitted[u] <= m + stream[s].age =>
                        sincePermitted'[u] <= m + (stream[s].age + 1)
        BY <1>k, <1>2, <3>1, <3>2
      <4>3. /\ sinceActive[u] <= stream[s].age => sinceActive'[u] <= stream[s].age + 1
            /\ sinceBad[u] <= stream[s].age => sinceBad'[u] <= stream[s].age + 1
            /\ sincePermitted[u] <= stream[s].age => sincePermitted'[u] <= stream[s].age + 1
        BY <1>k, <1>2, <3>1, <3>2
      <4>4. Interval + 2 * Delay \in Nat /\ Interval + Delay \in Nat /\ Delay \in Nat
        BY GateConstants
      <4> QED BY <3>1, <3>4, <4>1, <4>2, <4>3, <4>4 DEF StreamOK
    <3> QED BY <3>3, <3>4
  <2> QED BY <2>1, <2>2
<1>4. refused' \in [Users -> 0..NegTTL]
      /\ \A u \in Users : refused'[u] > 0 => sinceBad'[u] + refused'[u] <= NegTTL + Delay
  <2> SUFFICES ASSUME NEW u \in Users
               PROVE  /\ refused'[u] \in 0..NegTTL
                      /\ refused'[u] > 0 => sinceBad'[u] + refused'[u] <= NegTTL + Delay
    BY <1>1
  <2>1. refused[u] \in 0..NegTTL /\ refused'[u] = IF refused[u] = 0 THEN 0 ELSE refused[u] - 1
    BY <1>t, <1>1
  <2>2. refused[u] > 0 => sinceBad[u] + refused[u] <= NegTTL + Delay
    BY DEF GateInv
  <2> QED BY <1>2, <1>k, <2>1, <2>2, GateConstants
<1>5. GateInv'
  BY <1>t, <1>1, <1>2, <1>3, <1>4 DEF GateInv, GateTypeOK, GrantsTypeOK
<1>6. Connected' = Connected /\ Refused = {} /\ Refused' = {}
  <2>1. \A s \in Streams : /\ stream'[s].user = stream[s].user
                           /\ stream'[s].open = stream[s].open
                           /\ stream'[s].pc = stream[s].pc
    BY StreamAges
  <2> QED BY <1>1, <2>1 DEF Connected, Refused
<1>7. \A u \in Connected : /\ sinceActive'[u] <= Interval + 3 * Delay
                           /\ sincePermitted'[u] <= Interval + 3 * Delay
  <2> SUFFICES ASSUME NEW s \in Streams, stream[s].open
               PROVE  /\ sinceActive'[stream[s].user] <= Interval + 3 * Delay
                      /\ sincePermitted'[stream[s].user] <= Interval + 3 * Delay
    BY DEF Connected
  <2> DEFINE u == stream[s].user
  <2>1. /\ StreamOK(stream[s])' /\ stream'[s] \in Stream /\ stream'[s].open
        /\ stream'[s].user = u /\ stream'[s].pc # "refused"
    BY <1>1, <1>3, StreamAges
  <2>2. u \in Users /\ stream'[s].age \in 0..Delay /\ stream'[s].timer \in 0..Interval
    BY <2>1 DEF StreamOK, Stream
  <2>3. CASE stream'[s].pc = "idle"
    <3>1. /\ sinceActive'[u] + stream'[s].timer <= Interval + 2 * Delay
          /\ sincePermitted'[u] + stream'[s].timer <= Interval + Delay
      BY <2>1, <2>3 DEF StreamOK
    <3> QED BY <1>k, <2>2, <3>1, GateConstants
  <2>4. CASE stream'[s].pc \in {"introspect", "toldToken"}
    <3>1. /\ sinceActive'[u] <= Interval + 2 * Delay + stream'[s].age
          /\ sincePermitted'[u] <= Interval + Delay + stream'[s].age
      BY <2>1, <2>4 DEF StreamOK
    <3> QED BY <1>k, <2>2, <3>1, GateConstants
  <2>5. CASE stream'[s].pc \in {"perm", "toldPerm"}
    <3>1. /\ sinceActive'[u] <= Delay + stream'[s].age
          /\ sincePermitted'[u] <= Interval + 2 * Delay + stream'[s].age
      BY <2>1, <2>5 DEF StreamOK
    <3> QED BY <1>k, <2>2, <3>1, GateConstants
  <2> QED BY <2>1, <2>3, <2>4, <2>5 DEF Stream
<1>8. TokenDoor!Tick /\ GrantDoor!Tick /\ RefusalDoor!Tick
  <2>1. sinceActive' \in [Users -> Nat] /\ sincePermitted' \in [Users -> Nat]
        /\ sinceBad' \in [Users -> Nat]
    BY <1>2, GateConstants
  <2> QED BY <1>2, <1>6, <1>7, <2>1 DEF TokenDoor!Tick, GrantDoor!Tick, RefusalDoor!Tick
<1> QED BY <1>5, <1>8 DEF GateSteps, TokenDoor!Next, GrantDoor!Next, RefusalDoor!Next

\* The gateway implements Staleness three times: for the token and for the permission of
\* a connection, with the window of one interval and the calls of one check; and for
\* what it refuses, with the window of a remembered refusal and one call.
THEOREM GateImplementsStaleness == GateSpec => StreamBounded
<1>1. GateInit => GateInv /\ TokenDoor!Init /\ GrantDoor!Init /\ RefusalDoor!Init
  <2> SUFFICES ASSUME GateInit PROVE GateInv /\ TokenDoor!Init /\ GrantDoor!Init /\ RefusalDoor!Init
    OBVIOUS
  <2>1. active \subseteq Users /\ permitted \subseteq Users /\ Users \ active \subseteq Users
    BY DEF GateInit, GrantsInit
  <2>2. /\ sinceActive \in [Users -> 0..Cap] /\ sincePermitted \in [Users -> 0..Cap]
        /\ sinceBad \in [Users -> 0..Cap]
        /\ \A u \in active : sinceActive[u] = 0
        /\ \A u \in permitted : sincePermitted[u] = 0
        /\ \A u \in Users \ active : sinceBad[u] = 0
    BY <2>1, NeverSinceStarts DEF GateInit, GrantsInit
  <2>3. /\ stream \in [Streams -> Stream] /\ refused \in [Users -> 0..NegTTL]
        /\ \A s \in Streams : stream[s].pc = "idle" /\ ~stream[s].open
        /\ \A u \in Users : refused[u] = 0
    BY TypeOfNoStream, GateConstants DEF GateInit
  <2>4. GateTypeOK /\ \A s \in Streams : StreamOK(stream[s])
    BY <2>1, <2>2, <2>3 DEF GateTypeOK, GrantsTypeOK, StreamOK
  <2>5. Connected = {} /\ Refused = {}
    BY <2>3 DEF Connected, Refused
  <2>6. /\ sinceActive \in [Users -> Nat] /\ sincePermitted \in [Users -> Nat]
        /\ sinceBad \in [Users -> Nat]
    BY <2>2, GateConstants
  <2> QED BY <2>2, <2>3, <2>4, <2>5, <2>6
          DEF GateInv, TokenDoor!Init, GrantDoor!Init, RefusalDoor!Init
<1>2. GateInv /\ [GateNext]_<<grantVars, gateVars>> => GateInv' /\ GateSteps
  <2> SUFFICES ASSUME GateInv, [GateNext]_<<grantVars, gateVars>> PROVE GateInv' /\ GateSteps
    OBVIOUS
  <2>1. CASE GateNext
    BY <2>1, GateStream, GateOutside, GateTicks DEF GateNext
  <2>2. CASE UNCHANGED <<grantVars, gateVars>>
    BY <2>2 DEF GateInv, GateTypeOK, GrantsTypeOK, GateSteps, StreamOK, Connected, Refused,
                grantVars, gateVars
  <2> QED BY <2>1, <2>2
<1>3. GateInv => GateTypeOK
  BY DEF GateInv
<1> QED BY <1>1, <1>2, <1>3, PTL
        DEF GateSpec, StreamBounded, GateSteps, TokenDoor!Spec, GrantDoor!Spec, RefusalDoor!Spec

-----------------------------------------------------------------------------
(* The portal's tool channel.                                              *)

Lives == (AnswerTTL - 1) + Longer(SharedTTL - 1, Delay)

\* How long ago, at most, the token of a channel was good.
ChanOK(q) ==
  /\ q.pc # "idle" \/ q.open => q.user \in Users
  /\ q.pc \in {"auth", "identity"} => ~q.open
  /\ q.pc = "identity" => sinceGood[q.user] <= (AnswerTTL - 1) + q.age
  /\ q.pc = "told" /\ q.answer => sinceGood[q.user] <= q.age
  /\ q.open /\ ~q.gone /\ q.pc = "idle" => sinceGood[q.user] + q.timer <= Lives + BeatEvery
  /\ q.open /\ ~q.gone /\ q.pc \in {"beat", "told"} =>
       sinceGood[q.user] <= Lives + BeatEvery + q.age

\* And that of what is remembered of it.
MemoryOK ==
  /\ good \subseteq Users /\ sinceGood \in [Users -> 0..Cap]
  /\ answers \in [Users -> 0..AnswerTTL]
  /\ shared \in [Users -> [active : BOOLEAN, left : 0..SharedTTL]]
  /\ \A u \in good : sinceGood[u] = 0
  /\ \A u \in Users : answers[u] > 0 => sinceGood[u] + answers[u] <= AnswerTTL
  /\ \A u \in Users : shared[u].left > 0 /\ shared[u].active =>
       sinceGood[u] + shared[u].left <= SharedTTL + AnswerTTL - 1

ToolInv == MemoryOK /\ chan \in [Channels -> Chan] /\ \A c \in Channels : ChanOK(chan[c])

Listens(q) == q.open /\ q.pc # "ended" /\ ~q.gone

LEMMA ToolConstants ==
  /\ Delay \in Nat /\ BeatEvery \in Nat /\ AnswerTTL \in Nat /\ SharedTTL \in Nat
  /\ Delay < AnswerTTL /\ SharedTTL > 0 /\ Lives \in Nat /\ Delay <= Lives
  /\ (AnswerTTL - 1) + Delay <= Lives /\ (SharedTTL - 1) + (AnswerTTL - 1) <= Lives
  /\ AnswerTTL - 1 \in Nat /\ AnswerTTL - 1 <= Lives
  /\ Cap \in Nat /\ 0 \in 0..Cap /\ 0 \in 0..Delay /\ 0 \in 0..BeatEvery
  BY SiteGrantsAssumption, ToolChannelAssumption DEF Lives, Longer

LEMMA TypeOfNoChan ==
  /\ NoChan \in Chan /\ NoChan.pc = "idle" /\ ~NoChan.open /\ ~NoChan.gone
  /\ NoChan.timer = 0
  BY ToolConstants DEF NoChan, Chan

\* What a channel that goes on does to the set of those that listen.
LEMMA ChannelMoves ==
  ASSUME ToolInv, NEW c \in Channels,
         \A d \in Channels \ {c} : chan'[d] = chan[d],
         UNCHANGED sinceGood, chan'[c] \in Chan, ChanOK(chan[c])',
         Listens(chan'[c]) => \/ Listens(chan[c]) /\ chan'[c].user = chan[c].user
                              \/ ~Listens(chan[c]) /\ chan'[c].pc = "idle"
  PROVE  [ChannelDoor!Next]_<<Listening, sinceGood>>
<1> DEFINE u == chan'[c].user
<1>1. CASE Listens(chan'[c]) /\ ~Listens(chan[c])
  <2>1. u \in Users /\ sinceGood[u] + chan'[c].timer <= Lives + BeatEvery
    BY <1>1 DEF ChanOK, Listens
  <2>2. sinceGood[u] \in Nat /\ chan'[c].timer \in Nat
    BY <2>1, ToolConstants DEF ToolInv, MemoryOK, Chan
  <2>3. sinceGood[u] <= BeatEvery + (AnswerTTL - 1) + Longer(SharedTTL - 1, Delay) + Delay
    BY <2>1, <2>2, ToolConstants DEF Lives, Longer
  <2>4. Listening' = Listening \cup {u}
    BY <1>1 DEF Listening, Listens
  <2>5. ChannelDoor!Admit
    BY <2>1, <2>3, <2>4 DEF ChannelDoor!Admit
  <2> QED BY <2>5 DEF ChannelDoor!Next
<1>2. CASE Listens(chan'[c]) /\ Listens(chan[c])
  <2>1. Listening' = Listening
    BY <1>2 DEF Listening, Listens
  <2> QED BY <2>1
<1>3. CASE ~Listens(chan'[c])
  <2>1. Listening' \subseteq Listening
    BY <1>3 DEF Listening, Listens
  <2> QED BY <2>1 DEF ChannelDoor!Next, ChannelDoor!Leave
<1> QED BY <1>1, <1>2, <1>3

\* What is left of the invariant.
LEMMA ChannelKept ==
  ASSUME ToolInv, NEW c \in Channels, chan' \in [Channels -> Chan],
         \A d \in Channels \ {c} : chan'[d] = chan[d],
         UNCHANGED sinceGood, ChanOK(chan[c])', MemoryOK'
  PROVE  ToolInv'
  BY DEF ToolInv, ChanOK

\* The part of a step that is one channel's.
Moved(c, q) ==
  /\ chan' \in [Channels -> Chan] /\ \A d \in Channels \ {c} : chan'[d] = chan[d]
  /\ chan'[c] = q /\ UNCHANGED sinceGood

LEMMA MovedTo ==
  ASSUME ToolInv, NEW c \in Channels, NEW q \in Chan, chan' = [chan EXCEPT ![c] = q],
         UNCHANGED sinceGood
  PROVE  Moved(c, q)
  BY DEF ToolInv, Moved

\* A slot that is free again, and a step that leaves the memories alone.
LEMMA ChannelFreed ==
  ASSUME ToolInv, NEW c \in Channels, Moved(c, NoChan), MemoryOK'
  PROVE  ToolInv' /\ [ChannelDoor!Next]_<<Listening, sinceGood>>
<1>1. ChanOK(chan[c])' /\ ~Listens(chan'[c]) /\ chan'[c] \in Chan
  BY TypeOfNoChan DEF Moved, ChanOK, Listens
<1> QED BY <1>1, ChannelKept, ChannelMoves DEF Moved

\* A channel is opened, once the identity is known, for a user whose token was good at
\* most Lives ago.
LEMMA Enters ==
  ASSUME ToolInv, NEW c \in Channels, NEW u \in Users, Enter(c, u), ~chan[c].open,
         UNCHANGED sinceGood, sinceGood[u] <= Lives, MemoryOK'
  PROVE  ToolInv' /\ [ChannelDoor!Next]_<<Listening, sinceGood>>
<1>1. CASE chan' = [chan EXCEPT ![c] = NoChan]
  BY <1>1, TypeOfNoChan, MovedTo, ChannelFreed
<1> DEFINE q == [NoChan EXCEPT !.user = u, !.open = TRUE, !.timer = BeatEvery,
                               !.gone = chan[c].gone]
<1>2. CASE chan' = [chan EXCEPT ![c] = q]
  <2>1. chan[c].gone \in BOOLEAN /\ BeatEvery \in 0..BeatEvery
    BY ToolConstants DEF ToolInv, Chan
  <2>2. /\ q \in Chan /\ q.pc = "idle" /\ q.user = u /\ q.open /\ q.timer = BeatEvery
        /\ ~q.answer
    BY <2>1, TypeOfNoChan DEF Chan, NoChan
  <2> HIDE DEF q
  <2>3. Moved(c, q)
    BY <1>2, <2>2, MovedTo
  <2>4. sinceGood[u] + BeatEvery <= Lives + BeatEvery
    BY ToolConstants DEF ToolInv, MemoryOK
  <2>5. ChanOK(chan[c])'
    BY <2>2, <2>3, <2>4 DEF Moved, ChanOK, Lives
  <2>6. chan'[c].pc = "idle" /\ ~Listens(chan[c])
    BY <2>2, <2>3 DEF Moved, Listens
  <2> QED BY <2>2, <2>3, <2>5, <2>6, ChannelKept, ChannelMoves DEF Moved
<1> QED BY <1>1, <1>2 DEF Enter

\* What the answer to a question, or a heartbeat, leaves in the two memories.
LEMMA Remembers ==
  ASSUME ToolInv, NEW u \in Users, NEW a \in BOOLEAN, NEW age \in 0..Delay,
         a => sinceGood[u] <= age, Remember(u, a, age), UNCHANGED <<good, sinceGood>>,
         \/ shared' = shared
         \/ shared' = [shared EXCEPT ![u] = [active |-> a, left |-> SharedFor(age)]]
  PROVE  MemoryOK'
<1>t. /\ sinceGood \in [Users -> 0..Cap] /\ answers \in [Users -> 0..AnswerTTL]
      /\ shared \in [Users -> [active : BOOLEAN, left : 0..SharedTTL]]
      /\ sinceGood[u] \in Nat
  BY ToolConstants DEF ToolInv, MemoryOK
<1>1. /\ Left(AnswerTTL, age) \in 0..AnswerTTL
      /\ a => sinceGood[u] + Left(AnswerTTL, age) <= AnswerTTL
  BY <1>t, ToolConstants DEF Left
<1>2. /\ SharedFor(age) \in 0..SharedTTL
      /\ SharedFor(age) > 0 /\ a => sinceGood[u] + SharedFor(age) <= SharedTTL + AnswerTTL - 1
  BY <1>t, ToolConstants DEF SharedFor, Left
<1>3. /\ answers' \in [Users -> 0..AnswerTTL]
      /\ \A w \in Users : answers'[w] > 0 => sinceGood[w] + answers'[w] <= AnswerTTL
  <2>1. CASE a
    BY <1>t, <1>1, <2>1 DEF Remember, ToolInv, MemoryOK
  <2>2. CASE ~a
    BY <1>t, <2>2 DEF Remember, ToolInv, MemoryOK
  <2> QED BY <2>1, <2>2
<1>4. /\ shared' \in [Users -> [active : BOOLEAN, left : 0..SharedTTL]]
      /\ \A w \in Users : shared'[w].left > 0 /\ shared'[w].active =>
           sinceGood[w] + shared'[w].left <= SharedTTL + AnswerTTL - 1
  <2> DEFINE e == [active |-> a, left |-> SharedFor(age)]
  <2>1. e \in [active : BOOLEAN, left : 0..SharedTTL] /\ e.active = a /\ e.left = SharedFor(age)
    BY <1>2
  <2>2. CASE shared' = shared
    BY <1>t, <2>2 DEF ToolInv, MemoryOK
  <2>3. CASE shared' = [shared EXCEPT ![u] = e]
    <3> HIDE DEF e
    <3> QED BY <1>t, <1>2, <2>1, <2>3 DEF ToolInv, MemoryOK
  <2> QED BY <2>2, <2>3
<1> QED BY <1>t, <1>3, <1>4 DEF ToolInv, MemoryOK

\* A channel whose token was told good, and whose user's identity is asked for.
Asking(c, u) == [NoChan EXCEPT !.pc = "identity", !.user = u, !.gone = chan[c].gone]
LEMMA AskingIs ==
  ASSUME NEW c \in Channels, NEW u \in Users, chan[c].gone \in BOOLEAN
  PROVE  /\ Asking(c, u) \in Chan /\ Asking(c, u).pc = "identity" /\ Asking(c, u).user = u
         /\ ~Asking(c, u).open /\ Asking(c, u).age = 0
  BY ToolConstants DEF Asking, NoChan, Chan

LEMMA ToolChan ==
  ASSUME ToolInv, NEW c \in Channels,
         \/ \E u \in Users : Request(c, u)
         \/ Hydra(c) \/ AuthTold(c) \/ Identified(c) \/ Heartbeat(c) \/ BeatTold(c)
         \/ Closed(c) \/ LeavesEarly(c)
  PROVE  ToolInv' /\ [ChannelDoor!Next]_<<Listening, sinceGood>>
<1> DEFINE q == chan[c]
           u == q.user
<1>t. q \in Chan /\ ChanOK(q) /\ MemoryOK
  BY DEF ToolInv
<1>q. q.age \in 0..Delay /\ q.open \in BOOLEAN /\ q.answer \in BOOLEAN /\ q.timer \in 0..BeatEvery
      /\ q.gone \in BOOLEAN
  BY <1>t DEF Chan
<1>k. \A w \in Users : sinceGood[w] \in Nat /\ answers[w] \in Nat /\ shared[w].left \in Nat
                       /\ shared[w].active \in BOOLEAN
  BY <1>t, ToolConstants DEF MemoryOK
<1>m. UNCHANGED <<good, sinceGood, answers, shared>> => MemoryOK'
  BY <1>t DEF MemoryOK
<1>1. ASSUME NEW w \in Users, Request(c, w)
      PROVE  ToolInv' /\ [ChannelDoor!Next]_<<Listening, sinceGood>>
  <2>1. /\ UNCHANGED <<good, sinceGood, answers, shared>> /\ q.pc = "idle" /\ ~q.open
    BY <1>1, TypeOfNoChan DEF Request
  <2> DEFINE pc == IF answers[w] > 0 THEN "identity" ELSE "auth"
             a == [q EXCEPT !.pc = pc]
             r == [a EXCEPT !.user = w]
  <2>2. pc \in {"auth", "identity"} /\ (pc = "identity" => answers[w] > 0)
    OBVIOUS
  <2>3. chan' = [chan EXCEPT ![c].pc = pc, ![c].user = w]
    BY <1>1 DEF Request
  <2> HIDE DEF pc
  <2>4. a \in Chan /\ a.pc = pc /\ ~a.open /\ a.age = q.age
    BY <1>t, <2>1, <2>2 DEF Chan
  <2>5. chan' = [chan EXCEPT ![c] = r]
    BY <1>t, <2>3 DEF Chan, ToolInv
  <2> HIDE DEF a
  <2>6. r \in Chan /\ r.pc = pc /\ ~r.open /\ r.user = w /\ r.age = q.age
    BY <2>4 DEF Chan
  <2> HIDE DEF r
  <2>7. Moved(c, r)
    BY <2>1, <2>5, <2>6, MovedTo
  <2>8. pc = "identity" => sinceGood[w] <= (AnswerTTL - 1) + q.age
    <3> SUFFICES ASSUME answers[w] > 0 PROVE sinceGood[w] <= (AnswerTTL - 1) + q.age
      BY <2>2
    <3>1. sinceGood[w] + answers[w] <= AnswerTTL
      BY <1>t DEF MemoryOK
    <3> QED BY <1>k, <1>q, <3>1, ToolConstants
  <2>9. ChanOK(chan[c])' /\ ~Listens(chan'[c])
    BY <2>1, <2>2, <2>6, <2>7, <2>8 DEF Moved, ChanOK, Listens
  <2> QED BY <1>m, <2>1, <2>6, <2>7, <2>9, ChannelKept, ChannelMoves DEF Moved
<1>2. CASE Hydra(c)
  <2>1. /\ UNCHANGED <<good, sinceGood, answers, shared>> /\ q.pc \in {"auth", "beat"}
        /\ u \in Users
    BY <1>2, <1>t DEF Hydra, ChanOK
  <2>2. ASSUME NEW a \in BOOLEAN, a => u \in good,
               chan' = [chan EXCEPT ![c].pc = "told", ![c].answer = a]
        PROVE  ToolInv' /\ [ChannelDoor!Next]_<<Listening, sinceGood>>
    <3> DEFINE r == [q EXCEPT !.pc = "told", !.answer = a]
    <3>1. r \in Chan /\ r.pc = "told" /\ r.answer = a /\ r.user = u /\ r.age = q.age
          /\ r.open = q.open /\ r.gone = q.gone
      BY <1>t, <2>2 DEF Chan
    <3>2. chan' = [chan EXCEPT ![c] = r]
      BY <2>2, <1>t DEF Chan, ToolInv
    <3> HIDE DEF r
    <3>3. Moved(c, r)
      BY <2>1, <3>1, <3>2, MovedTo
    <3>4. a => sinceGood[u] <= q.age
      BY <1>t, <1>q, <2>2, ToolConstants DEF MemoryOK
    <3>5. ChanOK(chan[c])'
      BY <1>t, <2>1, <3>1, <3>3, <3>4 DEF Moved, ChanOK, Lives
    <3>6. Listens(chan'[c]) => Listens(chan[c]) /\ chan'[c].user = u
      BY <2>1, <3>1, <3>3 DEF Moved, Listens
    <3> QED BY <1>m, <2>1, <3>1, <3>3, <3>5, <3>6, ChannelKept, ChannelMoves DEF Moved
  <2>3. CASE chan' = [chan EXCEPT ![c].pc = "told", ![c].answer = FALSE]
    BY <2>2, <2>3
  <2>4. CASE chan' = [chan EXCEPT ![c].pc = "told", ![c].answer = u \in good]
    <3>1. (u \in good) \in BOOLEAN
      OBVIOUS
    <3> QED BY <2>2, <2>4, <3>1, Zenon
  <2> QED BY <1>2, <2>3, <2>4, Zenon DEF Hydra
<1>3. CASE AuthTold(c)
  <2>1. /\ UNCHANGED <<good, sinceGood, shared>> /\ q.pc = "told" /\ ~q.open /\ u \in Users
        /\ Remember(u, q.answer, q.age)
        /\ q.answer => sinceGood[u] <= q.age
    BY <1>3, <1>t DEF AuthTold, ChanOK
  <2>2. MemoryOK'
    BY <1>q, <2>1, Remembers
  <2>3. CASE q.answer /\ chan' = [chan EXCEPT ![c] = Asking(c, u)]
    <3>1. /\ Asking(c, u) \in Chan /\ Asking(c, u).pc = "identity" /\ Asking(c, u).user = u
          /\ ~Asking(c, u).open /\ Asking(c, u).age = 0
      BY <1>q, <2>1, AskingIs
    <3>2. Moved(c, Asking(c, u))
      BY <2>1, <2>3, <3>1, MovedTo
    <3>3. sinceGood[u] <= (AnswerTTL - 1) + 0
      BY <1>k, <1>q, <2>1, <2>3, ToolConstants
    <3>4. ChanOK(chan[c])' /\ ~Listens(chan'[c])
      BY <2>1, <3>1, <3>2, <3>3 DEF Moved, ChanOK, Listens
    <3> QED BY <2>1, <2>2, <3>1, <3>2, <3>4, ChannelKept, ChannelMoves DEF Moved
  <2>4. CASE chan' = [chan EXCEPT ![c] = NoChan]
    BY <2>1, <2>2, <2>4, TypeOfNoChan, MovedTo, ChannelFreed
  <2>5. \/ q.answer /\ chan' = [chan EXCEPT ![c] = Asking(c, u)]
        \/ chan' = [chan EXCEPT ![c] = NoChan]
    BY <1>3 DEF AuthTold, Asking
  <2> QED BY <2>3, <2>4, <2>5
<1>8. CASE Identified(c)
  <2>1. UNCHANGED <<good, sinceGood, answers, shared>> /\ q.pc = "identity" /\ Enter(c, u)
    BY <1>8 DEF Identified
  <2>2. u \in Users /\ ~q.open /\ sinceGood[u] <= (AnswerTTL - 1) + q.age
    BY <1>t, <2>1 DEF ChanOK
  <2>3. sinceGood[u] <= Lives
    BY <1>k, <1>q, <2>2, ToolConstants
  <2> QED BY <1>m, <2>1, <2>2, <2>3, Enters
<1>v. \A ok \in BOOLEAN :
        /\ Verdict(c, ok) \in Chan
        /\ Verdict(c, ok).pc = IF ok \/ q.gone THEN "idle" ELSE "ended"
        /\ Verdict(c, ok).user = u /\ Verdict(c, ok).open = q.open
        /\ Verdict(c, ok).timer = q.timer /\ Verdict(c, ok).gone = q.gone
        /\ Verdict(c, ok).answer = FALSE
  <2> SUFFICES ASSUME NEW ok \in BOOLEAN
               PROVE  /\ Verdict(c, ok) \in Chan
                      /\ Verdict(c, ok).pc = IF ok \/ q.gone THEN "idle" ELSE "ended"
                      /\ Verdict(c, ok).user = u /\ Verdict(c, ok).open = q.open
                      /\ Verdict(c, ok).timer = q.timer /\ Verdict(c, ok).gone = q.gone
                      /\ Verdict(c, ok).answer = FALSE
    OBVIOUS
  <2> DEFINE pc == IF ok \/ q.gone THEN "idle" ELSE "ended"
             a == [q EXCEPT !.pc = pc]
             b == [a EXCEPT !.answer = FALSE]
  <2>1. pc \in {"idle", "ended"}
    OBVIOUS
  <2>2. Verdict(c, ok) = [q EXCEPT !.pc = pc, !.answer = FALSE, !.age = 0]
    BY DEF Verdict
  <2> HIDE DEF pc
  <2>3. a \in Chan /\ a.pc = pc /\ a.user = u /\ a.open = q.open /\ a.timer = q.timer
        /\ a.gone = q.gone
    BY <1>t, <2>1 DEF Chan
  <2>4. Verdict(c, ok) = [b EXCEPT !.age = 0]
    BY <1>t, <2>2 DEF Chan
  <2> HIDE DEF a
  <2>5. b \in Chan /\ b.pc = pc /\ b.user = u /\ b.open = q.open /\ b.timer = q.timer
        /\ b.gone = q.gone /\ b.answer = FALSE
    BY <2>3 DEF Chan
  <2> HIDE DEF b
  <2>6. 0 \in 0..Delay
    BY ToolConstants
  <2> QED BY <2>4, <2>5, <2>6 DEF pc, Chan
<1>4. CASE Heartbeat(c)
  <2>1. /\ UNCHANGED <<good, sinceGood, answers>> /\ q.open /\ q.pc = "idle" /\ u \in Users
        /\ ~q.gone => sinceGood[u] <= Lives + BeatEvery
    <3>1. /\ UNCHANGED <<good, sinceGood, answers>> /\ q.open /\ q.pc = "idle" /\ q.timer = 0
      BY <1>4 DEF Heartbeat
    <3>2. u \in Users /\ (~q.gone => sinceGood[u] + q.timer <= Lives + BeatEvery)
      BY <1>t, <3>1 DEF ChanOK
    <3> QED BY <1>k, <3>1, <3>2, ToolConstants
  <2>2. \A r \in Chan : /\ Beaten(r) \in Chan /\ Beaten(r).timer = BeatEvery
                        /\ Beaten(r).pc = r.pc /\ Beaten(r).user = r.user
                        /\ Beaten(r).open = r.open /\ Beaten(r).gone = r.gone
                        /\ Beaten(r).answer = r.answer /\ Beaten(r).age = r.age
    <3>1. BeatEvery \in 0..BeatEvery
      BY ToolConstants
    <3> QED BY <3>1 DEF Beaten, Chan
  <2>3. ASSUME NEW ok \in BOOLEAN, ok => sinceGood[u] <= Lives,
               chan' = [chan EXCEPT ![c] = Beaten(Verdict(c, ok))], MemoryOK'
        PROVE  ToolInv' /\ [ChannelDoor!Next]_<<Listening, sinceGood>>
    <3> DEFINE r == Beaten(Verdict(c, ok))
    <3>1. /\ r \in Chan /\ r.pc = IF ok \/ q.gone THEN "idle" ELSE "ended"
          /\ r.user = u /\ r.open /\ r.gone = q.gone /\ r.timer = BeatEvery
      BY ZenonT(30), <1>v, <2>1, <2>2
    <3>2. chan' = [chan EXCEPT ![c] = r]
      BY <2>3
    <3> HIDE DEF r
    <3>3. Moved(c, r)
      BY <2>1, <3>1, <3>2, MovedTo
    <3>4. ok => sinceGood[u] + BeatEvery <= Lives + BeatEvery
      BY <1>k, <2>1, <2>3, ToolConstants
    <3>5. ChanOK(chan[c])'
      BY <2>1, <3>1, <3>3, <3>4 DEF Moved, ChanOK, Lives
    <3>6. Listens(chan'[c]) => Listens(chan[c]) /\ chan'[c].user = u
      BY <2>1, <3>1, <3>3 DEF Moved, Listens
    <3> QED BY <2>3, <3>1, <3>3, <3>5, <3>6, ChannelKept, ChannelMoves DEF Moved
  <2>4. CASE shared[u].left > 0 /\ shared' = shared
             /\ chan' = [chan EXCEPT ![c] = Beaten(Verdict(c, shared[u].active))]
    <3>1. shared[u].active => sinceGood[u] <= Lives
      <4>1. shared[u].active => sinceGood[u] + shared[u].left <= SharedTTL + AnswerTTL - 1
        BY <1>t, <2>1, <2>4 DEF MemoryOK
      <4> QED BY <1>k, <2>1, <2>4, <4>1, ToolConstants DEF Lives
    <3> QED BY <1>k, <1>m, <2>1, <2>3, <2>4, <3>1
  <2>5. CASE /\ answers[u] > 0
             /\ chan' = [chan EXCEPT ![c] = Beaten(Verdict(c, TRUE))]
             /\ shared' = [shared EXCEPT ![u] = [active |-> TRUE, left |-> SharedFor(0)]]
    <3>1. sinceGood[u] + answers[u] <= AnswerTTL
      BY <1>t, <2>1, <2>5 DEF MemoryOK
    <3>2. sinceGood[u] <= Lives /\ sinceGood[u] + SharedTTL <= SharedTTL + AnswerTTL - 1
      BY <1>k, <2>1, <2>5, <3>1, ToolConstants
    <3>3. MemoryOK'
      <4> DEFINE e == [active |-> TRUE, left |-> SharedFor(0)]
      <4>1. e \in [active : BOOLEAN, left : 0..SharedTTL] /\ e.left = SharedTTL
        BY ToolConstants DEF SharedFor, Left
      <4>2. shared' = [shared EXCEPT ![u] = e]
        BY <2>5
      <4> HIDE DEF e
      <4> QED BY <1>t, <2>1, <3>2, <4>1, <4>2 DEF MemoryOK
    <3> QED BY <2>3, <2>5, <3>2, <3>3
  <2>6. CASE shared' = shared /\ chan' = [chan EXCEPT ![c] = Beaten([@ EXCEPT !.pc = "beat"])]
    <3> DEFINE a == [q EXCEPT !.pc = "beat"]
               r == Beaten(a)
    <3>1. a \in Chan /\ a.pc = "beat" /\ a.user = u /\ a.open = q.open /\ a.gone = q.gone
      BY <1>t DEF Chan
    <3>2. chan' = [chan EXCEPT ![c] = r]
      BY <2>6 DEF ToolInv
    <3> HIDE DEF a
    <3>3. r \in Chan /\ r.pc = "beat" /\ r.user = u /\ r.open = q.open /\ r.gone = q.gone
      BY <2>2, <3>1
    <3> HIDE DEF r
    <3>4. Moved(c, r)
      BY <2>1, <3>2, <3>3, MovedTo
    <3>5. ~q.gone => sinceGood[u] <= Lives + BeatEvery + r.age
      <4>1. r.age \in 0..Delay
        BY <3>3 DEF Chan
      <4> QED BY <1>k, <2>1, <4>1, ToolConstants
    <3>6. ChanOK(chan[c])'
      BY <2>1, <3>3, <3>4, <3>5 DEF Moved, ChanOK, Lives
    <3>7. Listens(chan'[c]) => Listens(chan[c]) /\ chan'[c].user = u
      BY <2>1, <3>3, <3>4 DEF Moved, Listens
    <3> QED BY <1>m, <2>1, <2>6, <3>3, <3>4, <3>6, <3>7, ChannelKept, ChannelMoves DEF Moved
  <2> QED BY <1>4, <2>4, <2>5, <2>6 DEF Heartbeat
<1>5. CASE BeatTold(c)
  <2>1. /\ UNCHANGED <<good, sinceGood>> /\ q.pc = "told" /\ u \in Users
        /\ Remember(u, q.answer, q.age)
        /\ shared' = [shared EXCEPT ![u] = [active |-> q.answer, left |-> SharedFor(q.age)]]
        /\ q.answer => sinceGood[u] <= q.age
    BY <1>5, <1>t DEF BeatTold, ChanOK
  <2>2. MemoryOK'
    BY <1>q, <2>1, Remembers
  <2>3. CASE q.open /\ chan' = [chan EXCEPT ![c] = Verdict(c, q.answer)]
    <3> DEFINE r == Verdict(c, q.answer)
    <3>1. /\ r \in Chan /\ r.pc = IF q.answer \/ q.gone THEN "idle" ELSE "ended"
          /\ r.user = u /\ r.open /\ r.gone = q.gone /\ r.timer = q.timer
      BY <1>q, <1>v, <2>3
    <3>2. chan' = [chan EXCEPT ![c] = r]
      BY <2>3
    <3> HIDE DEF r
    <3>3. Moved(c, r)
      BY <2>1, <3>1, <3>2, MovedTo
    <3>4. q.answer => sinceGood[u] + q.timer <= Lives + BeatEvery
      BY <1>k, <1>q, <2>1, ToolConstants
    <3>5. ChanOK(chan[c])'
      BY <2>1, <3>1, <3>3, <3>4 DEF Moved, ChanOK, Lives
    <3>6. Listens(chan'[c]) => Listens(chan[c]) /\ chan'[c].user = u
      BY <2>1, <2>3, <3>1, <3>3 DEF Moved, Listens
    <3> QED BY <2>1, <2>2, <3>1, <3>3, <3>5, <3>6, ChannelKept, ChannelMoves DEF Moved
  <2>4. CASE chan' = [chan EXCEPT ![c] = NoChan]
    BY <2>1, <2>2, <2>4, TypeOfNoChan, MovedTo, ChannelFreed
  <2> QED BY <1>5, <1>q, <2>3, <2>4 DEF BeatTold
<1>6. CASE Closed(c)
  <2>1. UNCHANGED <<good, sinceGood, answers, shared>> /\ q.open
    BY <1>6 DEF Closed
  <2>2. CASE q.pc \in {"beat", "told"} /\ chan' = [chan EXCEPT ![c] = [@ EXCEPT !.open = FALSE]]
    <3> DEFINE r == [q EXCEPT !.open = FALSE]
    <3>1. /\ r \in Chan /\ r.pc = q.pc /\ r.user = u /\ ~r.open /\ r.answer = q.answer
          /\ r.age = q.age
      BY <1>t DEF Chan
    <3>2. chan' = [chan EXCEPT ![c] = r]
      BY <2>2 DEF ToolInv
    <3> HIDE DEF r
    <3>3. Moved(c, r)
      BY <2>1, <3>1, <3>2, MovedTo
    <3>4. ChanOK(chan[c])' /\ ~Listens(chan'[c])
      BY <1>t, <2>2, <3>1, <3>3 DEF Moved, ChanOK, Listens, Lives
    <3> QED BY <1>m, <2>1, <3>1, <3>3, <3>4, ChannelKept, ChannelMoves DEF Moved
  <2>3. CASE chan' = [chan EXCEPT ![c] = NoChan]
    BY <1>m, <2>1, <2>3, TypeOfNoChan, MovedTo, ChannelFreed
  <2> QED BY <1>6, <2>2, <2>3 DEF Closed
<1>7. CASE LeavesEarly(c)
  <2>1. /\ UNCHANGED <<good, sinceGood, answers, shared>> /\ ~q.open
        /\ q.pc \in {"auth", "told", "identity"}
        /\ chan' = [chan EXCEPT ![c].gone = TRUE]
    BY <1>7 DEF LeavesEarly
  <2> DEFINE r == [q EXCEPT !.gone = TRUE]
  <2>2. /\ r \in Chan /\ r.pc = q.pc /\ r.user = u /\ r.open = q.open /\ r.answer = q.answer
        /\ r.age = q.age
    BY <1>t DEF Chan
  <2>3. chan' = [chan EXCEPT ![c] = r]
    BY <2>1 DEF ToolInv
  <2> HIDE DEF r
  <2>4. Moved(c, r)
    BY <2>1, <2>2, <2>3, MovedTo
  <2>5. ChanOK(chan[c])' /\ ~Listens(chan'[c])
    BY <1>t, <2>1, <2>2, <2>4 DEF Moved, ChanOK, Listens, Lives
  <2> QED BY <1>m, <2>1, <2>2, <2>4, <2>5, ChannelKept, ChannelMoves DEF Moved
<1> QED BY <1>1, <1>2, <1>3, <1>4, <1>5, <1>6, <1>7, <1>8

LEMMA ToolOutside ==
  ASSUME ToolInv,
         \/ \E u \in Users : Invalidate(u) \/ DropOldest(u)
         \/ RestartPortal
  PROVE  ToolInv' /\ [ChannelDoor!Next]_<<Listening, sinceGood>>
<1>t. MemoryOK /\ chan \in [Channels -> Chan] /\ \A c \in Channels : ChanOK(chan[c])
  BY DEF ToolInv
<1>1. ASSUME NEW u \in Users, Invalidate(u) \/ DropOldest(u)
      PROVE  ToolInv' /\ [ChannelDoor!Next]_<<Listening, sinceGood>>
  <2>1. UNCHANGED <<sinceGood, chan>>
    BY <1>1 DEF Invalidate, DropOldest
  <2>2. ASSUME Invalidate(u) PROVE MemoryOK'
    BY <1>t, <2>2 DEF Invalidate, MemoryOK
  <2>3. ASSUME UNCHANGED <<good, sinceGood, shared>>, answers' = [answers EXCEPT ![u] = 0]
        PROVE  MemoryOK'
    BY <1>t, <2>3, ToolConstants DEF MemoryOK
  <2>4. ASSUME UNCHANGED <<good, sinceGood, answers>>, shared' = [shared EXCEPT ![u].left = 0]
        PROVE  MemoryOK'
    <3> DEFINE e == [shared[u] EXCEPT !.left = 0]
    <3>1. /\ shared \in [Users -> [active : BOOLEAN, left : 0..SharedTTL]]
          /\ 0 \in 0..SharedTTL
      BY <1>t, ToolConstants DEF MemoryOK
    <3>2. e \in [active : BOOLEAN, left : 0..SharedTTL] /\ e.left = 0
      BY <3>1
    <3>3. shared' = [shared EXCEPT ![u] = e]
      BY <2>4
    <3> HIDE DEF e
    <3> QED BY <1>t, <2>4, <3>1, <3>2, <3>3 DEF MemoryOK
  <2>5. MemoryOK'
    BY <1>1, <2>2, <2>3, <2>4 DEF DropOldest
  <2>6. ToolInv'
    BY <1>t, <2>1, <2>5 DEF ToolInv, ChanOK
  <2>7. Listening' = Listening
    BY <2>1 DEF Listening
  <2> QED BY <2>1, <2>6, <2>7
<1>2. CASE RestartPortal
  <2>1. /\ UNCHANGED <<good, sinceGood>> /\ answers' = Forgotten /\ shared' = Unshared
        /\ chan' = [c \in Channels |-> NoChan]
    BY <1>2 DEF RestartPortal
  <2>2. MemoryOK'
    BY <1>t, <2>1, ToolConstants DEF MemoryOK, Forgotten, Unshared
  <2>3. chan' \in [Channels -> Chan] /\ \A c \in Channels : ChanOK(chan[c])' /\ ~chan'[c].open
    BY <2>1, TypeOfNoChan DEF ChanOK
  <2>4. Listening' = {}
    BY <2>3 DEF Listening
  <2> QED BY <2>1, <2>2, <2>3, <2>4 DEF ToolInv, ChannelDoor!Next, ChannelDoor!Leave
<1> QED BY <1>1, <1>2

\* A channel while a tick passes.
LEMMA ChannelAges ==
  ASSUME ToolInv, ToolTick, NEW c \in Channels
  PROVE  /\ chan'[c] \in Chan /\ chan'[c].pc = chan[c].pc /\ chan'[c].user = chan[c].user
         /\ chan'[c].open = chan[c].open /\ chan'[c].answer = chan[c].answer
         /\ chan'[c].gone = chan[c].gone
         /\ chan[c].pc # "idle" => chan'[c].age = chan[c].age + 1
         /\ chan[c].open => chan'[c].timer = chan[c].timer - 1
<1> DEFINE a == IF chan[c].pc = "idle" THEN 0 ELSE chan[c].age + 1
           n == IF chan[c].open THEN chan[c].timer - 1 ELSE chan[c].timer
           r == [chan[c] EXCEPT !.age = a]
<1>1. chan[c] \in Chan
  BY DEF ToolInv
<1>2. chan[c].age \in 0..Delay /\ chan[c].timer \in 0..BeatEvery
  BY <1>1 DEF Chan
<1>3. /\ chan[c].pc # "idle" => chan[c].age < Delay
      /\ chan[c].open => chan[c].timer > 0
      /\ chan'[c] = [chan[c] EXCEPT !.age = a, !.timer = n]
  BY DEF ToolTick
<1>4. a \in 0..Delay
  BY <1>2, <1>3, ToolConstants
<1>5. n \in 0..BeatEvery
  BY <1>2, <1>3, ToolConstants
<1> HIDE DEF a, n
<1>6. chan'[c] = [r EXCEPT !.timer = n]
  BY <1>1, <1>3 DEF Chan
<1>7. /\ r \in Chan /\ r.pc = chan[c].pc /\ r.user = chan[c].user /\ r.open = chan[c].open
      /\ r.answer = chan[c].answer /\ r.gone = chan[c].gone /\ r.age = a
  BY <1>1, <1>4 DEF Chan
<1> HIDE DEF r
<1>8. /\ chan'[c] \in Chan /\ chan'[c].pc = r.pc /\ chan'[c].user = r.user
      /\ chan'[c].open = r.open /\ chan'[c].answer = r.answer /\ chan'[c].gone = r.gone
      /\ chan'[c].age = r.age /\ chan'[c].timer = n
  BY <1>5, <1>6, <1>7 DEF Chan
<1> QED BY <1>7, <1>8 DEF a, n

LEMMA ToolTicks ==
  ASSUME ToolInv, ToolTick
  PROVE  ToolInv' /\ [ChannelDoor!Next]_<<Listening, sinceGood>>
<1>t. MemoryOK /\ chan \in [Channels -> Chan] /\ \A c \in Channels : ChanOK(chan[c])
  BY DEF ToolInv
<1>1. /\ good' = good /\ sinceGood' = Later(sinceGood, good)
      /\ answers' = [u \in Users |-> Freed(answers[u])]
      /\ shared' = [u \in Users |-> [shared[u] EXCEPT !.left = Freed(@)]]
      /\ chan' \in [Channels -> Chan]
  <2>1. \A c \in Channels : chan'[c] \in Chan
    BY ChannelAges
  <2> QED BY <2>1 DEF ToolTick
<1>2. /\ sinceGood' \in [Users -> 0..Cap]
      /\ \A u \in Users : sinceGood'[u] \in {sinceGood[u], sinceGood[u] + 1}
      /\ \A u \in good : sinceGood'[u] = 0
  BY <1>t, <1>1, LaterCounts DEF MemoryOK
<1>k. \A u \in Users : sinceGood[u] \in Nat /\ sinceGood'[u] \in Nat
  BY <1>t, <1>2, ToolConstants DEF MemoryOK
<1>3. ASSUME NEW u \in Users
      PROVE  /\ answers'[u] \in 0..AnswerTTL
             /\ answers'[u] > 0 => sinceGood'[u] + answers'[u] <= AnswerTTL
             /\ shared'[u] \in [active : BOOLEAN, left : 0..SharedTTL]
             /\ shared'[u].left > 0 /\ shared'[u].active =>
                  sinceGood'[u] + shared'[u].left <= SharedTTL + AnswerTTL - 1
  <2>1. /\ answers[u] \in 0..AnswerTTL /\ shared[u] \in [active : BOOLEAN, left : 0..SharedTTL]
        /\ answers[u] > 0 => sinceGood[u] + answers[u] <= AnswerTTL
        /\ shared[u].left > 0 /\ shared[u].active =>
             sinceGood[u] + shared[u].left <= SharedTTL + AnswerTTL - 1
    BY <1>t DEF MemoryOK
  <2>2. answers'[u] = Freed(answers[u])
        /\ shared'[u] = [shared[u] EXCEPT !.left = Freed(shared[u].left)]
    BY <1>1
  <2>3. shared[u].left \in 0..SharedTTL /\ Freed(shared[u].left) \in 0..SharedTTL
    BY <2>1, ToolConstants DEF Freed
  <2>4. /\ shared'[u] \in [active : BOOLEAN, left : 0..SharedTTL]
        /\ shared'[u].active = shared[u].active /\ shared'[u].left = Freed(shared[u].left)
    BY <2>1, <2>2, <2>3
  <2>5. answers'[u] \in 0..AnswerTTL
        /\ (answers'[u] > 0 => sinceGood'[u] + answers'[u] <= AnswerTTL)
    BY <1>k, <1>2, <2>1, <2>2, ToolConstants DEF Freed
  <2>6. shared'[u].left > 0 /\ shared'[u].active =>
          sinceGood'[u] + shared'[u].left <= SharedTTL + AnswerTTL - 1
    BY <1>k, <1>2, <2>1, <2>3, <2>4, ToolConstants DEF Freed
  <2> QED BY <2>4, <2>5, <2>6
<1>4. MemoryOK'
  <2>1. answers' \in [Users -> 0..AnswerTTL]
        /\ shared' \in [Users -> [active : BOOLEAN, left : 0..SharedTTL]]
    BY <1>1, <1>3
  <2> QED BY <1>t, <1>1, <1>2, <1>3, <2>1 DEF MemoryOK
<1>5. ASSUME NEW c \in Channels PROVE ChanOK(chan[c])'
  <2> DEFINE u == chan[c].user
  <2>1. CASE chan[c].pc = "idle" /\ ~chan[c].open
    BY <2>1, ChannelAges DEF ChanOK
  <2>2. CASE chan[c].pc # "idle" \/ chan[c].open
    <3>1. u \in Users /\ ChanOK(chan[c])
      BY <1>t, <2>2 DEF ChanOK
    <3>2. chan[c].age \in 0..Delay /\ chan[c].timer \in 0..BeatEvery
      BY <1>t DEF Chan
    <3>3. /\ sinceGood[u] <= chan[c].age => sinceGood'[u] <= chan[c].age + 1
          /\ sinceGood[u] <= (AnswerTTL - 1) + chan[c].age =>
               sinceGood'[u] <= (AnswerTTL - 1) + (chan[c].age + 1)
          /\ sinceGood[u] <= Lives + BeatEvery + chan[c].age =>
               sinceGood'[u] <= Lives + BeatEvery + (chan[c].age + 1)
          /\ sinceGood[u] + chan[c].timer <= Lives + BeatEvery =>
               sinceGood'[u] + (chan[c].timer - 1) <= Lives + BeatEvery
      BY <1>k, <1>2, <3>1, <3>2, ToolConstants
    <3> QED BY <3>1, <3>3, ChannelAges DEF ChanOK, Lives
  <2> QED BY <2>1, <2>2
<1>6. ToolInv'
  BY <1>1, <1>4, <1>5 DEF ToolInv
<1>7. Listening' = Listening
  <2>1. \A c \in Channels : /\ chan'[c].user = chan[c].user /\ chan'[c].open = chan[c].open
                            /\ chan'[c].pc = chan[c].pc /\ chan'[c].gone = chan[c].gone
    BY ChannelAges
  <2> QED BY <2>1 DEF Listening
<1>8. \A u \in Listening : sinceGood'[u] <= BeatEvery + (AnswerTTL - 1) + Longer(SharedTTL - 1, Delay) + Delay
  <2> SUFFICES ASSUME NEW c \in Channels, chan[c].open, chan[c].pc # "ended", ~chan[c].gone
               PROVE  sinceGood'[chan[c].user] <=
                        BeatEvery + (AnswerTTL - 1) + Longer(SharedTTL - 1, Delay) + Delay
    BY DEF Listening
  <2> DEFINE u == chan[c].user
  <2>1. /\ ChanOK(chan[c])' /\ chan'[c] \in Chan /\ chan'[c].open /\ ~chan'[c].gone
        /\ chan'[c].user = u /\ chan'[c].pc # "ended"
    BY <1>5, ChannelAges
  <2>2. u \in Users /\ chan'[c].age \in 0..Delay /\ chan'[c].timer \in 0..BeatEvery
    BY <2>1 DEF ChanOK, Chan
  <2>3. CASE chan'[c].pc = "idle"
    <3>1. sinceGood'[u] + chan'[c].timer <= Lives + BeatEvery
      BY <2>1, <2>3 DEF ChanOK, Lives
    <3> QED BY <1>k, <2>2, <3>1, ToolConstants DEF Lives, Longer
  <2>4. CASE chan'[c].pc \in {"beat", "told"}
    <3>1. sinceGood'[u] <= Lives + BeatEvery + chan'[c].age
      BY <2>1, <2>4 DEF ChanOK, Lives
    <3> QED BY <1>k, <2>2, <3>1, ToolConstants DEF Lives, Longer
  <2>5. chan'[c].pc \in {"idle", "beat", "told"}
    BY <2>1 DEF ChanOK, Chan
  <2> QED BY <2>3, <2>4, <2>5
<1>9. ChannelDoor!Tick
  <2>1. sinceGood' \in [Users -> Nat]
    BY <1>2, ToolConstants
  <2> QED BY <1>2, <1>7, <1>8, <2>1 DEF ChannelDoor!Tick
<1> QED BY <1>6, <1>9 DEF ChannelDoor!Next

LEMMA ToolStarts == ToolInit => ToolInv /\ ChannelDoor!Init
<1> SUFFICES ASSUME ToolInit PROVE ToolInv /\ ChannelDoor!Init
  OBVIOUS
<1>1. /\ good \subseteq Users /\ sinceGood \in [Users -> 0..Cap]
      /\ \A u \in good : sinceGood[u] = 0
  BY NeverSinceStarts DEF ToolInit
<1>2. MemoryOK
  BY <1>1, ToolConstants DEF ToolInit, MemoryOK, Forgotten, Unshared
<1>3. chan \in [Channels -> Chan] /\ \A c \in Channels : ChanOK(chan[c]) /\ ~chan[c].open
  BY TypeOfNoChan DEF ToolInit, ChanOK
<1>4. Listening = {} /\ sinceGood \in [Users -> Nat]
  BY <1>1, <1>3, ToolConstants DEF Listening
<1> QED BY <1>2, <1>3, <1>4 DEF ToolInv, ChannelDoor!Init

LEMMA ToolSteps ==
  ToolInv /\ [ToolNext]_<<grantVars, toolVars>> =>
    ToolInv' /\ [ChannelDoor!Next]_<<Listening, sinceGood>>
<1> SUFFICES ASSUME ToolInv, [ToolNext]_<<grantVars, toolVars>>
             PROVE  ToolInv' /\ [ChannelDoor!Next]_<<Listening, sinceGood>>
  OBVIOUS
<1>1. CASE ToolNext
  BY <1>1, ToolChan, ToolOutside, ToolTicks DEF ToolNext
<1>2. CASE UNCHANGED <<grantVars, toolVars>>
  BY <1>2 DEF ToolInv, MemoryOK, ChanOK, Listening, toolVars
<1> QED BY <1>1, <1>2

\* The tool channel implements Staleness, with the window of a remembered answer, one
\* heartbeat and its call, and the longer of the call for the identity and the life of an
\* answer the heartbeats share.
THEOREM ToolImplementsStaleness == ToolSpec => ChannelBounded
  BY ToolStarts, ToolSteps, PTL DEF ToolSpec, ChannelBounded, ChannelDoor!Spec

-----------------------------------------------------------------------------
(* The places of the tool channel.                                         *)

Counted ==
  /\ perUser \in [Users -> 0..MaxPerUser] /\ total \in 0..MaxTotal
  /\ \A u \in Users : perUser[u] = Cardinality(OpenOf(u))
  /\ total = Cardinality(AllOpen)

LEMMA OpenIsFinite ==
  IsFiniteSet(AllOpen) /\ \A u \in Users : IsFiniteSet(OpenOf(u))
<1>1. IsFiniteSet(Channels) /\ AllOpen \subseteq Channels
      /\ \A u \in Users : OpenOf(u) \subseteq Channels
  BY ToolChannelAssumption DEF AllOpen, OpenOf
<1> QED BY <1>1, FS_Subset

\* A step that opens no channel and closes none.
LEMMA PlacesKept ==
  ASSUME Counted, UNCHANGED <<perUser, total>>,
         \A c \in Channels : /\ chan'[c].open = chan[c].open
                             /\ chan[c].open => chan'[c].user = chan[c].user
  PROVE  Counted'
<1>1. AllOpen' = AllOpen /\ \A u \in Users : OpenOf(u)' = OpenOf(u)
  BY DEF AllOpen, OpenOf
<1> QED BY <1>1 DEF Counted

\* A place is taken, below both caps.
LEMMA PlaceTaken ==
  ASSUME Counted, NEW c \in Channels, NEW u \in Users, ~Full(u), ~chan[c].open,
         chan'[c].open, chan'[c].user = u,
         \A d \in Channels \ {c} : chan'[d] = chan[d],
         perUser' = [perUser EXCEPT ![u] = @ + 1], total' = total + 1
  PROVE  Counted'
<1>1. /\ AllOpen' = AllOpen \cup {c} /\ c \notin AllOpen
      /\ OpenOf(u)' = OpenOf(u) \cup {c} /\ c \notin OpenOf(u)
      /\ \A w \in Users \ {u} : OpenOf(w)' = OpenOf(w)
  BY DEF AllOpen, OpenOf
<1>2. /\ Cardinality(AllOpen') = Cardinality(AllOpen) + 1
      /\ Cardinality(OpenOf(u)') = Cardinality(OpenOf(u)) + 1
  BY ZenonT(30), <1>1, OpenIsFinite, FS_AddElement
<1>3. /\ perUser[u] + 1 \in 0..MaxPerUser /\ total + 1 \in 0..MaxTotal
  BY ToolChannelAssumption DEF Counted, Full
<1>4. perUser' \in [Users -> 0..MaxPerUser] /\ total' \in 0..MaxTotal
  BY <1>3 DEF Counted
<1>5. ASSUME NEW w \in Users PROVE perUser'[w] = Cardinality(OpenOf(w)')
  BY <1>1, <1>2 DEF Counted
<1>6. total' = Cardinality(AllOpen')
  BY <1>2 DEF Counted
<1> QED BY <1>4, <1>5, <1>6 DEF Counted

\* A place is given back: it was counted, so that neither counter was at zero.
LEMMA PlaceGivenBack ==
  ASSUME Counted, NEW c \in Channels, chan[c].open, chan[c].user \in Users, ~chan'[c].open,
         \A d \in Channels \ {c} : chan'[d] = chan[d], Release(c)
  PROVE  Counted'
<1>u. PICK u \in Users : u = chan[c].user
  OBVIOUS
<1>1. /\ AllOpen' = AllOpen \ {c} /\ c \in AllOpen
      /\ OpenOf(u)' = OpenOf(u) \ {c} /\ c \in OpenOf(u)
      /\ \A w \in Users \ {u} : OpenOf(w)' = OpenOf(w)
  BY <1>u DEF AllOpen, OpenOf
<1>2. /\ Cardinality(AllOpen') = Cardinality(AllOpen) - 1
      /\ Cardinality(OpenOf(u)') = Cardinality(OpenOf(u)) - 1
  BY <1>1, OpenIsFinite, FS_RemoveElement
<1>3. Cardinality(AllOpen) > 0 /\ Cardinality(OpenOf(u)) > 0
  BY <1>1, OpenIsFinite, FS_EmptySet, FS_CardinalityType
<1>4. /\ perUser[u] \in 0..MaxPerUser /\ total \in 0..MaxTotal
      /\ perUser[u] > 0 /\ total > 0
  BY <1>3 DEF Counted
<1>5. /\ Freed(perUser[u]) = perUser[u] - 1 /\ Freed(total) = total - 1
      /\ Freed(perUser[u]) \in 0..MaxPerUser /\ Freed(total) \in 0..MaxTotal
  BY <1>4, ToolChannelAssumption DEF Freed
<1>6. perUser' = [perUser EXCEPT ![u] = Freed(perUser[u])] /\ total' = Freed(total)
  BY <1>u DEF Release
<1>7. perUser' \in [Users -> 0..MaxPerUser] /\ total' \in 0..MaxTotal
  BY <1>5, <1>6 DEF Counted
<1>8. ASSUME NEW w \in Users PROVE perUser'[w] = Cardinality(OpenOf(w)')
  <2>1. CASE w = u
    BY <1>2, <1>5, <1>6, <2>1 DEF Counted
  <2>2. CASE w # u
    BY <1>1, <1>6, <2>2 DEF Counted
  <2> QED BY <2>1, <2>2
<1>9. total' = Cardinality(AllOpen')
  BY <1>2, <1>5, <1>6 DEF Counted
<1> QED BY <1>7, <1>8, <1>9 DEF Counted

LEMMA EnterCounts ==
  ASSUME ToolInv, Counted, NEW c \in Channels, NEW u \in Users, Enter(c, u), ~chan[c].open
  PROVE  Counted'
<1>1. CASE chan' = [chan EXCEPT ![c] = NoChan] /\ UNCHANGED <<perUser, total>>
  <2>1. \A d \in Channels : /\ chan'[d].open = chan[d].open
                            /\ chan[d].open => chan'[d].user = chan[d].user
    BY <1>1, TypeOfNoChan DEF ToolInv, NoChan, Chan
  <2> QED BY <1>1, <2>1, PlacesKept
<1> DEFINE q == [NoChan EXCEPT !.user = u, !.open = TRUE, !.timer = BeatEvery,
                               !.gone = chan[c].gone]
<1>2. CASE /\ ~Full(u) /\ perUser' = [perUser EXCEPT ![u] = @ + 1] /\ total' = total + 1
           /\ chan' = [chan EXCEPT ![c] = q]
  <2>1. q.open /\ q.user = u
    BY DEF NoChan
  <2> HIDE DEF q
  <2>2. chan'[c].open /\ chan'[c].user = u /\ \A d \in Channels \ {c} : chan'[d] = chan[d]
    BY <1>2, <2>1 DEF ToolInv
  <2> QED BY <1>2, <2>2, PlaceTaken
<1> QED BY <1>1, <1>2 DEF Enter

\* One channel changes, and is as open as it was.
LEMMA SameOpen ==
  ASSUME ToolInv, Counted, NEW c \in Channels, NEW q, chan' = [chan EXCEPT ![c] = q],
         q.open = chan[c].open, chan[c].open => q.user = chan[c].user,
         UNCHANGED <<perUser, total>>
  PROVE  Counted'
<1>1. \A d \in Channels : /\ chan'[d].open = chan[d].open
                          /\ chan[d].open => chan'[d].user = chan[d].user
  BY DEF ToolInv
<1> QED BY <1>1, PlacesKept

LEMMA ToolCounts ==
  ASSUME ToolInv, Counted, [ToolNext]_<<grantVars, toolVars>>
  PROVE  Counted'
<1>c. \A c \in Channels : chan[c] \in Chan /\ ChanOK(chan[c])
  BY DEF ToolInv
<1>1. ASSUME NEW c \in Channels, NEW u \in Users, Request(c, u) PROVE Counted'
  <2>1. chan[c] = NoChan
    BY <1>1 DEF Request
  <2>2. ~chan[c].open
    BY <2>1, TypeOfNoChan
  <2>3. PICK pc : chan' = [chan EXCEPT ![c].pc = pc, ![c].user = u]
    BY <1>1 DEF Request
  <2>4. UNCHANGED <<perUser, total>>
    BY <1>1 DEF Request
  <2> DEFINE q == [chan[c] EXCEPT !.pc = pc, !.user = u]
  <2>5. chan' = [chan EXCEPT ![c] = q] /\ q.open = chan[c].open
    BY <1>c, <2>3 DEF ToolInv, Chan
  <2> HIDE DEF q
  <2> QED BY <2>2, <2>4, <2>5, SameOpen
<1>2. ASSUME NEW c \in Channels, Hydra(c) PROVE Counted'
  <2>1. PICK a \in {chan[c].user \in good, FALSE} :
          chan' = [chan EXCEPT ![c].pc = "told", ![c].answer = a]
    BY <1>2 DEF Hydra
  <2> DEFINE q == [chan[c] EXCEPT !.pc = "told", !.answer = a]
  <2>2. chan' = [chan EXCEPT ![c] = q] /\ q.open = chan[c].open /\ q.user = chan[c].user
    BY <1>c, <2>1 DEF ToolInv, Chan
  <2>3. UNCHANGED <<perUser, total>>
    BY <1>2 DEF Hydra
  <2> HIDE DEF q
  <2> QED BY <2>2, <2>3, SameOpen
<1>3. ASSUME NEW c \in Channels, AuthTold(c) PROVE Counted'
  <2>1. ~chan[c].open /\ chan[c].user \in Users
    BY <1>c, <1>3 DEF AuthTold, ChanOK
  <2>2. NoChan.open = chan[c].open /\ Asking(c, chan[c].user).open = chan[c].open
    BY <1>c, <2>1, TypeOfNoChan, AskingIs DEF Chan, NoChan, Asking
  <2>3. UNCHANGED <<perUser, total>>
    BY <1>3 DEF AuthTold
  <2>4. \/ chan' = [chan EXCEPT ![c] = Asking(c, chan[c].user)]
        \/ chan' = [chan EXCEPT ![c] = NoChan]
    BY <1>3 DEF AuthTold, Asking
  <2> QED BY <2>1, <2>2, <2>3, <2>4, SameOpen
<1>12. ASSUME NEW c \in Channels, Identified(c) PROVE Counted'
  <2>1. ~chan[c].open /\ chan[c].user \in Users /\ Enter(c, chan[c].user)
    BY <1>c, <1>12 DEF Identified, ChanOK
  <2> QED BY <2>1, EnterCounts
<1>v. \A c \in Channels : \A ok : /\ Verdict(c, ok).open = chan[c].open
                                 /\ Verdict(c, ok).user = chan[c].user
                                 /\ Beaten(Verdict(c, ok)).open = chan[c].open
                                 /\ Beaten(Verdict(c, ok)).user = chan[c].user
  BY <1>c DEF Verdict, Beaten, Chan
<1>4. ASSUME NEW c \in Channels, Heartbeat(c) PROVE Counted'
  <2>1. UNCHANGED <<perUser, total>>
    BY <1>4 DEF Heartbeat
  <2>2. ASSUME NEW ok, chan' = [chan EXCEPT ![c] = Beaten(Verdict(c, ok))] PROVE Counted'
    BY <1>v, <2>1, <2>2, SameOpen
  <2>3. CASE chan' = [chan EXCEPT ![c] = Beaten([@ EXCEPT !.pc = "beat"])]
    <3> DEFINE q == Beaten([chan[c] EXCEPT !.pc = "beat"])
    <3>1. chan' = [chan EXCEPT ![c] = q]
      BY <2>3 DEF ToolInv
    <3>2. q.open = chan[c].open /\ q.user = chan[c].user
      BY <1>c DEF Beaten, Chan
    <3> HIDE DEF q
    <3> QED BY <2>1, <3>1, <3>2, SameOpen
  <2> QED BY <1>4, <2>2, <2>3 DEF Heartbeat
<1>5. ASSUME NEW c \in Channels, BeatTold(c) PROVE Counted'
  <2> DEFINE q == IF chan[c].open THEN Verdict(c, chan[c].answer) ELSE NoChan
  <2>1. chan' = [chan EXCEPT ![c] = q] /\ UNCHANGED <<perUser, total>>
    BY <1>5 DEF BeatTold
  <2>2. q.open = chan[c].open /\ (chan[c].open => q.user = chan[c].user)
    BY <1>c, <1>v, TypeOfNoChan DEF Chan, NoChan
  <2> HIDE DEF q
  <2> QED BY <2>1, <2>2, SameOpen
<1>6. ASSUME NEW c \in Channels, Closed(c) PROVE Counted'
  <2> DEFINE q == IF chan[c].pc \in {"beat", "told"} THEN [chan[c] EXCEPT !.open = FALSE]
                  ELSE NoChan
  <2>1. chan[c].open /\ Release(c) /\ chan' = [chan EXCEPT ![c] = q] /\ chan[c].user \in Users
    BY <1>c, <1>6 DEF Closed, ChanOK, ToolInv
  <2>2. ~q.open
    BY <1>c, TypeOfNoChan DEF Chan
  <2> HIDE DEF q
  <2>3. ~chan'[c].open /\ \A d \in Channels \ {c} : chan'[d] = chan[d]
    BY <2>1, <2>2 DEF ToolInv
  <2> QED BY <2>1, <2>3, PlaceGivenBack
<1>7. ASSUME NEW c \in Channels, LeavesEarly(c) PROVE Counted'
  <2> DEFINE q == [chan[c] EXCEPT !.gone = TRUE]
  <2>1. chan' = [chan EXCEPT ![c] = q] /\ UNCHANGED <<perUser, total>>
    BY <1>7 DEF LeavesEarly, ToolInv
  <2>2. q.open = chan[c].open /\ q.user = chan[c].user
    BY <1>c DEF Chan
  <2> HIDE DEF q
  <2> QED BY <2>1, <2>2, SameOpen
<1>8. ASSUME NEW u \in Users, Invalidate(u) \/ DropOldest(u) PROVE Counted'
  <2>1. UNCHANGED <<chan, perUser, total>>
    BY <1>8 DEF Invalidate, DropOldest
  <2> QED BY <2>1, PlacesKept
<1>9. CASE RestartPortal
  <2>1. /\ chan' = [c \in Channels |-> NoChan] /\ perUser' = Forgotten /\ total' = 0
    BY <1>9 DEF RestartPortal
  <2>2. AllOpen' = {} /\ \A u \in Users : OpenOf(u)' = {}
    BY <2>1, TypeOfNoChan DEF AllOpen, OpenOf
  <2> QED BY <2>1, <2>2, FS_EmptySet, ToolChannelAssumption DEF Counted, Forgotten
<1>10. CASE ToolTick
  <2>1. UNCHANGED <<perUser, total>>
    BY <1>10 DEF ToolTick
  <2> QED BY <1>10, <2>1, ChannelAges, PlacesKept
<1>11. CASE UNCHANGED <<grantVars, toolVars>>
  BY <1>11, PlacesKept DEF toolVars
<1> QED BY <1>1, <1>2, <1>3, <1>4, <1>5, <1>6, <1>7, <1>8, <1>9, <1>10, <1>11, <1>12
       DEF ToolNext

\* The counters of the open channels are the numbers of them, by user and in all, and
\* neither passes its cap.
THEOREM ToolCountsPlaces == ToolSpec => []ChannelsCounted
<1>1. ToolInit => Counted
  <2> SUFFICES ASSUME ToolInit PROVE Counted
    OBVIOUS
  <2>1. AllOpen = {} /\ \A u \in Users : OpenOf(u) = {}
    BY TypeOfNoChan DEF ToolInit, AllOpen, OpenOf
  <2> QED BY <2>1, FS_EmptySet, ToolChannelAssumption DEF ToolInit, Counted, Forgotten
<1>2. ToolInv /\ Counted => ChannelsCounted
  BY DEF ToolInv, MemoryOK, Counted, ChannelsCounted, ToolTypeOK
<1> QED BY <1>1, <1>2, ToolStarts, ToolSteps, ToolCounts, PTL DEF ToolSpec

-----------------------------------------------------------------------------
(* The consent page.                                                       *)

\* A form that is being handled knows whose challenge it is about, what was asked for,
\* and how old, at most, what it was told is.
PostOK(q) ==
  /\ q.pc # "idle" => q.of \in Challenges /\ challenge[q.of].state # "none"
  /\ q.pc \notin {"idle", "load"} => challenge[q.of].sub = q.user
  /\ q.pc = "toldService" /\ q.answer => q.user \in Users /\ sinceFit[q.user] <= q.age
  /\ q.pc \in {"perm", "toldPerm", "claims", "grant", "granted"} =>
       q.user \in Users /\ OneResource(challenge[q.of].aud)
  /\ q.pc \in {"perm", "toldPerm"} => sinceFit[q.user] <= Delay + q.age
  /\ q.pc = "claims" => sinceFit[q.user] <= 2 * Delay + q.age
  /\ q.pc = "grant" => sinceFit[q.user] <= 3 * Delay + q.age
  /\ q.pc = "granted" => sinceFit[q.user] <= 4 * Delay
  /\ q.pc = "toldPerm" /\ q.answer => sincePermitted[q.user] <= q.age
  /\ ProjectAud \in challenge[q.of].aud =>
       /\ q.pc = "claims" => sincePermitted[q.user] <= Delay + q.age
       /\ q.pc = "grant" => sincePermitted[q.user] <= 2 * Delay + q.age
       /\ q.pc = "granted" => sincePermitted[q.user] <= 3 * Delay

ConsentInv ==
  /\ TokensBound
  /\ \A u \in permitted : sincePermitted[u] = 0
  /\ \A u \in fit : sinceFit[u] = 0
  /\ \A h \in Posts : PostOK(post[h])

ConsentSteps ==
  /\ [ProjectDoor!Next]_<<GivenProject, sincePermitted>>
  /\ [ServiceDoor!Next]_<<GivenToken, sinceFit>>

LEMMA ConsentClocks ==
  ASSUME ConsentInv
  PROVE  /\ sincePermitted \in [Users -> Nat] /\ sinceFit \in [Users -> Nat]
         /\ Delay \in Nat /\ Cap \in Nat /\ 0 \in 0..Cap /\ 0 \in 0..Delay
  BY SiteGrantsAssumption DEF ConsentInv, TokensBound, ConsentTypeOK, GrantsTypeOK

LEMMA TypeOfNoPost == NoPost \in Post /\ NoPost.pc = "idle" /\ NoPost.age = 0
  BY SiteGrantsAssumption DEF NoPost, Post

\* A form goes on, to q; of the challenges, none that is asked about changes.
LEMMA PostMoves ==
  ASSUME ConsentInv, NEW h \in Posts, NEW q \in Post, post' = [post EXCEPT ![h] = q],
         UNCHANGED <<grantVars, fit, sinceFit>>, TokensBound',
         \A k \in Challenges : /\ challenge'[k].aud = challenge[k].aud
                               /\ challenge'[k].sub = challenge[k].sub
                               /\ challenge'[k].state # "none" <=> challenge[k].state # "none",
         PostOK(q), post[h].pc # "granted" \/ q.pc = "idle"
  PROVE  ConsentInv' /\ ConsentSteps
<1>t. post \in [Posts -> Post] /\ \A g \in Posts : PostOK(post[g])
  BY DEF ConsentInv, TokensBound, ConsentTypeOK
<1>1. post'[h] = q /\ \A g \in Posts \ {h} : post'[g] = post[g]
  BY <1>t
<1>2. UNCHANGED <<permitted, sincePermitted, fit, sinceFit>>
  BY DEF grantVars
<1>3. ASSUME NEW g \in Posts PROVE PostOK(post[g])'
  <2>1. PostOK(post'[g])
    BY <1>t, <1>1
  <2>2. post'[g].pc # "idle" => post'[g].of \in Challenges
    BY <2>1 DEF PostOK
  <2>3. CASE post'[g].pc = "idle"
    BY <2>3 DEF PostOK
  <2>4. CASE post'[g].of \in Challenges
    <3> DEFINE p == post'[g]
               k == p.of
    <3>1. /\ challenge'[k].aud = challenge[k].aud /\ challenge'[k].sub = challenge[k].sub
          /\ challenge'[k].state # "none" <=> challenge[k].state # "none"
      BY <2>4
    <3> QED BY <1>2, <2>1, <2>4, <3>1 DEF PostOK
  <2> QED BY <2>2, <2>3, <2>4
<1>4. ConsentInv'
  BY <1>2, <1>3 DEF ConsentInv
<1>5. \A g \in Granting : post[g].of \in Challenges /\ post[g].user \in Users
  BY <1>t DEF Granting, PostOK
<1>6. CASE q.pc # "granted"
  <2>1. Granting' \subseteq Granting /\ \A g \in Granting' : g # h /\ post'[g] = post[g]
    BY <1>1, <1>6 DEF Granting
  <2>2. GivenToken' \subseteq GivenToken
    BY <2>1 DEF GivenToken
  <2>3. GivenProject' \subseteq GivenProject
    BY <1>5, <2>1 DEF GivenProject, Asked
  <2> QED BY <1>2, <1>4, <2>2, <2>3
          DEF ConsentSteps, ProjectDoor!Next, ServiceDoor!Next, ProjectDoor!Leave, ServiceDoor!Leave
<1>7. CASE q.pc = "granted"
  <2> DEFINE u == q.user
             P == ProjectAud \in challenge[q.of].aud
  <2>1. /\ u \in Users /\ q.of \in Challenges /\ sinceFit[u] <= 4 * Delay
        /\ P => sincePermitted[u] <= 3 * Delay
    BY <1>7 DEF PostOK
  <2>2. Granting' = Granting \cup {h} /\ h \notin Granting
        /\ \A g \in Granting : g # h /\ post'[g] = post[g]
    BY <1>1, <1>7 DEF Granting
  <2>3. GivenToken' = GivenToken \cup {u}
    BY <1>1, <2>2 DEF GivenToken
  <2>4. GivenProject' = GivenProject \cup (IF P THEN {u} ELSE {})
    <3>1. \A g \in Granting : (ProjectAud \in Asked(g)') <=> (ProjectAud \in Asked(g))
      BY <1>5, <2>2 DEF Asked
    <3>2. (ProjectAud \in Asked(h)') <=> P
      BY <1>1, <2>1 DEF Asked
    <3> QED BY <1>1, <2>2, <3>1, <3>2 DEF GivenProject
  <2> HIDE DEF P, u
  <2>5. ServiceDoor!Admit
    BY <1>2, <2>1, <2>3 DEF ServiceDoor!Admit
  <2>6. ProjectDoor!Admit
    <3>1. CASE P
      <4>1. u \in Users /\ sincePermitted[u] <= 3 * Delay
        BY <2>1, <3>1
      <4>2. GivenProject' = GivenProject \cup {u}
        BY <2>4, <3>1
      <4> QED BY <1>2, <4>1, <4>2 DEF ProjectDoor!Admit
    <3>2. CASE ~P
      <4>1. GivenProject' = GivenProject \cup {}
        BY <2>4, <3>2
      <4> QED BY <1>2, <4>1 DEF ProjectDoor!Admit
    <3> QED BY <3>1, <3>2
  <2> QED BY <1>4, <2>5, <2>6 DEF ConsentSteps, ProjectDoor!Next, ServiceDoor!Next
<1> QED BY <1>4, <1>6, <1>7

\* The form goes on, or is over, and no challenge changes.
LEMMA TypeOfStepped ==
  ASSUME ConsentInv, NEW h \in Posts,
         NEW pc \in {"service", "perm", "claims", "grant", "granted", "reject"}, Step(h, pc)
  PROVE  \E q \in Post : /\ post' = [post EXCEPT ![h] = q]
                         /\ q.pc = pc /\ q.user = post[h].user /\ q.of = post[h].of
                         /\ q.answer = FALSE /\ q.age = 0
<1> DEFINE q == [post[h] EXCEPT !.pc = pc, !.answer = FALSE, !.age = 0]
<1>1. post[h] \in Post /\ 0 \in 0..Delay
  BY ConsentClocks DEF ConsentInv, TokensBound, ConsentTypeOK
<1>2. q \in Post /\ q.pc = pc /\ q.user = post[h].user /\ q.of = post[h].of
      /\ q.answer = FALSE /\ q.age = 0
  BY <1>1 DEF Post
<1>3. post' = [post EXCEPT ![h] = q]
  BY DEF Step, ConsentInv, TokensBound, ConsentTypeOK
<1> QED BY <1>2, <1>3

LEMMA Ends ==
  ASSUME ConsentInv, NEW h \in Posts, End(h), UNCHANGED <<grantVars, fit, sinceFit>>, TokensBound',
         \A k \in Challenges : /\ challenge'[k].aud = challenge[k].aud
                               /\ challenge'[k].sub = challenge[k].sub
                               /\ challenge'[k].state # "none" <=> challenge[k].state # "none"
  PROVE  ConsentInv' /\ ConsentSteps
<1>1. PostOK(NoPost)
  BY TypeOfNoPost DEF PostOK
<1> QED BY <1>1, TypeOfNoPost, PostMoves DEF End

LEMMA BoundKept ==
  ASSUME ConsentInv, UNCHANGED <<grantVars, fit, sinceFit, challenge>>, post' \in [Posts -> Post]
  PROVE  TokensBound'
  BY DEF ConsentInv, TokensBound, ConsentTypeOK, GrantsTypeOK, grantVars

\* One step of a handler.
LEMMA ConsentHandler ==
  ASSUME ConsentInv, NEW h \in Posts,
         \/ Load(h) \/ AnswerService(h) \/ ServiceTold(h) \/ AnswerAccess(h) \/ AccessTold(h)
         \/ Claims(h) \/ Accept(h) \/ Reject(h) \/ Leave(h)
  PROVE  ConsentInv' /\ ConsentSteps
<1> DEFINE p == post[h]
<1>t. post \in [Posts -> Post] /\ p \in Post /\ PostOK(p)
  BY DEF ConsentInv, TokensBound, ConsentTypeOK
<1>q. p.age \in 0..Delay /\ p.answer \in BOOLEAN
  BY <1>t DEF Post
<1>k. Delay \in Nat /\ \A u \in Users : sincePermitted[u] \in Nat /\ sinceFit[u] \in Nat
  BY ConsentClocks
<1>s. ASSUME NEW pc \in {"service", "perm", "claims", "grant", "reject"}, Step(h, pc),
             UNCHANGED <<grantVars, fit, sinceFit, challenge>>, p.pc # "granted",
             \A q \in Post : q.pc = pc /\ q.user = p.user /\ q.of = p.of /\ q.answer = FALSE
                             /\ q.age = 0 => PostOK(q)
      PROVE  ConsentInv' /\ ConsentSteps
  <2>1. PICK q \in Post : /\ post' = [post EXCEPT ![h] = q]
                          /\ q.pc = pc /\ q.user = p.user /\ q.of = p.of
                          /\ q.answer = FALSE /\ q.age = 0
    <3>1. pc \in {"service", "perm", "claims", "grant", "granted", "reject"}
      OBVIOUS
    <3> QED BY <1>s, <3>1, TypeOfStepped
  <2>2. TokensBound'
    BY <1>s, <1>t, <2>1, BoundKept
  <2>3. PostOK(q)
    BY <1>s, <2>1
  <2> QED BY <1>s, <2>1, <2>2, <2>3, PostMoves
<1>e. ASSUME End(h), UNCHANGED <<grantVars, fit, sinceFit, challenge>>
      PROVE  ConsentInv' /\ ConsentSteps
  <2>1. TokensBound'
    BY <1>e, <1>t, TypeOfNoPost, BoundKept DEF End
  <2> QED BY <1>e, <2>1, Ends
<1>1. CASE Load(h)
  <2>1. UNCHANGED <<grantVars, fit, sinceFit, challenge>> /\ p.pc = "load"
    BY <1>1 DEF Load
  <2>2. CASE Owns(h) /\ \E pc \in {"service", "reject"} : Step(h, pc)
    <3>1. \A q \in Post : q.pc \in {"service", "reject"} /\ q.user = p.user /\ q.of = p.of
            => PostOK(q)
      BY <1>t, <2>1, <2>2 DEF PostOK, Owns
    <3> QED BY <1>s, <2>1, <2>2, <3>1
  <2> QED BY <1>1, <1>e, <2>1, <2>2 DEF Load
<1>2. ASSUME NEW pc \in {"toldService", "toldPerm"}, NEW a \in BOOLEAN,
             post' = [post EXCEPT ![h].pc = pc, ![h].answer = a],
             UNCHANGED <<grantVars, fit, sinceFit, challenge>>,
             \/ p.pc = "service" /\ pc = "toldService" /\ (a => p.user \in fit)
             \/ p.pc = "perm" /\ pc = "toldPerm" /\ (a => p.user \in permitted)
      PROVE  ConsentInv' /\ ConsentSteps
  <2> DEFINE q == [p EXCEPT !.pc = pc, !.answer = a]
  <2>1. q \in Post /\ q.pc = pc /\ q.answer = a /\ q.user = p.user /\ q.of = p.of /\ q.age = p.age
    BY <1>t DEF Post
  <2>2. post' = [post EXCEPT ![h] = q]
    BY <1>2, <1>t
  <2>3. a => \/ pc = "toldService" /\ p.user \in Users /\ sinceFit[p.user] = 0
             \/ pc = "toldPerm" /\ sincePermitted[p.user] = 0
    BY <1>2 DEF ConsentInv, TokensBound, ConsentTypeOK
  <2> HIDE DEF q
  <2>4. PostOK(q)
    BY <1>2, <1>k, <1>q, <1>t, <2>1, <2>3 DEF PostOK
  <2>5. TokensBound'
    BY <1>2, <1>t, <2>1, <2>2, BoundKept
  <2> QED BY <1>2, <2>1, <2>2, <2>4, <2>5, PostMoves
<1>3. CASE AnswerService(h)
  <2>1. (p.user \in fit) \in BOOLEAN
    OBVIOUS
  <2> QED BY <1>2, <1>3, <2>1, Zenon DEF AnswerService
<1>4. CASE AnswerAccess(h)
  <2>1. (p.user \in permitted) \in BOOLEAN
    OBVIOUS
  <2>2. PICK a \in {p.user \in permitted, FALSE} :
          post' = [post EXCEPT ![h].pc = "toldPerm", ![h].answer = a]
    BY <1>4 DEF AnswerAccess
  <2>3. a \in BOOLEAN /\ (a => p.user \in permitted)
    BY <2>1, <2>2, Zenon
  <2>4. p.pc = "perm" /\ UNCHANGED <<grantVars, fit, sinceFit, challenge>>
    BY <1>4 DEF AnswerAccess
  <2> QED BY <1>2, <2>2, <2>3, <2>4
<1>5. CASE ServiceTold(h)
  <2>1. UNCHANGED <<grantVars, fit, sinceFit, challenge>> /\ p.pc = "toldService"
    BY <1>5 DEF ServiceTold
  <2>2. CASE ~p.answer /\ End(h)
    BY <1>e, <2>1, <2>2
  <2>3. CASE p.answer /\ ~OneResource(Asked(h)) /\ Step(h, "reject")
    <3>1. \A q \in Post : q.pc = "reject" /\ q.user = p.user /\ q.of = p.of => PostOK(q)
      BY <1>t, <2>1, <2>3 DEF PostOK
    <3> QED BY <1>s, <2>1, <2>3, <3>1
  <2>4. ASSUME p.answer, OneResource(Asked(h)),
               NEW pc \in {"perm", "claims"}, Step(h, pc), pc = "claims" => ProjectAud \notin Asked(h)
        PROVE  ConsentInv' /\ ConsentSteps
    <3>1. p.user \in Users /\ sinceFit[p.user] <= p.age
      BY <1>t, <2>1, <2>4 DEF PostOK
    <3>2. sinceFit[p.user] <= Delay + 0 /\ sinceFit[p.user] <= 2 * Delay + 0
      BY <1>k, <1>q, <3>1
    <3>3. \A q \in Post : q.pc = pc /\ q.user = p.user /\ q.of = p.of /\ q.answer = FALSE
                          /\ q.age = 0 => PostOK(q)
      BY <1>t, <2>1, <2>4, <3>1, <3>2 DEF PostOK, Asked
    <3>4. pc \in {"service", "perm", "claims", "grant", "reject"} /\ p.pc # "granted"
      BY <2>1
    <3> QED BY <1>s, <2>1, <2>4, <3>3, <3>4
  <2>5. CASE p.answer /\ OneResource(Asked(h)) /\ ProjectAud \in Asked(h)
    BY <1>5, <2>4, <2>5 DEF ServiceTold
  <2>6. CASE p.answer /\ OneResource(Asked(h)) /\ ProjectAud \notin Asked(h)
    BY <1>5, <2>4, <2>6 DEF ServiceTold
  <2> QED BY <1>5, <2>2, <2>3, <2>5, <2>6 DEF ServiceTold
<1>6. CASE AccessTold(h)
  <2>1. UNCHANGED <<grantVars, fit, sinceFit, challenge>> /\ p.pc = "toldPerm"
    BY <1>6 DEF AccessTold
  <2>2. CASE p.answer /\ Step(h, "claims")
    <3>1. /\ p.user \in Users /\ sinceFit[p.user] <= Delay + p.age
          /\ sincePermitted[p.user] <= p.age
      BY <1>t, <2>1, <2>2 DEF PostOK
    <3>2. sinceFit[p.user] <= 2 * Delay + 0 /\ sincePermitted[p.user] <= Delay + 0
      BY <1>k, <1>q, <3>1
    <3>3. \A q \in Post : q.pc = "claims" /\ q.user = p.user /\ q.of = p.of /\ q.answer = FALSE
                          /\ q.age = 0 => PostOK(q)
      BY <1>t, <2>1, <3>1, <3>2 DEF PostOK
    <3> QED BY <1>s, <2>1, <2>2, <3>3
  <2>3. CASE Step(h, "reject")
    <3>1. \A q \in Post : q.pc = "reject" /\ q.user = p.user /\ q.of = p.of => PostOK(q)
      BY <1>t, <2>1 DEF PostOK
    <3> QED BY <1>s, <2>1, <2>3, <3>1
  <2> QED BY <1>6, <2>2, <2>3 DEF AccessTold, Kept
<1>7. CASE Claims(h)
  <2>1. UNCHANGED <<grantVars, fit, sinceFit, challenge>> /\ p.pc = "claims" /\ Step(h, "grant")
    BY <1>7 DEF Claims
  <2>2. /\ p.user \in Users /\ sinceFit[p.user] <= 2 * Delay + p.age
        /\ ProjectAud \in challenge[p.of].aud => sincePermitted[p.user] <= Delay + p.age
    BY <1>t, <2>1 DEF PostOK
  <2>3. /\ sinceFit[p.user] <= 3 * Delay + 0
        /\ ProjectAud \in challenge[p.of].aud => sincePermitted[p.user] <= 2 * Delay + 0
    BY <1>k, <1>q, <2>2
  <2>4. \A q \in Post : q.pc = "grant" /\ q.user = p.user /\ q.of = p.of /\ q.answer = FALSE
                        /\ q.age = 0 => PostOK(q)
    BY <1>t, <2>1, <2>2, <2>3 DEF PostOK
  <2> QED BY <1>s, <2>1, <2>4
<1>d. ASSUME NEW state \in {"granted", "rejected"}, NEW given \in {Asked(h), {}},
             Decide(h, state, given), p.pc \in {"grant", "reject"},
             state = "granted" => p.pc = "grant" /\ given = Asked(h),
             UNCHANGED <<grantVars, fit, sinceFit>>, post' \in [Posts -> Post]
      PROVE  /\ TokensBound'
             /\ \A k \in Challenges :
                  /\ challenge'[k].aud = challenge[k].aud /\ challenge'[k].sub = challenge[k].sub
                  /\ challenge'[k].state # "none" <=> challenge[k].state # "none"
  <2> DEFINE k == p.of
             r == [challenge[k] EXCEPT !.state = state, !.given = given, !.by = p.user]
  <2>1. /\ challenge \in [Challenges -> Challenge] /\ k \in Challenges /\ p.user \in Users \cup {Anybody}
        /\ challenge[k].sub = p.user /\ challenge[k].state = "open"
        /\ p.pc = "grant" => OneResource(challenge[k].aud)
    BY <1>t, <1>d DEF ConsentInv, TokensBound, ConsentTypeOK, PostOK, Post, Decide
  <2>2. given \in SUBSET (McpAudiences \cup {OtherAud})
    BY <2>1, ConsentAssumption DEF Challenge, Asked
  <2>3. /\ r \in Challenge /\ r.sub = challenge[k].sub /\ r.aud = challenge[k].aud
        /\ r.state = state /\ r.given = given /\ r.by = p.user
    <3>1. challenge[k] \in Challenge
      BY <2>1
    <3>2. /\ r.sub = challenge[k].sub /\ r.aud = challenge[k].aud
          /\ r.state = state /\ r.given = given /\ r.by = p.user
      BY <3>1 DEF Challenge
    <3>3. r \in Challenge
      BY <2>1, <2>2, <3>1 DEF Challenge
    <3> QED BY <3>2, <3>3
  <2>4. challenge' = [challenge EXCEPT ![k] = r]
    BY <1>d, <2>1 DEF Decide
  <2> HIDE DEF r
  <2>5. /\ challenge' \in [Challenges -> Challenge] /\ challenge'[k] = r
        /\ \A j \in Challenges \ {k} : challenge'[j] = challenge[j]
    BY <2>1, <2>3, <2>4
  <2>6. ConsentTypeOK'
    BY <1>d, <2>5 DEF ConsentInv, TokensBound, ConsentTypeOK, GrantsTypeOK, grantVars
  <2>7. r.state = "granted" => r.by = r.sub /\ r.given = r.aud /\ OneResource(r.given)
    BY <1>d, <2>1, <2>3 DEF Asked
  <2>8. TokensBound'
    BY <2>5, <2>6, <2>7 DEF ConsentInv, TokensBound
  <2> QED BY <2>1, <2>3, <2>5, <2>8
<1>8. CASE Accept(h)
  <2>1. /\ p.pc = "grant" /\ Decide(h, "granted", Asked(h)) /\ Step(h, "granted")
        /\ UNCHANGED <<grantVars, fit, sinceFit>>
    BY <1>8 DEF Accept
  <2>2. PICK q \in Post : /\ post' = [post EXCEPT ![h] = q]
                          /\ q.pc = "granted" /\ q.user = p.user /\ q.of = p.of
                          /\ q.answer = FALSE /\ q.age = 0
    BY <2>1, TypeOfStepped
  <2>3. post' \in [Posts -> Post]
    BY <1>t, <2>2
  <2>4. /\ p.user \in Users /\ sinceFit[p.user] <= 3 * Delay + p.age
        /\ ProjectAud \in challenge[p.of].aud => sincePermitted[p.user] <= 2 * Delay + p.age
    BY <1>t, <2>1 DEF PostOK
  <2>5. /\ sinceFit[p.user] <= 4 * Delay
        /\ ProjectAud \in challenge[p.of].aud => sincePermitted[p.user] <= 3 * Delay
    BY <1>k, <1>q, <2>4
  <2>6. PostOK(q)
    BY <1>t, <2>1, <2>2, <2>4, <2>5 DEF PostOK
  <2> QED BY <1>d, <2>1, <2>2, <2>3, <2>6, PostMoves
<1>9. CASE Reject(h)
  <2>1. /\ p.pc = "reject" /\ Decide(h, "rejected", {}) /\ End(h)
        /\ UNCHANGED <<grantVars, fit, sinceFit>>
    BY <1>9 DEF Reject
  <2>2. post' \in [Posts -> Post]
    BY <1>t, <2>1, TypeOfNoPost DEF End
  <2> QED BY <1>d, <2>1, <2>2, Ends
<1>10. CASE Leave(h)
  BY <1>10, <1>e DEF Leave
<1> QED BY <1>1, <1>3, <1>4, <1>5, <1>6, <1>7, <1>8, <1>9, <1>10

\* A new authorization, a new form, and changes of what users may do.
LEMMA ConsentOutside ==
  ASSUME ConsentInv,
         \/ \E k \in Challenges :
              \/ \E u \in Users \cup {Anybody}, A \in Offers : Ask(k, u, A)
              \/ \E h \in Posts, u \in Users, deny \in BOOLEAN : Submit(h, k, u, deny)
         \/ \E u \in Users : Refit(u) \/ Regrant(u)
  PROVE  ConsentInv' /\ ConsentSteps
<1>t. /\ post \in [Posts -> Post] /\ \A h \in Posts : PostOK(post[h])
      /\ challenge \in [Challenges -> Challenge]
      /\ permitted \in SUBSET Users /\ fit \in SUBSET Users
      /\ sincePermitted \in [Users -> 0..Cap] /\ sinceFit \in [Users -> 0..Cap]
  BY DEF ConsentInv, TokensBound, ConsentTypeOK, GrantsTypeOK
<1>k. Delay \in Nat /\ 0 \in 0..Cap /\ \A u \in Users : sincePermitted[u] \in Nat /\ sinceFit[u] \in Nat
  BY ConsentClocks
<1>1. ASSUME NEW k \in Challenges, NEW u \in Users \cup {Anybody}, NEW A \in Offers, Ask(k, u, A)
      PROVE  ConsentInv' /\ ConsentSteps
  <2> DEFINE r == [NoChallenge EXCEPT !.sub = u, !.aud = A, !.state = "open"]
  <2>1. /\ challenge[k].state = "none" /\ challenge' = [challenge EXCEPT ![k] = r]
        /\ UNCHANGED <<permitted, sincePermitted, fit, sinceFit, post>>
    BY <1>1 DEF Ask, grantVars
  <2>2. r \in Challenge /\ r.state = "open"
    BY DEF Challenge, NoChallenge
  <2> HIDE DEF r
  <2>3. /\ challenge' \in [Challenges -> Challenge] /\ challenge'[k].state = "open"
        /\ \A j \in Challenges \ {k} : challenge'[j] = challenge[j]
    BY <1>t, <2>1, <2>2
  <2>4. TokensBound'
    BY <2>1, <2>3 DEF ConsentInv, TokensBound, ConsentTypeOK, GrantsTypeOK
  <2>5. ASSUME NEW h \in Posts PROVE /\ PostOK(post[h])'
                                     /\ post[h].pc # "idle" => Asked(h)' = Asked(h)
    <3>1. CASE post[h].pc = "idle"
      BY <2>1, <3>1 DEF PostOK
    <3>2. CASE post[h].pc # "idle"
      <4>1. post[h].of \in Challenges /\ post[h].of # k
        BY <1>t, <2>1, <3>2 DEF PostOK
      <4>2. challenge'[post[h].of] = challenge[post[h].of]
        BY <2>3, <4>1
      <4> QED BY <1>t, <2>1, <4>1, <4>2 DEF PostOK, Asked
    <3> QED BY <3>1, <3>2
  <2>6. Granting' = Granting /\ GivenToken' = GivenToken
    BY <2>1 DEF Granting, GivenToken
  <2>7. GivenProject' = GivenProject
    BY <2>1, <2>5, <2>6 DEF GivenProject, Granting
  <2> QED BY <2>1, <2>4, <2>5, <2>6, <2>7 DEF ConsentInv, ConsentSteps
<1>2. ASSUME NEW k \in Challenges, NEW h \in Posts, NEW u \in Users, NEW deny \in BOOLEAN,
             Submit(h, k, u, deny)
      PROVE  ConsentInv' /\ ConsentSteps
  <2> DEFINE q == [NoPost EXCEPT !.pc = "load", !.user = u, !.of = k, !.deny = deny]
  <2>1. q \in Post /\ q.pc = "load" /\ q.of = k
    BY TypeOfNoPost DEF Post, NoPost
  <2>2. post' = [post EXCEPT ![h] = q] /\ challenge[k].state # "none" /\ post[h].pc = "idle"
        /\ UNCHANGED <<grantVars, fit, sinceFit, challenge>>
    BY <1>2, TypeOfNoPost DEF Submit
  <2> HIDE DEF q
  <2>3. PostOK(q)
    BY <2>1, <2>2 DEF PostOK
  <2>4. TokensBound'
    BY <1>t, <2>1, <2>2, BoundKept
  <2> QED BY <2>1, <2>2, <2>3, <2>4, PostMoves
<1>3. ASSUME NEW u \in Users,
             permitted' \in SUBSET Users, fit' \in SUBSET Users, UNCHANGED <<challenge, post>>,
             \/ /\ sincePermitted' = sincePermitted /\ permitted' \subseteq permitted
                /\ UNCHANGED <<fit, sinceFit>>
             \/ /\ sincePermitted' = [sincePermitted EXCEPT ![u] = 0]
                /\ permitted' = permitted \cup {u} /\ UNCHANGED <<fit, sinceFit>>
             \/ /\ sinceFit' = sinceFit /\ fit' \subseteq fit /\ UNCHANGED <<permitted, sincePermitted>>
             \/ /\ sinceFit' = [sinceFit EXCEPT ![u] = 0] /\ fit' = fit \cup {u}
                /\ UNCHANGED <<permitted, sincePermitted>>
      PROVE  ConsentInv' /\ ConsentSteps
  <2>1. /\ sincePermitted' \in [Users -> 0..Cap] /\ sinceFit' \in [Users -> 0..Cap]
        /\ \A w \in Users : /\ sincePermitted'[w] \in {sincePermitted[w], 0}
                            /\ sinceFit'[w] \in {sinceFit[w], 0}
    BY <1>t, <1>k, <1>3
  <2>2. TokensBound'
    BY <1>3, <2>1 DEF ConsentInv, TokensBound, ConsentTypeOK, GrantsTypeOK
  <2>3. /\ \A w \in permitted' : sincePermitted'[w] = 0
        /\ \A w \in fit' : sinceFit'[w] = 0
    BY <1>t, <1>3 DEF ConsentInv
  <2>4. ASSUME NEW h \in Posts PROVE PostOK(post[h])'
    <3> DEFINE p == post[h]
    <3>1. p \in Post /\ p.age \in Nat /\ PostOK(p)
      BY <1>t, ConsentClocks DEF Post
    <3>2. \A w \in Users, n \in Nat : /\ sincePermitted[w] <= n => sincePermitted'[w] <= n
                                      /\ sinceFit[w] <= n => sinceFit'[w] <= n
      BY <1>k, <2>1
    <3>3. /\ p.age \in Nat /\ Delay + p.age \in Nat /\ 2 * Delay + p.age \in Nat
          /\ 3 * Delay + p.age \in Nat /\ 3 * Delay \in Nat /\ 4 * Delay \in Nat
      BY <1>k, <3>1
    <3> QED BY <1>3, <3>1, <3>2, <3>3 DEF PostOK
  <2>5. GivenToken' = GivenToken /\ GivenProject' = GivenProject
    BY <1>3 DEF GivenToken, GivenProject, Granting, Asked
  <2>6. [ProjectDoor!Next]_<<GivenProject, sincePermitted>>
    BY <1>3, <2>5 DEF ProjectDoor!Next, ProjectDoor!Entitle
  <2>7. [ServiceDoor!Next]_<<GivenToken, sinceFit>>
    BY <1>3, <2>5 DEF ServiceDoor!Next, ServiceDoor!Entitle
  <2> QED BY <2>2, <2>3, <2>4, <2>6, <2>7 DEF ConsentInv, ConsentSteps
<1>4. ASSUME NEW u \in Users, Refit(u) PROVE ConsentInv' /\ ConsentSteps
  BY <1>t, <1>3, <1>4 DEF Refit, grantVars
<1>5. ASSUME NEW u \in Users, Regrant(u) PROVE ConsentInv' /\ ConsentSteps
  BY <1>t, <1>3, <1>5 DEF Regrant, Grant, Revoke, consentVars
<1> QED BY <1>1, <1>2, <1>4, <1>5

LEMMA ConsentTicks == ASSUME ConsentInv, ConsentTick PROVE ConsentInv' /\ ConsentSteps
<1>t. /\ post \in [Posts -> Post] /\ \A h \in Posts : PostOK(post[h])
      /\ permitted \in SUBSET Users /\ fit \in SUBSET Users
      /\ sincePermitted \in [Users -> 0..Cap] /\ sinceFit \in [Users -> 0..Cap]
      /\ \A u \in permitted : sincePermitted[u] = 0
      /\ \A u \in fit : sinceFit[u] = 0
  BY DEF ConsentInv, TokensBound, ConsentTypeOK, GrantsTypeOK
<1>k. Delay \in Nat /\ \A u \in Users : sincePermitted[u] \in Nat /\ sinceFit[u] \in Nat
  BY ConsentClocks
<1>1. /\ UNCHANGED <<permitted, fit, challenge>>
      /\ sincePermitted' = Later(sincePermitted, permitted) /\ sinceFit' = Later(sinceFit, fit)
      /\ post' = [h \in Posts |-> IF post[h].pc = "idle" THEN post[h]
                                  ELSE [post[h] EXCEPT !.age = @ + 1]]
      /\ \A h \in Posts : post[h].pc # "granted" /\ (post[h].pc # "idle" => post[h].age < Delay)
  BY DEF ConsentTick
<1>2. /\ sincePermitted' \in [Users -> 0..Cap] /\ sinceFit' \in [Users -> 0..Cap]
      /\ \A u \in permitted : sincePermitted'[u] = 0
      /\ \A u \in fit : sinceFit'[u] = 0
      /\ \A u \in Users : /\ sincePermitted'[u] \in {sincePermitted[u], sincePermitted[u] + 1}
                          /\ sinceFit'[u] \in {sinceFit[u], sinceFit[u] + 1}
  <2>1. /\ sincePermitted' \in [Users -> 0..Cap] /\ \A u \in permitted : sincePermitted'[u] = 0
        /\ \A u \in Users : sincePermitted'[u] \in {sincePermitted[u], sincePermitted[u] + 1}
    BY <1>t, <1>1, LaterCounts
  <2>2. /\ sinceFit' \in [Users -> 0..Cap] /\ \A u \in fit : sinceFit'[u] = 0
        /\ \A u \in Users : sinceFit'[u] \in {sinceFit[u], sinceFit[u] + 1}
    BY <1>t, <1>1, LaterCounts
  <2> QED BY <2>1, <2>2
<1>3. ASSUME NEW h \in Posts
      PROVE  post'[h] \in Post /\ PostOK(post[h])'
  <2> DEFINE p == post[h]
             r == [p EXCEPT !.age = @ + 1]
  <2>1. CASE p.pc = "idle"
    BY <1>t, <1>1, <2>1 DEF PostOK
  <2>2. CASE p.pc # "idle"
    <3>1. p.age \in 0..Delay /\ p.age < Delay /\ p \in Post /\ PostOK(p) /\ post'[h] = r
          /\ p.pc # "granted"
      BY <1>t, <1>1, <2>2 DEF Post
    <3>2. p.age + 1 \in 0..Delay
      BY <1>k, <3>1
    <3>3. /\ r \in Post /\ r.pc = p.pc /\ r.user = p.user /\ r.of = p.of /\ r.answer = p.answer
          /\ r.age = p.age + 1
      BY <3>1, <3>2 DEF Post
    <3> HIDE DEF r
    <3>4. \A w \in Users, n \in Nat : /\ sincePermitted[w] <= n => sincePermitted'[w] <= n + 1
                                      /\ sinceFit[w] <= n => sinceFit'[w] <= n + 1
      BY <1>k, <1>2
    <3>5. /\ p.age \in Nat /\ Delay + p.age \in Nat /\ 2 * Delay + p.age \in Nat
          /\ 3 * Delay + p.age \in Nat
          /\ Delay + (p.age + 1) = (Delay + p.age) + 1
          /\ 2 * Delay + (p.age + 1) = (2 * Delay + p.age) + 1
          /\ 3 * Delay + (p.age + 1) = (3 * Delay + p.age) + 1
      BY <1>k, <3>1
    <3>6. /\ p.of \in Challenges /\ challenge'[p.of] = challenge[p.of]
          /\ p.pc \in {"toldService", "perm", "toldPerm", "claims", "grant"} /\
             (p.pc = "toldService" => p.answer) => p.user \in Users
      BY <1>1, <2>2, <3>1 DEF PostOK
    <3> QED BY <1>1, <3>1, <3>3, <3>4, <3>5, <3>6 DEF PostOK
  <2> QED BY <2>1, <2>2
<1>4. TokensBound'
  <2>1. post' \in [Posts -> Post]
    BY <1>1, <1>3
  <2> QED BY <1>1, <1>2, <2>1 DEF ConsentInv, TokensBound, ConsentTypeOK, GrantsTypeOK
<1>5. ConsentInv'
  BY <1>1, <1>2, <1>3, <1>4 DEF ConsentInv
<1>6. Granting = {} /\ Granting' = {}
  BY <1>t, <1>1 DEF Granting, Post
<1>7. GivenToken = {} /\ GivenToken' = {} /\ GivenProject = {} /\ GivenProject' = {}
  BY <1>6 DEF GivenToken, GivenProject
<1>8. sincePermitted' \in [Users -> Nat] /\ sinceFit' \in [Users -> Nat]
  BY <1>5, ConsentClocks, <1>2
<1>9. ProjectDoor!Tick
  BY <1>2, <1>7, <1>8 DEF ProjectDoor!Tick
<1>10. ServiceDoor!Tick
  BY <1>2, <1>7, <1>8 DEF ServiceDoor!Tick
<1> QED BY <1>5, <1>9, <1>10 DEF ConsentSteps, ProjectDoor!Next, ServiceDoor!Next

\* The consent page: a token is the accepting user's, for all that was asked for and for
\* one MCP resource at most; and it implements Staleness for the permission and the
\* client's visibility, with windows of three and four calls.
THEOREM ConsentIsBounded == ConsentSpec => ConsentBounded
<1>1. ConsentInit => ConsentInv /\ ProjectDoor!Init /\ ServiceDoor!Init
  <2> SUFFICES ASSUME ConsentInit PROVE ConsentInv /\ ProjectDoor!Init /\ ServiceDoor!Init
    OBVIOUS
  <2>1. /\ sincePermitted \in [Users -> 0..Cap] /\ sinceFit \in [Users -> 0..Cap]
        /\ \A u \in permitted : sincePermitted[u] = 0
        /\ \A u \in fit : sinceFit[u] = 0
    BY NeverSinceStarts DEF ConsentInit, GrantsInit
  <2>2. NoChallenge \in Challenge /\ NoChallenge.state = "none"
    BY DEF NoChallenge, Challenge
  <2>3. /\ challenge \in [Challenges -> Challenge] /\ \A k \in Challenges : challenge[k].state = "none"
        /\ post \in [Posts -> Post] /\ \A h \in Posts : post[h].pc = "idle"
    BY <2>2, TypeOfNoPost DEF ConsentInit
  <2>4. TokensBound
    BY <2>1, <2>3 DEF ConsentInit, GrantsInit, TokensBound, ConsentTypeOK, GrantsTypeOK
  <2>5. ConsentInv
    BY <2>1, <2>3, <2>4 DEF ConsentInv, PostOK, ConsentInit, GrantsInit
  <2>6. Granting = {} /\ GivenProject = {} /\ GivenToken = {}
    BY <2>3 DEF Granting, GivenProject, GivenToken
  <2> QED BY <2>5, <2>6, ConsentClocks DEF ProjectDoor!Init, ServiceDoor!Init, GivenToken
<1>2. ConsentInv /\ [ConsentNext]_<<grantVars, consentVars>> => ConsentInv' /\ ConsentSteps
  <2> SUFFICES ASSUME ConsentInv, [ConsentNext]_<<grantVars, consentVars>>
               PROVE  ConsentInv' /\ ConsentSteps
    OBVIOUS
  <2>1. CASE ConsentNext
    BY <2>1, ConsentHandler, ConsentOutside, ConsentTicks DEF ConsentNext
  <2>2. CASE UNCHANGED <<grantVars, consentVars>>
    BY <2>2 DEF ConsentInv, TokensBound, ConsentTypeOK, GrantsTypeOK, PostOK, ConsentSteps,
                GivenToken, GivenProject, Granting, Asked, grantVars, consentVars
  <2> QED BY <2>1, <2>2
<1>3. ConsentInv => TokensBound
  BY DEF ConsentInv
<1> QED BY <1>1, <1>2, <1>3, PTL
        DEF ConsentSpec, ConsentBounded, TokensInTime, ConsentSteps, ProjectDoor!Spec,
            ServiceDoor!Spec, GivenToken

-----------------------------------------------------------------------------
(* What the implementations amount to, for the one who has lost a right.   *)

LEMMA PermissionDoorShuts == PermissionDoor!Spec => []PermissionDoor!NobodyStale
<1> DEFINE Fresh == Admitted \subseteq Users /\ sincePermitted \in [Users -> Nat] /\ PermissionDoor!NobodyStale
<1>1. PermissionDoor!Init => Fresh
  BY DEF PermissionDoor!Init, PermissionDoor!NobodyStale
<1>2. Fresh /\ [PermissionDoor!Next]_<<Admitted, sincePermitted>> => Fresh'
  BY SiteGrantsAssumption, SiteAccessAssumption
     DEF PermissionDoor!Next, PermissionDoor!Admit, PermissionDoor!Leave, PermissionDoor!Entitle, PermissionDoor!Tick,
         PermissionDoor!NobodyStale
<1>3. Fresh => PermissionDoor!NobodyStale
  OBVIOUS
<1> QED BY <1>1, <1>2, <1>3, PTL DEF PermissionDoor!Spec

LEMMA SessionDoorShuts == SessionDoor!Spec => []SessionDoor!NobodyStale
<1> DEFINE Fresh == Admitted \subseteq Users /\ sinceAlive \in [Users -> Nat] /\ SessionDoor!NobodyStale
<1>1. SessionDoor!Init => Fresh
  BY DEF SessionDoor!Init, SessionDoor!NobodyStale
<1>2. Fresh /\ [SessionDoor!Next]_<<Admitted, sinceAlive>> => Fresh'
  BY SiteGrantsAssumption, SiteAccessAssumption
     DEF SessionDoor!Next, SessionDoor!Admit, SessionDoor!Leave, SessionDoor!Entitle, SessionDoor!Tick,
         SessionDoor!NobodyStale
<1>3. Fresh => SessionDoor!NobodyStale
  OBVIOUS
<1> QED BY <1>1, <1>2, <1>3, PTL DEF SessionDoor!Spec

LEMMA TokenDoorShuts == TokenDoor!Spec => []TokenDoor!NobodyStale
<1> DEFINE Fresh == Connected \subseteq Users /\ sinceActive \in [Users -> Nat] /\ TokenDoor!NobodyStale
<1>1. TokenDoor!Init => Fresh
  BY DEF TokenDoor!Init, TokenDoor!NobodyStale
<1>2. Fresh /\ [TokenDoor!Next]_<<Connected, sinceActive>> => Fresh'
  BY SiteGrantsAssumption, GatewayAssumption
     DEF TokenDoor!Next, TokenDoor!Admit, TokenDoor!Leave, TokenDoor!Entitle, TokenDoor!Tick,
         TokenDoor!NobodyStale
<1>3. Fresh => TokenDoor!NobodyStale
  OBVIOUS
<1> QED BY <1>1, <1>2, <1>3, PTL DEF TokenDoor!Spec

LEMMA GrantDoorShuts == GrantDoor!Spec => []GrantDoor!NobodyStale
<1> DEFINE Fresh == Connected \subseteq Users /\ sincePermitted \in [Users -> Nat] /\ GrantDoor!NobodyStale
<1>1. GrantDoor!Init => Fresh
  BY DEF GrantDoor!Init, GrantDoor!NobodyStale
<1>2. Fresh /\ [GrantDoor!Next]_<<Connected, sincePermitted>> => Fresh'
  BY SiteGrantsAssumption, GatewayAssumption
     DEF GrantDoor!Next, GrantDoor!Admit, GrantDoor!Leave, GrantDoor!Entitle, GrantDoor!Tick,
         GrantDoor!NobodyStale
<1>3. Fresh => GrantDoor!NobodyStale
  OBVIOUS
<1> QED BY <1>1, <1>2, <1>3, PTL DEF GrantDoor!Spec

LEMMA RefusalDoorShuts == RefusalDoor!Spec => []RefusalDoor!NobodyStale
<1> DEFINE Fresh == Refused \subseteq Users /\ sinceBad \in [Users -> Nat] /\ RefusalDoor!NobodyStale
<1>1. RefusalDoor!Init => Fresh
  BY DEF RefusalDoor!Init, RefusalDoor!NobodyStale
<1>2. Fresh /\ [RefusalDoor!Next]_<<Refused, sinceBad>> => Fresh'
  BY SiteGrantsAssumption, GatewayAssumption
     DEF RefusalDoor!Next, RefusalDoor!Admit, RefusalDoor!Leave, RefusalDoor!Entitle, RefusalDoor!Tick,
         RefusalDoor!NobodyStale
<1>3. Fresh => RefusalDoor!NobodyStale
  OBVIOUS
<1> QED BY <1>1, <1>2, <1>3, PTL DEF RefusalDoor!Spec

LEMMA ChannelDoorShuts == ChannelDoor!Spec => []ChannelDoor!NobodyStale
<1> DEFINE Fresh == Listening \subseteq Users /\ sinceGood \in [Users -> Nat] /\ ChannelDoor!NobodyStale
<1>1. ChannelDoor!Init => Fresh
  BY DEF ChannelDoor!Init, ChannelDoor!NobodyStale
<1>2. Fresh /\ [ChannelDoor!Next]_<<Listening, sinceGood>> => Fresh'
  BY SiteGrantsAssumption, ToolChannelAssumption
     DEF ChannelDoor!Next, ChannelDoor!Admit, ChannelDoor!Leave, ChannelDoor!Entitle, ChannelDoor!Tick,
         ChannelDoor!NobodyStale, Longer
<1>3. Fresh => ChannelDoor!NobodyStale
  OBVIOUS
<1> QED BY <1>1, <1>2, <1>3, PTL DEF ChannelDoor!Spec

LEMMA ProjectDoorShuts == ProjectDoor!Spec => []ProjectDoor!NobodyStale
<1> DEFINE Fresh == GivenProject \subseteq Users /\ sincePermitted \in [Users -> Nat] /\ ProjectDoor!NobodyStale
<1>1. ProjectDoor!Init => Fresh
  BY DEF ProjectDoor!Init, ProjectDoor!NobodyStale
<1>2. Fresh /\ [ProjectDoor!Next]_<<GivenProject, sincePermitted>> => Fresh'
  BY SiteGrantsAssumption
     DEF ProjectDoor!Next, ProjectDoor!Admit, ProjectDoor!Leave, ProjectDoor!Entitle, ProjectDoor!Tick,
         ProjectDoor!NobodyStale
<1>3. Fresh => ProjectDoor!NobodyStale
  OBVIOUS
<1> QED BY <1>1, <1>2, <1>3, PTL DEF ProjectDoor!Spec

LEMMA ServiceDoorShuts == ServiceDoor!Spec => []ServiceDoor!NobodyStale
<1> DEFINE Fresh == GivenToken \subseteq Users /\ sinceFit \in [Users -> Nat] /\ ServiceDoor!NobodyStale
<1>1. ServiceDoor!Init => Fresh
  BY DEF ServiceDoor!Init, ServiceDoor!NobodyStale
<1>2. Fresh /\ [ServiceDoor!Next]_<<GivenToken, sinceFit>> => Fresh'
  BY SiteGrantsAssumption
     DEF ServiceDoor!Next, ServiceDoor!Admit, ServiceDoor!Leave, ServiceDoor!Entitle, ServiceDoor!Tick,
         ServiceDoor!NobodyStale
<1>3. Fresh => ServiceDoor!NobodyStale
  OBVIOUS
<1> QED BY <1>1, <1>2, <1>3, PTL DEF ServiceDoor!Spec

\* A page behind the site check is never open to somebody whose permission was taken away
\* longer ago than an entry lives and a lookup takes, or whose session ended longer ago
\* than an entry and two calls: at no moment, and not only when the request was let in.
THEOREM SiteIsShut ==
  SiteSpec => [](PermissionDoor!NobodyStale /\ SessionDoor!NobodyStale)
BY SiteImplementsStaleness, PermissionDoorShuts, SessionDoorShuts, PTL DEF SiteBounded

\* The gateway has no stream open, at any moment, for a token that ended or a permission that
\* was taken away longer ago than an interval and the calls around it; and it refuses
\* nobody whose token was good, and confirmed by Hydra, all the time that a remembered
\* refusal lives and a call takes.
THEOREM GateIsShut ==
  GateSpec => [](TokenDoor!NobodyStale /\ GrantDoor!NobodyStale /\ RefusalDoor!NobodyStale)
BY GateImplementsStaleness, TokenDoorShuts, GrantDoorShuts, RefusalDoorShuts, PTL DEF StreamBounded

\* The tool channel has nobody listening, at any moment, whose token ended longer ago than a
\* remembered answer lives, a heartbeat and its call, and the longer of the call for the
\* identity, before the channel opened, and the life of an answer the heartbeats share.
THEOREM ToolIsShut == ToolSpec => []ChannelDoor!NobodyStale
BY ToolImplementsStaleness, ChannelDoorShuts, PTL DEF ChannelBounded

\* The consent is giving, at any moment, no token for a project to somebody whose permission
\* was taken away longer ago than three calls, nor for a client that was closed to him
\* longer ago than four.
THEOREM ConsentIsShut ==
  ConsentSpec => [](ProjectDoor!NobodyStale /\ ServiceDoor!NobodyStale)
BY ConsentIsBounded, ProjectDoorShuts, ServiceDoorShuts, PTL DEF ConsentBounded, TokensInTime
=============================================================================
