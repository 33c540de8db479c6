-------------------------- MODULE RepoAccessProofs --------------------------
(***************************************************************************)
(* Theorems about RepoAccess, for every set of users, groups and workers,  *)
(* and with no bound on the edits and failures but that there is one.      *)
(***************************************************************************)
EXTENDS RepoAccess, TLAPS

USE RepoAccessAssumption

-----------------------------------------------------------------------------
(* What the records of the syncs are made of.                              *)

\* The records that the steps build from nothing are well formed.
LEMMA FreshRecords ==
  /\ IdleSync \in SyncRecords
  /\ Syncing \in SyncRecords
  /\ \A sub \in Subjects, pc \in Stages : At(pc, sub) \in SyncRecords
<1>1. Everyone \in Subjects /\ NoRows \in [Subjects -> Levels] /\ NoLevels \in [Users -> Levels]
  BY DEF Subjects, NoRows, NoLevels, Levels
<1>2. 0 \in Levels
  BY DEF Levels
<1>3. IdleSync \in SyncRecords
  BY <1>1, <1>2 DEF IdleSync, SyncRecords, Stages
<1>4. Syncing \in SyncRecords
  BY <1>1, <1>2 DEF Syncing, IdleSync, SyncRecords, Stages
<1>5. ASSUME NEW sub \in Subjects, NEW pc \in Stages
      PROVE  At(pc, sub) \in SyncRecords
  BY <1>1, <1>2, <1>5 DEF At, IdleSync, SyncRecords
<1>6. QED
  BY <1>3, <1>4, <1>5

\* Replacing the record of one sync, and marking the others as disturbed,
\* keeps the records well formed.
LEMMA ReplacedRecord ==
  ASSUME NEW f \in [Syncs -> SyncRecords], NEW s \in Syncs, NEW r \in SyncRecords
  PROVE  [f EXCEPT ![s] = r] \in [Syncs -> SyncRecords]
OBVIOUS

LEMMA DisturbedRecords ==
  ASSUME NEW f \in [Syncs -> SyncRecords], NEW by
  PROVE  Disturbed(f, by) \in [Syncs -> SyncRecords]
<1>1. ASSUME NEW r \in SyncRecords
      PROVE  [r EXCEPT !.clean = FALSE] \in SyncRecords
  BY <1>1 DEF SyncRecords
<1>2. QED
  BY <1>1 DEF Disturbed

-----------------------------------------------------------------------------
(* Type correctness.                                                       *)

LEMMA TypeInit == Init => TypeOK
<1>1. NoRows \in [Subjects -> Levels] /\ NoLevels \in [Users -> Levels]
  BY DEF NoRows, NoLevels, Levels
<1>2. IdleFan \in [pc : {"idle", "lookup", "put"}, level : Levels]
  BY DEF IdleFan, Levels
<1>3. QED
  BY <1>1, <1>2, FreshRecords DEF Init, TypeOK

LEMMA TypeStep == TypeOK /\ [Next]_vars => TypeOK'
<1> SUFFICES ASSUME TypeOK, [Next]_vars
             PROVE  TypeOK'
  OBVIOUS
<1> USE DEF dbVars, giteaVars, historyVars, boundVars
<1>l. GrantLevels \subseteq Levels /\ 0 \in Levels
  BY DEF Levels
<1>w. \A w \in Workers : w \in Syncs
  BY DEF Syncs
<1>s. ASSUME NEW s \in Syncs
      PROVE  sync[s] \in SyncRecords
  BY <1>s DEF TypeOK
<1>e. ASSUME Edit PROVE edits' \in 0..MaxEdits
  BY <1>e DEF TypeOK, Edit
<1>f. ASSUME Fail PROVE failures' \in 0..MaxFailures
  BY <1>f DEF TypeOK, Fail
<1>1. ASSUME NEW w \in Workers, NEW sub \in Subjects, NEW l \in GrantLevels,
             RequestGrant(w, sub, l)
      PROVE  TypeOK'
  <2> DEFINE r == [At("upsert", sub) EXCEPT !.level = l]
  <2>1. At("upsert", sub) \in SyncRecords
    BY FreshRecords DEF Stages
  <2>2. r \in SyncRecords
    BY <2>1, <1>l DEF SyncRecords
  <2>3. sync' = [sync EXCEPT ![w] = r]
    BY <1>1 DEF RequestGrant
  <2>4. sync' \in [Syncs -> SyncRecords]
    BY <2>2, <2>3, <1>w, ReplacedRecord DEF TypeOK
  <2>5. QED
    BY <2>4, <1>1, <1>e DEF RequestGrant, TypeOK
<1>2. ASSUME NEW w \in Workers, SetGrantFacet(w)
      PROVE  TypeOK'
  <2>1. sync[w].subject \in Subjects /\ sync[w].level \in Levels
    BY <1>w, <1>s DEF SyncRecords
  <2>2. [sync EXCEPT ![w] = Syncing] \in [Syncs -> SyncRecords]
    BY <1>w, FreshRecords, ReplacedRecord DEF TypeOK
  <2>3. sync' \in [Syncs -> SyncRecords]
    <3>1. sync' = Disturbed([sync EXCEPT ![w] = Syncing], w)
      BY <1>2 DEF SetGrantFacet
    <3>2. QED
      BY <2>2, <3>1, DisturbedRecords
  <2>4. grants' \in [Subjects -> Levels] /\ everGranted' \subseteq Subjects \X Levels
    BY <2>1, <1>2 DEF SetGrantFacet, TypeOK
  <2>5. QED
    BY <2>3, <2>4, <1>2 DEF SetGrantFacet, TypeOK
<1>3. ASSUME NEW w \in Workers, NEW sub \in Subjects, RevokeGrant(w, sub)
      PROVE  TypeOK'
  <2>1. [sync EXCEPT ![w] = Syncing] \in [Syncs -> SyncRecords]
    BY <1>w, FreshRecords, ReplacedRecord DEF TypeOK
  <2>2. sync' \in [Syncs -> SyncRecords]
    <3>1. sync' = Disturbed([sync EXCEPT ![w] = Syncing], w)
      BY <1>3 DEF RevokeGrant
    <3>2. QED
      BY <2>1, <3>1, DisturbedRecords
  <2>3. QED
    BY <2>2, <1>3, <1>e, <1>l DEF RevokeGrant, TypeOK
<1>4. ASSUME NEW w \in Workers, NEW g \in Groups, NEW u \in Users,
             AddMember(w, g, u) \/ RemoveMember(w, g, u)
      PROVE  TypeOK'
  <2>1. At("lookup", g) \in SyncRecords
    BY FreshRecords DEF Stages, Subjects
  <2>2. [sync EXCEPT ![w] = At("lookup", g)] \in [Syncs -> SyncRecords]
    BY <2>1, <1>w, ReplacedRecord DEF TypeOK
  <2>3. sync' \in [Syncs -> SyncRecords]
    <3>1. sync' = Disturbed([sync EXCEPT ![w] = At("lookup", g)], w)
      BY <1>4 DEF AddMember, RemoveMember
    <3>2. QED
      BY <2>2, <3>1, DisturbedRecords
  <2>4. CASE AddMember(w, g, u)
    BY <2>3, <2>4, <1>e DEF AddMember, TypeOK
  <2>5. CASE RemoveMember(w, g, u)
    BY <2>3, <2>5, <1>e DEF RemoveMember, TypeOK
  <2>6. QED
    BY <2>4, <2>5, <1>4
<1>5. ASSUME NEW w \in Workers, NEW g \in Groups, DeleteGroup(w, g)
      PROVE  TypeOK'
  <2> DEFINE r(affected) == [At("dropGrants", g) EXCEPT !.affected = affected]
  <2>1. At("dropGrants", g) \in SyncRecords
    BY FreshRecords DEF Stages, Subjects
  <2>2. r(grants[g] # 0) \in SyncRecords /\ r(FALSE) \in SyncRecords
    BY <2>1 DEF SyncRecords
  <2>3. \/ sync' = [sync EXCEPT ![w] = r(grants[g] # 0)]
        \/ sync' = [sync EXCEPT ![w] = r(FALSE)]
    BY <1>5 DEF DeleteGroup
  <2> HIDE DEF r
  <2>4. sync' \in [Syncs -> SyncRecords]
    <3>1. CASE sync' = [sync EXCEPT ![w] = r(grants[g] # 0)]
      BY <3>1, <2>2, <1>w, ReplacedRecord DEF TypeOK
    <3>2. CASE sync' = [sync EXCEPT ![w] = r(FALSE)]
      BY <3>2, <2>2, <1>w, ReplacedRecord DEF TypeOK
    <3>3. QED
      BY <2>3, <3>1, <3>2
  <2>5. failures' \in 0..MaxFailures
    BY <1>5, <1>f DEF DeleteGroup, TypeOK
  <2>6. QED
    BY <2>4, <2>5, <1>5, <1>e DEF DeleteGroup, TypeOK
<1>6. ASSUME NEW w \in Workers, Lookup(w)
      PROVE  TypeOK'
  <2>1. \E r \in SyncRecords : sync' = [sync EXCEPT ![w] = r]
    BY <1>6, FreshRecords DEF Lookup
  <2>2. sync' \in [Syncs -> SyncRecords]
    BY <2>1, <1>w, ReplacedRecord DEF TypeOK
  <2>3. QED
    BY <2>2, <1>6 DEF Lookup, TypeOK
<1>7. ASSUME NEW w \in Workers, DropGrants(w)
      PROVE  TypeOK'
  <2> DEFINE r == [sync[w] EXCEPT !.pc = "dropGroup"]
  <2>1. r \in SyncRecords
    BY <1>w, <1>s DEF SyncRecords, Stages
  <2>2. [sync EXCEPT ![w] = r] \in [Syncs -> SyncRecords]
    BY <2>1, <1>w, ReplacedRecord DEF TypeOK
  <2>3. sync' = Disturbed([sync EXCEPT ![w] = r], w)
    BY <1>7, <1>w DEF DropGrants, TypeOK
  <2>4. sync' \in [Syncs -> SyncRecords]
    BY <2>2, <2>3, DisturbedRecords
  <2>5. grants' \in [Subjects -> Levels]
    BY <1>7, <1>l DEF DropGrants, TypeOK
  <2>6. QED
    BY <2>4, <2>5, <1>7 DEF DropGrants, TypeOK
<1>8. ASSUME NEW w \in Workers, DropGroup(w)
      PROVE  TypeOK'
  <2> DEFINE r == IF sync[w].affected THEN Syncing ELSE IdleSync
  <2>1. [sync EXCEPT ![w] = r] \in [Syncs -> SyncRecords]
    BY <1>w, FreshRecords, ReplacedRecord DEF TypeOK
  <2>2. sync' \in [Syncs -> SyncRecords]
    BY <2>1, <1>8, DisturbedRecords DEF DropGroup
  <2>3. live' \subseteq Groups /\ members' \in [Groups -> SUBSET Users]
    BY <1>8 DEF DropGroup, TypeOK
  <2>4. QED
    BY <2>2, <2>3, <1>8 DEF DropGroup, TypeOK
<1>9. ASSUME NEW u \in Users, Provision(u)
      PROVE  TypeOK'
  <2>1. fan' \in [Users -> [pc : {"idle", "lookup", "put"}, level : Levels]]
    BY <1>9 DEF Provision, TypeOK
  <2>2. failures' \in 0..MaxFailures
    BY <1>9, <1>f DEF Provision, TypeOK
  <2>3. QED
    BY <2>1, <2>2, <1>9, <1>e DEF Provision, TypeOK
<1>10. ASSUME NEW u \in Users, FanLookup(u)
       PROVE  TypeOK'
  <2>1. grants[Everyone] \in Levels
    BY DEF TypeOK, Subjects
  <2> DEFINE FanRecords == [pc : {"idle", "lookup", "put"}, level : Levels]
             r == IF grants[Everyone] # 0 /\ u # Owner
                  THEN [pc |-> "put", level |-> grants[Everyone]] ELSE IdleFan
  <2>r. r \in FanRecords
    BY <2>1, <1>l DEF IdleFan
  <2>2. fan' \in [Users -> FanRecords]
    BY <2>r, <1>10 DEF FanLookup, TypeOK
  <2>3. QED
    BY <2>2, <1>10 DEF FanLookup, TypeOK
<1>11. ASSUME NEW u \in Users, FanPut(u)
       PROVE  TypeOK'
  <2>1. sync' \in [Syncs -> SyncRecords]
    BY <1>11, DisturbedRecords DEF FanPut, TypeOK
  <2>2. fan[u].level \in Levels
    BY DEF TypeOK
  <2>3. collab' \in [Users -> Levels]
    BY <2>2, <1>11 DEF FanPut, TypeOK
  <2>4. fan' \in [Users -> [pc : {"idle", "lookup", "put"}, level : Levels]]
    BY <1>11, <1>l DEF FanPut, IdleFan, TypeOK
  <2>5. QED
    BY <2>1, <2>3, <2>4, <1>11 DEF FanPut, TypeOK
<1>12. ASSUME NEW u \in Users, FanPutFails(u)
       PROVE  TypeOK'
  <2>1. fan' \in [Users -> [pc : {"idle", "lookup", "put"}, level : Levels]]
    BY <1>12, <1>l DEF FanPutFails, IdleFan, TypeOK
  <2>2. QED
    BY <2>1, <1>12, <1>f DEF FanPutFails, TypeOK
<1>13. ASSUME NEW u \in Users, NEW l \in GrantLevels \cup {0}, EditByHand(u, l)
       PROVE  TypeOK'
  <2>1. sync' \in [Syncs -> SyncRecords]
    BY <1>13, DisturbedRecords DEF EditByHand, TypeOK
  <2>2. QED
    BY <2>1, <1>13, <1>e, <1>l DEF EditByHand, TypeOK
<1>14. ASSUME PublishByHand
       PROVE  TypeOK'
  BY <1>14, <1>e DEF PublishByHand, TypeOK
<1>15. ASSUME Restart
       PROVE  TypeOK'
  <2>1. sync' \in [Syncs -> SyncRecords]
    BY <1>15, FreshRecords DEF Restart
  <2>2. fan' \in [Users -> [pc : {"idle", "lookup", "put"}, level : Levels]]
    BY <1>15, <1>l DEF Restart, IdleFan
  <2>3. QED
    BY <2>1, <2>2, <1>15, <1>f DEF Restart, TypeOK
<1>16. ASSUME StartSweep
       PROVE  TypeOK'
  <2>1. sync' \in [Syncs -> SyncRecords]
    BY <1>16, FreshRecords, ReplacedRecord DEF StartSweep, Syncs, TypeOK
  <2>2. QED
    BY <2>1, <1>16 DEF StartSweep, TypeOK
<1>17. ASSUME NEW s \in Syncs, SetVisibility(s)
       PROVE  TypeOK'
  <2>1. \A r \in SyncRecords : /\ [r EXCEPT !.pc = "grants"] \in SyncRecords
                               /\ [r EXCEPT !.pc = "grants", !.errors = TRUE] \in SyncRecords
    BY DEF SyncRecords, Stages
  <2>2. \E r \in SyncRecords : sync' = [sync EXCEPT ![s] = r]
    BY <2>1, <1>17, <1>s DEF SetVisibility, TypeOK
  <2>3. sync' \in [Syncs -> SyncRecords]
    BY <2>2, ReplacedRecord DEF TypeOK
  <2>4. private' \in BOOLEAN /\ failures' \in 0..MaxFailures
    BY <1>17, <1>f DEF SetVisibility, TypeOK
  <2>5. QED
    BY <2>3, <2>4, <1>17 DEF SetVisibility, TypeOK
<1>18. ASSUME NEW s \in Syncs, ReadGrants(s)
       PROVE  TypeOK'
  <2> DEFINE r == [sync[s] EXCEPT !.pc = "expand", !.rows = grants, !.clean = TRUE]
  <2>0. grants \in [Subjects -> Levels]
    BY DEF TypeOK
  <2>1. r \in SyncRecords
    BY ZenonT(30), <2>0, <1>s DEF SyncRecords, Stages
  <2>2. sync' = [sync EXCEPT ![s] = r]
    BY <1>18 DEF ReadGrants, TypeOK
  <2>3. sync' \in [Syncs -> SyncRecords]
    BY <2>1, <2>2, ReplacedRecord DEF TypeOK
  <2>4. QED
    BY <2>3, <1>18 DEF ReadGrants, TypeOK
<1>19. ASSUME NEW s \in Syncs, NEW sub \in Subjects, Expand(s, sub)
       PROVE  TypeOK'
  <2> DEFINE bumped == Bumped(sync[s].desired, sub, sync[s].rows[sub])
             r == [sync[s] EXCEPT !.rows[sub] = 0, !.desired = bumped]
  <2>1. sync[s].rows \in [Subjects -> Levels] /\ sync[s].desired \in [Users -> Levels]
    BY <1>s DEF SyncRecords
  <2>2. bumped \in [Users -> Levels]
    BY <2>1 DEF Bumped
  <2>3. r \in SyncRecords
    BY <2>1, <2>2, <1>s, <1>l DEF SyncRecords
  <2>4. sync' = [sync EXCEPT ![s] = r]
    BY <1>19 DEF Expand, TypeOK
  <2>5. sync' \in [Syncs -> SyncRecords]
    BY <2>3, <2>4, ReplacedRecord DEF TypeOK
  <2>6. QED
    BY <2>5, <1>19 DEF Expand, TypeOK
<1>20. ASSUME NEW s \in Syncs, NEW misread, List(s, misread)
       PROVE  TypeOK'
  <2> DEFINE current == Listed(misread)
             r == [sync[s] EXCEPT !.pc = "apply", !.desired = Wanted(s),
                                  !.adds = ToSet(Wanted(s), current),
                                  !.drops = ToRemove(Wanted(s), current),
                                  !.misread = (misread # {})]
  <2>1. Wanted(s) \in [Users -> Levels]
    BY <1>s, <1>l DEF Wanted, SyncRecords
  <2>2. ToSet(Wanted(s), current) \subseteq Users /\ ToRemove(Wanted(s), current) \subseteq Users
    BY DEF ToSet, ToRemove
  <2> HIDE DEF current
  <2>3. r \in SyncRecords
    BY ZenonT(30), <2>1, <2>2, <1>s DEF SyncRecords, Stages
  <2>4. sync' = [sync EXCEPT ![s] = r]
    BY <1>20 DEF List, TypeOK, current
  <2>5. sync' \in [Syncs -> SyncRecords]
    BY <2>3, <2>4, ReplacedRecord DEF TypeOK
  <2>6. failures' \in 0..MaxFailures
    BY <1>20, <1>f DEF List, TypeOK
  <2>7. QED
    BY <2>5, <2>6, <1>20 DEF List, TypeOK
<1>21. ASSUME NEW s \in Syncs, CallThrows(s) \/ Return(s)
       PROVE  TypeOK'
  <2>1. sync' \in [Syncs -> SyncRecords]
    BY <1>21, FreshRecords, ReplacedRecord DEF CallThrows, Return, TypeOK
  <2>2. CASE CallThrows(s)
    BY <2>1, <2>2, <1>f DEF CallThrows, TypeOK
  <2>3. CASE Return(s)
    BY <2>1, <2>3 DEF Return, TypeOK
  <2>4. QED
    BY <2>2, <2>3, <1>21
<1>22. ASSUME NEW s \in Syncs, NEW u \in Users, SetCollaborator(s, u)
       PROVE  TypeOK'
  <2> DEFINE r == [sync[s] EXCEPT !.adds = @ \ {u}]
  <2>1. r \in SyncRecords
    BY <1>s DEF SyncRecords
  <2>2. [sync EXCEPT ![s] = r] \in [Syncs -> SyncRecords]
    BY <2>1, ReplacedRecord DEF TypeOK
  <2>3. sync' = Disturbed([sync EXCEPT ![s] = r], s)
    BY <1>22 DEF SetCollaborator, TypeOK
  <2>4. sync' \in [Syncs -> SyncRecords]
    BY <2>2, <2>3, DisturbedRecords
  <2>5. sync[s].desired[u] \in Levels
    BY <1>s DEF SyncRecords
  <2>6. collab' \in [Users -> Levels]
    BY <2>5, <1>22 DEF SetCollaborator, TypeOK
  <2>7. QED
    BY <2>4, <2>6, <1>22 DEF SetCollaborator, TypeOK
<1>23. ASSUME NEW s \in Syncs, NEW u \in Users, RemoveCollaborator(s, u)
       PROVE  TypeOK'
  <2> DEFINE r == [sync[s] EXCEPT !.drops = @ \ {u}]
  <2>1. r \in SyncRecords
    BY <1>s DEF SyncRecords
  <2>2. [sync EXCEPT ![s] = r] \in [Syncs -> SyncRecords]
    BY <2>1, ReplacedRecord DEF TypeOK
  <2>3. sync' = Disturbed([sync EXCEPT ![s] = r], s)
    BY <1>23 DEF RemoveCollaborator, TypeOK
  <2>4. sync' \in [Syncs -> SyncRecords]
    BY <2>2, <2>3, DisturbedRecords
  <2>5. collab' \in [Users -> Levels]
    BY <1>23, <1>l DEF RemoveCollaborator, TypeOK
  <2>6. QED
    BY <2>4, <2>5, <1>23 DEF RemoveCollaborator, TypeOK
<1>24. ASSUME NEW s \in Syncs, NEW u \in Users, SetFails(s, u) \/ RemoveFails(s, u)
       PROVE  TypeOK'
  <2>1. /\ [sync[s] EXCEPT !.adds = @ \ {u}, !.errors = TRUE] \in SyncRecords
        /\ [sync[s] EXCEPT !.drops = @ \ {u}, !.errors = TRUE] \in SyncRecords
    BY <1>s DEF SyncRecords
  <2>2. \E r \in SyncRecords : sync' = [sync EXCEPT ![s] = r]
    BY <2>1, <1>24 DEF SetFails, RemoveFails, TypeOK
  <2>3. sync' \in [Syncs -> SyncRecords]
    BY <2>2, ReplacedRecord DEF TypeOK
  <2>4. CASE SetFails(s, u)
    BY <2>3, <2>4, <1>f DEF SetFails, TypeOK
  <2>5. CASE RemoveFails(s, u)
    BY <2>3, <2>5, <1>f DEF RemoveFails, TypeOK
  <2>6. QED
    BY <2>4, <2>5, <1>24
<1>25. CASE UNCHANGED vars
  BY <1>25 DEF vars, TypeOK
<1>26. QED
  BY <1>1, <1>2, <1>3, <1>4, <1>5, <1>6, <1>7, <1>8, <1>9, <1>10, <1>11, <1>12,
     <1>13, <1>14, <1>15, <1>16, <1>17, <1>18, <1>19, <1>20, <1>21, <1>22, <1>23,
     <1>24, <1>25
     DEF Next, Request, Outside, SyncStep, WorkerStep, FanStep

\* Every reachable state has its variables in their sets: the levels stay in
\* 0..3, the syncs stay well-formed records, whatever the interleaving.
THEOREM TypeCorrect == Spec => []TypeOK
BY TypeInit, TypeStep, PTL DEF Spec

-----------------------------------------------------------------------------
(* What a step does to the records of the syncs, in the terms the          *)
(* invariants use.                                                         *)

PolicyAndList == <<grants, members, collab>>

\* A sync that has computed nothing yet.
Empty(r) ==
  /\ r.rows = NoRows /\ r.desired = NoLevels /\ r.adds = {} /\ r.drops = {}
  /\ r.clean = FALSE /\ r.pc \notin {"expand", "apply"}

\* Record q of a sync follows r without having computed anything more.
Kept(r, q) ==
  /\ q.rows = r.rows /\ q.desired = r.desired /\ q.adds = r.adds /\ q.drops = r.drops
  /\ q.clean => r.clean
  /\ r.pc \in {"expand", "apply"} => q.pc = r.pc
  /\ q.pc \in {"visibility", "grants"} => r.pc \in {"visibility", "grants"}
  /\ q.pc = "apply" => r.pc = "apply" /\ q.errors = r.errors /\ q.misread = r.misread

\* A clean record only survives a step that leaves the policy and the list.
Carried(t) ==
  \/ Empty(sync'[t])
  \/ Kept(sync[t], sync'[t]) /\ (sync'[t].clean => UNCHANGED PolicyAndList)

CleanStages == \A s \in Syncs : sync[s].clean => sync[s].pc \in {"expand", "apply"}

LEMMA FreshEmpty ==
  /\ Empty(IdleSync) /\ Empty(Syncing)
  /\ \A sub, pc : pc \notin {"expand", "apply"} => Empty(At(pc, sub))
BY DEF Empty, IdleSync, Syncing, At

\* Marking records as disturbed keeps all they have computed.
LEMMA DisturbedKept ==
  ASSUME NEW f \in [Syncs -> SyncRecords], NEW by, NEW t \in Syncs
  PROVE  /\ t = by => Disturbed(f, by)[t] = f[t]
         /\ t # by => Kept(f[t], Disturbed(f, by)[t]) /\ ~Disturbed(f, by)[t].clean
<1>1. Disturbed(f, by)[t] = IF t = by THEN f[t] ELSE [f[t] EXCEPT !.clean = FALSE]
  BY DEF Disturbed
<1>2. f[t] \in SyncRecords
  OBVIOUS
<1>3. Kept(f[t], [f[t] EXCEPT !.clean = FALSE]) /\ ~[f[t] EXCEPT !.clean = FALSE].clean
  BY <1>2 DEF Kept, SyncRecords
<1>4. QED
  BY <1>1, <1>3

\* A step that gives sync w a fresh record and disturbs the others carries all.
LEMMA FreshCarried ==
  ASSUME TypeOK, NEW w \in Syncs, NEW r \in SyncRecords, Empty(r),
         \/ sync' = Disturbed([sync EXCEPT ![w] = r], w)
         \/ sync' = [sync EXCEPT ![w] = r] /\ UNCHANGED PolicyAndList,
         NEW t \in Syncs
  PROVE  Carried(t)
<1>0. sync \in [Syncs -> SyncRecords] /\ [sync EXCEPT ![w] = r] \in [Syncs -> SyncRecords]
  BY ReplacedRecord DEF TypeOK
<1>1. CASE sync' = Disturbed([sync EXCEPT ![w] = r], w)
  <2>1. CASE t = w
    BY <1>0, <1>1, <2>1, DisturbedKept DEF Carried
  <2>2. CASE t # w
    <3>1. [sync EXCEPT ![w] = r][t] = sync[t]
      BY <1>0, <2>2
    <3>2. QED
      BY <1>0, <1>1, <2>2, <3>1, DisturbedKept DEF Carried
  <2>3. QED
    BY <2>1, <2>2
<1>2. CASE sync' = [sync EXCEPT ![w] = r] /\ UNCHANGED PolicyAndList
  <2>1. CASE t = w
    BY <1>0, <1>2, <2>1 DEF Carried
  <2>2. CASE t # w
    <3>1. sync'[t] = sync[t]
      BY <1>0, <1>2, <2>2
    <3>2. QED
      BY <3>1, <1>2 DEF Carried, Kept
  <2>3. QED
    BY <2>1, <2>2
<1>3. QED
  BY <1>1, <1>2

\* So does a step that only disturbs, or leaves the syncs alone.
LEMMA QuietCarried ==
  ASSUME TypeOK,
         \/ \E by : by \notin Syncs /\ sync' = Disturbed(sync, by)
         \/ sync' = sync /\ UNCHANGED PolicyAndList,
         NEW t \in Syncs
  PROVE  Carried(t)
<1>1. CASE \E by : by \notin Syncs /\ sync' = Disturbed(sync, by)
  <2>1. PICK by : by \notin Syncs /\ sync' = Disturbed(sync, by)
    BY <1>1
  <2>2. QED
    BY <2>1, DisturbedKept DEF Carried, TypeOK
<1>2. CASE sync' = sync /\ UNCHANGED PolicyAndList
  BY <1>2 DEF Carried, Kept
<1>3. QED
  BY <1>1, <1>2

\* The steps of a sync that compute, and all the others.
Computing(s) ==
  \/ ReadGrants(s)
  \/ \E sub \in Subjects : Expand(s, sub)
  \/ \E misread \in SUBSET Users : List(s, misread)
  \/ \E u \in Users : \/ SetCollaborator(s, u) \/ SetFails(s, u)
                      \/ RemoveCollaborator(s, u) \/ RemoveFails(s, u)
Plain ==
  \/ Request \/ Outside \/ StartSweep
  \/ \E w \in Workers : WorkerStep(w)
  \/ \E u \in Users : FanStep(u)
  \/ \E s \in Syncs : SetVisibility(s) \/ CallThrows(s) \/ Return(s)

LEMMA StepKinds == Next => Plain \/ \E s \in Syncs : Computing(s)
<1>1. ASSUME NEW s \in Syncs
      PROVE  SyncStep(s) => SetVisibility(s) \/ CallThrows(s) \/ Return(s) \/ Computing(s)
  BY DEF SyncStep, Computing
<1>2. QED
  BY <1>1 DEF Next, Plain

LEMMA PlainCarried ==
  ASSUME TypeOK, CleanStages, Plain, NEW t \in Syncs
  PROVE  Carried(t)
<1> USE DEF dbVars, giteaVars, historyVars, boundVars, PolicyAndList
<1>w. \A w \in Workers : w \in Syncs
  BY DEF Syncs
<1>n. Everyone \notin Syncs
  OBVIOUS
<1>s. ASSUME NEW s \in Syncs
      PROVE  sync[s] \in SyncRecords
  BY <1>s DEF TypeOK
<1>1. ASSUME NEW w \in Workers, NEW sub \in Subjects, NEW l \in GrantLevels,
             RequestGrant(w, sub, l)
      PROVE  Carried(t)
  <2> DEFINE r == [At("upsert", sub) EXCEPT !.level = l]
  <2>1. At("upsert", sub) \in SyncRecords /\ Empty(At("upsert", sub))
    BY FreshRecords, FreshEmpty DEF Stages
  <2>2. l \in Levels
    BY DEF Levels
  <2>3. r \in SyncRecords /\ Empty(r)
    BY <2>1, <2>2 DEF SyncRecords, Empty
  <2>4. sync' = [sync EXCEPT ![w] = r] /\ UNCHANGED PolicyAndList
    BY <1>1 DEF RequestGrant
  <2> HIDE DEF r
  <2>5. QED
    BY <2>3, <2>4, <1>w, FreshCarried
<1>2. ASSUME NEW w \in Workers, NEW sub \in Subjects, SetGrantFacet(w) \/ RevokeGrant(w, sub)
      PROVE  Carried(t)
  <2>1. sync' = Disturbed([sync EXCEPT ![w] = Syncing], w)
    BY <1>2 DEF SetGrantFacet, RevokeGrant
  <2>2. QED
    BY <2>1, <1>w, FreshRecords, FreshEmpty, FreshCarried
<1>3. ASSUME NEW w \in Workers, NEW g \in Groups, NEW u \in Users,
             AddMember(w, g, u) \/ RemoveMember(w, g, u)
      PROVE  Carried(t)
  <2>1. sync' = Disturbed([sync EXCEPT ![w] = At("lookup", g)], w)
    BY <1>3 DEF AddMember, RemoveMember
  <2>2. At("lookup", g) \in SyncRecords /\ Empty(At("lookup", g))
    BY FreshRecords, FreshEmpty DEF Stages, Subjects
  <2>3. QED
    BY <2>1, <2>2, <1>w, FreshCarried
<1>4. ASSUME NEW w \in Workers, NEW g \in Groups, DeleteGroup(w, g)
      PROVE  Carried(t)
  <2> DEFINE r(affected) == [At("dropGrants", g) EXCEPT !.affected = affected]
  <2>1. At("dropGrants", g) \in SyncRecords /\ Empty(At("dropGrants", g))
    BY FreshRecords, FreshEmpty DEF Stages, Subjects
  <2>2. /\ r(grants[g] # 0) \in SyncRecords /\ Empty(r(grants[g] # 0))
        /\ r(FALSE) \in SyncRecords /\ Empty(r(FALSE))
    BY <2>1 DEF SyncRecords, Empty
  <2>3. /\ UNCHANGED PolicyAndList
        /\ \/ sync' = [sync EXCEPT ![w] = r(grants[g] # 0)]
           \/ sync' = [sync EXCEPT ![w] = r(FALSE)]
    BY <1>4 DEF DeleteGroup
  <2> HIDE DEF r
  <2>4. QED
    BY <2>2, <2>3, <1>w, FreshCarried
<1>5. ASSUME NEW w \in Workers, Lookup(w)
      PROVE  Carried(t)
  <2>1. UNCHANGED PolicyAndList
    BY <1>5 DEF Lookup
  <2>2. CASE grants[sync[w].subject] # 0
    <3>1. sync' = [sync EXCEPT ![w] = Syncing]
      BY <1>5, <2>2 DEF Lookup
    <3>2. QED
      BY <2>1, <3>1, <1>w, FreshRecords, FreshEmpty, FreshCarried
  <2>3. CASE grants[sync[w].subject] = 0
    <3>1. sync' = [sync EXCEPT ![w] = IdleSync]
      BY <1>5, <2>3 DEF Lookup
    <3>2. QED
      BY <2>1, <3>1, <1>w, FreshRecords, FreshEmpty, FreshCarried
  <2>4. QED
    BY <2>2, <2>3
<1>6. ASSUME NEW w \in Workers, DropGrants(w)
      PROVE  Carried(t)
  <2> DEFINE r == [sync[w] EXCEPT !.pc = "dropGroup"]
             f == [sync EXCEPT ![w] = r]
  <2>r. r \in SyncRecords
    BY <1>w, <1>s DEF SyncRecords, Stages
  <2>1. f \in [Syncs -> SyncRecords]
    BY <2>r, <1>w, ReplacedRecord DEF TypeOK
  <2>2. sync' = Disturbed(f, w)
    BY <1>6, <1>w DEF DropGrants, TypeOK
  <2>3. CASE t = w
    <3>1. sync'[t] = f[t]
      BY <2>1, <2>2, <2>3, DisturbedKept
    <3>2. sync[t].pc = "dropGrants" /\ ~sync[t].clean
      BY <1>6, <2>3 DEF DropGrants, CleanStages
    <3>3. f[t] = [sync[t] EXCEPT !.pc = "dropGroup"]
      BY <2>3 DEF TypeOK
    <3>4. sync[t] \in SyncRecords
      BY <1>s
    <3>5. Kept(sync[t], [sync[t] EXCEPT !.pc = "dropGroup"])
            /\ ~[sync[t] EXCEPT !.pc = "dropGroup"].clean
      BY <3>2, <3>4 DEF Kept, SyncRecords
    <3>6. QED
      BY <3>1, <3>3, <3>5 DEF Carried
  <2>4. CASE t # w
    <3>1. f[t] = sync[t]
      BY <2>4 DEF TypeOK
    <3>2. QED
      BY <2>1, <2>2, <2>4, <3>1, DisturbedKept DEF Carried
  <2>5. QED
    BY <2>3, <2>4
<1>7. ASSUME NEW w \in Workers, DropGroup(w)
      PROVE  Carried(t)
  <2>1. \/ sync' = Disturbed([sync EXCEPT ![w] = Syncing], w)
        \/ sync' = Disturbed([sync EXCEPT ![w] = IdleSync], w)
    BY <1>7 DEF DropGroup
  <2>2. QED
    BY <2>1, <1>w, FreshRecords, FreshEmpty, FreshCarried
<1>8. ASSUME NEW u \in Users, NEW l, Provision(u) \/ FanStep(u) \/ EditByHand(u, l) \/ PublishByHand
      PROVE  Carried(t)
  <2>1. \/ sync' = Disturbed(sync, Everyone)
        \/ sync' = sync /\ UNCHANGED PolicyAndList
    BY <1>8 DEF Provision, FanStep, FanLookup, FanPut, FanPutFails, EditByHand, PublishByHand
  <2>2. QED
    BY <2>1, <1>n, QuietCarried
<1>9. CASE Restart
  <2>1. sync'[t] = IdleSync
    BY <1>9 DEF Restart
  <2>2. QED
    BY <2>1, FreshEmpty DEF Carried
<1>10. CASE StartSweep
  <2>1. sync' = [sync EXCEPT ![Sweeper] = Syncing] /\ UNCHANGED PolicyAndList
    BY <1>10 DEF StartSweep
  <2>2. Sweeper \in Syncs
    BY DEF Syncs
  <2>3. QED
    BY <2>1, <2>2, FreshRecords, FreshEmpty, FreshCarried
<1>11. ASSUME NEW s \in Syncs, CallThrows(s) \/ Return(s)
       PROVE  Carried(t)
  <2>1. sync' = [sync EXCEPT ![s] = IdleSync] /\ UNCHANGED PolicyAndList
    BY <1>11 DEF CallThrows, Return
  <2>2. QED
    BY <2>1, FreshRecords, FreshEmpty, FreshCarried
<1>12. ASSUME NEW s \in Syncs, SetVisibility(s)
       PROVE  Carried(t)
  <2>1. UNCHANGED PolicyAndList
    BY <1>12 DEF SetVisibility
  <2>2. CASE t # s
    <3>1. sync'[t] = sync[t]
      BY <1>12, <2>2 DEF SetVisibility, TypeOK
    <3>2. QED
      BY <2>1, <3>1 DEF Carried, Kept
  <2>3. CASE t = s
    <3>1. \/ sync'[t] = [sync[t] EXCEPT !.pc = "grants"]
          \/ sync'[t] = [sync[t] EXCEPT !.pc = "grants", !.errors = TRUE]
      BY <1>12, <2>3 DEF SetVisibility, TypeOK
    <3>2. sync[t].pc = "visibility" /\ sync[t] \in SyncRecords
      BY <1>12, <2>3, <1>s DEF SetVisibility
    <3>3. Kept(sync[t], sync'[t])
      BY <3>1, <3>2 DEF Kept, SyncRecords
    <3>4. QED
      BY <2>1, <3>3 DEF Carried
  <2>4. QED
    BY <2>2, <2>3
<1>13. CASE Request
  BY <1>13, <1>1, <1>2, <1>3, <1>4 DEF Request
<1>14. CASE Outside
  BY <1>14, <1>8, <1>9 DEF Outside
<1>15. ASSUME NEW w \in Workers, WorkerStep(w)
       PROVE  Carried(t)
  BY <1>15, <1>2, <1>5, <1>6, <1>7, Everyone \in Subjects DEF WorkerStep, Subjects
<1>16. QED
  BY <1>8, <1>10, <1>11, <1>12, <1>13, <1>14, <1>15 DEF Plain

\* A sync that computes carries the others.
LEMMA OthersCarried ==
  ASSUME TypeOK, NEW s \in Syncs, Computing(s), NEW t \in Syncs \ {s}
  PROVE  Carried(t)
<1> USE DEF dbVars, giteaVars, historyVars, boundVars, PolicyAndList
<1>1. ASSUME NEW u \in Users, SetCollaborator(s, u) \/ RemoveCollaborator(s, u)
      PROVE  Carried(t)
  <2>s. sync[s] \in SyncRecords
    BY DEF TypeOK
  <2>1. /\ [sync[s] EXCEPT !.adds = @ \ {u}] \in SyncRecords
        /\ [sync[s] EXCEPT !.drops = @ \ {u}] \in SyncRecords
    BY <2>s DEF SyncRecords
  <2>2. PICK r \in SyncRecords : sync' = Disturbed([sync EXCEPT ![s] = r], s)
    <3>1. CASE SetCollaborator(s, u)
      <4>1. sync' = Disturbed([sync EXCEPT ![s] = [sync[s] EXCEPT !.adds = @ \ {u}]], s)
        BY <3>1 DEF SetCollaborator, TypeOK
      <4>2. QED
        BY <2>1, <4>1
    <3>2. CASE RemoveCollaborator(s, u)
      <4>1. sync' = Disturbed([sync EXCEPT ![s] = [sync[s] EXCEPT !.drops = @ \ {u}]], s)
        BY <3>2 DEF RemoveCollaborator, TypeOK
      <4>2. QED
        BY <2>1, <4>1
    <3>3. QED
      BY <1>1, <3>1, <3>2
  <2>3. [sync EXCEPT ![s] = r] \in [Syncs -> SyncRecords] /\ [sync EXCEPT ![s] = r][t] = sync[t]
    BY ReplacedRecord DEF TypeOK
  <2>4. QED
    BY <2>2, <2>3, DisturbedKept DEF Carried
<1>2. ASSUME ~\E u \in Users : SetCollaborator(s, u) \/ RemoveCollaborator(s, u)
      PROVE  Carried(t)
  <2>1. UNCHANGED PolicyAndList
    BY <1>2 DEF Computing, ReadGrants, Expand, List, SetFails, RemoveFails
  <2>2. sync'[t] = sync[t]
    BY ZenonT(30), <1>2 DEF Computing, ReadGrants, Expand, List, SetFails, RemoveFails, TypeOK
  <2>3. QED
    BY <2>1, <2>2 DEF Carried, Kept
<1>3. QED
  BY <1>1, <1>2

\* A step changes no field of the record of s that matters but these.
SameBut(s, fields) ==
  /\ "rows" \notin fields => sync'[s].rows = sync[s].rows
  /\ "desired" \notin fields => sync'[s].desired = sync[s].desired
  /\ "adds" \notin fields => sync'[s].adds = sync[s].adds
  /\ "drops" \notin fields => sync'[s].drops = sync[s].drops
  /\ "pc" \notin fields => sync'[s].pc = sync[s].pc
  /\ "clean" \notin fields => sync'[s].clean = sync[s].clean
  /\ "errors" \notin fields => sync'[s].errors = sync[s].errors
  /\ "misread" \notin fields => sync'[s].misread = sync[s].misread

\* What a computing step makes of its own record, field by field.
LEMMA ComputedRecord ==
  ASSUME TypeOK, NEW s \in Syncs
  PROVE  /\ ReadGrants(s) => /\ SameBut(s, {"pc", "rows", "clean"})
                             /\ sync'[s].pc = "expand" /\ sync'[s].rows = grants
         /\ \A sub \in Subjects : Expand(s, sub) =>
              /\ SameBut(s, {"rows", "desired"})
              /\ sync'[s].rows = [sync[s].rows EXCEPT ![sub] = 0]
              /\ sync'[s].desired = Bumped(sync[s].desired, sub, sync[s].rows[sub])
         /\ \A misread : List(s, misread) =>
              /\ SameBut(s, {"pc", "desired", "adds", "drops", "misread"})
              /\ sync'[s].pc = "apply" /\ sync'[s].desired = Wanted(s)
              /\ sync'[s].adds = ToSet(Wanted(s), Listed(misread))
              /\ sync'[s].drops = ToRemove(Wanted(s), Listed(misread))
              /\ sync'[s].misread = (misread # {})
         /\ \A u : SetCollaborator(s, u) =>
              SameBut(s, {"adds"}) /\ sync'[s].adds = sync[s].adds \ {u}
         /\ \A u : SetFails(s, u) =>
              SameBut(s, {"adds", "errors"}) /\ sync'[s].errors
         /\ \A u : RemoveCollaborator(s, u) =>
              SameBut(s, {"drops"}) /\ sync'[s].drops = sync[s].drops \ {u}
         /\ \A u : RemoveFails(s, u) =>
              SameBut(s, {"drops", "errors"}) /\ sync'[s].errors
         /\ \A u : SetFails(s, u) => sync'[s].adds = sync[s].adds \ {u}
         /\ \A u : RemoveFails(s, u) => sync'[s].drops = sync[s].drops \ {u}
<1> DEFINE r == sync[s]
<1>0. r \in SyncRecords /\ sync \in [Syncs -> SyncRecords]
  BY DEF TypeOK
<1>1. ReadGrants(s) => sync'[s] = [r EXCEPT !.pc = "expand", !.rows = grants, !.clean = TRUE]
  BY <1>0 DEF ReadGrants
<1>2. \A sub \in Subjects : Expand(s, sub) =>
        sync'[s] = [r EXCEPT !.rows = [r.rows EXCEPT ![sub] = 0],
                             !.desired = Bumped(r.desired, sub, r.rows[sub])]
  BY <1>0 DEF Expand
<1>3. \A misread : List(s, misread) =>
        sync'[s] = [r EXCEPT !.pc = "apply", !.desired = Wanted(s),
                             !.adds = ToSet(Wanted(s), Listed(misread)),
                             !.drops = ToRemove(Wanted(s), Listed(misread)),
                             !.misread = (misread # {})]
  BY <1>0 DEF List
<1>4. \A u : SetFails(s, u) => sync'[s] = [r EXCEPT !.adds = @ \ {u}, !.errors = TRUE]
  BY <1>0 DEF SetFails
<1>5. \A u : RemoveFails(s, u) => sync'[s] = [r EXCEPT !.drops = @ \ {u}, !.errors = TRUE]
  BY <1>0 DEF RemoveFails
<1>6. ASSUME NEW u, SetCollaborator(s, u)
      PROVE  sync'[s] = [r EXCEPT !.adds = @ \ {u}]
  <2>1. sync' = Disturbed([sync EXCEPT ![s].adds = @ \ {u}], s)
    BY <1>6 DEF SetCollaborator
  <2>2. QED
    BY <2>1, <1>0 DEF Disturbed
<1>7. ASSUME NEW u, RemoveCollaborator(s, u)
      PROVE  sync'[s] = [r EXCEPT !.drops = @ \ {u}]
  <2>1. sync' = Disturbed([sync EXCEPT ![s].drops = @ \ {u}], s)
    BY <1>7 DEF RemoveCollaborator
  <2>2. QED
    BY <2>1, <1>0 DEF Disturbed
<1>8. ReadGrants(s) => /\ SameBut(s, {"pc", "rows", "clean"})
                       /\ sync'[s].pc = "expand" /\ sync'[s].rows = grants
  BY <1>0, <1>1 DEF SyncRecords, SameBut
<1>9. ASSUME NEW sub \in Subjects, Expand(s, sub)
      PROVE  /\ SameBut(s, {"rows", "desired"})
             /\ sync'[s].rows = [sync[s].rows EXCEPT ![sub] = 0]
             /\ sync'[s].desired = Bumped(sync[s].desired, sub, sync[s].rows[sub])
  BY ZenonT(30), <1>0, <1>2, <1>9 DEF SyncRecords, SameBut
<1>10. ASSUME NEW misread, List(s, misread)
       PROVE  /\ SameBut(s, {"pc", "desired", "adds", "drops", "misread"})
              /\ sync'[s].pc = "apply" /\ sync'[s].desired = Wanted(s)
              /\ sync'[s].adds = ToSet(Wanted(s), Listed(misread))
              /\ sync'[s].drops = ToRemove(Wanted(s), Listed(misread))
              /\ sync'[s].misread = (misread # {})
  <2>1. sync'[s] = [sync[s] EXCEPT !.pc = "apply", !.desired = Wanted(s),
                                  !.adds = ToSet(Wanted(s), Listed(misread)),
                                  !.drops = ToRemove(Wanted(s), Listed(misread)),
                                  !.misread = (misread # {})]
    BY <1>3, <1>10
  <2>2. QED
    BY <1>0, <2>1 DEF SyncRecords, SameBut
<1>11. ASSUME NEW u, SetCollaborator(s, u)
       PROVE  SameBut(s, {"adds"}) /\ sync'[s].adds = sync[s].adds \ {u}
  <2>1. sync'[s] = [sync[s] EXCEPT !.adds = @ \ {u}]
    BY <1>6, <1>11
  <2>2. QED
    BY <1>0, <2>1 DEF SyncRecords, SameBut
<1>12. ASSUME NEW u, SetFails(s, u)
       PROVE  /\ SameBut(s, {"adds", "errors"}) /\ sync'[s].errors
              /\ sync'[s].adds = sync[s].adds \ {u}
  <2>1. sync'[s] = [sync[s] EXCEPT !.adds = @ \ {u}, !.errors = TRUE]
    BY <1>4, <1>12
  <2>2. QED
    BY <1>0, <2>1 DEF SyncRecords, SameBut
<1>13. ASSUME NEW u, RemoveCollaborator(s, u)
       PROVE  SameBut(s, {"drops"}) /\ sync'[s].drops = sync[s].drops \ {u}
  <2>1. sync'[s] = [sync[s] EXCEPT !.drops = @ \ {u}]
    BY <1>7, <1>13
  <2>2. QED
    BY <1>0, <2>1 DEF SyncRecords, SameBut
<1>14. ASSUME NEW u, RemoveFails(s, u)
       PROVE  /\ SameBut(s, {"drops", "errors"}) /\ sync'[s].errors
              /\ sync'[s].drops = sync[s].drops \ {u}
  <2>1. sync'[s] = [sync[s] EXCEPT !.drops = @ \ {u}, !.errors = TRUE]
    BY <1>5, <1>14
  <2>2. QED
    BY <1>0, <2>1 DEF SyncRecords, SameBut
<1>15. QED
  BY <1>8, <1>9, <1>10, <1>11, <1>12, <1>13, <1>14

\* No step of a sync writes the database, a fan-out or the history.
LEMMA SyncStepLeaves ==
  ASSUME NEW s, SyncStep(s) \/ Computing(s)
  PROVE  UNCHANGED <<dbVars, fan, historyVars>>
<1>1. \A sub, misread : Expand(s, sub) \/ List(s, misread) => UNCHANGED <<dbVars, fan, historyVars>>
  BY DEF Expand, List
<1>2. \A v : SetCollaborator(s, v) \/ SetFails(s, v) => UNCHANGED <<dbVars, fan, historyVars>>
  BY DEF SetCollaborator, SetFails
<1>3. \A v : RemoveCollaborator(s, v) \/ RemoveFails(s, v) => UNCHANGED <<dbVars, fan, historyVars>>
  BY DEF RemoveCollaborator, RemoveFails
<1>4. SetVisibility(s) \/ ReadGrants(s) \/ CallThrows(s) \/ Return(s)
        => UNCHANGED <<dbVars, fan, historyVars>>
  BY DEF SetVisibility, ReadGrants, CallThrows, Return
<1>5. QED
  BY <1>1, <1>2, <1>3, <1>4 DEF SyncStep, Computing

-----------------------------------------------------------------------------
(* The portal spares the owner and the reserved accounts.                  *)

LEMMA SparedInit == Init => ProtectedSpared
BY DEF Init, ProtectedSpared, IdleFan, IdleSync, NoLevels

LEMMA SparedStep ==
  ASSUME TypeOK, CleanStages, ProtectedSpared, [Next]_vars
  PROVE  ProtectedSpared'
<1> USE DEF dbVars, giteaVars, historyVars, boundVars
<1> DEFINE Spared(r) == /\ \A u \in Reserved : r.desired[u] = 0
                        /\ r.adds \cap Protected = {} /\ r.drops \cap Protected = {}
<1>1. ASSUME NEW t \in Syncs, Carried(t)
      PROVE  Spared(sync'[t])
  BY <1>1 DEF Carried, Empty, Kept, ProtectedSpared, NoLevels
<1>2. ASSUME NEW s \in Syncs, Computing(s)
      PROVE  Spared(sync'[s])
  <2>r. sync[s] \in SyncRecords /\ Spared(sync[s])
    BY DEF TypeOK, ProtectedSpared
  <2>1. CASE ReadGrants(s)
    BY <2>1, <2>r, ComputedRecord DEF SameBut
  <2>2. ASSUME NEW sub \in Subjects, Expand(s, sub)
        PROVE  Spared(sync'[s])
    <3>0. sync'[s].desired = Bumped(sync[s].desired, sub, sync[s].rows[sub])
      BY <2>2, ComputedRecord
    <3>1. \A u \in Reserved : sync'[s].desired[u] = 0
      BY <3>0, <2>r DEF Bumped
    <3>2. QED
      BY <3>1, <2>2, <2>r, ComputedRecord DEF SameBut
  <2>3. ASSUME NEW misread, List(s, misread)
        PROVE  Spared(sync'[s])
    <3>1. \A u \in Protected : Wanted(s)[u] = 0
      BY <2>r DEF Wanted, Protected, SyncRecords
    <3>2. \A u \in Reserved : sync'[s].desired[u] = 0
      BY <3>1, <2>3, ComputedRecord DEF Protected
    <3>3. sync'[s].adds \cap Protected = {} /\ sync'[s].drops \cap Protected = {}
      BY <3>1, <2>3, ComputedRecord DEF ToSet, ToRemove
    <3>4. QED
      BY <3>2, <3>3
  <2>4. ASSUME NEW u, SetCollaborator(s, u) \/ SetFails(s, u)
        PROVE  Spared(sync'[s])
    BY <2>4, <2>r, ComputedRecord DEF SameBut
  <2>5. ASSUME NEW u, RemoveCollaborator(s, u) \/ RemoveFails(s, u)
        PROVE  Spared(sync'[s])
    BY <2>5, <2>r, ComputedRecord DEF SameBut
  <2>6. QED
    BY <1>2, <2>1, <2>2, <2>3, <2>4, <2>5 DEF Computing
<1>3. ASSUME NEW t \in Syncs
      PROVE  Spared(sync'[t])
  <2>1. CASE Plain
    BY <2>1, <1>1, PlainCarried
  <2>2. CASE \E s \in Syncs : Computing(s)
    BY <2>2, <1>1, <1>2, OthersCarried
  <2>3. CASE UNCHANGED vars
    BY <2>3 DEF vars, ProtectedSpared
  <2>4. QED
    BY <2>1, <2>2, <2>3, StepKinds
<1>4. ASSUME NEW u \in Users
      PROVE  /\ fan'[u].pc # "idle" => u \notin Reserved
             /\ fan'[u].pc = "put" => u # Owner
  <2>1. CASE UNCHANGED fan
    BY <2>1 DEF ProtectedSpared
  <2>2. ASSUME NEW v \in Users, Provision(v)
        PROVE  <1>4!2
    BY <2>2 DEF Provision, ProtectedSpared, TypeOK
  <2>3. ASSUME NEW v \in Users, FanStep(v)
        PROVE  <1>4!2
    BY <2>3 DEF FanStep, FanLookup, FanPut, FanPutFails, IdleFan, ProtectedSpared, TypeOK
  <2>4. CASE Restart
    BY <2>4 DEF Restart, IdleFan
  <2>5. QED
    <3>1. CASE Request
      BY <3>1, <2>1 DEF Request, RequestGrant, RevokeGrant, AddMember, RemoveMember, DeleteGroup
    <3>2. CASE Outside
      BY <3>2, <2>1, <2>2, <2>4 DEF Outside, EditByHand, PublishByHand
    <3>3. CASE StartSweep \/ \E w \in Workers : WorkerStep(w)
      BY <3>3, <2>1 DEF StartSweep, WorkerStep, SetGrantFacet, Lookup, DropGrants, DropGroup
    <3>4. CASE \E s \in Syncs : SyncStep(s)
      BY <3>4, <2>1, SyncStepLeaves
    <3>5. CASE UNCHANGED vars
      BY <3>5, <2>1 DEF vars
    <3>6. QED
      BY <3>1, <3>2, <3>3, <3>4, <3>5, <2>3 DEF Next
<1>5. QED
  BY <1>3, <1>4 DEF ProtectedSpared

-----------------------------------------------------------------------------
(* Every level that reaches Gitea was granted.                             *)

HistoryGrows ==
  /\ everGranted \subseteq everGranted' /\ byHand \subseteq byHand'
  /\ \A g \in Groups : everMember[g] \subseteq everMember'[g]

\* The history variables only grow.
LEMMA HistoryStep ==
  ASSUME TypeOK, [Next]_vars
  PROVE  HistoryGrows
<1> USE DEF dbVars, giteaVars, historyVars, boundVars
<1>1. UNCHANGED historyVars => HistoryGrows
  BY DEF HistoryGrows
<1>2. ASSUME Request PROVE HistoryGrows
  <2>1. ASSUME NEW w \in Workers, NEW g \in Groups, NEW u \in Users, AddMember(w, g, u)
        PROVE  HistoryGrows
    BY <2>1 DEF AddMember, HistoryGrows, TypeOK
  <2>2. QED
    BY <1>1, <1>2, <2>1 DEF Request, RequestGrant, RevokeGrant, RemoveMember, DeleteGroup
<1>3. ASSUME Outside PROVE HistoryGrows
  <2>1. ASSUME NEW u, NEW l, EditByHand(u, l)
        PROVE  HistoryGrows
    BY <2>1 DEF EditByHand, HistoryGrows
  <2>2. QED
    BY <1>1, <1>3, <2>1 DEF Outside, Provision, PublishByHand, Restart
<1>4. ASSUME NEW w \in Workers, WorkerStep(w) PROVE HistoryGrows
  <2>1. CASE SetGrantFacet(w)
    BY <2>1 DEF SetGrantFacet, HistoryGrows
  <2>2. QED
    BY <1>1, <1>4, <2>1 DEF WorkerStep, Lookup, DropGrants, DropGroup
<1>5. ASSUME NEW u \in Users, FanStep(u) PROVE HistoryGrows
  BY <1>1, <1>5 DEF FanStep, FanLookup, FanPut, FanPutFails
<1>6. StartSweep => HistoryGrows
  BY <1>1 DEF StartSweep
<1>7. ASSUME NEW s \in Syncs, SyncStep(s) PROVE HistoryGrows
  BY <1>1, <1>7, SyncStepLeaves
<1>8. UNCHANGED vars => HistoryGrows
  BY <1>1 DEF vars
<1>9. QED
  BY <1>2, <1>3, <1>4, <1>5, <1>6, <1>7, <1>8 DEF Next

\* So what was justified once stays justified.
LEMMA JustifiedKept ==
  ASSUME HistoryGrows, NEW u, NEW l, Justified(u, l)
  PROVE  Justified(u, l)'
BY DEF HistoryGrows, Justified

LEMMA RecordedInit == Init => LevelsRecorded /\ SyncsRecorded /\ CollaboratorsJustified
BY DEF Init, LevelsRecorded, SyncsRecorded, CollaboratorsJustified,
       IdleFan, IdleSync, NoRows, NoLevels

LEMMA LevelsStep ==
  ASSUME TypeOK, LevelsRecorded, [Next]_vars
  PROVE  LevelsRecorded'
<1> USE DEF dbVars, giteaVars, historyVars, boundVars
<1>h. HistoryGrows
  BY HistoryStep
<1>1. ASSUME UNCHANGED <<grants, members, fan>>
      PROVE  LevelsRecorded'
  BY <1>1, <1>h DEF LevelsRecorded, HistoryGrows
<1>2. ASSUME Request PROVE LevelsRecorded'
  <2>1. ASSUME NEW w \in Workers, NEW sub \in Subjects, RevokeGrant(w, sub)
        PROVE  LevelsRecorded'
    BY <2>1, <1>h DEF RevokeGrant, LevelsRecorded, HistoryGrows, TypeOK
  <2>2. ASSUME NEW w \in Workers, NEW g \in Groups, NEW u \in Users, AddMember(w, g, u)
        PROVE  LevelsRecorded'
    BY <2>2 DEF AddMember, LevelsRecorded, TypeOK
  <2>3. ASSUME NEW w \in Workers, NEW g \in Groups, NEW u \in Users, RemoveMember(w, g, u)
        PROVE  LevelsRecorded'
    BY <2>3 DEF RemoveMember, LevelsRecorded, TypeOK
  <2>4. QED
    BY <1>1, <1>2, <2>1, <2>2, <2>3 DEF Request, RequestGrant, DeleteGroup
<1>3. ASSUME Outside PROVE LevelsRecorded'
  <2>1. ASSUME NEW u \in Users, Provision(u)
        PROVE  LevelsRecorded'
    <3>1. \A v \in Users : fan'[v].level = fan[v].level
      BY <2>1 DEF Provision, TypeOK
    <3>2. QED
      BY <2>1, <3>1 DEF Provision, LevelsRecorded
  <2>2. CASE Restart
    BY <2>2 DEF Restart, IdleFan, LevelsRecorded
  <2>3. QED
    BY <1>1, <1>3, <2>1, <2>2 DEF Outside, EditByHand, PublishByHand
<1>4. ASSUME NEW w \in Workers, WorkerStep(w) PROVE LevelsRecorded'
  <2>1. CASE SetGrantFacet(w)
    <3>1. sync[w].subject \in Subjects
      BY DEF TypeOK, Syncs, SyncRecords
    <3>2. QED
      BY <2>1, <3>1 DEF SetGrantFacet, LevelsRecorded, TypeOK
  <2>2. CASE DropGrants(w)
    BY <2>2 DEF DropGrants, LevelsRecorded, TypeOK
  <2>3. CASE DropGroup(w)
    BY <2>3 DEF DropGroup, LevelsRecorded, TypeOK
  <2>4. CASE Lookup(w)
    BY <2>4, <1>1 DEF Lookup
  <2>5. QED
    BY <1>4, <2>1, <2>2, <2>3, <2>4 DEF WorkerStep
<1>5. ASSUME NEW u \in Users, FanStep(u) PROVE LevelsRecorded'
  <2>1. Everyone \in Subjects
    BY DEF Subjects
  <2>2. CASE FanLookup(u)
    BY <2>1, <2>2 DEF FanLookup, IdleFan, LevelsRecorded, TypeOK
  <2>3. CASE FanPut(u) \/ FanPutFails(u)
    BY <2>3 DEF FanPut, FanPutFails, IdleFan, LevelsRecorded, TypeOK
  <2>4. QED
    BY <1>5, <2>2, <2>3 DEF FanStep
<1>6. CASE StartSweep
  BY <1>6, <1>1 DEF StartSweep
<1>7. ASSUME NEW s \in Syncs, SyncStep(s) PROVE LevelsRecorded'
  BY <1>1, <1>7, SyncStepLeaves
<1>8. CASE UNCHANGED vars
  BY <1>8, <1>1 DEF vars
<1>9. QED
  BY <1>2, <1>3, <1>4, <1>5, <1>6, <1>7, <1>8 DEF Next

SyncRecorded(s) ==
  /\ \A sub \in Subjects :
       sync[s].rows[sub] # 0 => <<sub, sync[s].rows[sub]>> \in everGranted
  /\ \A u \in Users : sync[s].desired[u] # 0 => Justified(u, sync[s].desired[u])

LEMMA SyncsStep ==
  ASSUME TypeOK, CleanStages, LevelsRecorded, SyncsRecorded, [Next]_vars
  PROVE  SyncsRecorded'
<1>h. HistoryGrows
  BY HistoryStep
<1>r. ASSUME NEW t \in Syncs
      PROVE  SyncRecorded(t)
  BY DEF SyncsRecorded, SyncRecorded
<1>1. ASSUME NEW t \in Syncs, Carried(t)
      PROVE  SyncRecorded(t)'
  <2>1. CASE Empty(sync'[t])
    BY <2>1 DEF Empty, SyncRecorded, NoRows, NoLevels
  <2>2. CASE sync'[t].rows = sync[t].rows /\ sync'[t].desired = sync[t].desired
    <3>1. ASSUME NEW u \in Users, sync[t].desired[u] # 0
          PROVE  Justified(u, sync[t].desired[u])'
      <4>1. Justified(u, sync[t].desired[u])
        BY <1>r, <3>1 DEF SyncRecorded
      <4>2. QED
        BY <4>1, <2>2, <1>h DEF HistoryGrows, Justified
    <3>2. QED
      BY <3>1, <2>2, <1>h, <1>r DEF HistoryGrows, SyncRecorded
  <2>3. QED
    BY <1>1, <2>1, <2>2 DEF Carried, Kept
<1>2. ASSUME NEW s \in Syncs, Computing(s)
      PROVE  SyncRecorded(s)'
  <2>h. UNCHANGED historyVars
    BY <1>2, SyncStepLeaves
  <2>r. sync[s] \in SyncRecords /\ SyncRecorded(s)
    BY <1>r DEF TypeOK
  <2>k. \A u, l : Justified(u, l) => Justified(u, l)'
    BY <1>h, JustifiedKept
  <2>1. CASE ReadGrants(s)
    <3>1. sync'[s].rows = grants /\ sync'[s].desired = sync[s].desired
      BY <2>1, ComputedRecord DEF SameBut
    <3>2. QED
      BY <3>1, <2>h, <2>r DEF SyncRecorded, LevelsRecorded, Justified, historyVars
  <2>2. ASSUME NEW sub \in Subjects, Expand(s, sub)
        PROVE  SyncRecorded(s)'
    <3> DEFINE l == sync[s].rows[sub]
    <3>1. /\ sync'[s].rows = [sync[s].rows EXCEPT ![sub] = 0]
          /\ sync'[s].desired = Bumped(sync[s].desired, sub, l)
      BY <2>2, ComputedRecord
    <3>2. l # 0 /\ <<sub, l>> \in everGranted
      BY <2>2, <2>r DEF Expand, SyncRecorded
    <3>3. \A u \in Covers(sub) : Justified(u, l)
      BY <3>2 DEF Covers, Justified, LevelsRecorded
    <3>4. ASSUME NEW u \in Users, sync'[s].desired[u] # 0
          PROVE  Justified(u, sync[s].desired[u])'
      <4>1. CASE sync'[s].desired[u] = sync[s].desired[u]
        BY <4>1, <3>4, <2>r, <2>h DEF SyncRecorded, Justified, historyVars
      <4>2. CASE u \in Covers(sub) /\ sync'[s].desired[u] = l
        BY <4>2, <3>3, <2>h DEF Justified, historyVars
      <4>3. QED
        BY <4>1, <4>2, <3>1 DEF Bumped
    <3>5. \A x \in Subjects : sync'[s].rows[x] # 0 => sync'[s].rows[x] = sync[s].rows[x]
      BY <3>1, <2>r DEF SyncRecords
    <3>6. QED
      BY <3>4, <3>5, <2>r, <2>h DEF SyncRecorded, historyVars
  <2>3. ASSUME NEW misread, List(s, misread)
        PROVE  SyncRecorded(s)'
    <3>1. sync'[s].rows = sync[s].rows /\ sync'[s].desired = Wanted(s)
      BY <2>3, ComputedRecord DEF SameBut
    <3>2. \A u \in Users : sync'[s].desired[u] # 0 => sync'[s].desired[u] = sync[s].desired[u]
      BY <3>1, <2>r DEF Wanted, SyncRecords
    <3>3. QED
      BY <3>1, <3>2, <2>r, <2>h DEF SyncRecorded, Justified, historyVars
  <2>4. CASE sync'[s].rows = sync[s].rows /\ sync'[s].desired = sync[s].desired
    BY <2>4, <2>r, <2>h DEF SyncRecorded, Justified, historyVars
  <2>5. ASSUME NEW u, \/ SetCollaborator(s, u) \/ SetFails(s, u)
                      \/ RemoveCollaborator(s, u) \/ RemoveFails(s, u)
        PROVE  SyncRecorded(s)'
    BY <2>5, <2>4, ComputedRecord DEF SameBut
  <2>6. QED
    BY <1>2, <2>1, <2>2, <2>3, <2>5 DEF Computing
<1>3. ASSUME NEW t \in Syncs
      PROVE  SyncRecorded(t)'
  <2>1. CASE Plain
    BY <2>1, <1>1, PlainCarried
  <2>2. CASE \E s \in Syncs : Computing(s)
    BY <2>2, <1>1, <1>2, OthersCarried
  <2>3. CASE UNCHANGED vars
    BY <2>3, <1>r DEF vars, historyVars, SyncRecorded, Justified
  <2>4. QED
    BY <2>1, <2>2, <2>3, StepKinds
<1>4. QED
  BY <1>3 DEF SyncsRecorded, SyncRecorded

LEMMA CollaboratorsStep ==
  ASSUME TypeOK, LevelsRecorded, SyncsRecorded, CollaboratorsJustified, [Next]_vars
  PROVE  CollaboratorsJustified'
<1> USE DEF dbVars, giteaVars, historyVars, boundVars
<1>h. HistoryGrows
  BY HistoryStep
<1>k. \A u, l : Justified(u, l) => Justified(u, l)'
  BY <1>h, JustifiedKept
<1>1. ASSUME \A u \in Users : collab'[u] \in {0, collab[u]} \/ Justified(u, collab'[u])
      PROVE  CollaboratorsJustified'
  <2>1. ASSUME NEW u \in Users, collab'[u] # 0
        PROVE  Justified(u, collab[u])'
    <3>1. Justified(u, collab'[u])
      BY <1>1, <2>1 DEF CollaboratorsJustified
    <3>2. QED
      BY <3>1, <1>h DEF HistoryGrows, Justified
  <2>2. QED
    BY <2>1 DEF CollaboratorsJustified
<1>2. ASSUME NEW u \in Users, NEW l \in GrantLevels \cup {0}, EditByHand(u, l)
      PROVE  CollaboratorsJustified'
  <2>1. ASSUME NEW v \in Users, collab'[v] # 0
        PROVE  Justified(v, collab[v])'
    <3>1. CASE v = u
      BY <1>2, <3>1 DEF EditByHand, Justified, TypeOK
    <3>2. CASE v # u
      <4>1. collab'[v] = collab[v]
        BY <1>2, <3>2 DEF EditByHand, TypeOK
      <4>2. Justified(v, collab[v])
        BY <2>1, <4>1 DEF CollaboratorsJustified
      <4>3. QED
        BY <4>1, <4>2, <1>h DEF Justified, HistoryGrows
    <3>3. QED
      BY <3>1, <3>2
  <2>2. QED
    BY <2>1 DEF CollaboratorsJustified
<1>3. ASSUME NEW u \in Users, FanPut(u)
      PROVE  CollaboratorsJustified'
  <2>1. fan[u].level # 0 => Justified(u, fan[u].level)
    BY DEF LevelsRecorded, Justified, Subjects
  <2>2. QED
    BY <1>1, <1>3, <2>1 DEF FanPut, TypeOK
<1>4. ASSUME NEW s \in Syncs, NEW u \in Users, SetCollaborator(s, u)
      PROVE  CollaboratorsJustified'
  <2>1. sync[s].desired[u] # 0 => Justified(u, sync[s].desired[u])
    BY DEF SyncsRecorded
  <2>2. QED
    BY <1>1, <1>4, <2>1 DEF SetCollaborator, TypeOK
<1>5. ASSUME NEW s \in Syncs, NEW u \in Users, RemoveCollaborator(s, u)
      PROVE  CollaboratorsJustified'
  BY <1>1, <1>5 DEF RemoveCollaborator, TypeOK
<1>6. ASSUME UNCHANGED collab
      PROVE  CollaboratorsJustified'
  BY <1>1, <1>6
<1>7. CASE Request \/ StartSweep \/ \E w \in Workers : WorkerStep(w)
  BY <1>6, <1>7 DEF Request, RequestGrant, RevokeGrant, AddMember, RemoveMember, DeleteGroup,
     StartSweep, WorkerStep, SetGrantFacet, Lookup, DropGrants, DropGroup
<1>8. CASE Outside \/ \E u \in Users : FanStep(u)
  BY <1>2, <1>3, <1>6, <1>8 DEF Outside, Provision, PublishByHand, Restart, FanStep,
     FanLookup, FanPutFails
<1>9. ASSUME NEW s \in Syncs, SyncStep(s)
      PROVE  CollaboratorsJustified'
  <2>1. \A sub, misread, u : Expand(s, sub) \/ List(s, misread) \/ SetFails(s, u) \/ RemoveFails(s, u)
          => UNCHANGED collab
    BY DEF Expand, List, SetFails, RemoveFails
  <2>2. SetVisibility(s) \/ ReadGrants(s) \/ CallThrows(s) \/ Return(s) => UNCHANGED collab
    BY DEF SetVisibility, ReadGrants, CallThrows, Return
  <2>3. QED
    BY <2>1, <2>2, <1>4, <1>5, <1>6, <1>9 DEF SyncStep
<1>10. CASE UNCHANGED vars
  BY <1>6, <1>10 DEF vars
<1>11. QED
  BY <1>7, <1>8, <1>9, <1>10 DEF Next

-----------------------------------------------------------------------------
(* An undisturbed sync is exact.                                           *)

\* What CleanSyncExact says of one sync.
SyncExact(s) ==
  /\ sync[s].pc \in {"visibility", "grants"} => sync[s].desired = NoLevels
  /\ sync[s].clean =>
       /\ sync[s].pc \in {"expand", "apply"}
       /\ \A sub \in Subjects : sync[s].rows[sub] \in {0, grants[sub]}
       /\ \A u \in Users \ Protected : ExactFor(s, u)
  /\ sync[s].pc = "apply" =>
       /\ sync[s].rows = NoRows
       /\ sync[s].clean /\ ~sync[s].errors /\ ~sync[s].misread =>
            \A u \in Users \ Protected : AppliedBut(s, u)

LEMMA ExactInit == Init => CleanSyncExact
BY DEF Init, CleanSyncExact, IdleSync

LEMMA ExactStages == CleanSyncExact => CleanStages
BY DEF CleanSyncExact, CleanStages

LEMMA ExactCarried ==
  ASSUME TypeOK, NEW t \in Syncs, SyncExact(t), Carried(t)
  PROVE  SyncExact(t)'
<1>1. CASE Empty(sync'[t])
  BY <1>1 DEF Empty, SyncExact
<1>2. CASE Kept(sync[t], sync'[t]) /\ (sync'[t].clean => UNCHANGED PolicyAndList)
  <2>1. /\ sync'[t].rows = sync[t].rows /\ sync'[t].desired = sync[t].desired
        /\ sync'[t].adds = sync[t].adds /\ sync'[t].drops = sync[t].drops
    BY <1>2 DEF Kept
  <2>2. sync'[t].pc \in {"visibility", "grants"} => sync'[t].desired = NoLevels
    BY <1>2 DEF Kept, SyncExact
  <2>3. ASSUME sync'[t].clean
        PROVE  /\ sync'[t].pc \in {"expand", "apply"}
               /\ \A sub \in Subjects : sync'[t].rows[sub] \in {0, grants'[sub]}
               /\ \A u \in Users \ Protected : ExactFor(t, u)'
    <3>1. /\ sync[t].clean /\ grants' = grants /\ members' = members
          /\ sync'[t].pc = sync[t].pc
      BY <1>2, <2>3 DEF Kept, SyncExact, PolicyAndList
    <3>2. \A sub \in Subjects : Covers(sub)' = Covers(sub)
      BY <3>1 DEF Covers
    <3>3. ASSUME NEW u \in Users \ Protected
          PROVE  ExactFor(t, u)'
      BY <2>1, <3>1, <3>2 DEF SyncExact, ExactFor
    <3>4. QED
      BY <2>1, <3>1, <3>3 DEF SyncExact
  <2>4. ASSUME sync'[t].pc = "apply"
        PROVE  sync'[t].rows = NoRows
    BY <1>2, <2>1, <2>4 DEF Kept, SyncExact
  <2>5. ASSUME sync'[t].pc = "apply", sync'[t].clean, ~sync'[t].errors, ~sync'[t].misread,
               NEW u \in Users \ Protected
        PROVE  AppliedBut(t, u)'
    <3>1. /\ sync[t].pc = "apply" /\ sync[t].clean /\ ~sync[t].errors /\ ~sync[t].misread
          /\ collab' = collab
      BY <1>2, <2>5 DEF Kept, PolicyAndList
    <3>2. AppliedBut(t, u)
      BY <3>1 DEF SyncExact
    <3>3. QED
      BY <2>1, <3>1, <3>2 DEF AppliedBut
  <2>6. QED
    BY <2>2, <2>3, <2>4, <2>5 DEF SyncExact
<1>3. QED
  BY <1>1, <1>2 DEF Carried

\* Reading the grants starts from an empty map, to which no row was added yet.
LEMMA ExactReadGrants ==
  ASSUME TypeOK, NEW s \in Syncs, SyncExact(s), ReadGrants(s)
  PROVE  SyncExact(s)'
<1>1. /\ sync'[s].pc = "expand" /\ sync'[s].rows = grants
      /\ sync'[s].desired = sync[s].desired
  BY ComputedRecord DEF SameBut
<1>2. sync[s].desired = NoLevels /\ grants' = grants
  BY DEF ReadGrants, SyncExact, dbVars
<1>3. ASSUME NEW u \in Users \ Protected
      PROVE  ExactFor(s, u)'
  BY <1>1, <1>2 DEF ExactFor, NoLevels, TypeOK, Levels
<1>4. QED
  BY <1>1, <1>2, <1>3 DEF SyncExact

\* The turn of one grant keeps the map exact for the grants that had theirs.
LEMMA ExactExpand ==
  ASSUME TypeOK, NEW s \in Syncs, SyncExact(s), NEW sub \in Subjects, Expand(s, sub)
  PROVE  SyncExact(s)'
<1> DEFINE l == sync[s].rows[sub]
<1>1. /\ sync'[s].rows = [sync[s].rows EXCEPT ![sub] = 0]
      /\ sync'[s].desired = Bumped(sync[s].desired, sub, l)
      /\ sync'[s].pc = sync[s].pc /\ sync'[s].clean = sync[s].clean
  BY ComputedRecord DEF SameBut
<1>2. /\ sync[s].pc = "expand" /\ l # 0
      /\ grants' = grants /\ members' = members
  BY DEF Expand, dbVars
<1>3. /\ sync[s].rows \in [Subjects -> 0..3] /\ sync[s].desired \in [Users -> 0..3]
      /\ grants \in [Subjects -> 0..3]
  BY DEF TypeOK, SyncRecords, Levels
<1>4. \A x \in Subjects : Covers(x)' = Covers(x)
  BY <1>2 DEF Covers
<1>5. ASSUME sync[s].clean
      PROVE  /\ \A x \in Subjects : sync'[s].rows[x] \in {0, grants'[x]}
             /\ \A u \in Users \ Protected : ExactFor(s, u)'
  <2>1. \A x \in Subjects : sync[s].rows[x] \in {0, grants[x]}
    BY <1>5 DEF SyncExact
  <2>2. l = grants[sub]
    BY <1>2, <2>1
  <2>3. ASSUME NEW u \in Users \ Protected
        PROVE  ExactFor(s, u)'
    <3> DEFINE d == sync[s].desired[u]
               e == sync'[s].desired[u]
    <3>1. ExactFor(s, u)
      BY <1>5 DEF SyncExact
    <3>2. u \notin Reserved /\ u # Owner
      BY DEF Protected
    <3>3. e = IF u \in Covers(sub) /\ l > d THEN l ELSE d
      BY <1>1, <3>2 DEF Bumped
    <3>4. d \in 0..3 /\ e \in 0..3 /\ d <= e /\ (u \in Covers(sub) => l <= e)
      BY <1>3, <3>3
    <3>5. ASSUME NEW x \in Subjects, u \in Covers(x), sync'[s].rows[x] = 0
          PROVE  grants[x] <= e
      <4>1. CASE x = sub
        BY <4>1, <2>2, <3>4, <3>5
      <4>2. CASE x # sub
        <5>1. sync[s].rows[x] = 0
          BY <1>1, <1>3, <3>5, <4>2
        <5>2. grants[x] <= d
          BY <5>1, <3>1, <3>5 DEF ExactFor
        <5>3. grants[x] \in 0..3
          BY <1>3
        <5>4. QED
          BY <5>2, <5>3, <3>4
      <4>3. QED
        BY <4>1, <4>2
    <3>6. ASSUME e # 0
          PROVE  \E x \in Subjects : u \in Covers(x) /\ grants[x] = e
      <4>1. CASE e = d
        BY <3>1, <3>6, <4>1 DEF ExactFor
      <4>2. CASE u \in Covers(sub) /\ e = l
        BY <4>2, <2>2
      <4>3. QED
        BY <3>3, <4>1, <4>2
    <3>7. QED
      BY <3>5, <3>6, <1>2, <1>4 DEF ExactFor
  <2>4. QED
    BY <1>1, <1>2, <1>3, <2>1, <2>3
<1>6. QED
  BY <1>1, <1>2, <1>5 DEF SyncExact

\* Comparing an exact map with the list leaves out who has the right level.
LEMMA ExactList ==
  ASSUME TypeOK, NEW s \in Syncs, SyncExact(s), NEW misread, List(s, misread)
  PROVE  SyncExact(s)'
<1>1. /\ sync'[s].pc = "apply" /\ sync'[s].desired = Wanted(s)
      /\ sync'[s].adds = ToSet(Wanted(s), Listed(misread))
      /\ sync'[s].drops = ToRemove(Wanted(s), Listed(misread))
      /\ sync'[s].misread = (misread # {})
  BY ComputedRecord
<1>2. /\ sync'[s].rows = sync[s].rows /\ sync'[s].clean = sync[s].clean
      /\ sync'[s].errors = sync[s].errors
  BY ComputedRecord DEF SameBut
<1>3. /\ sync[s].rows = NoRows /\ grants' = grants /\ members' = members /\ collab' = collab
  BY DEF List, dbVars, giteaVars
<1>4. \A x \in Subjects : Covers(x)' = Covers(x)
  BY <1>3 DEF Covers
<1>5. \A u \in Users \ Protected : Wanted(s)[u] = sync[s].desired[u]
  BY DEF Wanted, Protected, TypeOK, SyncRecords
<1>6. ASSUME sync[s].clean, NEW u \in Users \ Protected
      PROVE  ExactFor(s, u)'
  BY <1>1, <1>2, <1>3, <1>4, <1>5, <1>6 DEF SyncExact, ExactFor
<1>7. ASSUME ~sync'[s].misread, NEW u \in Users \ Protected
      PROVE  AppliedBut(s, u)'
  <2>1. Listed(misread)[u] = collab[u]
    BY <1>1, <1>7 DEF Listed
  <2>2. \A v : v \in ToRemove(Wanted(s), Listed(misread)) => Wanted(s)[v] = 0
    BY DEF ToRemove
  <2>3. u \notin ToSet(Wanted(s), Listed(misread)) \cup ToRemove(Wanted(s), Listed(misread))
          => collab[u] = Wanted(s)[u]
    BY <2>1 DEF ToSet, ToRemove
  <2>4. QED
    BY <1>1, <1>3, <2>2, <2>3 DEF AppliedBut
<1>8. QED
  BY <1>1, <1>2, <1>3, <1>6, <1>7 DEF SyncExact

\* A level set or removed without error is one difference less.
LEMMA ExactApply ==
  ASSUME TypeOK, NEW s \in Syncs, SyncExact(s), NEW u \in Users,
         \/ SetCollaborator(s, u) \/ SetFails(s, u)
         \/ RemoveCollaborator(s, u) \/ RemoveFails(s, u)
  PROVE  SyncExact(s)'
<1>1. /\ sync'[s].pc = sync[s].pc /\ sync'[s].rows = sync[s].rows
      /\ sync'[s].desired = sync[s].desired /\ sync'[s].clean = sync[s].clean
      /\ sync'[s].misread = sync[s].misread
  BY ComputedRecord DEF SameBut
<1>2. sync[s].pc = "apply" /\ grants' = grants /\ members' = members
  BY DEF SetCollaborator, SetFails, RemoveCollaborator, RemoveFails, dbVars
<1>3. \A x \in Subjects : Covers(x)' = Covers(x)
  BY <1>2 DEF Covers
<1>4. ASSUME sync[s].clean, NEW v \in Users \ Protected
      PROVE  ExactFor(s, v)'
  BY <1>1, <1>2, <1>3, <1>4 DEF SyncExact, ExactFor
<1>5. ASSUME sync'[s].clean, ~sync'[s].errors, ~sync'[s].misread, NEW v \in Users \ Protected
      PROVE  AppliedBut(s, v)'
  <2>1. CASE SetCollaborator(s, u)
    <3>1. sync'[s].adds = sync[s].adds \ {u} /\ sync'[s].drops = sync[s].drops
            /\ sync'[s].errors = sync[s].errors
      BY <2>1, ComputedRecord DEF SameBut
    <3>2. collab' = [collab EXCEPT ![u] = sync[s].desired[u]]
      BY <2>1 DEF SetCollaborator
    <3>3. AppliedBut(s, v)
      BY <1>1, <1>2, <1>5, <3>1 DEF SyncExact
    <3>4. QED
      BY <1>1, <3>1, <3>2, <3>3 DEF AppliedBut, TypeOK
  <2>2. CASE RemoveCollaborator(s, u)
    <3>1. sync'[s].drops = sync[s].drops \ {u} /\ sync'[s].adds = sync[s].adds
            /\ sync'[s].errors = sync[s].errors
      BY <2>2, ComputedRecord DEF SameBut
    <3>2. collab' = [collab EXCEPT ![u] = 0] /\ u \in sync[s].drops
      BY <2>2 DEF RemoveCollaborator
    <3>3. AppliedBut(s, v)
      BY <1>1, <1>2, <1>5, <3>1 DEF SyncExact
    <3>4. QED
      BY <1>1, <3>1, <3>2, <3>3 DEF AppliedBut, TypeOK
  <2>3. CASE SetFails(s, u) \/ RemoveFails(s, u)
    BY <2>3, <1>5, ComputedRecord
  <2>4. QED
    BY <2>1, <2>2, <2>3
<1>6. QED
  BY <1>1, <1>2, <1>4, <1>5 DEF SyncExact

LEMMA ExactStep ==
  ASSUME TypeOK, CleanSyncExact, [Next]_vars
  PROVE  CleanSyncExact'
<1>0. CleanStages /\ \A s \in Syncs : SyncExact(s)
  BY ExactStages DEF CleanSyncExact, SyncExact
<1>1. ASSUME NEW s \in Syncs, Computing(s)
      PROVE  SyncExact(s)'
  BY <1>0, <1>1, ExactReadGrants, ExactExpand, ExactList, ExactApply DEF Computing
<1>2. ASSUME NEW t \in Syncs
      PROVE  SyncExact(t)'
  <2>1. CASE Plain
    BY <1>0, <2>1, PlainCarried, ExactCarried
  <2>2. CASE \E s \in Syncs : Computing(s)
    BY <1>0, <1>1, <2>2, OthersCarried, ExactCarried
  <2>3. CASE UNCHANGED vars
    <3>1. Carried(t)
      BY <2>3 DEF vars, dbVars, giteaVars, Carried, Kept, PolicyAndList
    <3>2. QED
      BY <1>0, <3>1, ExactCarried
  <2>4. QED
    BY <2>1, <2>2, <2>3, StepKinds
<1>3. QED
  BY <1>2 DEF CleanSyncExact, SyncExact

\* When nothing is left to apply, what the map says is what Gitea shows.
LEMMA ExactConverges == TypeOK /\ CleanSyncExact => SoloSyncConverges
<1> SUFFICES ASSUME TypeOK, CleanSyncExact, NEW s \in Syncs, Finished(s),
                    sync[s].clean, ~sync[s].errors, ~sync[s].misread,
                    NEW u \in Users \ Protected
             PROVE  Entitled(u, collab[u])
  BY DEF SoloSyncConverges, Converged
<1>1. sync[s].pc = "apply" /\ sync[s].adds = {} /\ sync[s].drops = {}
  BY DEF Finished
<1>2. ExactFor(s, u) /\ AppliedBut(s, u) /\ sync[s].rows = NoRows
  BY <1>1 DEF CleanSyncExact
<1>3. collab[u] = sync[s].desired[u]
  BY <1>1, <1>2 DEF AppliedBut
<1>4. QED
  BY <1>2, <1>3 DEF ExactFor, Entitled, NoRows

-----------------------------------------------------------------------------
(* The theorems.                                                           *)

IndInv ==
  /\ TypeOK /\ LevelsRecorded /\ SyncsRecorded /\ CollaboratorsJustified
  /\ CleanSyncExact /\ ProtectedSpared

\* What the steps maintain all along, of which the properties are consequences.
THEOREM Invariance == Spec => []IndInv
<1>1. Init => IndInv
  BY TypeInit, RecordedInit, ExactInit, SparedInit DEF IndInv
<1>2. IndInv /\ [Next]_vars => IndInv'
  BY TypeStep, LevelsStep, SyncsStep, CollaboratorsStep, ExactStages, ExactStep, SparedStep
     DEF IndInv
<1>3. QED
  BY <1>1, <1>2, PTL DEF Spec

\* However the syncs, the fan-outs and the edits interleave, nobody is a
\* collaborator at a level that was not granted to a subject reaching them.
THEOREM NothingUngranted == Spec => []CollaboratorsJustified
<1>1. IndInv => CollaboratorsJustified
  BY DEF IndInv
<1>2. QED
  BY <1>1, Invariance, PTL

\* A sync of syncRepoAccess that is not disturbed and meets no error leaves
\* Gitea showing exactly the policy, whatever the other syncs are doing.
THEOREM UndisturbedSyncIsExact == Spec => []SoloSyncConverges
<1>1. IndInv => SoloSyncConverges
  BY ExactConverges DEF IndInv
<1>2. QED
  BY <1>1, Invariance, PTL

\* No step of the portal touches a collaborator row of the owner or of a
\* reserved account; only an edit, which is to say a hand in Gitea's UI, does.
THEOREM ProtectedRowsUntouched == Spec => ProtectedUntouched
<1> USE DEF dbVars, giteaVars, historyVars, boundVars
<1>1. ASSUME IndInv, [Next]_vars, NEW u \in Protected, collab'[u] # collab[u]
      PROVE  edits' # edits
  <2>t. TypeOK /\ ProtectedSpared
    BY <1>1 DEF IndInv
  <2>1. ASSUME NEW v \in Users, FanPut(v)
        PROVE  collab'[u] = collab[u]
    BY <2>1, <2>t DEF FanPut, ProtectedSpared, Protected, TypeOK
  <2>2. ASSUME NEW s \in Syncs, NEW v \in Users, SetCollaborator(s, v) \/ RemoveCollaborator(s, v)
        PROVE  collab'[u] = collab[u]
    BY <2>2, <2>t DEF SetCollaborator, RemoveCollaborator, ProtectedSpared, Protected, TypeOK
  <2>3. ASSUME NEW v, NEW l, EditByHand(v, l)
        PROVE  edits' # edits
    BY <2>3, <2>t DEF EditByHand, Edit, TypeOK
  <2>4. CASE Request \/ StartSweep \/ \E w \in Workers : WorkerStep(w)
    BY <1>1, <2>4 DEF Request, RequestGrant, RevokeGrant, AddMember, RemoveMember, DeleteGroup,
       StartSweep, WorkerStep, SetGrantFacet, Lookup, DropGrants, DropGroup
  <2>5. CASE Outside
    <3>1. (\E v \in Users : Provision(v)) \/ PublishByHand \/ Restart => UNCHANGED collab
      BY DEF Provision, PublishByHand, Restart
    <3>2. QED
      BY <1>1, <2>3, <2>5, <3>1 DEF Outside
  <2>f. ASSUME NEW v \in Users, FanStep(v)
        PROVE  collab'[u] = collab[u]
    BY <2>1, <2>f DEF FanStep, FanLookup, FanPutFails
  <2>6. ASSUME NEW s \in Syncs, SyncStep(s)
        PROVE  collab'[u] = collab[u]
    <3>1. \A sub, misread, v : Expand(s, sub) \/ List(s, misread) \/ SetFails(s, v) \/ RemoveFails(s, v)
            => UNCHANGED collab
      BY DEF Expand, List, SetFails, RemoveFails
    <3>2. SetVisibility(s) \/ ReadGrants(s) \/ CallThrows(s) \/ Return(s) => UNCHANGED collab
      BY DEF SetVisibility, ReadGrants, CallThrows, Return
    <3>3. QED
      BY <2>2, <2>6, <3>1, <3>2 DEF SyncStep
  <2>7. QED
    BY <1>1, <2>4, <2>5, <2>f, <2>6 DEF Next, vars
<1>2. IndInv /\ [Next]_vars => [\A u \in Protected : collab'[u] # collab[u] => edits' # edits]_vars
  BY <1>1
<1>3. QED
  BY <1>2, Invariance, PTL DEF Spec, ProtectedUntouched

-----------------------------------------------------------------------------
(* Settled stays settled.                                                  *)

\* A sync that has nothing read or merged yet, and no row to write.
Waiting(r) == r.pc \in {"idle", "lookup", "visibility", "grants"}

\* Record q of a sync has the same work before it as r.
SameWork(r, q) ==
  q.pc = r.pc /\ q.rows = r.rows /\ q.desired = r.desired /\ q.drops \subseteq r.drops

LEMMA InTimeKept ==
  ASSUME NEW t, UNCHANGED <<grants, members>>,
         Waiting(sync'[t]) \/ (InTime(t) /\ SameWork(sync[t], sync'[t]))
  PROVE  InTime(t)'
<1>1. CASE Waiting(sync'[t])
  BY <1>1 DEF Waiting, InTime
<1>2. CASE InTime(t) /\ SameWork(sync[t], sync'[t])
  <2>1. \A sub \in Subjects : Covers(sub)' = Covers(sub)
    BY DEF Covers
  <2>2. \A u \in Users \ Protected : ExactFor(t, u) => ExactFor(t, u)'
    BY <1>2, <2>1 DEF SameWork, ExactFor
  <2>3. QED
    BY <1>2, <2>2 DEF SameWork, InTime
<1>3. QED
  BY <1>1, <1>2

\* A step that neither computes nor edits leaves the policy and the list, and at
\* most lets a sync start, end, or pass the visibility call.
LEMMA CalmPlain ==
  ASSUME TypeOK, Calm, Plain, edits' = edits
  PROVE  /\ UNCHANGED <<grants, members, accounts, collab>>
         /\ private' /\ \A u \in Users : fan'[u].pc = "idle"
         /\ \A t \in Syncs : Waiting(sync'[t]) \/ sync'[t] = sync[t]
<1> USE DEF dbVars, giteaVars, historyVars, boundVars
<1> DEFINE Goal == /\ UNCHANGED <<grants, members, accounts, collab>>
                   /\ private' /\ \A u \in Users : fan'[u].pc = "idle"
                   /\ \A t \in Syncs : Waiting(sync'[t]) \/ sync'[t] = sync[t]
<1>s. sync \in [Syncs -> SyncRecords] /\ edits \in Nat
  BY DEF TypeOK
<1>c. private /\ (\A u \in Users : fan[u].pc = "idle") /\ \A s \in Syncs : InTime(s)
  BY DEF Calm, Settled
<1>w. \A w \in Workers : w \in Syncs
  BY DEF Syncs
<1>f. Waiting(IdleSync) /\ Waiting(Syncing)
  BY DEF Waiting, IdleSync, Syncing
<1>e. ~Edit
  BY <1>s DEF Edit
<1>1. ~Request
  BY <1>e DEF Request, RequestGrant, RevokeGrant, AddMember, RemoveMember, DeleteGroup
<1>2. ASSUME Outside PROVE Goal
  <2>1. Restart
    BY <1>e, <1>2 DEF Outside, Provision, EditByHand, PublishByHand
  <2>2. QED
    BY <2>1, <1>c, <1>f DEF Restart, IdleFan
<1>3. ASSUME NEW s \in Syncs, NEW r, Waiting(r), sync' = [sync EXCEPT ![s] = r]
      PROVE  \A t \in Syncs : Waiting(sync'[t]) \/ sync'[t] = sync[t]
  BY <1>3, <1>s
<1>4. ASSUME StartSweep PROVE Goal
  BY <1>4, <1>3, <1>c, <1>f, Sweeper \in Syncs DEF StartSweep, Syncs
<1>5. ASSUME NEW w \in Workers, WorkerStep(w) PROVE Goal
  <2>1. Lookup(w)
    BY <1>5, <1>w, <1>c DEF WorkerStep, SetGrantFacet, DropGrants, DropGroup, InTime
  <2>2. PICK r : Waiting(r) /\ sync' = [sync EXCEPT ![w] = r]
    BY <2>1, <1>f DEF Lookup
  <2>3. UNCHANGED <<grants, members, accounts, collab, private, fan>>
    BY <2>1 DEF Lookup
  <2>4. QED
    BY <2>2, <2>3, <1>3, <1>w, <1>c
<1>6. ASSUME NEW u \in Users, FanStep(u) PROVE Goal
  BY <1>6, <1>c DEF FanStep, FanLookup, FanPut, FanPutFails
<1>7. ASSUME NEW s \in Syncs, SetVisibility(s) PROVE Goal
  <2>1. UNCHANGED <<grants, members, accounts, collab, fan>> /\ private'
    BY <1>7, <1>c DEF SetVisibility
  <2>2. \A t \in Syncs : t # s => sync'[t] = sync[t]
    BY <1>7, <1>s DEF SetVisibility
  <2>3. sync'[s].pc = "grants"
    BY <1>7, <1>s DEF SetVisibility, SyncRecords
  <2>4. QED
    BY <2>1, <2>2, <2>3, <1>c DEF Waiting
<1>8. ASSUME NEW s \in Syncs, CallThrows(s) \/ Return(s) PROVE Goal
  <2>1. /\ UNCHANGED <<grants, members, accounts, collab, private, fan>>
        /\ sync' = [sync EXCEPT ![s] = IdleSync]
    BY <1>8 DEF CallThrows, Return
  <2>2. QED
    BY <2>1, <1>3, <1>c, <1>f
<1>9. QED
  BY <1>1, <1>2, <1>4, <1>5, <1>6, <1>7, <1>8 DEF Plain

\* A sync that computes leaves the work of the others as it is.
LEMMA OthersWork ==
  ASSUME TypeOK, NEW s \in Syncs, Computing(s), NEW t \in Syncs \ {s}
  PROVE  SameWork(sync[t], sync'[t])
<1>0. sync \in [Syncs -> SyncRecords] /\ sync[t] \in SyncRecords
  BY DEF TypeOK
<1>1. ASSUME NEW u, SetCollaborator(s, u) \/ RemoveCollaborator(s, u)
      PROVE  SameWork(sync[t], sync'[t])
  <2>1. sync'[t] = [sync[t] EXCEPT !.clean = FALSE]
    BY <1>0, <1>1 DEF SetCollaborator, RemoveCollaborator, Disturbed
  <2>2. QED
    BY <1>0, <2>1 DEF SameWork, SyncRecords
<1>2. ASSUME ~\E u \in Users : SetCollaborator(s, u) \/ RemoveCollaborator(s, u)
      PROVE  SameWork(sync[t], sync'[t])
  <2>1. sync'[t] = sync[t]
    BY ZenonT(30), <1>0, <1>2 DEF Computing, ReadGrants, Expand, List, SetFails, RemoveFails
  <2>2. QED
    BY <2>1 DEF SameWork
<1>3. QED
  BY <1>1, <1>2

\* A step of a sync is exact if it was in time: the argument of ExactReadGrants,
\* ExactExpand and ExactList, for a sync that others may have disturbed.
LEMMA ComputesInTime ==
  ASSUME TypeOK, CleanSyncExact, Calm, NEW s \in Syncs, Computing(s)
  PROVE  InTime(s)'
<1> USE DEF dbVars, giteaVars
<1>0. InTime(s) /\ sync[s] \in SyncRecords
  BY DEF Calm, TypeOK
<1>1. UNCHANGED <<grants, members>>
  BY SyncStepLeaves
<1>2. \A sub \in Subjects : Covers(sub)' = Covers(sub)
  BY <1>1 DEF Covers
<1>3. CASE ReadGrants(s)
  <2>1. /\ sync'[s].pc = "expand" /\ sync'[s].rows = grants
        /\ sync'[s].desired = sync[s].desired
    BY <1>3, ComputedRecord DEF SameBut
  <2>2. sync[s].desired = NoLevels
    BY <1>3 DEF ReadGrants, CleanSyncExact
  <2>3. ASSUME NEW u \in Users \ Protected
        PROVE  ExactFor(s, u)'
    BY <1>1, <2>1, <2>2 DEF ExactFor, NoLevels, TypeOK, Levels
  <2>4. QED
    BY <1>1, <2>1, <2>3 DEF InTime
<1>4. ASSUME NEW sub \in Subjects, Expand(s, sub)
      PROVE  InTime(s)'
  <2> DEFINE l == sync[s].rows[sub]
  <2>0. sync[s].pc = "expand" /\ l # 0
    BY <1>4 DEF Expand
  <2>1. /\ sync'[s].rows = [sync[s].rows EXCEPT ![sub] = 0]
        /\ sync'[s].desired = Bumped(sync[s].desired, sub, l)
        /\ sync'[s].pc = sync[s].pc /\ sync[s].pc = "expand" /\ l # 0
    BY <1>4, <2>0, ComputedRecord DEF SameBut
  <2>2. /\ sync[s].rows \in [Subjects -> 0..3] /\ sync[s].desired \in [Users -> 0..3]
        /\ grants \in [Subjects -> 0..3]
    BY DEF TypeOK, SyncRecords, Levels
  <2>3. \A x \in Subjects : sync[s].rows[x] \in {0, grants[x]}
    BY <1>0, <2>1 DEF InTime
  <2>4. l = grants[sub]
    BY <2>1, <2>3
  <2>5. ASSUME NEW u \in Users \ Protected
        PROVE  ExactFor(s, u)'
    <3> DEFINE d == sync[s].desired[u]
               e == sync'[s].desired[u]
    <3>1. ExactFor(s, u)
      BY <1>0, <2>1 DEF InTime
    <3>2. u \notin Reserved /\ u # Owner
      BY DEF Protected
    <3>3. e = IF u \in Covers(sub) /\ l > d THEN l ELSE d
      BY <2>1, <3>2 DEF Bumped
    <3>4. d \in 0..3 /\ e \in 0..3 /\ d <= e /\ (u \in Covers(sub) => l <= e)
      BY <2>2, <3>3
    <3>5. ASSUME NEW x \in Subjects, u \in Covers(x), sync'[s].rows[x] = 0
          PROVE  grants[x] <= e
      <4>1. CASE x = sub
        BY <4>1, <2>4, <3>4, <3>5
      <4>2. CASE x # sub
        <5>1. sync[s].rows[x] = 0
          BY <2>1, <2>2, <3>5, <4>2
        <5>2. grants[x] <= d
          BY <5>1, <3>1, <3>5 DEF ExactFor
        <5>3. grants[x] \in 0..3
          BY <2>2
        <5>4. QED
          BY <5>2, <5>3, <3>4
      <4>3. QED
        BY <4>1, <4>2
    <3>6. ASSUME e # 0
          PROVE  \E x \in Subjects : u \in Covers(x) /\ grants[x] = e
      <4>1. CASE e = d
        BY <3>1, <3>6, <4>1 DEF ExactFor
      <4>2. CASE u \in Covers(sub) /\ e = l
        BY <4>2, <2>4
      <4>3. QED
        BY <3>3, <4>1, <4>2
    <3>7. QED
      BY <3>5, <3>6, <1>1, <1>2 DEF ExactFor
  <2>6. \A x \in Subjects : sync'[s].rows[x] \in {0, grants[x]}
    BY <2>1, <2>2, <2>3
  <2>7. QED
    BY <1>1, <2>1, <2>5, <2>6 DEF InTime
<1>5. ASSUME NEW misread, List(s, misread)
      PROVE  InTime(s)'
  <2>1. /\ sync'[s].pc = "apply" /\ sync'[s].desired = Wanted(s)
        /\ sync'[s].drops = ToRemove(Wanted(s), Listed(misread))
        /\ sync'[s].rows = sync[s].rows
    BY <1>5, ComputedRecord DEF SameBut
  <2>2. sync[s].pc = "expand"
    BY <1>5 DEF List
  <2>3. \A u \in Users \ Protected : Wanted(s)[u] = sync[s].desired[u]
    BY <1>0 DEF Wanted, Protected, SyncRecords
  <2>4. ASSUME NEW u \in Users \ Protected
        PROVE  ExactFor(s, u)'
    BY <1>0, <1>1, <1>2, <2>1, <2>2, <2>3 DEF InTime, ExactFor
  <2>5. \A v : v \in ToRemove(Wanted(s), Listed(misread)) => Wanted(s)[v] = 0
    BY DEF ToRemove
  <2>6. QED
    BY <1>0, <1>1, <2>1, <2>2, <2>4, <2>5 DEF InTime
<1>6. ASSUME NEW u, \/ SetCollaborator(s, u) \/ SetFails(s, u)
                    \/ RemoveCollaborator(s, u) \/ RemoveFails(s, u)
      PROVE  InTime(s)'
  <2>1. SameWork(sync[s], sync'[s])
    BY <1>6, ComputedRecord DEF SameBut, SameWork
  <2>2. QED
    BY <1>0, <1>1, <2>1, InTimeKept
<1>7. QED
  BY <1>3, <1>4, <1>5, <1>6 DEF Computing

\* What a sync in time sets or removes is what the policy says.
LEMMA ComputesSettled ==
  ASSUME TypeOK, CleanSyncExact, ProtectedSpared, Calm, NEW s \in Syncs, Computing(s)
  PROVE  Settled'
<1> USE DEF dbVars, giteaVars
<1>0. InTime(s) /\ sync[s] \in SyncRecords /\ Settled
  BY DEF Calm, TypeOK
<1>1. UNCHANGED <<grants, members>>
  BY SyncStepLeaves
<1>2. \A sub \in Subjects : Covers(sub)' = Covers(sub)
  BY <1>1 DEF Covers
<1>3. \A u, l : Entitled(u, l) => Entitled(u, l)'
  BY <1>1, <1>2 DEF Entitled
<1>4. UNCHANGED <<accounts, private>>
  BY DEF Computing, ReadGrants, Expand, List, SetCollaborator, SetFails, RemoveCollaborator,
     RemoveFails
<1>5. CASE UNCHANGED collab
  BY <1>0, <1>3, <1>4, <1>5 DEF Settled
<1>6. ASSUME NEW u \in Users, SetCollaborator(s, u) \/ RemoveCollaborator(s, u)
      PROVE  Settled'
  <2>1. sync[s].pc = "apply"
    BY <1>6 DEF SetCollaborator, RemoveCollaborator
  <2>2. sync[s].rows = NoRows
    BY <2>1 DEF CleanSyncExact
  <2>3. u \notin Protected
    BY <1>6 DEF SetCollaborator, RemoveCollaborator, ProtectedSpared
  <2>4. Entitled(u, sync[s].desired[u])
    BY <1>0, <2>1, <2>2, <2>3 DEF InTime, ExactFor, Entitled, NoRows
  <2>5. collab' = [collab EXCEPT ![u] = sync[s].desired[u]]
    BY <1>0, <1>6, <2>1 DEF SetCollaborator, RemoveCollaborator, InTime
  <2>6. collab \in [Users -> Levels] /\ accounts \subseteq Users
    BY DEF TypeOK
  <2>7. ASSUME NEW v \in accounts \ Protected
        PROVE  Entitled(v, collab'[v])
    BY <1>0, <2>4, <2>5, <2>6 DEF Settled
  <2>8. QED
    BY <1>0, <1>3, <1>4, <2>7 DEF Settled
<1>7. QED
  BY <1>5, <1>6 DEF Computing, ReadGrants, Expand, List, SetFails, RemoveFails

LEMMA CalmStep ==
  ASSUME TypeOK, CleanSyncExact, ProtectedSpared, Calm, [Next]_vars, edits' = edits
  PROVE  Calm'
<1>1. CASE Plain
  <2>1. Settled'
    <3>1. UNCHANGED <<grants, members, accounts, collab>> /\ private'
      BY <1>1, CalmPlain
    <3>2. \A sub \in Subjects : Covers(sub)' = Covers(sub)
      BY <3>1 DEF Covers
    <3>3. \A u : Entitled(u, collab[u]) => Entitled(u, collab[u])'
      BY <3>1, <3>2 DEF Entitled
    <3>4. QED
      BY <3>1, <3>3 DEF Calm, Settled
  <2>2. ASSUME NEW t \in Syncs
        PROVE  InTime(t)'
    <3>1. Waiting(sync'[t]) \/ SameWork(sync[t], sync'[t])
      BY <1>1, CalmPlain DEF SameWork
    <3>2. UNCHANGED <<grants, members>> /\ InTime(t)
      BY <1>1, CalmPlain DEF Calm
    <3>3. QED
      BY <3>1, <3>2, InTimeKept
  <2>3. \A u \in Users : fan'[u].pc = "idle"
    BY <1>1, CalmPlain
  <2>4. QED
    BY <2>1, <2>2, <2>3 DEF Calm
<1>2. ASSUME NEW s \in Syncs, Computing(s)
      PROVE  Calm'
  <2>1. UNCHANGED <<grants, members, fan>>
    BY <1>2, SyncStepLeaves DEF dbVars
  <2>2. ASSUME NEW t \in Syncs
        PROVE  InTime(t)'
    BY <1>2, <2>1, ComputesInTime, OthersWork, InTimeKept DEF Calm
  <2>3. QED
    BY <1>2, <2>1, <2>2, ComputesSettled DEF Calm
<1>3. CASE UNCHANGED vars
  BY <1>3 DEF vars, dbVars, giteaVars, Calm, Settled, InTime, ExactFor, Entitled, Covers
<1>4. QED
  BY <1>1, <1>2, <1>3, StepKinds

\* Once the repository is settled and no sync or fan-out carries an outdated
\* policy, no sweep, overlap of syncs, failed call or restart unsettles it.
THEOREM SettledStays == Spec => StaysSettled
<1>1. IndInv /\ [Next]_vars => [Calm /\ edits' = edits => Calm']_vars
  BY CalmStep DEF IndInv
<1>2. QED
  BY <1>1, Invariance, PTL DEF Spec, StaysSettled

=============================================================================
