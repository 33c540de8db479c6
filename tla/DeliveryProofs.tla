--------------------------- MODULE DeliveryProofs ---------------------------
(***************************************************************************)
(* Proofs about what the platform delivers: the cache of artifacts         *)
(* (ArtifactCache), the images that are built and pinned (PinImage), and   *)
(* the template of new projects, its content (TemplateSeed) and who may    *)
(* write it (TemplateAccess).  For every set of keys, handlers, commits,   *)
(* runs, users and operations, and for every bound that the modules have.  *)
(***************************************************************************)
EXTENDS ArtifactCache, PinImage, TemplateSeed, TemplateAccess, FiniteSetTheorems, TLAPS

-----------------------------------------------------------------------------
(* The cache of artifacts (ArtifactCache).                                 *)

IndInv == TypeOK /\ Exclusive /\ CarriedWhole /\ StillAbove

\* The low-water mark is a number.
LEMMA LowWaterInt == LowWater \in Int
<1>1. MaxBytes * 7 \in Nat
  BY ArtifactCacheAssumption
<1> QED BY <1>1 DEF LowWater

\* The idle record has the type of a handler, whatever key stands in it.
LEMMA IdleType ==
  /\ Idle \in [pc : Stages, key : Keys, n : Nat, old : Nat,
               failed : BOOLEAN, entries : SUBSET Keys]
  /\ Idle.pc = "idle"
BY ArtifactCacheAssumption DEF Idle, Stages

\* Bytes: a file that is put, replaced or removed changes the bytes on the disk by
\* just its size.
LEMMA BytesOfFile ==
  ASSUME NEW k, NEW n \in Nat
  PROVE  IsFiniteSet({k} \X (1..n)) /\ Cardinality({k} \X (1..n)) = n
<1>1. IsFiniteSet(1..n) /\ Cardinality(1..n) = n
  BY FS_Interval
<1>2. IsFiniteSet({k}) /\ Cardinality({k}) = 1
  BY FS_Singleton
<1> QED BY <1>1, <1>2, FS_Product

LEMMA BytesChange ==
  ASSUME NEW f \in [Keys -> Nat], NEW k \in Keys, NEW n \in Nat, IsFiniteSet(Bytes(f)),
         NEW g, g = [f EXCEPT ![k] = n]
  PROVE  /\ IsFiniteSet(Bytes(g))
         /\ Cardinality(Bytes(g)) = Cardinality(Bytes(f)) - f[k] + n
<1> DEFINE old == {k} \X (1..f[k])
           new == {k} \X (1..n)
<1> HIDE DEF old, new
<1>1. f[k] \in Nat
  OBVIOUS
<1>2. /\ IsFiniteSet(old) /\ Cardinality(old) = f[k]
      /\ IsFiniteSet(new) /\ Cardinality(new) = n
  BY <1>1, BytesOfFile DEF old, new
<1>3. Bytes(f) \cap old = old
  <2>1. old \in {{j} \X (1..f[j]) : j \in Keys}
    BY DEF old
  <2> QED BY <2>1 DEF Bytes
<1>4. /\ IsFiniteSet(Bytes(f) \ old)
      /\ Cardinality(Bytes(f) \ old) = Cardinality(Bytes(f)) - f[k]
  BY <1>2, <1>3, FS_Difference
<1>5. Bytes(g) = (Bytes(f) \ old) \cup new
  <2>1. ASSUME NEW x \in Bytes(g) PROVE x \in (Bytes(f) \ old) \cup new
    <3>1. PICK j \in Keys : x \in {j} \X (1..g[j])
      BY DEF Bytes
    <3>2. CASE j = k
      BY <3>1, <3>2 DEF new
    <3>3. CASE j # k
      <4>1. x \in {j} \X (1..f[j])
        BY <3>1, <3>3
      <4>2. x \in Bytes(f)
        BY <4>1 DEF Bytes
      <4>3. x \notin old
        BY <3>3, <4>1 DEF old
      <4> QED BY <4>2, <4>3
    <3> QED BY <3>2, <3>3
  <2>2. ASSUME NEW x \in Bytes(f), x \notin old PROVE x \in Bytes(g)
    <3>1. PICK j \in Keys : x \in {j} \X (1..f[j])
      BY DEF Bytes
    <3>2. j # k
      BY <2>2, <3>1 DEF old
    <3> QED BY <3>1, <3>2 DEF Bytes
  <2>3. new \subseteq Bytes(g)
    <3>1. g[k] = n
      OBVIOUS
    <3>2. new \in {{j} \X (1..g[j]) : j \in Keys}
      BY <3>1 DEF new
    <3> QED BY <3>2 DEF Bytes
  <2> QED BY <2>1, <2>2, <2>3
<1>6. (Bytes(f) \ old) \cap new = {}
  <2>1. ASSUME NEW x \in Bytes(f), x \in new PROVE x \in old
    <3>1. PICK j \in Keys : x \in {j} \X (1..f[j])
      BY DEF Bytes
    <3>2. j = k
      BY <2>1, <3>1 DEF new
    <3> QED BY <3>1, <3>2 DEF old
  <2> QED BY <2>1
<1>7. Cardinality(Bytes(f)) \in Nat
  BY FS_CardinalityType
<1>8. Cardinality((Bytes(f) \ old) \cap new) = 0
  BY <1>6, FS_EmptySet
<1>9. /\ IsFiniteSet((Bytes(f) \ old) \cup new)
      /\ Cardinality((Bytes(f) \ old) \cup new)
           = Cardinality(Bytes(f) \ old) + Cardinality(new) - Cardinality((Bytes(f) \ old) \cap new)
  BY <1>2, <1>4, FS_Union
<1>10. Cardinality((Bytes(f) \ old) \cup new) = Cardinality(Bytes(f)) - f[k] + n
  BY <1>1, <1>2, <1>4, <1>7, <1>8, <1>9
<1> QED BY <1>5, <1>9, <1>10

\* ... and there are none before the first one.
LEMMA NoBytes ==
  ASSUME NEW f, f = [k \in Keys |-> 0]
  PROVE  IsFiniteSet(Bytes(f)) /\ Cardinality(Bytes(f)) = 0
<1>1. Bytes(f) = {}
  BY DEF Bytes
<1> QED BY <1>1, FS_EmptySet

\* Every step of a handler keeps the invariant.
LEMMA AdvanceStep ==
  ASSUME IndInv, NEW h \in Handlers, Request(h) \/ Advance(h)
  PROVE  IndInv'
<1> USE IdleType, LowWaterInt, ArtifactCacheAssumption
<1>1. ASSUME NEW k \in Keys, Hit(h, k) PROVE IndInv'
  <2>1. TypeOK'
    BY <1>1 DEF IndInv, TypeOK, Stages, At, Goto, Return, Fail, rest, Hit
  <2>2. Exclusive'
    BY <1>1 DEF IndInv, TypeOK, Exclusive, AccStages, EvictStages, At, Goto, Return, Fail,
       rest, Hit
  <2>3. CarriedWhole'
    BY <1>1 DEF IndInv, TypeOK, CarriedWhole, Carried, At, Goto, Return, Fail, rest, Hit
  <2>4. StillAbove'
    BY <1>1 DEF IndInv, TypeOK, StillAbove, CarriedWhole, Carried, Exclusive, AccStages,
       EvictStages, At, Goto, Return, Fail, rest, Hit
  <2> QED BY <2>1, <2>2, <2>3, <2>4 DEF IndInv
<1>2. ASSUME Serve(h) PROVE IndInv'
  BY <1>2 DEF IndInv, TypeOK, Exclusive, CarriedWhole, Carried, StillAbove, AccStages, EvictStages,
     Stages, At, Goto, Return, Fail, rest, Serve
<1>3. ASSUME NEW k \in Keys, Miss(h, k) PROVE IndInv'
  <2>1. TypeOK'
    BY <1>3 DEF IndInv, TypeOK, Stages, At, Goto, Return, Fail, rest, Miss
  <2>2. Exclusive'
    BY <1>3 DEF IndInv, TypeOK, Exclusive, AccStages, EvictStages, At, Goto, Return, Fail,
       rest, Miss
  <2>3. CarriedWhole'
    BY <1>3 DEF IndInv, TypeOK, CarriedWhole, Carried, At, Goto, Return, Fail, rest, Miss
  <2>4. StillAbove'
    BY <1>3 DEF IndInv, TypeOK, StillAbove, CarriedWhole, Carried, Exclusive, AccStages,
       EvictStages, At, Goto, Return, Fail, rest, Miss
  <2> QED BY <2>1, <2>2, <2>3, <2>4 DEF IndInv
<1>4. ASSUME Uncached(h) PROVE IndInv'
  BY <1>4 DEF IndInv, TypeOK, Exclusive, CarriedWhole, Carried, StillAbove, AccStages, EvictStages,
     Stages, At, Goto, Return, Fail, rest, Uncached
<1>5. ASSUME NewWriter(h) PROVE IndInv'
  BY <1>5 DEF IndInv, TypeOK, Exclusive, CarriedWhole, Carried, StillAbove, AccStages, EvictStages,
     Stages, At, Goto, Return, Fail, rest, NewWriter
<1>6. ASSUME NEW n \in 1..Size[handler[h].key], Copy(h, n) PROVE IndInv'
  <2>0. PICK b \in BOOLEAN : handler' = [handler EXCEPT ![h].pc = "finish", ![h].n = n, ![h].failed = b]
    BY <1>6 DEF Copy
  <2>1. TypeOK'
    <3>1. n \in Nat
      BY <1>6 DEF IndInv, TypeOK
    <3>2. failures' \in 0..MaxFailures
      BY <1>6 DEF IndInv, TypeOK, Fail, Copy
    <3>3. handler' \in [Handlers -> [pc : Stages, key : Keys, n : Nat, old : Nat,
                                   failed : BOOLEAN, entries : SUBSET Keys]]
      <4>1. [handler[h] EXCEPT !.pc = "finish", !.n = n, !.failed = b]
              \in [pc : Stages, key : Keys, n : Nat, old : Nat,
                   failed : BOOLEAN, entries : SUBSET Keys]
        BY <3>1 DEF IndInv, TypeOK, Stages
      <4>2. handler' = [handler EXCEPT ![h] = [handler[h] EXCEPT !.pc = "finish", !.n = n, !.failed = b]]
        BY <2>0 DEF IndInv, TypeOK
      <4> QED BY <4>1, <4>2 DEF IndInv, TypeOK
    <3> QED BY <1>6, <3>2, <3>3 DEF IndInv, TypeOK, Copy
  <2>2. Exclusive'
    BY <1>6 DEF IndInv, TypeOK, Exclusive, AccStages, EvictStages, At, Goto, Return, Fail,
       rest, Copy
  <2>3. CarriedWhole'
    BY <1>6 DEF IndInv, TypeOK, CarriedWhole, Carried, At, Goto, Return, Fail, rest, Copy
  <2>4. StillAbove'
    BY <1>6 DEF IndInv, TypeOK, StillAbove, CarriedWhole, Carried, Exclusive, AccStages,
       EvictStages, At, Goto, Return, Fail, rest, Copy
  <2> QED BY <2>1, <2>2, <2>3, <2>4 DEF IndInv
<1>7. ASSUME Finish(h) PROVE IndInv'
  BY <1>7 DEF IndInv, TypeOK, Exclusive, CarriedWhole, Carried, StillAbove, AccStages, EvictStages,
     Stages, At, Goto, Return, Fail, rest, Finish, Keeps
<1>8. ASSUME CloseFails(h) PROVE IndInv'
  BY <1>8 DEF IndInv, TypeOK, Exclusive, CarriedWhole, Carried, StillAbove, AccStages, EvictStages,
     Stages, At, Goto, Return, Fail, rest, CloseFails
<1>9. ASSUME LockCommit(h) PROVE IndInv'
  <2>1. TypeOK'
    BY ZenonT(30), <1>9 DEF IndInv, TypeOK, Stages, At, Goto, Return, Fail, rest, LockCommit
  <2>2. Exclusive'
    BY <1>9 DEF IndInv, TypeOK, Exclusive, AccStages, EvictStages, At, Goto, Return, Fail,
       rest, LockCommit
  <2>3. CarriedWhole'
    BY <1>9 DEF IndInv, TypeOK, CarriedWhole, Carried, At, Goto, Return, Fail, rest, LockCommit
  <2>4. StillAbove'
    BY <1>9 DEF IndInv, TypeOK, StillAbove, CarriedWhole, Carried, Exclusive, AccStages,
       EvictStages, At, Goto, Return, Fail, rest, LockCommit
  <2> QED BY <2>1, <2>2, <2>3, <2>4 DEF IndInv
<1>10. ASSUME Rename(h) PROVE IndInv'
  <2>0. IsFiniteSet(Bytes(file'))
    <3>1. /\ file \in [Keys -> Nat] /\ IsFiniteSet(Bytes(file))
          /\ handler[h].key \in Keys /\ handler[h].n \in Nat
      BY DEF IndInv, TypeOK
    <3> QED BY <1>10, <3>1, BytesChange DEF Rename
  <2>1. TypeOK'
    BY <1>10, <2>0 DEF IndInv, TypeOK, CarriedWhole, Carried, Stages, At, Goto, Return, Fail,
       rest, Rename
  <2>2. Exclusive'
    BY <1>10 DEF IndInv, TypeOK, Exclusive, AccStages, EvictStages, At, Goto, Return, Fail,
       rest, Rename
  <2>3. CarriedWhole'
    BY <1>10 DEF IndInv, TypeOK, CarriedWhole, Carried, At, Goto, Return, Fail, rest, Rename
  <2>4. StillAbove'
    BY <1>10 DEF IndInv, TypeOK, StillAbove, CarriedWhole, Carried, Exclusive, AccStages,
       EvictStages, At, Goto, Return, Fail, rest, Rename
  <2> QED BY <2>1, <2>2, <2>3, <2>4 DEF IndInv
<1>11. ASSUME RenameFails(h) PROVE IndInv'
  BY <1>11 DEF IndInv, TypeOK, Exclusive, CarriedWhole, Carried, StillAbove, AccStages, EvictStages,
     Stages, At, Goto, Return, Fail, rest, RenameFails
<1>12. ASSUME Add(h) PROVE IndInv'
  BY <1>12 DEF IndInv, TypeOK, Exclusive, CarriedWhole, Carried, StillAbove, AccStages, EvictStages,
     Stages, At, Goto, Return, Fail, rest, Add, Delta
<1>13. ASSUME MaybeEvict(h) PROVE IndInv'
  BY <1>13 DEF IndInv, TypeOK, Exclusive, CarriedWhole, Carried, StillAbove, AccStages, EvictStages,
     Stages, At, Goto, Return, Fail, rest, MaybeEvict
<1>14. ASSUME Recheck(h) PROVE IndInv'
  <2>1. TypeOK'
    <3>1. Cached \subseteq Keys
      BY DEF Cached
    <3>2. CASE Goto(h, "unlock")
      BY <1>14, <3>2 DEF IndInv, TypeOK, Stages, Goto, Recheck
    <3>3. CASE handler' = [handler EXCEPT ![h].pc = "walk", ![h].entries = Cached]
      BY ZenonT(30), <1>14, <3>1, <3>3 DEF IndInv, TypeOK, Stages, Recheck
    <3> QED BY <1>14, <3>2, <3>3 DEF Recheck
  <2>2. Exclusive'
    BY <1>14 DEF IndInv, TypeOK, Exclusive, AccStages, EvictStages, At, Goto, Return, Fail,
       rest, Recheck, Cached
  <2>3. CarriedWhole'
    BY <1>14 DEF IndInv, TypeOK, CarriedWhole, Carried, At, Goto, Return, Fail, rest, Recheck, Cached
  <2>4. StillAbove'
    BY <1>14 DEF IndInv, TypeOK, StillAbove, CarriedWhole, Carried, Exclusive, AccStages,
       EvictStages, At, Goto, Return, Fail, rest, Recheck, Cached
  <2> QED BY <2>1, <2>2, <2>3, <2>4 DEF IndInv
<1>23. ASSUME TryLock(h) PROVE IndInv'
  BY <1>23 DEF IndInv, TypeOK, Exclusive, CarriedWhole, Carried, StillAbove, AccStages, EvictStages,
     Stages, At, Goto, Return, Fail, rest, TryLock
<1>24. ASSUME Skip(h) PROVE IndInv'
  BY <1>24 DEF IndInv, TypeOK, Exclusive, CarriedWhole, Carried, StillAbove, AccStages, EvictStages,
     Stages, At, Goto, Return, Fail, rest, Skip
<1>15. ASSUME NEW seen \in SUBSET Cached, Walk(h, seen) PROVE IndInv'
  <2>1. TypeOK'
    BY ZenonT(30), <1>15 DEF IndInv, TypeOK, Stages, At, Goto, Return, Fail, rest, Walk, Cached
  <2>2. Exclusive'
    BY <1>15 DEF IndInv, TypeOK, Exclusive, AccStages, EvictStages, At, Goto, Return, Fail,
       rest, Walk, Cached
  <2>3. CarriedWhole'
    BY <1>15 DEF IndInv, TypeOK, CarriedWhole, Carried, At, Goto, Return, Fail, rest, Walk,
       Cached
  <2>4. StillAbove'
    BY <1>15 DEF IndInv, TypeOK, StillAbove, CarriedWhole, Carried, Exclusive, AccStages,
       EvictStages, At, Goto, Return, Fail, rest, Walk, Cached
  <2> QED BY <2>1, <2>2, <2>3, <2>4 DEF IndInv
<1>16. ASSUME NEW k \in Keys, EvictNext(h, k) PROVE IndInv'
  BY <1>16 DEF IndInv, TypeOK, Exclusive, CarriedWhole, Carried, StillAbove, AccStages, EvictStages,
     Stages, At, Goto, Return, Fail, rest, EvictNext, Rest
<1>17. ASSUME EvictEnd(h) PROVE IndInv'
  BY <1>17 DEF IndInv, TypeOK, Exclusive, CarriedWhole, Carried, StillAbove, AccStages, EvictStages,
     Stages, At, Goto, Return, Fail, rest, EvictEnd
<1>18. ASSUME Unlock(h) PROVE IndInv'
  BY <1>18 DEF IndInv, TypeOK, Exclusive, CarriedWhole, Carried, StillAbove, AccStages, EvictStages,
     Stages, At, Goto, Return, Fail, rest, Unlock
<1>19. ASSUME LockRemove(h) PROVE IndInv'
  <2>1. TypeOK'
    BY ZenonT(30), <1>19 DEF IndInv, TypeOK, Stages, At, Goto, Return, Fail, rest, LockRemove
  <2>2. Exclusive'
    BY <1>19 DEF IndInv, TypeOK, Exclusive, AccStages, EvictStages, At, Goto, Return, Fail,
       rest, LockRemove
  <2>3. CarriedWhole'
    BY <1>19 DEF IndInv, TypeOK, CarriedWhole, Carried, At, Goto, Return, Fail, rest, LockRemove
  <2>4. StillAbove'
    BY <1>19 DEF IndInv, TypeOK, StillAbove, CarriedWhole, Carried, Exclusive, AccStages,
       EvictStages, At, Goto, Return, Fail, rest, LockRemove
  <2> QED BY <2>1, <2>2, <2>3, <2>4 DEF IndInv
<1>20. ASSUME Remove(h) PROVE IndInv'
  <2>0. IsFiniteSet(Bytes(file'))
    <3>1. /\ file \in [Keys -> Nat] /\ IsFiniteSet(Bytes(file))
          /\ handler[h].key \in Keys /\ 0 \in Nat
      BY DEF IndInv, TypeOK
    <3> QED BY <1>20, <3>1, BytesChange DEF Remove
  <2>1. TypeOK'
    BY <1>20, <2>0 DEF IndInv, TypeOK, CarriedWhole, Carried, Stages, At, Goto, Return, Fail,
       rest, Remove
  <2>2. Exclusive'
    BY <1>20 DEF IndInv, TypeOK, Exclusive, AccStages, EvictStages, At, Goto, Return, Fail,
       rest, Remove
  <2>3. CarriedWhole'
    BY <1>20 DEF IndInv, TypeOK, CarriedWhole, Carried, At, Goto, Return, Fail, rest, Remove
  <2>4. StillAbove'
    BY <1>20 DEF IndInv, TypeOK, StillAbove, CarriedWhole, Carried, Exclusive, AccStages,
       EvictStages, At, Goto, Return, Fail, rest, Remove
  <2> QED BY <2>1, <2>2, <2>3, <2>4 DEF IndInv
<1>21. ASSUME NotRemoved(h) PROVE IndInv'
  BY <1>21 DEF IndInv, TypeOK, Exclusive, CarriedWhole, Carried, StillAbove, AccStages, EvictStages,
     Stages, At, Goto, Return, Fail, rest, NotRemoved
<1>22. ASSUME Subtract(h) PROVE IndInv'
  BY <1>22 DEF IndInv, TypeOK, Exclusive, CarriedWhole, Carried, StillAbove, AccStages, EvictStages,
     Stages, At, Goto, Return, Fail, rest, Subtract
<1> QED
  BY <1>1, <1>2, <1>3, <1>4, <1>5, <1>6, <1>7, <1>8, <1>9, <1>10, <1>11, <1>12, <1>13,
     <1>14, <1>15, <1>16, <1>17, <1>18, <1>19, <1>20, <1>21, <1>22, <1>23, <1>24
     DEF Request, Advance

\* Any step of the system keeps the invariant.
LEMMA IndStep == IndInv /\ [Next]_vars => IndInv'
<1>1. SUFFICES ASSUME IndInv, [Next]_vars PROVE IndInv'
  OBVIOUS
<1>2. CASE \E h \in Handlers : Request(h) \/ Advance(h)
  BY <1>1, <1>2, AdvanceStep
<1>3. CASE Restart
  <2>1. OnDisk \in Nat
    BY <1>1, FS_CardinalityType DEF IndInv, TypeOK, OnDisk
  <2> QED BY <1>1, <1>3, <2>1, IdleType, ArtifactCacheAssumption
          DEF IndInv, TypeOK, Exclusive, CarriedWhole, Carried, StillAbove, AccStages,
              EvictStages, Restart, Fail
<1>4. CASE UNCHANGED vars
  BY <1>1, <1>4 DEF IndInv, TypeOK, Exclusive, CarriedWhole, Carried, StillAbove, vars
<1> QED BY <1>1, <1>2, <1>3, <1>4 DEF Next

\* The empty cache satisfies the invariant.
LEMMA IndInit == Init => IndInv
<1> SUFFICES ASSUME Init PROVE IndInv
  OBVIOUS
<1>1. TypeOK
  <2>1. IsFiniteSet(Bytes(file))
    BY NoBytes DEF Init
  <2>2. handler \in [Handlers -> [pc : Stages, key : Keys, n : Nat, old : Nat,
                                failed : BOOLEAN, entries : SUBSET Keys]]
    BY IdleType DEF Init
  <2>3. file \in [Keys -> Nat] /\ \A k \in Keys : file[k] \in {0, Size[k]}
    BY DEF Init
  <2>4. /\ curBytes \in Int
        /\ fetches \in 0..MaxFetches /\ failures \in 0..MaxFailures
    BY ArtifactCacheAssumption DEF Init
  <2>5. accMu \in Handlers \cup {Nobody} /\ evictMu \in Handlers \cup {Nobody}
    BY DEF Init
  <2>6. overdue \in BOOLEAN
    BY Zenon DEF Init
  <2> QED BY <2>1, <2>2, <2>3, <2>4, <2>5, <2>6 DEF TypeOK
<1>2. Exclusive /\ CarriedWhole /\ StillAbove
  BY IdleType, ArtifactCacheAssumption
     DEF Init, Exclusive, CarriedWhole, Carried, StillAbove, AccStages, EvictStages
<1> QED BY <1>1, <1>2 DEF IndInv

\* The inductive invariant holds throughout: accMu and evictMu exclude, what is
\* carried to the disk is whole, and a removal is still wanted when it happens.
THEOREM Invariance == Spec => []IndInv
<1>1. Init => IndInv
  BY IndInit
<1>2. IndInv /\ [Next]_vars => IndInv'
  BY IndStep
<1> QED BY <1>1, <1>2, PTL DEF Spec

\* The state is well formed; the disk holds an artifact whole or not at all.
THEOREM TypeCorrect == Spec => []TypeOK
<1>1. IndInv => TypeOK
  BY DEF IndInv
<1> QED BY <1>1, Invariance, PTL

\* ArtifactCache.Get, NewWriter and Commit: no request is served a partial
\* body, however fetches of one URL, evictions and restarts overlap.
THEOREM WholeBodiesServed == Spec => []ServedWhole
<1>1. IndInv => ServedWhole
  BY DEF IndInv, CarriedWhole, Carried, ServedWhole, At
<1> QED BY <1>1, Invariance, PTL

\* The step is one of this handler's.
OnlyMoves(h) == \A g \in Handlers \ {h} : handler'[g] = handler[g]

\* A step outside accMu leaves the balance as it is.
LEMMA OutsideKeepsBalance ==
  ASSUME IndInv, Balanced, NEW h \in Handlers, OnlyMoves(h),
         file' = file, curBytes' = curBytes, accMu' = accMu,
         handler[h].pc \notin AccStages, handler'[h].pc \notin AccStages
  PROVE  Balanced'
BY DEF Balanced, OnDisk, OffBy, AccStages, OnlyMoves

\* Only one handler is inside accMu.
LEMMA OneInside ==
  ASSUME IndInv, NEW h \in Handlers, handler[h].pc \in AccStages
  PROVE  /\ accMu = h /\ accMu # Nobody
         /\ \A g \in Handlers \ {h} : handler[g].pc \notin AccStages
BY ArtifactCacheAssumption DEF IndInv, Exclusive

\* The steps that take accMu, and those that give it back without having changed anything.
LEMMA LockKeepsBalance ==
  ASSUME IndInv, Balanced, NEW h \in Handlers, LockCommit(h) \/ LockRemove(h)
  PROVE  Balanced'
<1>1. /\ OnlyMoves(h) /\ accMu = Nobody /\ accMu' = h /\ file' = file /\ curBytes' = curBytes
      /\ handler'[h].pc \in {"rename", "remove"}
      /\ handler'[h].key = handler[h].key /\ handler'[h].old = file[handler[h].key]
  BY DEF IndInv, TypeOK, LockCommit, LockRemove, OnlyMoves, At
<1>2. \A g \in Handlers : handler[g].pc \notin AccStages
  BY <1>1, OneInside
<1>3. accMu' # Nobody /\ curBytes = OnDisk
  BY <1>1, ArtifactCacheAssumption DEF Balanced
<1>4. OnDisk \in Nat /\ OnDisk' = OnDisk
  BY <1>1, FS_CardinalityType DEF OnDisk, IndInv, TypeOK
<1>5. ASSUME NEW g \in Handlers, handler'[g].pc \in AccStages PROVE g = h
  BY <1>1, <1>2, <1>5 DEF OnlyMoves
<1>6. curBytes' = OnDisk' + OffBy(handler'[h]) /\ file'[handler'[h].key] = handler'[h].old
  BY <1>1, <1>3, <1>4 DEF OffBy
<1> QED BY <1>1, <1>3, <1>5, <1>6 DEF Balanced, AccStages

LEMMA ReleaseKeepsBalance ==
  ASSUME IndInv, Balanced, NEW h \in Handlers, RenameFails(h) \/ NotRemoved(h)
  PROVE  Balanced'
<1>1. /\ OnlyMoves(h) /\ accMu' = Nobody /\ file' = file /\ curBytes' = curBytes
      /\ handler[h].pc \in {"rename", "remove"} /\ handler'[h].pc \notin AccStages
  BY IdleType DEF IndInv, TypeOK, RenameFails, NotRemoved, OnlyMoves, At, Goto, Return, AccStages
<1>2. curBytes = OnDisk
  <2>1. OnDisk \in Nat
    BY FS_CardinalityType DEF OnDisk, IndInv, TypeOK
  <2>2. curBytes = OnDisk + OffBy(handler[h])
    BY <1>1 DEF Balanced, AccStages
  <2>3. OffBy(handler[h]) = 0
    BY <1>1 DEF OffBy
  <2> QED BY <2>1, <2>2, <2>3
<1>3. \A g \in Handlers : handler'[g].pc \notin AccStages
  BY <1>1, OneInside DEF OnlyMoves, AccStages
<1> QED BY <1>1, <1>2, <1>3 DEF Balanced, OnDisk, AccStages

\* The rename and the removal change the disk by what they are still to tell the total.
LEMMA ChangeKeepsBalance ==
  ASSUME IndInv, Balanced, NEW h \in Handlers, Rename(h) \/ Remove(h)
  PROVE  Balanced'
<1> DEFINE r == handler[h]
           n == IF r.pc = "rename" THEN r.n ELSE 0
<1>1. /\ r.pc \in {"rename", "remove"} /\ r.key \in Keys /\ r.n \in Nat /\ r.old \in Nat
      /\ file \in [Keys -> Nat] /\ IsFiniteSet(Bytes(file))
  BY DEF IndInv, TypeOK, Rename, Remove, At
<1>2. /\ OnlyMoves(h) /\ accMu' = accMu /\ curBytes' = curBytes
      /\ file' = [file EXCEPT ![r.key] = n]
      /\ handler'[h] = [r EXCEPT !.pc = IF r.pc = "rename" THEN "add" ELSE "subtract"]
  BY DEF IndInv, TypeOK, Rename, Remove, At, Goto, OnlyMoves
<1>3. n \in Nat /\ OnDisk \in Nat /\ curBytes = OnDisk /\ file[r.key] = r.old
  BY <1>1, FS_CardinalityType DEF Balanced, OffBy, OnDisk, AccStages
<1>4. OnDisk' = OnDisk - r.old + n
  <2>1. ASSUME NEW k \in Keys, NEW m \in Nat, file' = [file EXCEPT ![k] = m]
        PROVE  OnDisk' = OnDisk - file[k] + m
    <3>1. Cardinality(Bytes([file EXCEPT ![k] = m])) = Cardinality(Bytes(file)) - file[k] + m
      BY <1>1, BytesChange
    <3>2. OnDisk' = Cardinality(Bytes([file EXCEPT ![k] = m]))
      BY <2>1 DEF OnDisk, Bytes
    <3> QED BY <3>1, <3>2 DEF OnDisk
  <2>2. r.key \in Keys /\ n \in Nat /\ file' = [file EXCEPT ![r.key] = n] /\ file[r.key] = r.old
    BY <1>1, <1>2, <1>3
  <2> HIDE DEF r, n
  <2> QED BY <2>1, <2>2
<1>5. /\ accMu' # Nobody
      /\ \A g \in Handlers \ {h} : handler'[g].pc \notin AccStages
  BY <1>1, <1>2, OneInside DEF OnlyMoves, AccStages
<1>6. curBytes' = OnDisk' + OffBy(handler'[h])
  BY <1>1, <1>2, <1>3, <1>4 DEF OffBy
<1>7. file'[r.key] = n
  BY <1>1, <1>2
<1>8. /\ handler'[h].pc \in {"add", "subtract"} /\ handler'[h].key = r.key /\ handler'[h].n = r.n
      /\ handler'[h].pc = "add" <=> r.pc = "rename"
  BY <1>1, <1>2
<1> HIDE DEF r, n
<1>9. ASSUME NEW g \in Handlers, handler'[g].pc \in AccStages PROVE g = h
  BY <1>5, <1>9
<1>10. /\ handler'[h].pc = "add" => file'[handler'[h].key] = handler'[h].n
       /\ handler'[h].pc = "subtract" => file'[handler'[h].key] = 0
  BY <1>7, <1>8 DEF n
<1> QED BY <1>5, <1>6, <1>8, <1>9, <1>10 DEF Balanced, AccStages

\* The total is told, and accMu is free.
LEMMA TellKeepsBalance ==
  ASSUME IndInv, Balanced, NEW h \in Handlers, Add(h) \/ Subtract(h)
  PROVE  Balanced'
<1>1. /\ handler[h].pc \in {"add", "subtract"} /\ handler[h].n \in Nat /\ handler[h].old \in Nat
      /\ curBytes' = curBytes - OffBy(handler[h])
  BY DEF IndInv, TypeOK, Add, Subtract, At, Delta, OffBy
<1>2. /\ OnlyMoves(h) /\ accMu' = Nobody /\ file' = file /\ handler'[h].pc \notin AccStages
  BY DEF IndInv, TypeOK, Add, Subtract, OnlyMoves, At, Goto, AccStages
<1>3. OnDisk \in Nat /\ curBytes = OnDisk + OffBy(handler[h])
  BY <1>1, FS_CardinalityType DEF Balanced, AccStages, OnDisk, IndInv, TypeOK
<1>4. OffBy(handler[h]) \in Int
  BY <1>1 DEF OffBy
<1>5. curBytes' = OnDisk'
  BY <1>1, <1>2, <1>3, <1>4 DEF OnDisk
<1>6. \A g \in Handlers : handler'[g].pc \notin AccStages
  BY <1>1, <1>2, OneInside DEF OnlyMoves, AccStages
<1> QED BY <1>5, <1>6 DEF Balanced, AccStages

LEMMA IdleHas == Idle.pc = "idle" /\ Idle.entries = {}
BY DEF Idle

\* A request begins with a file that is open, or with the way upstream.
LEMMA RequestBegins ==
  ASSUME IndInv, NEW h \in Handlers, Request(h)
  PROVE  /\ OnlyMoves(h) /\ handler[h].pc = "idle"
         /\ handler'[h].pc \in {"serve", "fetch"} /\ handler'[h].entries = {}
<1>1. PICK k \in Keys : Hit(h, k) \/ Miss(h, k)
  BY DEF Request
<1>2. handler[h].pc = "idle"
  BY <1>1 DEF Hit, Miss, At
<1>3. DOMAIN handler = Handlers
  BY DEF IndInv, TypeOK
<1>4. PICK r : /\ handler' = [handler EXCEPT ![h] = r]
               /\ r.pc \in {"serve", "fetch"} /\ r.entries = {}
  <2>1. CASE Hit(h, k)
    <3>1. [Idle EXCEPT !.pc = "serve", !.key = k, !.n = file[k]].pc = "serve"
          /\ [Idle EXCEPT !.pc = "serve", !.key = k, !.n = file[k]].entries = {}
      BY DEF Idle
    <3> QED BY <2>1, <3>1 DEF Hit
  <2>2. CASE Miss(h, k)
    <3>1. [Idle EXCEPT !.pc = "fetch", !.key = k].pc = "fetch"
          /\ [Idle EXCEPT !.pc = "fetch", !.key = k].entries = {}
      BY DEF Idle
    <3> QED BY <2>2, <3>1 DEF Miss
  <2> QED BY <1>1, <2>1, <2>2
<1>5. handler'[h] = r /\ \A g \in Handlers \ {h} : handler'[g] = handler[g]
  BY <1>3, <1>4
<1> QED BY <1>2, <1>4, <1>5 DEF OnlyMoves

\* The two steps of a pass that only read its list.
LEMMA PassMoves ==
  ASSUME IndInv, NEW h \in Handlers,
         \/ \E seen \in SUBSET Cached : Walk(h, seen)
         \/ \E k \in Keys : EvictNext(h, k)
  PROVE  OnlyMoves(h) /\ handler'[h].pc \in {"evict", "lock"}
<1>1. ASSUME NEW seen \in SUBSET Cached, Walk(h, seen)
      PROVE  OnlyMoves(h) /\ handler'[h].pc \in {"evict", "lock"}
  BY <1>1 DEF Walk, OnlyMoves, IndInv, TypeOK
<1>2. ASSUME NEW k \in Keys, EvictNext(h, k)
      PROVE  OnlyMoves(h) /\ handler'[h].pc \in {"evict", "lock"}
  <2>1. handler' = [handler EXCEPT ![h] = [handler[h] EXCEPT !.pc = "lock", !.key = k,
                                             !.entries = Rest(handler[h].entries, k)]]
    BY <1>2 DEF EvictNext
  <2>2. handler \in [Handlers -> [pc : Stages, key : Keys, n : Nat, old : Nat,
                                failed : BOOLEAN, entries : SUBSET Keys]]
    BY DEF IndInv, TypeOK
  <2> HIDE <1>2
  <2> QED BY <2>1, <2>2 DEF OnlyMoves
<1> QED BY <1>1, <1>2

LEMMA BalanceStep == IndInv /\ Balanced /\ [Next]_vars => Balanced'
<1> SUFFICES ASSUME IndInv, Balanced, [Next]_vars PROVE Balanced'
  OBVIOUS
<1>1. ASSUME NEW h \in Handlers, Request(h) \/ Advance(h) PROVE Balanced'
  <2>1. CASE LockCommit(h) \/ LockRemove(h)
    BY <2>1, LockKeepsBalance
  <2>2. CASE RenameFails(h) \/ NotRemoved(h)
    BY <2>2, ReleaseKeepsBalance
  <2>3. CASE Rename(h) \/ Remove(h)
    BY <2>3, ChangeKeepsBalance
  <2>4. CASE Add(h) \/ Subtract(h)
    BY <2>4, TellKeepsBalance
  <2>5. ASSUME \/ Request(h) \/ Serve(h) \/ Uncached(h) \/ NewWriter(h) \/ Finish(h)
               \/ \E n \in 1..Size[handler[h].key] : Copy(h, n)
               \/ CloseFails(h) \/ MaybeEvict(h) \/ TryLock(h) \/ Skip(h) \/ Recheck(h)
               \/ EvictEnd(h) \/ Unlock(h)
               \/ \E seen \in SUBSET Cached : Walk(h, seen)
               \/ \E k \in Keys : EvictNext(h, k)
        PROVE  Balanced'
    <3>1. file' = file /\ curBytes' = curBytes /\ accMu' = accMu
      BY <2>5 DEF Request, Hit, Serve, Miss, Uncached, NewWriter, Copy, Finish, CloseFails,
         MaybeEvict, TryLock, Skip, Recheck, Walk, EvictNext, EvictEnd, Unlock
    <3>2. handler[h].pc \notin AccStages
      BY <2>5 DEF Request, Hit, Serve, Miss, Uncached, NewWriter, Copy, Finish, CloseFails,
         MaybeEvict, TryLock, Skip, Recheck, Walk, EvictNext, EvictEnd, Unlock, At, AccStages
    <3>3. OnlyMoves(h) /\ handler'[h].pc \notin AccStages
      <4>1. CASE Serve(h) \/ Uncached(h) \/ CloseFails(h) \/ Skip(h) \/ Unlock(h)
        BY <4>1, IdleType DEF Serve, Uncached, CloseFails, Skip, Unlock, Return, AccStages,
           OnlyMoves, IndInv, TypeOK
      <4>2. CASE \/ NewWriter(h) \/ Finish(h) \/ MaybeEvict(h) \/ TryLock(h) \/ Recheck(h)
                 \/ EvictEnd(h)
        BY <4>2, IdleType DEF NewWriter, Finish, MaybeEvict, TryLock, Recheck, EvictEnd, Goto,
           Return, AccStages, OnlyMoves, IndInv, TypeOK
      <4>3. CASE \/ \E seen \in SUBSET Cached : Walk(h, seen)
                 \/ \E k \in Keys : EvictNext(h, k)
        BY <4>3, PassMoves DEF AccStages
      <4>4. CASE \E n \in 1..Size[handler[h].key] : Copy(h, n)
        BY <4>4 DEF Copy, AccStages, OnlyMoves, IndInv, TypeOK
      <4>5. CASE Request(h)
        BY <4>5, RequestBegins DEF AccStages
      <4> QED BY <2>5, <4>1, <4>2, <4>3, <4>4, <4>5
    <3> QED BY <3>1, <3>2, <3>3, OutsideKeepsBalance
  <2> QED BY <1>1, <2>1, <2>2, <2>3, <2>4, <2>5 DEF Advance
<1>2. CASE Restart
  BY <1>2, IdleType, ArtifactCacheAssumption DEF Restart, Balanced, OnDisk, AccStages
<1>3. CASE UNCHANGED vars
  BY <1>3 DEF Balanced, OnDisk, OffBy, vars
<1> QED BY <1>1, <1>2, <1>3 DEF Next

\* The two marks, and an empty directory.
LEMMA MarksOrdered ==
  /\ LowWater \in Nat /\ HighWater \in Nat /\ LowWater <= HighWater
BY ArtifactCacheAssumption DEF LowWater, HighWater

LEMMA NothingCached == Cached = {} => OnDisk = 0
<1>1. Cached = {} => \A k \in Keys : file[k] = 0
  BY DEF Cached
<1>2. (\A k \in Keys : file[k] = 0) => Bytes(file) = {}
  BY DEF Bytes
<1> QED BY <1>1, <1>2, FS_EmptySet DEF OnDisk

\* Who pursues goes on to, unless the step is its own.
LEMMA OtherPursues ==
  ASSUME Pursued, NEW h \in Handlers, OnlyMoves(h), Cached' \subseteq Cached, Above, ~overdue,
         ~Pursues(handler[h])
  PROVE  \E g \in Handlers : Pursues(handler[g])'
<1>1. PICK g \in Handlers : Pursues(handler[g])
  BY DEF Pursued
<1>2. g # h /\ handler'[g] = handler[g]
  BY <1>1 DEF OnlyMoves
<1>3. Pursues(handler[g])'
  BY <1>1, <1>2 DEF Pursues, Ahead
<1> QED BY <1>3

\* The steps of those who have nothing to do with the total yet, or any more.
LEMMA AsidePursues ==
  ASSUME IndInv, Pursued, Above', ~overdue', NEW h \in Handlers,
         \/ Request(h) \/ Serve(h) \/ Uncached(h) \/ NewWriter(h) \/ Finish(h)
         \/ \E n \in 1..Size[handler[h].key] : Copy(h, n)
         \/ CloseFails(h) \/ LockCommit(h) \/ RenameFails(h) \/ Unlock(h)
  PROVE  \E g \in Handlers : Pursues(handler[g])'
<1>1. file' = file /\ curBytes' = curBytes /\ overdue' = overdue
  BY DEF Request, Hit, Serve, Miss, Uncached, NewWriter, Copy, Finish, CloseFails, LockCommit,
     RenameFails, Unlock, rest
<1>2. OnlyMoves(h)
  BY DEF Request, Hit, Serve, Miss, Uncached, NewWriter, Copy, Finish, CloseFails, LockCommit,
     RenameFails, Unlock, Goto, Return, OnlyMoves, IndInv, TypeOK
<1>3. handler[h].pc \in {"idle", "serve", "fetch", "finish", "copy", "commit", "rename", "unlock"}
  BY DEF Request, Hit, Serve, Miss, Uncached, NewWriter, Copy, Finish, CloseFails, LockCommit,
     RenameFails, Unlock, At
<1>4. ~Pursues(handler[h])
  BY <1>3 DEF Pursues, EvictStages
<1>5. Cached' = Cached /\ Above
  BY <1>1 DEF Cached, Above
<1> QED BY <1>1, <1>2, <1>4, <1>5, OtherPursues

\* The steps between the rename and the pass: who makes them is to look, or has looked
\* and goes on.
LEMMA LookPursues ==
  ASSUME IndInv, Pursued, Above', ~overdue', NEW h \in Handlers,
         Rename(h) \/ Add(h) \/ MaybeEvict(h) \/ TryLock(h) \/ Skip(h) \/ Recheck(h)
  PROVE  \E g \in Handlers : Pursues(handler[g])'
<1>1. CASE Rename(h) \/ Add(h) \/ TryLock(h)
  <2>1. handler'[h].pc \in {"add", "maybeEvict", "recheck"}
    BY <1>1 DEF Rename, Add, TryLock, Goto, IndInv, TypeOK
  <2> QED BY <2>1 DEF Pursues
<1>2. CASE MaybeEvict(h)
  <2>1. Above
    BY <1>2 DEF MaybeEvict, Above
  <2>2. handler'[h].pc = "tryLock"
    BY <1>2, <2>1 DEF MaybeEvict, Goto, IndInv, TypeOK
  <2> QED BY <2>2 DEF Pursues
<1>3. CASE Skip(h)
  BY <1>3 DEF Skip, Above
<1>4. CASE Recheck(h)
  <2>1. Above /\ file' = file
    BY <1>4 DEF Recheck, Above
  <2>2. handler'[h].pc = "walk" /\ handler'[h].entries = Cached
    BY <1>4, <2>1 DEF Recheck, IndInv, TypeOK
  <2>3. Cached' = Cached
    BY <2>1 DEF Cached
  <2> QED BY <2>2, <2>3 DEF Pursues, EvictStages, Ahead
<1> QED BY <1>1, <1>2, <1>3, <1>4

\* In a pass: nobody else is in one, and what the step takes from the list it removes.
LEMMA PassPursues ==
  ASSUME IndInv, Balanced, Pursued, Above', ~overdue', NEW h \in Handlers,
         \/ \E seen \in SUBSET Cached : Walk(h, seen)
         \/ \E k \in Keys : EvictNext(h, k)
         \/ LockRemove(h) \/ Remove(h) \/ NotRemoved(h) \/ Subtract(h)
  PROVE  \E g \in Handlers : Pursues(handler[g])'
<1>1. OnlyMoves(h)
  <2>1. CASE LockRemove(h) \/ Remove(h) \/ NotRemoved(h) \/ Subtract(h)
    BY <2>1 DEF LockRemove, Remove, NotRemoved, Subtract, Goto, OnlyMoves, IndInv, TypeOK
  <2> QED BY <2>1, PassMoves
<1>2. Above /\ ~overdue
  <2>1. CASE Subtract(h)
    BY <2>1, MarksOrdered DEF Subtract, Above, IndInv, TypeOK, rest
  <2>2. CASE NotRemoved(h)
    BY <2>2 DEF NotRemoved, Above
  <2>3. CASE ~Subtract(h) /\ ~NotRemoved(h)
    <3>1. curBytes' = curBytes /\ overdue' = overdue
      BY <2>3 DEF Walk, EvictNext, LockRemove, Remove, rest
    <3> QED BY <3>1 DEF Above
  <2> QED BY <2>1, <2>2, <2>3
<1>3. Cached' \subseteq Cached
  BY DEF Walk, EvictNext, LockRemove, Remove, NotRemoved, Subtract, Cached, IndInv, TypeOK
<1>4. ASSUME Pursues(handler[h]) PROVE Pursues(handler[h])'
  <2>1. Cached \subseteq Ahead(handler[h])
    BY <1>4 DEF Pursues, Walk, EvictNext, LockRemove, Remove, NotRemoved, Subtract, At
  <2>2. handler'[h].pc \in EvictStages \ {"recheck", "unlock"}
    <3>1. CASE \/ \E seen \in SUBSET Cached : Walk(h, seen)
               \/ \E k \in Keys : EvictNext(h, k)
      BY <3>1, PassMoves DEF EvictStages
    <3>2. CASE LockRemove(h) \/ Remove(h) \/ NotRemoved(h) \/ Subtract(h)
      BY <3>2 DEF LockRemove, Remove, NotRemoved, Subtract, Goto, IndInv, TypeOK, EvictStages
    <3> QED BY <3>1, <3>2
  <2>3. Cached' \subseteq Ahead(handler'[h])
    <3>1. CASE \E seen \in SUBSET Cached : Walk(h, seen)
      <4>1. PICK seen \in SUBSET Cached : Walk(h, seen)
        BY <3>1
      <4>2. /\ handler[h].pc = "walk" /\ handler'[h].entries = handler[h].entries \cup seen
            /\ handler'[h].pc = "evict"
        BY <4>1 DEF Walk, At, IndInv, TypeOK
      <4> QED BY <1>3, <2>1, <4>2 DEF Ahead
    <3>2. CASE \E k \in Keys : EvictNext(h, k)
      <4>1. PICK k \in Keys : EvictNext(h, k)
        BY <3>2
      <4>2. /\ handler[h].pc = "evict" /\ handler'[h].entries = handler[h].entries \ {k}
            /\ handler'[h].pc = "lock" /\ handler'[h].key = k
        <5>1. /\ handler[h].pc = "evict"
              /\ handler' = [handler EXCEPT ![h] = [handler[h] EXCEPT !.pc = "lock", !.key = k,
                               !.entries = handler[h].entries \ {k}]]
          BY <4>1 DEF EvictNext, Rest, At
        <5>2. handler \in [Handlers -> [pc : Stages, key : Keys, n : Nat, old : Nat,
                                      failed : BOOLEAN, entries : SUBSET Keys]]
          BY DEF IndInv, TypeOK
        <5> QED BY <5>1, <5>2
      <4> QED BY <1>3, <2>1, <4>2 DEF Ahead
    <3>3. CASE LockRemove(h)
      BY <1>3, <2>1, <3>3 DEF LockRemove, Ahead, At, IndInv, TypeOK
    <3>4. CASE Remove(h)
      BY <1>3, <2>1, <3>4 DEF Remove, Ahead, At, Goto, IndInv, TypeOK
    <3>5. CASE NotRemoved(h) \/ Subtract(h)
      <4>1. file' = file /\ file[handler[h].key] = 0 /\ handler[h].pc \in {"remove", "subtract"}
        BY <3>5, <1>2 DEF NotRemoved, Subtract, At, Balanced
      <4>2. handler[h].key \notin Cached'
        BY <4>1 DEF Cached
      <4>3. handler'[h].pc = "evict" /\ handler'[h].entries = handler[h].entries
        BY <3>5 DEF NotRemoved, Subtract, Goto, IndInv, TypeOK
      <4> QED BY <1>3, <2>1, <4>1, <4>2, <4>3 DEF Ahead
    <3> QED BY <3>1, <3>2, <3>3, <3>4, <3>5
  <2> QED BY <2>2, <2>3 DEF Pursues
<1> QED BY <1>1, <1>2, <1>3, <1>4, OtherPursues

\* A pass that is through has left nothing, or not too much.
LEMMA EndPursues ==
  ASSUME IndInv, Balanced, Pursued, Above', ~overdue', NEW h \in Handlers, EvictEnd(h)
  PROVE  \E g \in Handlers : Pursues(handler[g])'
<1>1. /\ file' = file /\ Above /\ ~overdue /\ OnlyMoves(h) /\ handler[h].pc = "evict"
      /\ handler[h].entries = {}
  BY MarksOrdered DEF EvictEnd, Above, rest, OnlyMoves, Goto, At, IndInv, TypeOK
<1>2. Cached' = Cached
  BY <1>1 DEF Cached
<1>3. CASE ~Pursues(handler[h])
  BY <1>1, <1>2, <1>3, OtherPursues
<1>4. CASE Pursues(handler[h])
  <2>1. OnDisk = 0
    BY <1>1, <1>4, NothingCached DEF Pursues, Ahead
  <2>2. PICK g \in Handlers : accMu = g /\ handler[g].pc \in AccStages
    BY <1>1, <2>1, MarksOrdered DEF Balanced, Above, IndInv, TypeOK, Exclusive
  <2>3. handler[g].pc # "subtract"
    BY <1>1, <2>2 DEF IndInv, Exclusive, EvictStages
  <2>4. handler[g].pc = "add"
    BY <1>1, <2>1, <2>2, <2>3, MarksOrdered DEF Balanced, OffBy, AccStages, Above
  <2>5. handler'[g] = handler[g]
    BY <1>1, <2>4 DEF OnlyMoves
  <2> QED BY <2>4, <2>5 DEF Pursues
<1> QED BY <1>3, <1>4

LEMMA PursuitStep == IndInv /\ Balanced /\ Pursued /\ [Next]_vars => Pursued'
<1> SUFFICES ASSUME IndInv, Balanced, Pursued, [Next]_vars, Above', ~overdue'
             PROVE  \E g \in Handlers : Pursues(handler[g])'
  BY DEF Pursued
<1>1. ASSUME NEW h \in Handlers, Request(h) \/ Advance(h)
      PROVE  \E g \in Handlers : Pursues(handler[g])'
  BY <1>1, AsidePursues, LookPursues, PassPursues, EndPursues DEF Advance
<1>2. CASE Restart
  <2>1. OnDisk \in Nat
    BY FS_CardinalityType DEF OnDisk, IndInv, TypeOK
  <2> QED BY <1>2, <2>1, MarksOrdered DEF Restart, Above
<1>3. CASE UNCHANGED vars
  BY <1>3 DEF Pursued, Pursues, Ahead, Above, Cached, vars
<1> QED BY <1>1, <1>2, <1>3 DEF Next

\* Nobody pursues, and so the total, which is the disk, is below the mark.
LEMMA RestIsBelow == IndInv /\ Balanced /\ Pursued => RestsBelow
<1> SUFFICES ASSUME IndInv, Balanced, Pursued, ~overdue,
                    \A h \in Handlers :
                      handler[h].pc \notin {"add", "maybeEvict", "tryLock"} \cup EvictStages
             PROVE  OnDisk <= HighWater
  BY DEF RestsBelow
<1>1. \A h \in Handlers : ~Pursues(handler[h])
  BY DEF Pursues, EvictStages
<1>2. ~Above
  BY <1>1 DEF Pursued
<1>3. OnDisk \in Nat
  BY FS_CardinalityType DEF OnDisk, IndInv, TypeOK
<1>4. curBytes = OnDisk
  <2>1. CASE accMu = Nobody
    BY <2>1 DEF Balanced
  <2>2. CASE accMu \in Handlers
    BY <1>3, <2>2 DEF Balanced, OffBy, IndInv, Exclusive, AccStages, EvictStages
  <2> QED BY <2>1, <2>2 DEF IndInv, TypeOK
<1> QED BY <1>2, <1>3, <1>4, MarksOrdered DEF Above

\* Commit and evictTo: outside accMu, the total is the bytes in the directory; and once
\* nobody is to look at the total any more, the directory is below the mark, unless
\* somebody gave up (a pass that was another's, a removal that failed, a restart).
THEOREM TotalIsTheDisk == Spec => []Accounted
<1>1. Init => Balanced /\ Pursued
  <2> SUFFICES ASSUME Init PROVE Balanced /\ Pursued
    OBVIOUS
  <2>1. OnDisk = 0
    BY NoBytes DEF Init, OnDisk
  <2>2. Balanced
    BY <2>1, IdleType DEF Init, Balanced, AccStages
  <2>3. Pursued
    BY MarksOrdered DEF Init, Pursued, Above
  <2> QED BY <2>2, <2>3
<1>2. IndInv /\ Balanced /\ Pursued /\ [Next]_vars => Balanced' /\ Pursued'
  BY BalanceStep, PursuitStep
<1>3. IndInv /\ Balanced /\ Pursued => Accounted
  BY RestIsBelow DEF Accounted, CountExact, Balanced
<1> QED BY <1>1, <1>2, <1>3, Invariance, PTL DEF Spec

\* evictTo: although the total is read, not the disk, and before accMu is taken, a file
\* is only ever removed while the disk holds more than the low-water mark allows.
THEOREM NoNeedlessEviction == Spec => EvictsWhileAbove
<1>1. IndInv /\ Balanced /\ [Next]_vars
        => [\A k \in Keys : file[k] # 0 /\ file'[k] = 0 => OnDisk > LowWater]_vars
  <2>1. SUFFICES ASSUME IndInv, Balanced, Next, NEW k \in Keys, file[k] # 0, file'[k] = 0
                 PROVE  OnDisk > LowWater
    OBVIOUS
  <2>2. PICK h \in Handlers : Rename(h) \/ Remove(h)
    <3>1. file' # file
      BY <2>1
    <3>2. PICK h \in Handlers : Request(h) \/ Advance(h)
      BY <2>1, <3>1 DEF Next, Restart
    <3>3. ~Request(h)
      BY <3>1 DEF Request, Hit, Miss
    <3> QED BY <3>1, <3>2, <3>3
            DEF Advance, Serve, Uncached, NewWriter, Copy, Finish, CloseFails, LockCommit,
                RenameFails, Add, MaybeEvict, TryLock, Skip, Recheck, Walk, EvictNext, EvictEnd,
                Unlock, LockRemove, NotRemoved, Subtract
  <2>3. CASE Rename(h)
    BY <2>1, <2>3, ArtifactCacheAssumption
       DEF IndInv, TypeOK, CarriedWhole, Carried, Rename, At
  <2>4. CASE Remove(h)
    <3>1. curBytes > LowWater
      BY <2>1, <2>4 DEF IndInv, StillAbove, Remove, At
    <3>2. OnDisk \in Nat
      BY <2>1, FS_CardinalityType DEF OnDisk, IndInv, TypeOK
    <3>3. curBytes = OnDisk
      BY <2>1, <2>4, <3>2 DEF Balanced, AccStages, OffBy, Remove, At
    <3> QED BY <3>1, <3>3
  <2> QED BY <2>2, <2>3, <2>4
<1>2. Init => Balanced
  <2>1. Init => OnDisk = 0
    BY NoBytes DEF Init, OnDisk
  <2> QED BY <2>1, IdleType DEF Init, Balanced, AccStages
<1>3. IndInv /\ Balanced /\ [Next]_vars => Balanced'
  BY BalanceStep
<1> QED BY <1>1, <1>2, <1>3, Invariance, PTL DEF Spec, EvictsWhileAbove

\* A file that is there has a first byte: what is cached is finite, because the bytes are.
LEMMA CachedIsFinite == IndInv => IsFiniteSet(Cached)
<1> SUFFICES ASSUME IndInv PROVE IsFiniteSet(Cached)
  OBVIOUS
<1> DEFINE first == [k \in Cached |-> <<k, 1>>]
<1>1. ASSUME NEW k \in Cached PROVE <<k, 1>> \in Bytes(file)
  <2>1. k \in Keys /\ 1 \in 1..file[k]
    BY DEF Cached, IndInv, TypeOK
  <2> QED BY <2>1 DEF Bytes
<1>2. first \in [Cached -> Bytes(file)]
  BY <1>1
<1>3. \A j, k \in Cached : first[j] = first[k] => j = k
  OBVIOUS
<1>4. first \in Injection(Cached, Bytes(file))
  BY <1>2, <1>3 DEF Injection, IsInjective
<1> QED BY <1>4, FS_Injection DEF IndInv, TypeOK

\* The list of a pass is finite.
Finite == \A h \in Handlers : IsFiniteSet(handler[h].entries)

\* Every step but those of the pass over its entries leads to a later phase, with the
\* list as it was, empty, or made of what is cached.
LEMMA PhaseFalls ==
  ASSUME IndInv, Finite, NEW h \in Handlers,
         \/ Serve(h) \/ Uncached(h) \/ NewWriter(h) \/ Finish(h)
         \/ \E n \in 1..Size[handler[h].key] : Copy(h, n)
         \/ CloseFails(h) \/ LockCommit(h) \/ Rename(h) \/ RenameFails(h) \/ Add(h)
         \/ MaybeEvict(h) \/ TryLock(h) \/ Skip(h) \/ Recheck(h) \/ EvictEnd(h) \/ Unlock(h)
         \/ \E seen \in SUBSET Cached : Walk(h, seen)
  PROVE  /\ Phase(handler'[h]) < Phase(handler[h]) /\ IsFiniteSet(handler'[h].entries)
         /\ \A g \in Handlers \ {h} : handler'[g] = handler[g]
<1> USE DEF IndInv, TypeOK, Finite, At, Goto, Return, Phase
<1>0. IsFiniteSet({}) /\ IsFiniteSet(Cached) /\ handler \in [Handlers -> [pc : Stages,
        key : Keys, n : Nat, old : Nat, failed : BOOLEAN, entries : SUBSET Keys]]
  BY CachedIsFinite, FS_EmptySet
<1>1. CASE Serve(h) \/ Uncached(h) \/ CloseFails(h) \/ RenameFails(h) \/ Skip(h) \/ Unlock(h)
  <2>1. /\ handler' = [handler EXCEPT ![h] = Idle]
        /\ handler[h].pc \in {"serve", "fetch", "commit", "rename", "tryLock", "unlock"}
    BY <1>1 DEF Serve, Uncached, CloseFails, RenameFails, Skip, Unlock
  <2>2. handler'[h] = Idle /\ \A g \in Handlers \ {h} : handler'[g] = handler[g]
    BY <1>0, <2>1
  <2>3. Phase(Idle) = 0 /\ Phase(handler[h]) \in 1..12
    BY <2>1, IdleHas
  <2> HIDE DEF IndInv, TypeOK, Finite, Phase
  <2> QED BY <1>0, <2>2, <2>3, IdleHas
<1>2. CASE NewWriter(h) \/ LockCommit(h) \/ Rename(h) \/ Add(h) \/ TryLock(h) \/ EvictEnd(h)
  BY <1>0, <1>2 DEF NewWriter, LockCommit, Rename, Add, TryLock, EvictEnd
<1>3. CASE Finish(h) \/ MaybeEvict(h)
  <2>1. /\ handler[h].pc \in {"finish", "maybeEvict"}
        /\ \/ handler' = [handler EXCEPT ![h] = Idle]
           \/ handler' = [handler EXCEPT ![h].pc = IF @ = "finish" THEN "commit" ELSE "tryLock"]
    BY <1>3 DEF Finish, MaybeEvict
  <2>2. CASE handler' = [handler EXCEPT ![h] = Idle]
    <3>1. handler'[h] = Idle /\ \A g \in Handlers \ {h} : handler'[g] = handler[g]
      BY <1>0, <2>2
    <3>2. Phase(Idle) = 0 /\ Phase(handler[h]) \in 1..12
      BY <2>1, IdleHas
    <3> HIDE DEF IndInv, TypeOK, Finite, Phase
    <3> QED BY <1>0, <3>1, <3>2, IdleHas
  <2>3. CASE handler' = [handler EXCEPT ![h].pc = IF @ = "finish" THEN "commit" ELSE "tryLock"]
    BY <1>0, <2>1, <2>3
  <2> QED BY <2>1, <2>2, <2>3
<1>4. CASE Recheck(h)
  BY <1>0, <1>4 DEF Recheck
<1>5. CASE \E n \in 1..Size[handler[h].key] : Copy(h, n)
  <2>1. PICK n \in 1..Size[handler[h].key] : Copy(h, n)
    BY <1>5
  <2>2. /\ handler[h].pc = "copy"
        /\ handler' = [handler EXCEPT ![h] = [handler[h] EXCEPT !.pc = "finish", !.n = n,
                         !.failed = ~(n = Size[handler[h].key])]]
    BY <2>1 DEF Copy
  <2> QED BY <1>0, <2>2
<1>6. CASE \E seen \in SUBSET Cached : Walk(h, seen)
  <2>1. PICK seen \in SUBSET Cached : Walk(h, seen)
    BY <1>6
  <2>2. /\ handler[h].pc = "walk"
        /\ handler' = [handler EXCEPT ![h] = [handler[h] EXCEPT !.pc = "evict",
                         !.entries = handler[h].entries \cup seen]]
    BY <2>1 DEF Walk
  <2>3. IsFiniteSet(handler[h].entries \cup seen)
    BY <1>0, FS_Subset, FS_Union
  <2> QED BY <1>0, <2>2, <2>3
<1> QED BY <1>1, <1>2, <1>3, <1>4, <1>5, <1>6

\* A pass takes a file off its list before it removes it, and puts none back.
LEMMA RoundsFall ==
  ASSUME IndInv, Finite, NEW h \in Handlers,
         \/ \E k \in Keys : EvictNext(h, k)
         \/ LockRemove(h) \/ Remove(h) \/ NotRemoved(h) \/ Subtract(h)
  PROVE  /\ Phase(handler'[h]) = Phase(handler[h]) /\ Rounds(handler'[h]) < Rounds(handler[h])
         /\ IsFiniteSet(handler'[h].entries)
         /\ \A g \in Handlers \ {h} : handler'[g] = handler[g]
<1>0. /\ IsFiniteSet(handler[h].entries) /\ Cardinality(handler[h].entries) \in Nat
      /\ handler \in [Handlers -> [pc : Stages, key : Keys, n : Nat, old : Nat,
                                   failed : BOOLEAN, entries : SUBSET Keys]]
  BY FS_CardinalityType DEF Finite, IndInv, TypeOK
<1>1. CASE \E k \in Keys : EvictNext(h, k)
  <2>1. PICK k \in Keys : EvictNext(h, k)
    BY <1>1
  <2>2. /\ handler[h].pc = "evict" /\ k \in handler[h].entries
        /\ handler' = [handler EXCEPT ![h] = [handler[h] EXCEPT !.pc = "lock", !.key = k,
                         !.entries = handler[h].entries \ {k}]]
    BY <2>1 DEF EvictNext, Rest, At
  <2>3. /\ IsFiniteSet(handler[h].entries \ {k})
        /\ Cardinality(handler[h].entries \ {k}) = Cardinality(handler[h].entries) - 1
    BY <1>0, <2>2, FS_RemoveElement
  <2>4. /\ handler'[h].pc = "lock" /\ handler'[h].entries = handler[h].entries \ {k}
        /\ \A g \in Handlers \ {h} : handler'[g] = handler[g]
    BY <1>0, <2>2
  <2> QED BY <1>0, <2>2, <2>3, <2>4 DEF Phase, Rounds
<1>2. CASE LockRemove(h) \/ Remove(h) \/ NotRemoved(h) \/ Subtract(h)
  <2>1. /\ handler'[h].entries = handler[h].entries
        /\ \A g \in Handlers \ {h} : handler'[g] = handler[g]
        /\ \/ handler[h].pc = "lock" /\ handler'[h].pc = "remove"
           \/ handler[h].pc = "remove" /\ handler'[h].pc \in {"subtract", "evict"}
           \/ handler[h].pc = "subtract" /\ handler'[h].pc = "evict"
    BY <1>0, <1>2 DEF LockRemove, Remove, NotRemoved, Subtract, At, Goto
  <2> QED BY <1>0, <2>1 DEF Phase, Rounds
<1> QED BY <1>1, <1>2

LEMMA OnwardStep ==
  IndInv /\ Finite /\ [Next]_vars => Finite' /\ [\A h \in Handlers : Onward(h)]_vars
<1> SUFFICES ASSUME IndInv, Finite, [Next]_vars
             PROVE  Finite' /\ \A h \in Handlers : Onward(h)
  OBVIOUS
<1>1. ASSUME NEW h \in Handlers, Request(h) \/ Advance(h)
      PROVE  Finite' /\ \A g \in Handlers : Onward(g)
  <2>1. CASE Request(h)
    <3>1. /\ handler[h].pc = "idle" /\ handler'[h].entries = {}
          /\ \A g \in Handlers \ {h} : handler'[g] = handler[g]
      BY <2>1, RequestBegins DEF OnlyMoves
    <3> QED BY <3>1, FS_EmptySet DEF Finite, Onward
  <2>2. CASE Advance(h)
    <3>1. /\ IsFiniteSet(handler'[h].entries)
          /\ \A g \in Handlers \ {h} : handler'[g] = handler[g]
          /\ \/ Phase(handler'[h]) < Phase(handler[h])
             \/ Phase(handler'[h]) = Phase(handler[h]) /\ Rounds(handler'[h]) < Rounds(handler[h])
      BY <2>2, PhaseFalls, RoundsFall DEF Advance
    <3> QED BY <3>1 DEF Finite, Onward
  <2> QED BY <1>1, <2>1, <2>2
<1>2. CASE Restart
  <2>1. \A h \in Handlers : handler'[h].pc = "idle" /\ handler'[h].entries = {}
    BY <1>2 DEF Restart, Idle
  <2>2. \A h \in Handlers : handler[h].pc \in Stages
    BY DEF IndInv, TypeOK
  <2>3. \A h \in Handlers : handler[h].pc # "idle" => Phase(handler'[h]) < Phase(handler[h])
    BY <2>1, <2>2 DEF Phase, Stages
  <2> QED BY <2>1, <2>3, FS_EmptySet DEF Finite, Onward
<1>3. CASE UNCHANGED vars
  BY <1>3 DEF Finite, Onward, vars
<1> QED BY <1>1, <1>2, <1>3 DEF Next

\* evictTo and what leads to it: a request moves on by every step of its own, through
\* finitely many, and no step of another sets it back.
THEOREM RequestsNeverCircle == Spec => RequestsGoOn
<1>1. Init => Finite
  BY FS_EmptySet DEF Init, Idle, Finite
<1>2. Finite => \A h \in Handlers : Rounds(handler[h]) \in Nat
  BY FS_CardinalityType DEF Finite, Rounds
<1> QED BY <1>1, <1>2, OnwardStep, Invariance, PTL DEF Spec, RequestsGoOn

-----------------------------------------------------------------------------
(* Pins (PinImage), for any number of commits, builds and failures.        *)

\* What a build and a change of capabilities carry from one call to the next.
BuildOK(b) ==
  \A c \in Commits :
    /\ b[c].pc = "write" => b[c].file \in File
    /\ b[c].pc \in {"read", "write"} /\ ~ b[c].behind => head = c
    /\ b[c].pc # "none" => c <= head

PinInv ==
  /\ PinTypeOK
  /\ BuildOK(build)
  /\ toggle.pc = "write" => toggle.file \in File
  /\ deploy.image <= head

\* The records that are made from nothing.
LEMMA PinRecords ==
  /\ NoBuild \in Build /\ [NoBuild EXCEPT !.pc = "queued"] \in Build
  /\ [NoBuild EXCEPT !.pc = "done"] \in Build
  /\ NoToggle \in Toggle
  /\ \A p \in {"idle", "select", "hash"}, b \in BOOLEAN : [NoBoot EXCEPT !.pc = p, !.fresh = b] \in Boot
  /\ NoBoot \in Boot /\ [NoBoot EXCEPT !.pc = "select"] \in Boot
BY PinImageAssumption DEF NoBuild, Build, NoToggle, Toggle, NoBoot, Boot

\* A build that starts, or that ends, beside the others.
LEMMA DoneBuilds ==
  ASSUME NEW b \in [Commits -> Build], NEW c \in Commits
  PROVE  /\ Done(b, c) \in [Commits -> Build]
         /\ \A d \in Commits : Done(b, c)[d] = IF d = c THEN [NoBuild EXCEPT !.pc = "done"] ELSE b[d]
BY PinRecords DEF Done

LEMMA BehindBuilds ==
  ASSUME NEW b \in [Commits -> Build]
  PROVE  /\ Behind(b) \in [Commits -> Build]
         /\ \A d \in Commits : /\ Behind(b)[d].pc = b[d].pc /\ Behind(b)[d].file = b[d].file
                               /\ b[d].pc \in {"read", "write"} => Behind(b)[d].behind
<1>1. ASSUME NEW d \in Commits
      PROVE  /\ Behind(b)[d] = [b[d] EXCEPT !.behind = b[d].behind \/ (b[d].pc \in {"read", "write"})]
             /\ b[d] \in Build
  BY DEF Behind
<1>2. ASSUME NEW d \in Commits
      PROVE  /\ Behind(b)[d] \in Build
             /\ Behind(b)[d].pc = b[d].pc /\ Behind(b)[d].file = b[d].file
             /\ b[d].pc \in {"read", "write"} => Behind(b)[d].behind
  BY <1>1 DEF Build
<1>3. Behind(b) = [d \in Commits |-> Behind(b)[d]]
  BY DEF Behind
<1> QED BY <1>2, <1>3

\* A commit on main, whoever makes it: the builds that were under way are behind it.
LEMMA CommitMoves ==
  ASSUME PinInv, NEW skip \in BOOLEAN, Commit(skip)
  PROVE  /\ head' \in Commits /\ head' = head + 1
         /\ build' \in [Commits -> Build] /\ BuildOK(build)'
<1>1. head \in Commits /\ head' = head + 1 /\ head + 1 \in Commits /\ build \in [Commits -> Build]
  BY PinImageAssumption DEF PinInv, PinTypeOK, Commit, Commits
<1>2. /\ Behind(build) \in [Commits -> Build]
      /\ \A d \in Commits : /\ Behind(build)[d].pc = build[d].pc
                            /\ Behind(build)[d].file = build[d].file
                            /\ build[d].pc \in {"read", "write"} => Behind(build)[d].behind
  BY <1>1, BehindBuilds
<1> DEFINE q == [NoBuild EXCEPT !.pc = "queued"]
<1>3. q \in Build /\ q.pc = "queued"
  BY PinRecords DEF NoBuild
<1>4. build' = Behind(build) \/ build' = [Behind(build) EXCEPT ![head + 1] = q]
  BY DEF Commit
<1> HIDE DEF q
<1>5. build' \in [Commits -> Build]
  BY <1>2, <1>3, <1>4
<1>6. \A d \in Commits : build'[d] = Behind(build)[d] \/ (d = head + 1 /\ build'[d] = q)
  BY <1>2, <1>4
<1>7. ASSUME NEW d \in Commits
      PROVE  /\ build'[d].pc = "write" => build'[d].file \in File
             /\ build'[d].pc \in {"read", "write"} /\ ~ build'[d].behind => head' = d
             /\ build'[d].pc # "none" => d <= head'
  <2>1. CASE build'[d] = Behind(build)[d]
    <3>1. /\ build[d].pc = "write" => build[d].file \in File
          /\ build[d].pc # "none" => d <= head
      BY DEF PinInv, BuildOK
    <3> QED BY <1>1, <1>2, <2>1, <3>1 DEF Commits
  <2>2. CASE d = head + 1 /\ build'[d] = q
    BY <1>1, <1>3, <2>2 DEF Commits
  <2> QED BY <1>6, <2>1, <2>2
<1> QED BY <1>1, <1>5, <1>7 DEF BuildOK

LEMMA PinInitially == PinInit => PinInv
<1> SUFFICES ASSUME PinInit PROVE PinInv
  OBVIOUS
<1>1. 1 \in Commits /\ 0 \in 0..MaxCommits /\ 0 \in 0..MaxEvents
  BY PinImageAssumption DEF Commits
<1>2. deploy \in File
  BY <1>1, PinImageAssumption DEF PinInit, File
<1>3. boot \in Boot
  <2>1. CASE boot = [NoBoot EXCEPT !.pc = "hash", !.fresh = TRUE]
    BY <2>1, PinImageAssumption DEF NoBoot, Boot
  <2>2. CASE boot = [NoBoot EXCEPT !.pc = "select"]
    BY <2>2, PinRecords
  <2> QED BY <2>1, <2>2 DEF PinInit
<1>4. build \in [Commits -> Build] /\ \A c \in Commits : build[c].pc \in {"none", "queued"} /\ (build[c].pc # "none" => c = 1)
  <2>1. NoBuild.pc = "none" /\ [NoBuild EXCEPT !.pc = "queued"].pc = "queued"
    BY DEF NoBuild
  <2> QED BY <2>1, PinRecords DEF PinInit
<1>5. toggle \in Toggle /\ toggle.pc = "idle"
  BY PinRecords DEF PinInit, NoToggle
<1>6. PinTypeOK
  BY <1>1, <1>2, <1>3, <1>4, <1>5 DEF PinInit, PinTypeOK
<1> QED BY <1>1, <1>4, <1>5, <1>6 DEF PinInv, BuildOK, PinInit

\* A step that leaves main and the file alone, and changes at most one build.
LEMMA OneBuild ==
  ASSUME PinInv, NEW c \in Commits, NEW q \in Build,
         build' = [build EXCEPT ![c] = q], UNCHANGED head,
         q.pc = "write" => q.file \in File,
         q.pc \in {"read", "write"} /\ ~ q.behind => head = c,
         q.pc # "none" => c <= head
  PROVE  build' \in [Commits -> Build] /\ BuildOK(build)'
<1>1. build \in [Commits -> Build] /\ BuildOK(build)
  BY DEF PinInv, PinTypeOK
<1>2. \A d \in Commits : build'[d] = IF d = c THEN q ELSE build[d]
  BY <1>1
<1>3. build' \in [Commits -> Build]
  BY <1>1
<1>4. ASSUME NEW d \in Commits
      PROVE  /\ build'[d].pc = "write" => build'[d].file \in File
             /\ build'[d].pc \in {"read", "write"} /\ ~ build'[d].behind => head' = d
             /\ build'[d].pc # "none" => d <= head'
  <2>1. CASE d = c
    BY <1>2, <2>1
  <2>2. CASE d # c
    BY <1>1, <1>2, <2>2 DEF BuildOK
  <2> QED BY <2>1, <2>2
<1> QED BY <1>3, <1>4 DEF BuildOK

\* The steps of a build.
LEMMA PinStep ==
  ASSUME PinInv, NEW c \in Commits, Pin(c) \/ PinFails(c)
  PROVE  PinInv'
<1>1. /\ build \in [Commits -> Build] /\ build[c] \in Build /\ deploy \in File
      /\ head \in Commits /\ BuildOK(build) /\ deploy.image \in 0..MaxCommits
  BY DEF PinInv, PinTypeOK, File
<1> DEFINE d == [NoBuild EXCEPT !.pc = "done"]
<1>2. d \in Build /\ d.pc = "done"
  BY PinRecords DEF NoBuild
<1>3. Done(build, c) = [build EXCEPT ![c] = d]
  BY DEF Done
<1>4. build[c].pc # "none" => c <= head
  BY <1>1 DEF BuildOK
<1> HIDE DEF d
<1>5. ASSUME build' = Done(build, c), UNCHANGED <<fileVars, toggle>>, build[c].pc # "none"
      PROVE  build' \in [Commits -> Build] /\ BuildOK(build)'
  BY <1>2, <1>3, <1>4, <1>5, OneBuild DEF fileVars
<1>6. CASE CompareHead(c)
  <2>1. build[c].pc = "queued"
    BY <1>6 DEF CompareHead
  <2>2. build' \in [Commits -> Build] /\ BuildOK(build)'
    <3>1. CASE ~ (Known /\ IsHead(c))
      BY <1>5, <1>6, <2>1, <3>1 DEF CompareHead
    <3>2. CASE Known /\ IsHead(c)
      <4> DEFINE q == [build[c] EXCEPT !.pc = "read"]
      <4>1. q \in Build /\ q.pc = "read" /\ head = c
        BY <1>1, <3>2 DEF Build, IsHead
      <4>2. build' = [build EXCEPT ![c] = q]
        BY <1>1, <1>6, <3>2 DEF CompareHead
      <4>3. head' = head /\ c <= head
        BY <1>6, <2>1, <1>4 DEF CompareHead, fileVars
      <4> HIDE DEF q
      <4> QED BY <4>1, <4>2, <4>3, OneBuild
    <3> QED BY <3>1, <3>2
  <2> QED BY <1>6, <2>2 DEF CompareHead, PinInv, PinTypeOK, fileVars, tokenVars, pinBounds
<1>7. CASE ReadFile(c)
  <2>1. build[c].pc = "read"
    BY <1>7 DEF ReadFile
  <2> DEFINE q == [build[c] EXCEPT !.file = deploy, !.pc = "write"]
  <2>2. q \in Build /\ q.pc = "write" /\ q.file = deploy /\ q.behind = build[c].behind
    BY <1>1 DEF Build
  <2>3. build' = [build EXCEPT ![c] = q]
    BY <1>1, <1>7 DEF ReadFile
  <2>4. head' = head /\ c <= head /\ (~ build[c].behind => head = c)
    BY <1>7, <2>1, <1>1, <1>4 DEF ReadFile, fileVars, BuildOK
  <2> HIDE DEF q
  <2>5. build' \in [Commits -> Build] /\ BuildOK(build)'
    BY <1>1, <2>2, <2>3, <2>4, OneBuild
  <2> QED BY <1>7, <2>5 DEF ReadFile, PinInv, PinTypeOK, fileVars, tokenVars, pinBounds
<1>8. CASE WriteFile(c)
  <2>1. build[c].pc = "write" /\ build[c].file \in File
    BY <1>1, <1>8 DEF WriteFile, BuildOK
  <2>2. CASE build' = Done(build, c) /\ UNCHANGED <<fileVars, overtaken>>
    <3>1. build' \in [Commits -> Build] /\ BuildOK(build)'
      BY <1>5, <1>8, <2>1, <2>2 DEF WriteFile
    <3> QED BY <1>8, <2>2, <3>1 DEF WriteFile, PinInv, PinTypeOK, fileVars, tokenVars, pinBounds
  <2>3. CASE /\ head < MaxCommits /\ head' = head + 1
             /\ deploy' = Pinned(c) /\ build' = Done(Behind(build), c)
             /\ overtaken' = (overtaken \/ head # c) /\ UNCHANGED <<code, workflow>>
    <3>1. head' \in Commits /\ head + 1 \in Commits
      BY <1>1, <2>3, PinImageAssumption DEF Commits
    <3>2. Pinned(c) \in File /\ Pinned(c).image = c
      BY <2>1 DEF Pinned, File, Commits
    <3>3. c <= head'
      BY <1>1, <1>4, <2>1, <2>3 DEF Commits
    <3>4. /\ Behind(build) \in [Commits -> Build]
          /\ \A e \in Commits : /\ Behind(build)[e].pc = build[e].pc
                                /\ Behind(build)[e].file = build[e].file
                                /\ build[e].pc \in {"read", "write"} => Behind(build)[e].behind
      BY <1>1, BehindBuilds
    <3>5. /\ build' \in [Commits -> Build]
          /\ \A e \in Commits : build'[e] = IF e = c THEN d ELSE Behind(build)[e]
      BY <2>3, <3>4, DoneBuilds DEF d
    <3>6. BuildOK(build)'
      <4> SUFFICES ASSUME NEW e \in Commits
                   PROVE  /\ build'[e].pc = "write" => build'[e].file \in File
                          /\ build'[e].pc \in {"read", "write"} /\ ~ build'[e].behind => head' = e
                          /\ build'[e].pc # "none" => e <= head'
        BY DEF BuildOK
      <4>1. CASE e = c
        BY <1>2, <3>3, <3>5, <4>1
      <4>2. CASE e # c
        <5>1. /\ build[e].pc = "write" => build[e].file \in File
              /\ build[e].pc # "none" => e <= head
          BY <1>1 DEF BuildOK
        <5> QED BY <1>1, <2>3, <3>4, <3>5, <4>2, <5>1 DEF Commits
      <4> QED BY <4>1, <4>2
    <3>7. PinTypeOK'
      BY <1>8, <2>3, <3>1, <3>2, <3>5 DEF WriteFile, PinInv, PinTypeOK, tokenVars, pinBounds
    <3> QED BY <1>8, <2>3, <3>2, <3>3, <3>6, <3>7 DEF WriteFile, PinInv
  <2> QED BY <1>8, <2>2, <2>3 DEF WriteFile
<1>9. CASE PinFails(c)
  <2>1. build' \in [Commits -> Build] /\ BuildOK(build)'
    BY <1>5, <1>9 DEF PinFails
  <2>2. events' \in 0..MaxEvents /\ lost' = TRUE
    BY <1>9, PinImageAssumption DEF PinFails, Failure, Event, PinInv, PinTypeOK
  <2> QED BY <1>9, <2>1, <2>2 DEF PinFails, PinInv, PinTypeOK, fileVars, tokenVars
<1> QED BY <1>6, <1>7, <1>8, <1>9 DEF Pin

\* The owner's commits, and those of a change of capabilities.
LEMMA OthersStep ==
  ASSUME PinInv,
         \/ Push \/ \E t \in Tuning : Tune(t)
         \/ \E c \in Caps : Compose(c)
         \/ ComposeStep \/ ToggleFails
  PROVE  PinInv'
<1>1. /\ deploy \in File /\ head \in Commits /\ toggle \in Toggle /\ deploy.image \in 0..MaxCommits
      /\ deploy.image <= head /\ BuildOK(build) /\ events \in 0..MaxEvents
  BY DEF PinInv, PinTypeOK, File
<1>2. ASSUME NEW skip \in BOOLEAN, Commit(skip)
      PROVE  /\ head' \in Commits /\ head' = head + 1 /\ deploy.image <= head'
             /\ build' \in [Commits -> Build] /\ BuildOK(build)'
  BY <1>1, <1>2, CommitMoves DEF Commits
<1>3. Event => events' \in 0..MaxEvents
  BY <1>1, PinImageAssumption DEF Event
<1>4. CASE Push
  <2>1. Commit(FALSE) /\ Event
    BY <1>4 DEF Push
  <2> QED BY <1>2, <1>3, <1>4, <2>1 DEF Push, PinInv, PinTypeOK, tokenVars
<1>5. ASSUME NEW t \in Tuning, Tune(t) PROVE PinInv'
  <2>1. Commit(FALSE) /\ Event
    BY <1>5 DEF Tune
  <2>2. deploy' \in File /\ deploy'.image = deploy.image
    BY <1>1, <1>5 DEF Tune, File
  <2> QED BY <1>2, <1>3, <1>5, <2>1, <2>2 DEF Tune, PinInv, PinTypeOK, tokenVars
<1>6. ASSUME NEW c \in Caps, Compose(c) PROVE PinInv'
  <2>1. toggle' \in Toggle /\ toggle'.pc = "read"
    BY <1>1, <1>6 DEF Compose, Toggle
  <2>2. events' \in 0..MaxEvents /\ UNCHANGED <<head, code, deploy, workflow, hash, secret, boot, build, overtaken, lost>>
    BY <1>3, <1>6 DEF Compose, fileVars, tokenVars
  <2> QED BY <2>1, <2>2 DEF PinInv, PinTypeOK, BuildOK
<1>7. CASE ReadDeployment
  <2>1. toggle' \in Toggle /\ toggle'.file = deploy
    BY <1>1, <1>7 DEF ReadDeployment, Toggle
  <2>2. UNCHANGED <<head, code, deploy, workflow, hash, secret, boot, build, overtaken, lost, events>>
    BY <1>7 DEF ReadDeployment, fileVars, tokenVars, pinBounds
  <2> QED BY <1>1, <2>1, <2>2 DEF PinInv, PinTypeOK, BuildOK
<1>8. CASE WriteDeployment
  <2> DEFINE new == Generated(toggle.file, toggle.caps)
  <2>1. toggle.file \in File /\ toggle.caps \in Caps
    BY <1>1, <1>8 DEF WriteDeployment, PinInv, Toggle
  <2>2. new \in File /\ new.image = toggle.file.image
    BY <2>1 DEF Generated, File
  <2>3. toggle' \in Toggle /\ toggle'.pc # "write"
    BY <1>8, PinRecords DEF WriteDeployment, NoToggle
  <2>4. CASE Unchanged(toggle.file) /\ Commit(FALSE) /\ deploy' = new
    <3>1. deploy' \in File /\ deploy'.image = deploy.image
      BY <2>2, <2>4 DEF Unchanged
    <3> HIDE DEF new
    <3> QED BY <1>2, <1>8, <2>3, <2>4, <3>1 DEF WriteDeployment, PinInv, PinTypeOK, tokenVars, pinBounds
  <2>5. CASE UNCHANGED <<head, deploy, build>>
    BY <1>8, <2>3, <2>5 DEF WriteDeployment, PinInv, PinTypeOK, tokenVars, pinBounds, BuildOK
  <2> QED BY <1>8, <2>4, <2>5 DEF WriteDeployment
<1>9. CASE ToggleFails
  <2>1. toggle' \in Toggle /\ toggle'.pc # "write"
    BY <1>9, PinRecords DEF ToggleFails, NoToggle
  <2> QED BY <1>3, <1>9, <2>1 DEF ToggleFails, Failure, PinInv, PinTypeOK, fileVars, tokenVars, BuildOK
<1> QED BY <1>4, <1>5, <1>6, <1>7, <1>8, <1>9 DEF ComposeStep

\* The token's way to the row, to the secret and into the workflow.
LEMMA RollOutStep ==
  ASSUME PinInv, RollOut \/ BootFails \/ PinRestart
  PROVE  PinInv'
<1>1. /\ boot \in Boot /\ events \in 0..MaxEvents /\ build \in [Commits -> Build] /\ BuildOK(build)
      /\ hash \in Token \cup {None} /\ secret \in Token \cup {None} /\ deploy.image <= head
      /\ deploy \in File /\ deploy.image \in 0..MaxCommits /\ head \in Commits
  BY DEF PinInv, PinTypeOK, File
<1>2. ASSUME boot' \in Boot, hash' \in Token \cup {None}, secret' \in Token \cup {None},
             UNCHANGED <<fileVars, build, toggle, overtaken, pinBounds>>
      PROVE  PinInv'
  BY <1>2 DEF PinInv, PinTypeOK, fileVars, pinBounds, BuildOK
<1>3. Event => events' \in 0..MaxEvents
  BY <1>1, PinImageAssumption DEF Event
<1>4. CASE SelectMissing
  <2>1. boot' \in Boot
    BY <1>1, <1>4, PinRecords DEF SelectMissing, Boot
  <2> QED BY <1>1, <1>2, <1>4, <2>1 DEF SelectMissing
<1>5. CASE StoreHash
  <2>1. PICK t \in Token : hash' = t /\ boot' = [boot EXCEPT !.token = t, !.pc = "secret"]
    BY <1>5 DEF StoreHash
  <2>2. boot' \in Boot
    BY <1>1, <2>1 DEF Boot
  <2> QED BY <1>1, <1>2, <1>5, <2>1, <2>2 DEF StoreHash
<1>6. CASE SetSecret
  <2>1. boot' \in Boot /\ secret' \in Token \cup {None}
    BY <1>1, <1>6, PinRecords DEF SetSecret, Boot
  <2> QED BY <1>1, <1>2, <1>6, <2>1 DEF SetSecret
<1>7. CASE RefreshWorkflow
  <2>1. boot' \in Boot /\ workflow' \in BOOLEAN
    BY <1>7, PinRecords DEF RefreshWorkflow, Refreshed
  <2>2. CASE UNCHANGED <<head, build>>
    BY <1>7, <2>1, <2>2 DEF RefreshWorkflow, PinInv, PinTypeOK, BuildOK, pinBounds
  <2>3. CASE Commit(FALSE)
    <3>1. /\ head' \in Commits /\ head' = head + 1
          /\ build' \in [Commits -> Build] /\ BuildOK(build)'
      BY <2>3, CommitMoves
    <3>2. deploy.image <= head'
      BY <1>1, <3>1 DEF Commits
    <3> QED BY <1>7, <2>1, <3>1, <3>2 DEF RefreshWorkflow, PinInv, PinTypeOK, pinBounds
  <2> QED BY <1>7, <2>2, <2>3 DEF RefreshWorkflow
<1>8. CASE BootFails
  <2>1. boot' \in Boot
    BY <1>8, PinRecords DEF BootFails
  <2> QED BY <1>3, <1>8, <2>1 DEF BootFails, Failure, PinInv, PinTypeOK, fileVars, BuildOK
<1>9. CASE PinRestart
  <2>1. toggle' \in Toggle /\ toggle'.pc # "write" /\ boot' \in Boot
    BY <1>9, PinRecords DEF PinRestart, NoToggle
  <2>2. \A c \in Commits : build'[c] = IF build[c].pc \in {"read", "write"}
                                       THEN [NoBuild EXCEPT !.pc = "done"] ELSE build[c]
    BY <1>9 DEF PinRestart
  <2>3. [NoBuild EXCEPT !.pc = "done"] \in Build /\ [NoBuild EXCEPT !.pc = "done"].pc = "done"
    BY PinRecords DEF NoBuild
  <2>4. build' \in [Commits -> Build]
    BY <1>1, <1>9, <2>3 DEF PinRestart
  <2>5. head' = head
    BY <1>9 DEF PinRestart, fileVars
  <2>6. BuildOK(build)'
    BY <1>1, <2>2, <2>3, <2>5 DEF BuildOK
  <2> QED BY <1>3, <1>9, <2>1, <2>4, <2>6 DEF PinRestart, Failure, PinInv, PinTypeOK, fileVars
<1> QED BY <1>4, <1>5, <1>6, <1>7, <1>8, <1>9 DEF RollOut

LEMMA PinKeeps == PinInv /\ [PinNext]_pinVars => PinInv'
<1> SUFFICES ASSUME PinInv, [PinNext]_pinVars PROVE PinInv'
  OBVIOUS
<1>1. CASE UNCHANGED pinVars
  BY <1>1 DEF pinVars, PinInv, PinTypeOK, BuildOK
<1>2. CASE PinNext
  BY <1>2, PinStep, OthersStep, RollOutStep DEF PinNext
<1> QED BY <1>1, <1>2

\* The variables of the pins are of their kind; a request that main did not overtake is
\* about the head of main, and no image is of a commit that is not there.
THEOREM PinInvariance == PinSpec => []PinInv
BY PinInitially, PinKeeps, PTL DEF PinSpec

THEOREM PinTypeCorrect == PinSpec => []PinTypeOK
<1>1. PinInv => PinTypeOK
  BY DEF PinInv
<1> QED BY <1>1, PinInvariance, PTL

\* Who changes k8s/deployment.yaml, and that a pin writes on what it read.
LEMMA FileChanges ==
  ASSUME PinInv, PinNext, deploy' # deploy
  PROVE  \/ \E c \in Commits : /\ build[c].pc = "write" /\ build[c].file = deploy
                               /\ deploy' = [deploy EXCEPT !.image = c]
         \/ toggle.pc = "write" /\ deploy' = [deploy EXCEPT !.caps = toggle.caps]
         \/ events' = events + 1 /\ \E t \in Tuning : deploy' = [deploy EXCEPT !.tune = t]
<1>1. ASSUME NEW c \in Commits, Pin(c) \/ PinFails(c)
      PROVE  build[c].pc = "write" /\ build[c].file = deploy /\ deploy' = [deploy EXCEPT !.image = c]
  <2>1. WriteFile(c)
    BY <1>1 DEF Pin, PinFails, CompareHead, ReadFile, fileVars
  <2>2. build[c].pc = "write" /\ Unchanged(build[c].file) /\ deploy' = Pinned(c)
    BY <2>1 DEF WriteFile, fileVars
  <2> QED BY <2>2 DEF Unchanged, Pinned
<1>2. CASE Push \/ (\E c \in Caps : Compose(c)) \/ ReadDeployment \/ RollOut
        \/ ToggleFails \/ BootFails \/ PinRestart
  BY <1>2 DEF Push, Compose, ReadDeployment, RollOut, SelectMissing, StoreHash, SetSecret,
     RefreshWorkflow, ToggleFails, BootFails, PinRestart, fileVars
<1>3. CASE \E t \in Tuning : Tune(t)
  BY <1>3 DEF Tune, Event
<1>4. CASE WriteDeployment
  BY <1>4 DEF WriteDeployment, Unchanged, Generated
<1> QED BY <1>1, <1>2, <1>3, <1>4 DEF PinNext, ComposeStep

\* rewritePinnedImageLines and buildDeploymentYaml work on what was read, and Gitea takes
\* their writing only while that is what is there: no writer of the file undoes another.
THEOREM NothingLost == PinSpec => NoLostUpdate
<1>1. PinInv /\ [PinNext]_pinVars =>
        [deploy' # deploy =>
           \/ \E c \in Commits : build[c].pc = "write" /\ deploy' = [deploy EXCEPT !.image = c]
           \/ toggle.pc = "write" /\ deploy' = [deploy EXCEPT !.caps = toggle.caps]
           \/ events' = events + 1 /\ deploy' = [deploy EXCEPT !.tune = deploy'.tune]]_pinVars
  <2> SUFFICES ASSUME PinInv, PinNext, deploy' # deploy
               PROVE  \/ \E c \in Commits : build[c].pc = "write" /\ deploy' = [deploy EXCEPT !.image = c]
                      \/ toggle.pc = "write" /\ deploy' = [deploy EXCEPT !.caps = toggle.caps]
                      \/ events' = events + 1 /\ deploy' = [deploy EXCEPT !.tune = deploy'.tune]
    OBVIOUS
  <2>1. ASSUME NEW t \in Tuning, deploy' = [deploy EXCEPT !.tune = t] PROVE deploy'.tune = t
    BY <2>1 DEF PinInv, PinTypeOK, File
  <2> QED BY <2>1, FileChanges
<1> QED BY <1>1, PinInvariance, PTL DEF PinSpec, NoLostUpdate

\* The pin handler's comparison with the head: until main moves, the commit that is being
\* pinned is the newest there is, and nothing newer can be deployed.
THEOREM RollbackIsARace == PinSpec => RollbackNeedsRace
<1>1. PinInv /\ [PinNext]_pinVars =>
        [\A c \in Commits :
           deploy'.image = c /\ deploy.image > c => build[c].pc = "write" /\ build[c].behind]_pinVars
  <2> SUFFICES ASSUME PinInv, PinNext, NEW c \in Commits, deploy'.image = c, deploy.image > c
               PROVE  build[c].pc = "write" /\ build[c].behind
    OBVIOUS
  <2>1. /\ deploy \in File /\ deploy.image \in Nat /\ c \in Nat /\ head \in Nat /\ deploy.image <= head
        /\ BuildOK(build) /\ build[c] \in Build
    BY DEF PinInv, PinTypeOK, File, Commits
  <2>2. deploy'.image # deploy.image
    BY <2>1
  <2>3. PICK d \in Commits : build[d].pc = "write" /\ deploy' = [deploy EXCEPT !.image = d]
    <3>1. \A t : [deploy EXCEPT !.tune = t].image = deploy.image
      BY <2>1 DEF File
    <3>2. \A t : [deploy EXCEPT !.caps = t].image = deploy.image
      BY <2>1 DEF File
    <3>3. ~ (deploy' = [deploy EXCEPT !.caps = toggle.caps])
      BY <2>2, <3>2
    <3>4. ~ (\E t \in Tuning : deploy' = [deploy EXCEPT !.tune = t])
      BY <2>2, <3>1
    <3>5. deploy' # deploy
      BY <2>2
    <3>6. \/ \E d \in Commits : build[d].pc = "write" /\ deploy' = [deploy EXCEPT !.image = d]
          \/ deploy' = [deploy EXCEPT !.caps = toggle.caps]
          \/ \E t \in Tuning : deploy' = [deploy EXCEPT !.tune = t]
      BY <3>5, FileChanges
    <3> QED BY <3>3, <3>4, <3>6
  <2>4. d = c
    BY <2>1, <2>3 DEF File
  <2> QED BY <2>1, <2>3, <2>4 DEF BuildOK, Build
<1> QED BY <1>1, PinInvariance, PTL DEF PinSpec, RollbackNeedsRace

-----------------------------------------------------------------------------
(* Who may write the template (TemplateAccess).                            *)

\* An operation that is alone shares its users with no other, and when it comes to the
\* repository the role is still the one that it gave or saw, if its check saw it.
OpOK(o) ==
  /\ ops[o].alone => \A q \in Ops \ {o} : ops[q].about \cap ops[o].about = {}
  /\ ops[o].kind \in {"promote", "demote", "grant", "revoke"} => \E u \in Users : ops[o].about = {u}
  /\ ops[o].kind = "startup" => ops[o].at = "repo"
  /\ Settled(o) /\ ops[o].at = "repo" =>
       /\ ops[o].kind \in {"promote", "startup"} => ops[o].about \subseteq admins
       /\ ops[o].kind \in {"demote", "revoke"} => ops[o].about \cap admins = {}

AccessInv == AccessFollowsRole /\ \A o \in Ops : OpOK(o)

LEMMA TypeOfFree == Free \in Op /\ Free.about = {} /\ ~ Free.alone /\ Free.kind = "idle"
BY DEF Free, Op, Kinds

\* Nothing that an operation knows of its users is touched by one that replaces its own
\* record, about no more users than before, nor by what it does to their roles.
LEMMA OthersKeep ==
  ASSUME AccessInv, NEW o \in Ops, NEW q \in Op, ops' = [ops EXCEPT ![o] = q],
         q.about \subseteq ops[o].about,
         \A u \in Users \ ops[o].about : u \in admins' <=> u \in admins
  PROVE  \A p \in Ops \ {o} : OpOK(p)'
<1> SUFFICES ASSUME NEW p \in Ops \ {o} PROVE OpOK(p)'
  OBVIOUS
<1>1. ops \in [Ops -> Op] /\ admins \subseteq Users /\ OpOK(p) /\ ops[p] \in Op
  BY DEF AccessInv, AccessFollowsRole, AccessTypeOK
<1>2. ops'[p] = ops[p] /\ \A r \in Ops : ops'[r].about \subseteq ops[r].about
  BY <1>1
<1>3. ops[p].alone => \A r \in Ops \ {p} : ops[r].about \cap ops[p].about = {}
  BY <1>1 DEF OpOK
<1>4. ops'[p].alone => \A r \in Ops \ {p} : ops'[r].about \cap ops'[p].about = {}
  BY <1>2, <1>3
<1>5. ops[p].alone => ops[o].about \cap ops[p].about = {}
  BY <1>3
<1>6. ops[p].about \subseteq Users
  BY <1>1 DEF Op
<1>7. ops[p].alone => \A u \in ops[p].about : u \in admins' <=> u \in admins
  BY <1>5, <1>6
<1> QED BY <1>1, <1>2, <1>4, <1>7 DEF OpOK, Settled

\* The end of an operation, and its giving up.
LEMMA FreesKeeps ==
  ASSUME AccessInv, NEW o \in Ops, Frees(o), UNCHANGED admins
  PROVE  ops' \in [Ops -> Op] /\ \A p \in Ops : OpOK(p)'
<1>1. ops \in [Ops -> Op] /\ ops' = [ops EXCEPT ![o] = Free] /\ Free.about \subseteq ops[o].about
  BY TypeOfFree DEF AccessInv, AccessFollowsRole, AccessTypeOK, Frees
<1>2. \A p \in Ops \ {o} : OpOK(p)'
  BY <1>1, TypeOfFree, OthersKeep
<1>3. OpOK(o)'
  BY <1>1, TypeOfFree DEF OpOK, Settled
<1> QED BY <1>1, <1>2, <1>3, TypeOfFree

\* Who begins makes himself known to those that deal with the same users.
LEMMA TakesKeeps ==
  ASSUME AccessInv, NEW o \in Ops, NEW kind \in Kinds, NEW at \in {"begin", "repo"},
         NEW us \in SUBSET Users, Takes(o, kind, at, us), UNCHANGED admins,
         kind \in {"promote", "demote", "grant", "revoke"} => at = "begin" /\ \E u \in Users : us = {u},
         kind = "startup" => at = "repo" /\ us \subseteq admins
  PROVE  ops' \in [Ops -> Op] /\ \A p \in Ops : OpOK(p)'
<1>1. ops \in [Ops -> Op] /\ \A p \in Ops : OpOK(p)
  BY DEF AccessInv, AccessFollowsRole, AccessTypeOK
<1> DEFINE new == [Free EXCEPT !.kind = kind, !.at = at, !.about = us,
                               !.alone = Others(o, us) = {}]
<1>2. new \in Op
  BY TypeOfFree DEF Op
<1>3. \A p \in Ops : ops'[p] = IF p = o THEN new
                               ELSE IF p \in Others(o, us) THEN [ops[p] EXCEPT !.alone = FALSE]
                               ELSE ops[p]
  <2> SUFFICES ASSUME NEW p \in Ops
               PROVE  ops'[p] = IF p = o THEN new
                                ELSE IF p \in Others(o, us) THEN [ops[p] EXCEPT !.alone = FALSE]
                                ELSE ops[p]
    OBVIOUS
  <2>1. ops'[p] = CASE p = o -> new
                    [] p \in Others(o, us) -> [ops[p] EXCEPT !.alone = FALSE]
                    [] OTHER -> ops[p]
    BY Zenon DEF Takes
  <2>2. o \notin Others(o, us)
    BY DEF Others
  <2> HIDE DEF new
  <2> QED BY <2>1, <2>2
<1>4. ASSUME NEW p \in Ops
      PROVE  /\ ops'[p] \in Op
             /\ p # o => /\ ops'[p].about = ops[p].about /\ ops'[p].kind = ops[p].kind
                         /\ ops'[p].at = ops[p].at /\ ops'[p].sure = ops[p].sure
             /\ p # o /\ ops'[p].alone => ops[p].alone /\ p \notin Others(o, us)
  <2>1. ops[p] \in Op
    BY <1>1
  <2>2. CASE p = o
    BY <1>2, <1>3, <2>2
  <2>3. CASE p # o /\ p \in Others(o, us)
    <3>1. ops'[p] = [ops[p] EXCEPT !.alone = FALSE]
      BY <1>3, <2>3
    <3> QED BY <2>1, <2>3, <3>1 DEF Op
  <2>4. CASE p # o /\ p \notin Others(o, us)
    BY <1>3, <2>1, <2>4
  <2> QED BY <2>2, <2>3, <2>4
<1>5. /\ ops'[o].kind = kind /\ ops'[o].at = at /\ ops'[o].about = us
      /\ ops'[o].alone <=> Others(o, us) = {}
  <2> DEFINE b == Others(o, us) = {}
  <2>1. ops'[o] = [Free EXCEPT !.kind = kind, !.at = at, !.about = us, !.alone = b]
    BY <1>3
  <2>2. b \in BOOLEAN /\ (b <=> Others(o, us) = {})
    OBVIOUS
  <2> HIDE DEF b
  <2>3. ops'[o].kind = kind /\ ops'[o].at = at /\ ops'[o].about = us /\ ops'[o].alone = b
    BY <2>1, TypeOfFree DEF Op
  <2> QED BY <2>2, <2>3
<1>6. ops' \in [Ops -> Op]
  BY <1>4 DEF Takes
<1>7. OpOK(o)'
  <2>1. ops'[o].alone => \A q \in Ops \ {o} : ops'[q].about \cap ops'[o].about = {}
    BY <1>4, <1>5 DEF Others
  <2> QED BY <1>5, <2>1 DEF OpOK, Settled
<1>8. ASSUME NEW p \in Ops \ {o} PROVE OpOK(p)'
  <2>1. ops'[p].alone => \A q \in Ops \ {p} : ops'[q].about \cap ops'[p].about = {}
    <3> SUFFICES ASSUME ops'[p].alone, NEW q \in Ops \ {p}
                 PROVE  ops'[q].about \cap ops'[p].about = {}
      OBVIOUS
    <3>1. CASE q = o
      BY <1>4, <1>5, <3>1 DEF Others
    <3>2. CASE q # o
      BY <1>1, <1>4, <3>2 DEF OpOK
    <3> QED BY <3>1, <3>2
  <2>2. OpOK(p)
    BY <1>1
  <2> QED BY <1>4, <2>1, <2>2 DEF OpOK, Settled
<1> QED BY <1>6, <1>7, <1>8

LEMMA AccessInitially == AccessInit => AccessInv
BY TypeOfFree, TemplateAccessAssumption DEF AccessInit, AccessInv, AccessFollowsRole, AccessTypeOK, OpOK, Settled

LEMMA AccessStep == AccessInv /\ [AccessNext]_accessVars => AccessInv'
<1> SUFFICES ASSUME AccessInv, [AccessNext]_accessVars PROVE AccessInv'
  OBVIOUS
<1>1. /\ admins \subseteq Users /\ collab \subseteq Users /\ byHand \subseteq Users
      /\ clean \subseteq Users /\ begun \in 0 .. MaxOps /\ ops \in [Ops -> Op]
      /\ \A o \in Ops : ops[o] \in Op /\ OpOK(o)
      /\ \A u \in clean : u \in collab <=> u \in admins \/ u \in byHand
  BY DEF AccessInv, AccessFollowsRole, AccessTypeOK
<1>2. ASSUME UNCHANGED <<admins, collab, byHand, clean>>, begun' \in 0 .. MaxOps,
             ops' \in [Ops -> Op], \A o \in Ops : OpOK(o)'
      PROVE  AccessInv'
  BY <1>1, <1>2 DEF AccessInv, AccessFollowsRole, AccessTypeOK
<1>3. CASE UNCHANGED accessVars
  BY <1>3 DEF accessVars, AccessInv, AccessFollowsRole, AccessTypeOK, OpOK, Settled
<1>4. ASSUME NEW o \in Ops, NEW k \in Kinds, NEW u \in Users, Ask(o, k, u) PROVE AccessInv'
  <2>1. begun' \in 0 .. MaxOps
    BY <1>1, <1>4, TemplateAccessAssumption DEF Ask
  <2>2. Takes(o, k, "begin", {u}) /\ UNCHANGED <<admins, collab, byHand, clean>> /\ k # "startup"
    BY <1>4 DEF Ask
  <2>3. ops' \in [Ops -> Op] /\ \A p \in Ops : OpOK(p)'
    BY <2>2, TakesKeeps
  <2> QED BY <1>2, <2>1, <2>2, <2>3
<1>5. ASSUME NEW o \in Ops, ListAdmins(o) PROVE AccessInv'
  <2>1. begun' \in 0 .. MaxOps
    BY <1>1, <1>5, TemplateAccessAssumption DEF ListAdmins
  <2>2. Takes(o, "startup", "repo", admins) /\ UNCHANGED <<admins, collab, byHand, clean>>
    BY <1>5 DEF ListAdmins
  <2>3. ops' \in [Ops -> Op] /\ \A p \in Ops : OpOK(p)'
    BY <1>1, <2>2, TakesKeeps DEF Kinds
  <2> QED BY <1>2, <2>1, <2>2, <2>3
<1>6. ASSUME NEW o \in Ops, GivesUp(o) PROVE AccessInv'
  <2>1. ops' \in [Ops -> Op] /\ \A p \in Ops : OpOK(p)'
    BY <1>6, FreesKeeps DEF GivesUp
  <2> QED BY <1>1, <1>2, <1>6, <2>1 DEF GivesUp
<1>7. ASSUME NEW o \in Ops, SetUserAdmin(o) PROVE AccessInv'
  <2> DEFINE q == [ops[o] EXCEPT !.at = "repo"]
  <2>1. /\ q \in Op /\ q.about = ops[o].about /\ q.kind = ops[o].kind /\ q.alone = ops[o].alone
        /\ ops[o].about \subseteq Users
    BY <1>1 DEF Op
  <2>2. ops' = [ops EXCEPT ![o] = q]
    BY <1>1, <1>7 DEF SetUserAdmin
  <2>3. /\ ops[o].kind = "promote" => admins' = admins \cup ops[o].about
        /\ ops[o].kind # "promote" => admins' = admins \ ops[o].about
        /\ ops[o].kind \in {"promote", "demote"}
        /\ clean' = clean \ ops[o].about /\ UNCHANGED <<collab, byHand, begun>>
    BY <1>7 DEF SetUserAdmin
  <2> HIDE DEF q
  <2>4. \A p \in Ops \ {o} : OpOK(p)'
    BY <2>1, <2>2, <2>3, OthersKeep
  <2>5. OpOK(o)'
    <3>1. ops'[o] = q /\ \A p \in Ops \ {o} : ops'[p] = ops[p]
      BY <1>1, <2>2
    <3> QED BY <1>1, <2>1, <2>3, <3>1 DEF OpOK, Settled
  <2>6. ops' \in [Ops -> Op]
    BY <1>1, <2>1, <2>2
  <2>7. \A u \in clean' : u \in collab' <=> u \in admins' \/ u \in byHand'
    BY <1>1, <2>3
  <2>8. admins' \subseteq Users /\ clean' \subseteq Users
    BY <1>1, <2>1, <2>3
  <2> QED BY <1>1, <2>3, <2>4, <2>5, <2>6, <2>7, <2>8 DEF AccessInv, AccessFollowsRole, AccessTypeOK
<1>8. ASSUME NEW o \in Ops, Check(o) PROVE AccessInv'
  <2>1. /\ ops[o].kind \in {"grant", "revoke"} /\ UNCHANGED <<admins, collab, byHand, clean, begun>>
    BY <1>8 DEF Check
  <2>2. CASE Frees(o)
    BY <1>1, <1>2, <2>1, <2>2, FreesKeeps
  <2>3. ASSUME NEW seen \in SUBSET admins, ~ Refuses(o, seen),
               ops' = [ops EXCEPT ![o].at = "repo",
                                  ![o].sure = ops[o].about \cap (admins \ seen) = {}]
        PROVE  AccessInv'
    <3> DEFINE b == ops[o].about \cap (admins \ seen) = {}
               q == [ops[o] EXCEPT !.at = "repo", !.sure = b]
    <3>0. b \in BOOLEAN
      OBVIOUS
    <3>1. /\ q \in Op /\ q.about = ops[o].about /\ q.kind = ops[o].kind
          /\ q.alone = ops[o].alone /\ q.sure = b
      BY <1>1, <3>0 DEF Op
    <3>2. ops' = [ops EXCEPT ![o] = q]
      BY <1>1, <2>3
    <3>3. b => ops[o].about \cap admins = {}
      BY <1>1, <2>1, <2>3 DEF OpOK, Refuses
    <3> HIDE DEF b
    <3> HIDE DEF q
    <3>4. \A p \in Ops \ {o} : OpOK(p)'
      BY <2>1, <3>1, <3>2, OthersKeep
    <3>5. OpOK(o)'
      <4>1. ops'[o] = q /\ \A p \in Ops \ {o} : ops'[p] = ops[p]
        BY <1>1, <3>2
      <4> QED BY <1>1, <2>1, <3>1, <3>3, <4>1 DEF OpOK, Settled
    <3>6. ops' \in [Ops -> Op]
      BY <1>1, <3>1, <3>2
    <3> QED BY <1>1, <1>2, <2>1, <3>4, <3>5, <3>6
  <2> QED BY <1>8, <2>2, <2>3 DEF Check
<1>9. ASSUME NEW o \in Ops, NEW r \in BOOLEAN, SetCollaborator(o, r) PROVE AccessInv'
  <2>1. /\ ops[o].kind \in {"promote", "grant"} /\ ops[o].at = "repo"
        /\ collab' = collab \cup ops[o].about
        /\ ops[o].kind = "grant" => byHand' = byHand \cup ops[o].about
        /\ ops[o].kind # "grant" => byHand' = byHand \ ops[o].about
        /\ Frees(o) /\ UNCHANGED <<admins, begun>>
        /\ clean' = IF Settled(o) THEN clean \cup ops[o].about ELSE clean \ ops[o].about
    BY <1>9 DEF SetCollaborator, Settles
  <2>2. ops' \in [Ops -> Op] /\ \A p \in Ops : OpOK(p)'
    BY <2>1, FreesKeeps
  <2>3. ops[o].about \subseteq Users
    BY <1>1 DEF Op
  <2>4. Settled(o) /\ ops[o].kind = "promote" => ops[o].about \subseteq admins
    BY <1>1, <2>1 DEF OpOK
  <2>5. \A u \in clean' : u \in collab' <=> u \in admins' \/ u \in byHand'
    BY <1>1, <2>1, <2>4
  <2>6. collab' \subseteq Users /\ byHand' \subseteq Users /\ clean' \subseteq Users
    BY <1>1, <2>1, <2>3
  <2> QED BY <1>1, <2>1, <2>2, <2>5, <2>6 DEF AccessInv, AccessFollowsRole, AccessTypeOK
<1>10. ASSUME NEW o \in Ops, RemoveCollaborator(o) PROVE AccessInv'
  <2>1. /\ ops[o].kind \in {"demote", "revoke"} /\ ops[o].at = "repo"
        /\ collab' = collab \ ops[o].about /\ byHand' = byHand \ ops[o].about
        /\ Frees(o) /\ UNCHANGED <<admins, begun>>
        /\ clean' = IF Settled(o) THEN clean \cup ops[o].about ELSE clean \ ops[o].about
    BY <1>10 DEF RemoveCollaborator, Settles
  <2>2. ops' \in [Ops -> Op] /\ \A p \in Ops : OpOK(p)'
    BY <2>1, FreesKeeps
  <2>3. ops[o].about \subseteq Users
    BY <1>1 DEF Op
  <2>4. Settled(o) => ops[o].about \cap admins = {}
    BY <1>1, <2>1 DEF OpOK
  <2>5. \A u \in clean' : u \in collab' <=> u \in admins' \/ u \in byHand'
    BY <1>1, <2>1, <2>4
  <2>6. collab' \subseteq Users /\ byHand' \subseteq Users /\ clean' \subseteq Users
    BY <1>1, <2>1, <2>3
  <2> QED BY <1>1, <2>1, <2>2, <2>5, <2>6 DEF AccessInv, AccessFollowsRole, AccessTypeOK
<1>11. ASSUME NEW o \in Ops, NEW u \in Users, Next1(o, u), ops[o].kind = "startup", UNCHANGED admins
       PROVE  ops' \in [Ops -> Op] /\ \A p \in Ops : OpOK(p)'
  <2>1. CASE Frees(o)
    BY <1>11, <2>1, FreesKeeps
  <2>2. CASE ops' = [ops EXCEPT ![o].about = ops[o].about \ {u}]
    <3> DEFINE q == [ops[o] EXCEPT !.about = ops[o].about \ {u}]
    <3>1. /\ q \in Op /\ q.about \subseteq ops[o].about /\ q.kind = "startup" /\ q.alone = ops[o].alone
          /\ q.at = ops[o].at /\ q.sure = ops[o].sure
      BY <1>1, <1>11 DEF Op
    <3>2. ops' = [ops EXCEPT ![o] = q]
      BY <1>1, <2>2
    <3> HIDE DEF q
    <3>3. \A p \in Ops \ {o} : OpOK(p)'
      BY <1>11, <3>1, <3>2, OthersKeep
    <3>4. OpOK(o)'
      <4>1. ops'[o] = q /\ \A p \in Ops \ {o} : ops'[p] = ops[p]
        BY <1>1, <3>2
      <4>2. /\ ops[o].alone => \A p \in Ops \ {o} : ops[p].about \cap ops[o].about = {}
            /\ Settled(o) => ops[o].about \subseteq admins
            /\ ops[o].at = "repo"
        BY <1>1, <1>11 DEF OpOK
      <4> QED BY <1>11, <3>1, <4>1, <4>2 DEF OpOK, Settled
    <3> QED BY <1>1, <3>1, <3>2, <3>3, <3>4
  <2> QED BY <1>11, <2>1, <2>2 DEF Next1
<1>12. ASSUME NEW o \in Ops, NEW u \in Users, PassOver(o, u) PROVE AccessInv'
  BY <1>1, <1>2, <1>11, <1>12 DEF PassOver
<1>13. ASSUME NEW o \in Ops, NEW u \in Users, NEW r \in BOOLEAN, AddAdmin(o, u, r) PROVE AccessInv'
  <2>1. /\ ops[o].kind = "startup" /\ u \in ops[o].about /\ collab' = collab \cup {u}
        /\ clean' = (IF Settled(o) THEN clean \cup {u} ELSE clean \ {u})
        /\ Next1(o, u) /\ UNCHANGED <<admins, byHand, begun>>
    BY <1>13 DEF AddAdmin, Settles
  <2>2. Settled(o) => u \in admins
    BY <1>1, <2>1 DEF OpOK
  <2>3. ops' \in [Ops -> Op] /\ \A p \in Ops : OpOK(p)'
    BY <1>11, <2>1
  <2>4. \A v \in clean' : v \in collab' <=> v \in admins' \/ v \in byHand'
    BY <1>1, <2>1, <2>2
  <2> QED BY <1>1, <2>1, <2>3, <2>4 DEF AccessInv, AccessFollowsRole, AccessTypeOK
<1> QED BY <1>3, <1>4, <1>5, <1>6, <1>7, <1>8, <1>9, <1>10, <1>12, <1>13 DEF AccessNext, Requests, Startup

\* setUserAdmin, the grants by hand and what a starting portal adds, whichever calls fail and
\* however many are under way: what an operation leaves that was alone with a user, and that
\* could look him up if he is an administrator, is right.
THEOREM AccessIsRole == AccessSpec => []AccessFollowsRole
<1>1. AccessInv => AccessFollowsRole
  BY DEF AccessInv
<1> QED BY <1>1, AccessInitially, AccessStep, PTL DEF AccessSpec

-----------------------------------------------------------------------------
(* What the template holds (TemplateSeed).                                 *)

\* Once a run has listed the files: what it does not write is there, and in a reset right
\* already; what was edited since is not what it listed, for no edit leaves a file as an
\* earlier one did; and a start that adopts has only the missing files to write.
RunOK(r) ==
  /\ runs[r].at \in {"list", "flag", "write"} => repo # "absent"
  /\ runs[r].at \in {"flag", "write"} =>
       /\ \A p \in Baseline : p \in runs[r].left \/ files[p] # NoFile \/ p \in gone
       /\ \A p \in runs[r].edited : files[p] \in Hand => runs[r].listing[p] # files[p]
       /\ \A p \in Paths : runs[r].listing[p] \in Hand => runs[r].listing[p] <= edits
       /\ r \in Resets => \A p \in Paths \ (runs[r].edited \cup runs[r].left) :
                            files[p] = IF p \in Baseline THEN Factory ELSE NoFile
       /\ r \in Boots /\ ~ runs[r].created /\ ~ OnlyReadme(runs[r].listing) =>
            \A p \in runs[r].left : runs[r].listing[p] = NoFile

FilesOK ==
  /\ repo = "absent" => files = Empty /\ mark = Unmarked
  /\ \A p \in Paths : files[p] \in Hand => files[p] <= edits

SeedInv == MarkedIsWhole /\ FilesOK /\ \A r \in Runs : RunOK(r)

LEMMA TypeOfUnstarted ==
  Empty \in [Paths -> Contents] /\ \A how \in Steps : [Unstarted EXCEPT !.at = how] \in Run
                                      /\ [Unstarted EXCEPT !.at = how].at = how
BY DEF Empty, Unstarted, Run, Contents, Steps

\* A run that goes on, or ends, without having listed anything.
LEMMA GoesOn ==
  ASSUME SeedInv, NEW r \in Runs, NEW q \in Run, runs' = [runs EXCEPT ![r] = q],
         q.at \notin {"flag", "write"}, q.at = "list" => repo # "absent",
         UNCHANGED <<repo, files, mark, edits, gone>>
  PROVE  SeedInv'
<1>1. runs \in [Runs -> Run]
  BY DEF SeedInv, MarkedIsWhole, SeedTypeOK
<1>2. runs' \in [Runs -> Run] /\ runs'[r] = q /\ \A o \in Runs \ {r} : runs'[o] = runs[o]
  BY <1>1
<1>3. RunOK(r)'
  BY <1>2 DEF RunOK
<1>4. \A o \in Runs \ {r} : RunOK(o)'
  BY <1>2 DEF SeedInv, RunOK, OnlyReadme
<1>5. MarkedIsWhole' /\ FilesOK'
  BY <1>2 DEF SeedInv, MarkedIsWhole, SeedTypeOK, FilesOK
<1> QED BY <1>3, <1>4, <1>5 DEF SeedInv

LEMMA EndsKeeps ==
  ASSUME SeedInv, NEW r \in Runs, NEW how \in Over, Ends(r, how),
         UNCHANGED <<repo, files, mark, edits, gone>>
  PROVE  SeedInv'
<1> DEFINE q == [Unstarted EXCEPT !.at = how]
<1>1. q \in Run /\ q.at = how
  BY TypeOfUnstarted DEF Over, Steps
<1>2. runs' = [runs EXCEPT ![r] = q]
  BY DEF Ends
<1> HIDE DEF q
<1> QED BY <1>1, <1>2, GoesOn DEF Over

\* A run brings one file to what the baseline says and has one less to do.
LEMMA PutsRight ==
  ASSUME SeedInv, NEW r \in Runs, NEW p \in Paths, p \in runs[r].left, runs[r].at = "write",
         files' = [files EXCEPT ![p] = IF p \in Baseline THEN Factory ELSE NoFile],
         Left(r, p), UNCHANGED <<repo, mark, edits, gone>>
  PROVE  SeedInv'
<1> USE TemplateSeedAssumption
<1>1. /\ runs \in [Runs -> Run] /\ files \in [Paths -> Contents] /\ runs[r] \in Run
      /\ repo # "absent" /\ edits \in 0 .. MaxEdits
  BY DEF SeedInv, MarkedIsWhole, SeedTypeOK, RunOK
<1> DEFINE q == [runs[r] EXCEPT !.left = runs[r].left \ {p}]
<1>2. /\ q \in Run /\ q.at = "write" /\ q.left = runs[r].left \ {p} /\ q.edited = runs[r].edited
      /\ q.listing = runs[r].listing /\ q.created = runs[r].created
  BY <1>1 DEF Run
<1>3. runs' = [runs EXCEPT ![r] = q]
  BY <1>1 DEF Left
<1> HIDE DEF q
<1>4. runs' \in [Runs -> Run] /\ runs'[r] = q /\ \A o \in Runs \ {r} : runs'[o] = runs[o]
  BY <1>1, <1>2, <1>3
<1>5. /\ files' \in [Paths -> Contents]
      /\ files'[p] = IF p \in Baseline THEN Factory ELSE NoFile
      /\ \A o \in Paths \ {p} : files'[o] = files[o]
  BY <1>1 DEF Contents
<1>6. /\ p \in Baseline => files'[p] # NoFile
      /\ files'[p] \notin Hand
  BY <1>5 DEF Hand
<1>7. RunOK(r)
  BY DEF SeedInv
<1>8. RunOK(r)'
  <2>1. \A o \in Baseline : o \in q.left \/ files'[o] # NoFile \/ o \in gone'
    BY <1>2, <1>5, <1>6, <1>7 DEF RunOK, Paths
  <2>2. \A o \in q.edited : files'[o] \in Hand => q.listing[o] # files'[o]
    BY <1>1, <1>2, <1>5, <1>6, <1>7 DEF RunOK, Run
  <2>3. r \in Resets => \A o \in Paths \ (q.edited \cup q.left) :
                          files'[o] = IF o \in Baseline THEN Factory ELSE NoFile
    BY <1>2, <1>5, <1>7 DEF RunOK
  <2>4. \A o \in Paths : q.listing[o] \in Hand => q.listing[o] <= edits'
    BY <1>2, <1>7 DEF RunOK
  <2>5. r \in Boots /\ ~ q.created /\ ~ OnlyReadme(q.listing) =>
          \A o \in q.left : q.listing[o] = NoFile
    BY <1>2, <1>7 DEF RunOK
  <2> QED BY <1>1, <1>2, <1>4, <2>1, <2>2, <2>3, <2>4, <2>5 DEF RunOK, OnlyReadme
<1>9. ASSUME NEW o \in Runs \ {r} PROVE RunOK(o)'
  <2>1. runs'[o] = runs[o] /\ RunOK(o) /\ runs[o] \in Run
    BY <1>1, <1>4 DEF SeedInv
  <2>2. CASE runs[o].at \in {"flag", "write"}
    <3>1. \A s \in Baseline : s \in runs[o].left \/ files'[s] # NoFile \/ s \in gone'
      BY <1>5, <1>6, <2>1, <2>2 DEF RunOK, Paths
    <3>2. \A s \in runs[o].edited : files'[s] \in Hand => runs[o].listing[s] # files'[s]
      BY <1>5, <1>6, <2>1, <2>2 DEF RunOK, Run
    <3>3. o \in Resets => \A s \in Paths \ (runs[o].edited \cup runs[o].left) :
                            files'[s] = IF s \in Baseline THEN Factory ELSE NoFile
      BY <1>5, <2>1, <2>2 DEF RunOK
    <3> QED BY <1>1, <2>1, <2>2, <3>1, <3>2, <3>3 DEF RunOK, OnlyReadme
  <2>3. CASE runs[o].at \notin {"flag", "write"}
    BY <1>1, <2>1, <2>3 DEF RunOK
  <2> QED BY <2>2, <2>3
<1>10. MarkedIsWhole'
  BY <1>4, <1>5, <1>6 DEF SeedInv, MarkedIsWhole, SeedTypeOK, Paths
<1>11. FilesOK'
  BY <1>1, <1>5, <1>6 DEF SeedInv, FilesOK
<1> QED BY <1>8, <1>9, <1>10, <1>11 DEF SeedInv

LEMMA ListKeeps ==
  ASSUME SeedInv, NEW r \in Runs, List(r)
  PROVE  SeedInv'
<1> USE TemplateSeedAssumption
<1>1. CASE r \in Boots /\ ~ runs[r].created /\ mark # Unmarked
  BY <1>1, EndsKeeps DEF List, Over
<1>2. CASE ~ (r \in Boots /\ ~ runs[r].created /\ mark # Unmarked)
  <2>1. /\ runs \in [Runs -> Run] /\ files \in [Paths -> Contents] /\ runs[r] \in Run
        /\ mark \in Runs \cup {Unmarked} /\ repo # "absent" /\ edits \in 0 .. MaxEdits
    BY DEF SeedInv, MarkedIsWhole, SeedTypeOK, RunOK, List
  <2> DEFINE at == IF runs[r].created \/ ~ runs[r].flagged THEN "flag" ELSE "write"
             q == [runs[r] EXCEPT !.listing = files, !.listed = mark, !.left = Todo(r),
                                  !.edited = {}, !.at = at]
  <2>2. at \in {"flag", "write"} /\ Todo(r) \subseteq Paths
    BY DEF Todo, ToWrite, ToSweep, Paths
  <2>3. runs' = [runs EXCEPT ![r] = q] /\ UNCHANGED <<repo, files, mark, edits, gone>>
    BY <1>2 DEF List
  <2> HIDE DEF at
  <2>4. /\ q \in Run /\ q.at \in {"flag", "write"} /\ q.left = Todo(r) /\ q.edited = {}
        /\ q.listing = files /\ q.created = runs[r].created
    BY <2>1, <2>2 DEF Run, Steps
  <2> HIDE DEF q
  <2>5. runs' \in [Runs -> Run] /\ runs'[r] = q /\ \A o \in Runs \ {r} : runs'[o] = runs[o]
    BY <2>1, <2>3, <2>4
  <2>6. \A p \in Baseline : p \in Todo(r) \/ files[p] # NoFile
    BY DEF Todo, ToWrite
  <2>7. r \in Resets => \A p \in Paths \ Todo(r) :
                          files[p] = IF p \in Baseline THEN Factory ELSE NoFile
    BY DEF Todo, ToWrite, ToSweep, Adopts
  <2>8. r \in Boots /\ ~ runs[r].created /\ ~ OnlyReadme(files) => \A p \in Todo(r) : files[p] = NoFile
    BY <1>2 DEF Todo, ToWrite, ToSweep, Adopts
  <2>9. \A p \in Paths : files[p] \in Hand => files[p] <= edits
    BY DEF SeedInv, FilesOK
  <2>10. RunOK(r)'
    BY <2>1, <2>3, <2>4, <2>5, <2>6, <2>7, <2>8, <2>9 DEF RunOK, OnlyReadme
  <2>11. \A o \in Runs \ {r} : RunOK(o)'
    BY <2>3, <2>5 DEF SeedInv, RunOK, OnlyReadme
  <2>12. MarkedIsWhole' /\ FilesOK'
    BY <2>3, <2>5 DEF SeedInv, MarkedIsWhole, SeedTypeOK, FilesOK
  <2> QED BY <2>10, <2>11, <2>12 DEF SeedInv
<1> QED BY <1>1, <1>2

\* The repository is created empty, and a run that lists or writes has found one.
LEMMA CreateKeeps ==
  ASSUME SeedInv, NEW r \in Runs, Create(r)
  PROVE  SeedInv'
<1> USE TemplateSeedAssumption
<1>1. /\ runs \in [Runs -> Run] /\ files \in [Paths -> Contents] /\ runs[r] \in Run
      /\ edits \in 0 .. MaxEdits
  BY DEF SeedInv, MarkedIsWhole, SeedTypeOK
<1> DEFINE q == [runs[r] EXCEPT !.at = "list", !.created = TRUE]
<1>2. q \in Run /\ q.at = "list"
  BY <1>1 DEF Run, Steps
<1>3. runs' = [runs EXCEPT ![r] = q] /\ UNCHANGED <<mark, edits, gone>>
  BY DEF Create
<1> HIDE DEF q
<1>4. CASE repo # "absent"
  <2>1. UNCHANGED <<repo, files>>
    BY <1>4 DEF Create
  <2> QED BY <1>2, <1>3, <1>4, <2>1, GoesOn
<1>5. CASE repo = "absent"
  <2>1. repo' = "template" /\ files' = [Empty EXCEPT ![Readme] = Stub]
    BY <1>5 DEF Create
  <2>2. mark = Unmarked
    BY <1>5 DEF SeedInv, FilesOK
  <2>3. files' \in [Paths -> Contents] /\ \A p \in Paths : files'[p] \in {Stub, NoFile}
    BY <2>1 DEF Empty, Contents
  <2>4. runs' \in [Runs -> Run] /\ runs'[r] = q /\ \A o \in Runs \ {r} : runs'[o] = runs[o]
    BY <1>1, <1>2, <1>3
  <2>5. \A o \in Runs \ {r} : runs[o].at \notin {"list", "flag", "write"}
    BY <1>5 DEF SeedInv, RunOK
  <2>6. \A o \in Runs : RunOK(o)'
    BY <1>2, <2>1, <2>4, <2>5 DEF RunOK
  <2>7. MarkedIsWhole'
    BY <1>3, <2>1, <2>2, <2>3, <2>4 DEF SeedInv, MarkedIsWhole, SeedTypeOK
  <2>8. FilesOK'
    BY <2>1, <2>3 DEF FilesOK, Hand
  <2> QED BY <2>6, <2>7, <2>8 DEF SeedInv
<1> QED BY <1>4, <1>5

LEMMA FlagKeeps ==
  ASSUME SeedInv, NEW r \in Runs, Flag(r)
  PROVE  SeedInv'
<1>1. runs \in [Runs -> Run] /\ runs[r] \in Run /\ RunOK(r) /\ runs[r].at = "flag"
  BY DEF SeedInv, MarkedIsWhole, SeedTypeOK, Flag
<1> DEFINE q == [runs[r] EXCEPT !.at = "write"]
<1>2. /\ q \in Run /\ q.at = "write" /\ q.left = runs[r].left /\ q.edited = runs[r].edited
      /\ q.listing = runs[r].listing /\ q.created = runs[r].created
  BY <1>1 DEF Run, Steps
<1>3. runs' = [runs EXCEPT ![r] = q] /\ repo' = "template" /\ UNCHANGED <<files, mark, edits, gone>>
  BY <1>1 DEF Flag, Goes
<1> HIDE DEF q
<1>4. runs' \in [Runs -> Run] /\ runs'[r] = q /\ \A o \in Runs \ {r} : runs'[o] = runs[o]
  BY <1>1, <1>2, <1>3
<1>5. RunOK(r)'
  BY <1>1, <1>2, <1>3, <1>4 DEF RunOK, OnlyReadme
<1>6. \A o \in Runs \ {r} : RunOK(o)'
  BY <1>3, <1>4 DEF SeedInv, RunOK, OnlyReadme
<1>7. MarkedIsWhole' /\ FilesOK'
  BY <1>3, <1>4 DEF SeedInv, MarkedIsWhole, SeedTypeOK, FilesOK
<1> QED BY <1>5, <1>6, <1>7 DEF SeedInv

\* The sentinel is written by a run that has nothing left.
LEMMA MarkKeeps ==
  ASSUME SeedInv, NEW r \in Runs, Mark(r)
  PROVE  SeedInv'
<1>1. CASE mark # runs[r].listed
  BY <1>1, EndsKeeps DEF Mark, Over
<1>2. CASE mark = runs[r].listed
  <2>1. runs \in [Runs -> Run] /\ runs[r].left = {} /\ RunOK(r) /\ runs[r].at = "write"
    BY DEF SeedInv, MarkedIsWhole, SeedTypeOK, Mark, Whole
  <2>2. mark' = r /\ Ends(r, "done") /\ UNCHANGED <<repo, files, edits, gone>>
    BY <1>2 DEF Mark
  <2> DEFINE q == [Unstarted EXCEPT !.at = "done"]
  <2>3. q \in Run /\ q.at = "done"
    BY TypeOfUnstarted DEF Steps, Over
  <2>4. runs' = [runs EXCEPT ![r] = q]
    BY <2>2 DEF Ends
  <2> HIDE DEF q
  <2>5. runs' \in [Runs -> Run] /\ runs'[r] = q /\ \A o \in Runs \ {r} : runs'[o] = runs[o]
    BY <2>1, <2>3, <2>4
  <2>6. \A p \in Baseline : files[p] # NoFile \/ p \in gone
    BY <2>1 DEF RunOK
  <2>7. \A o \in Runs : RunOK(o)'
    BY <2>2, <2>3, <2>5 DEF SeedInv, RunOK, OnlyReadme
  <2>8. MarkedIsWhole'
    BY <2>2, <2>5, <2>6 DEF SeedInv, MarkedIsWhole, SeedTypeOK
  <2>9. FilesOK'
    BY <2>1, <2>2 DEF SeedInv, FilesOK, RunOK
  <2> QED BY <2>7, <2>8, <2>9 DEF SeedInv
<1> QED BY <1>1, <1>2

\* By hand: a text that no run has listed, and those that have listed the file know.
LEMMA EditKeeps ==
  ASSUME SeedInv, NEW p \in Paths, Edit(p)
  PROVE  SeedInv'
<1> USE TemplateSeedAssumption
<1>1. /\ runs \in [Runs -> Run] /\ files \in [Paths -> Contents] /\ edits \in 0 .. MaxEdits
      /\ edits < MaxEdits /\ edits' = edits + 1 /\ UNCHANGED <<repo, mark>> /\ repo # "absent"
      /\ gone \subseteq Paths
  BY DEF SeedInv, MarkedIsWhole, SeedTypeOK, Edit
<1>2. PICK v \in Contents :
        /\ files' = [files EXCEPT ![p] = v]
        /\ v = edits + 1 \/ v = NoFile
        /\ v = NoFile => p \in gone'
        /\ \A s \in Paths \ {p} : s \in gone => s \in gone'
        /\ gone' \subseteq Paths
  <2>1. CASE files' = [files EXCEPT ![p] = edits + 1] /\ gone' = gone \ {p}
    <3>1. edits + 1 \in Hand
      BY <1>1 DEF Hand
    <3>2. edits + 1 \in Contents /\ edits + 1 # NoFile
      BY <3>1 DEF Contents, Hand
    <3> QED BY <1>1, <2>1, <3>2
  <2>2. CASE files' = [files EXCEPT ![p] = NoFile] /\ gone' = gone \cup {p}
    BY <1>1, <2>2 DEF Contents
  <2> QED BY <2>1, <2>2 DEF Edit
<1>3. /\ files' \in [Paths -> Contents] /\ files'[p] = v
      /\ \A s \in Paths \ {p} : files'[s] = files[s]
  BY <1>1, <1>2
<1>4. ASSUME NEW r \in Runs
      PROVE  /\ runs'[r] \in Run /\ runs'[r].at = runs[r].at /\ runs'[r].left = runs[r].left
             /\ runs'[r].listing = runs[r].listing /\ runs'[r].created = runs[r].created
             /\ runs[r].at \in {"flag", "write"} => runs'[r].edited = runs[r].edited \cup {p}
  <2>1. runs[r] \in Run
    BY <1>1
  <2>2. runs'[r] = IF runs[r].at \in {"flag", "write"}
                     THEN [runs[r] EXCEPT !.edited = runs[r].edited \cup {p}] ELSE runs[r]
    BY DEF Edit, Seen
  <2>3. CASE runs[r].at \in {"flag", "write"}
    <3>1. runs'[r] = [runs[r] EXCEPT !.edited = runs[r].edited \cup {p}]
      BY <2>2, <2>3
    <3> QED BY <2>1, <2>3, <3>1 DEF Run
  <2>4. CASE runs[r].at \notin {"flag", "write"}
    BY <2>1, <2>2, <2>4
  <2> QED BY <2>3, <2>4
<1>5. runs' \in [Runs -> Run]
  BY <1>4 DEF Edit, Seen
<1>6. ASSUME NEW r \in Runs PROVE RunOK(r)'
  <2>1. RunOK(r)
    BY DEF SeedInv
  <2>2. CASE runs[r].at \in {"flag", "write"}
    <3>1. \A s \in Baseline : s \in runs[r].left \/ files'[s] # NoFile \/ s \in gone'
      <4> SUFFICES ASSUME NEW s \in Baseline PROVE s \in runs[r].left \/ files'[s] # NoFile \/ s \in gone'
        OBVIOUS
      <4>1. CASE s = p
        BY <1>2, <1>3, <4>1
      <4>2. CASE s # p
        BY <1>2, <1>3, <2>1, <2>2, <4>2 DEF RunOK, Paths
      <4> QED BY <4>1, <4>2
    <3>2. \A s \in Paths : runs[r].listing[s] \in Hand => runs[r].listing[s] <= edits
      BY <2>1, <2>2 DEF RunOK
    <3>3. \A s \in runs'[r].edited : files'[s] \in Hand => runs[r].listing[s] # files'[s]
      <4> SUFFICES ASSUME NEW s \in runs'[r].edited, files'[s] \in Hand
                   PROVE  runs[r].listing[s] # files'[s]
        OBVIOUS
      <4>1. CASE s = p
        <5>1. v = edits + 1
          BY <1>2, <1>3, <4>1 DEF Hand
        <5>2. runs[r].listing[p] = edits + 1 => FALSE
          BY <1>1, <1>3, <3>2, <4>1, <5>1 DEF Hand
        <5> QED BY <1>3, <4>1, <5>1, <5>2
      <4>2. CASE s # p
        <5>1. s \in runs[r].edited /\ s \in Paths
          BY <1>4, <2>2, <4>2 DEF Run
        <5> QED BY <1>3, <2>1, <2>2, <4>2, <5>1 DEF RunOK
      <4> QED BY <4>1, <4>2
    <3>4. \A s \in Paths : runs[r].listing[s] \in Hand => runs[r].listing[s] <= edits'
      BY <1>1, <3>2 DEF Hand
    <3>5. r \in Resets => \A s \in Paths \ (runs'[r].edited \cup runs[r].left) :
                            files'[s] = IF s \in Baseline THEN Factory ELSE NoFile
      BY <1>3, <1>4, <2>1, <2>2 DEF RunOK
    <3>6. r \in Boots /\ ~ runs[r].created /\ ~ OnlyReadme(runs[r].listing) =>
            \A s \in runs[r].left : runs[r].listing[s] = NoFile
      BY <2>1, <2>2 DEF RunOK
    <3> QED BY <1>1, <1>4, <2>2, <3>1, <3>3, <3>4, <3>5, <3>6 DEF RunOK, OnlyReadme
  <2>3. CASE runs[r].at \notin {"flag", "write"}
    BY <1>1, <1>4, <2>1, <2>3 DEF RunOK
  <2> QED BY <2>2, <2>3
<1>7. FilesOK'
  <2>1. \A s \in Paths : files'[s] \in Hand => files'[s] <= edits'
    <3> SUFFICES ASSUME NEW s \in Paths, files'[s] \in Hand PROVE files'[s] <= edits'
      OBVIOUS
    <3>1. CASE s = p
      <4>1. files'[s] = edits + 1
        BY <1>2, <1>3, <3>1 DEF Hand
      <4> QED BY <1>1, <4>1
    <3>2. CASE s # p
      <4>1. files'[s] = files[s] /\ files[s] <= edits
        BY <1>3, <3>2 DEF SeedInv, FilesOK
      <4> QED BY <1>1, <4>1 DEF Hand
    <3> QED BY <3>1, <3>2
  <2> QED BY <1>1, <2>1 DEF FilesOK
<1>8. MarkedIsWhole'
  <2>1. ASSUME mark # Unmarked, NEW s \in Baseline PROVE files'[s] # NoFile \/ s \in gone'
    <3>1. CASE s = p
      BY <1>2, <1>3, <3>1
    <3>2. CASE s # p
      BY <1>2, <1>3, <2>1, <3>2 DEF SeedInv, MarkedIsWhole, Paths
    <3> QED BY <3>1, <3>2
  <2>2. edits' \in 0 .. MaxEdits
    BY <1>1
  <2> QED BY <1>1, <1>2, <1>3, <1>5, <2>1, <2>2 DEF SeedInv, MarkedIsWhole, SeedTypeOK
<1> QED BY <1>6, <1>7, <1>8 DEF SeedInv

LEMMA SeedInitially == SeedInit => SeedInv
<1> SUFFICES ASSUME SeedInit PROVE SeedInv
  OBVIOUS
<1> USE TemplateSeedAssumption
<1>1. Unstarted \in Run /\ Unstarted.at = "idle"
  BY DEF Unstarted, Run, Empty, Contents, Steps
<1>2. \A r \in Runs : runs[r] = Unstarted
  BY DEF SeedInit
<1>3. files \in [Paths -> Contents] /\ \A p \in Paths : files[p] \in {NoFile, Factory, 0}
  BY DEF SeedInit, Empty, Contents, Hand
<1>4. FilesOK
  BY <1>3 DEF SeedInit, FilesOK, Hand
<1>5. SeedTypeOK
  BY <1>1, <1>3 DEF SeedInit, SeedTypeOK
<1>6. \A r \in Runs : RunOK(r)
  BY <1>1, <1>2 DEF RunOK
<1> QED BY <1>4, <1>5, <1>6 DEF SeedInit, SeedInv, MarkedIsWhole

LEMMA SeedStepKeeps == SeedInv /\ [SeedNext]_seedVars => SeedInv'
<1> SUFFICES ASSUME SeedInv, [SeedNext]_seedVars PROVE SeedInv'
  OBVIOUS
<1>1. runs \in [Runs -> Run]
  BY DEF SeedInv, MarkedIsWhole, SeedTypeOK
<1>2. CASE UNCHANGED seedVars
  BY <1>2 DEF seedVars, SeedInv, MarkedIsWhole, SeedTypeOK, FilesOK, RunOK, OnlyReadme
<1>3. CASE Unmark
  BY <1>3, TemplateSeedAssumption DEF Unmark, SeedInv, MarkedIsWhole, SeedTypeOK, FilesOK, RunOK, OnlyReadme, Hand
<1>4. ASSUME NEW r \in Runs, Start(r) PROVE SeedInv'
  <2> DEFINE q == [runs[r] EXCEPT !.at = "look"]
  <2>1. q \in Run /\ q.at = "look"
    BY <1>1 DEF Run, Steps
  <2>2. runs' = [runs EXCEPT ![r] = q]
    BY <1>1, <1>4 DEF Start, Goes
  <2> HIDE DEF q
  <2> QED BY <1>4, <2>1, <2>2, GoesOn DEF Start
<1>5. ASSUME NEW r \in Runs, BreaksOff(r) PROVE SeedInv'
  BY <1>5, EndsKeeps DEF BreaksOff, Over
<1>6. ASSUME NEW r \in Runs, Look(r) PROVE SeedInv'
  <2> DEFINE at == IF repo = "absent" THEN "create" ELSE "list"
             b == repo = "template"
             q == [runs[r] EXCEPT !.at = at, !.flagged = b]
  <2>1. b \in BOOLEAN /\ at \in {"create", "list"} /\ (at = "list" => repo # "absent")
    OBVIOUS
  <2>2. runs' = [runs EXCEPT ![r] = q]
    BY <1>6 DEF Look
  <2> HIDE DEF b, at
  <2>3. q \in Run /\ q.at = at
    BY <1>1, <2>1 DEF Run, Steps
  <2> HIDE DEF q
  <2> QED BY <1>6, <2>1, <2>2, <2>3, GoesOn DEF Look
<1>7. ASSUME NEW r \in Runs, NEW p \in Paths, Write(r, p) PROVE SeedInv'
  <2>1. CASE Matches(r, p)
    BY <1>7, <2>1, PutsRight DEF Write
  <2>2. CASE ~ Matches(r, p)
    BY <1>7, <2>2, EndsKeeps DEF Write, Over
  <2> QED BY <2>1, <2>2
<1>8. ASSUME NEW r \in Runs, NEW p \in Paths, Sweep(r, p) PROVE SeedInv'
  <2>1. CASE Matches(r, p)
    BY <1>8, <2>1, PutsRight DEF Sweep
  <2>2. CASE ~ Matches(r, p)
    BY <1>8, <2>2, EndsKeeps DEF Sweep, Over
  <2> QED BY <2>1, <2>2
<1> QED BY <1>2, <1>3, <1>4, <1>5, <1>6, <1>7, <1>8, CreateKeeps, ListKeeps, FlagKeeps, MarkKeeps,
           EditKeeps DEF SeedNext, SeedStep

\* Seeding and resets, whatever fails half way, whoever else seeds and whatever is edited
\* by hand meanwhile: the sentinel never stands for a part of the baseline.
THEOREM SentinelMeansWhole == SeedSpec => []MarkedIsWhole
<1>1. SeedInv => MarkedIsWhole
  BY DEF SeedInv
<1> QED BY <1>1, SeedInitially, SeedStepKeeps, PTL DEF SeedSpec

\* A run overwrites and deletes nothing that was written by hand after it had listed the
\* files, and a portal that starts, in a repository that it did not create, nothing at all.
THEOREM HandsAreSpared == SeedSpec => EditsSurvive
<1> DEFINE A == \A r \in Runs : \A p \in Paths :
                  (files[p] \in Hand /\ files'[p] # files[p] /\ edits' = edits /\ runs'[r] # runs[r])
                    => Spares(r, p)
<1>1. ASSUME SeedInv, [SeedNext]_seedVars PROVE [A]_seedVars
  <2> SUFFICES ASSUME SeedNext, NEW r \in Runs, NEW p \in Paths, files[p] \in Hand,
                      files'[p] # files[p], edits' = edits, runs'[r] # runs[r]
               PROVE  Spares(r, p)
    BY <1>1
  <2> USE TemplateSeedAssumption
  <2>1. /\ runs \in [Runs -> Run] /\ files \in [Paths -> Contents] /\ edits \in 0 .. MaxEdits
        /\ RunOK(r)
    BY <1>1 DEF SeedInv, MarkedIsWhole, SeedTypeOK
  <2>2. \A s \in Paths : ~ Edit(s)
    BY <2>1 DEF Edit
  <2>3. PICK o \in Runs, s \in Paths : Matches(o, s) /\ (Write(o, s) \/ Sweep(o, s))
    <3>1. \A o \in Runs : ~ Start(o) /\ ~ BreaksOff(o) /\ ~ Look(o) /\ ~ List(o) /\ ~ Flag(o) /\ ~ Mark(o)
      BY DEF Start, BreaksOff, Look, List, Flag, Mark
    <3>2. \A o \in Runs : ~ Create(o)
      <4> SUFFICES ASSUME NEW o \in Runs, Create(o) PROVE FALSE
        OBVIOUS
      <4>1. repo = "absent"
        BY DEF Create
      <4>2. files[p] = NoFile
        BY <1>1, <4>1 DEF SeedInv, FilesOK, Empty
      <4> QED BY <4>2 DEF Hand
    <3>3. ~ Unmark
      BY DEF Unmark
    <3>4. PICK o \in Runs, s \in Paths : Write(o, s) \/ Sweep(o, s)
      BY <2>2, <3>1, <3>2, <3>3 DEF SeedNext, SeedStep
    <3>5. Matches(o, s)
      BY <3>4 DEF Write, Sweep
    <3> QED BY <3>4, <3>5
  <2>4. /\ Left(o, s) /\ o \in Runs /\ runs[o].at = "write" /\ s \in runs[o].left
        /\ \E v \in Contents : files' = [files EXCEPT ![s] = v]
    BY <2>3 DEF Write, Sweep, Contents
  <2>5. o = r /\ s = p
    <3>1. o = r
      BY <2>1, <2>4 DEF Left
    <3>2. s = p
      BY <2>1, <2>4
    <3> QED BY <3>1, <3>2
  <2>6. runs[r].listing[p] = files[p]
    BY <2>3, <2>5 DEF Matches
  <2>7. p \notin runs[r].edited
    BY <2>1, <2>4, <2>5, <2>6 DEF RunOK
  <2>8. r \in Boots => runs[r].created \/ OnlyReadme(runs[r].listing)
    <3>1. files[p] # NoFile
      BY DEF Hand
    <3> QED BY <2>1, <2>4, <2>5, <2>6, <3>1 DEF RunOK
  <2> QED BY <2>7, <2>8 DEF Spares
<1>2. SeedSpec => [][A]_seedVars
  BY <1>1, SeedInitially, SeedStepKeeps, PTL DEF SeedSpec
<1> QED BY <1>2 DEF EditsSurvive

\* A reset that says that it is done has left the baseline, and what was edited meanwhile.
THEOREM ResetsAreExact == SeedSpec => ResetIsExact
<1> DEFINE A == \A r \in Resets : runs[r].at = "write" /\ runs'[r].at = "done" =>
                  \A p \in Paths \ runs[r].edited :
                    files[p] = IF p \in Baseline THEN Factory ELSE NoFile
<1>1. ASSUME SeedInv, [SeedNext]_seedVars PROVE [A]_seedVars
  <2> SUFFICES ASSUME SeedNext, NEW r \in Resets, runs[r].at = "write", runs'[r].at = "done",
                      NEW p \in Paths \ runs[r].edited
               PROVE  files[p] = IF p \in Baseline THEN Factory ELSE NoFile
    BY <1>1
  <2>1. runs \in [Runs -> Run] /\ r \in Runs /\ RunOK(r)
    BY <1>1 DEF SeedInv, MarkedIsWhole, SeedTypeOK, Runs
  <2>2. Mark(r)
    <3>1. ASSUME NEW o \in Runs, NEW how \in Steps, Ends(o, how) PROVE o = r /\ how = "done"
      <4>1. runs'[o] = [Unstarted EXCEPT !.at = how] /\ (o # r => runs'[r] = runs[r])
        BY <2>1, <3>1 DEF Ends
      <4>2. o = r
        BY <4>1
      <4> QED BY <4>1, <4>2, TypeOfUnstarted
    <3>2. \A o \in Runs : ~ Start(o) /\ ~ BreaksOff(o) /\ ~ Look(o) /\ ~ Create(o) /\ ~ Flag(o)
      <4> SUFFICES ASSUME NEW o \in Runs PROVE ~ Start(o) /\ ~ BreaksOff(o) /\ ~ Look(o) /\ ~ Create(o) /\ ~ Flag(o)
        OBVIOUS
      <4>1. ~ Start(o) /\ ~ Flag(o)
        BY <2>1 DEF Start, Flag, Goes, Run
      <4>2. ~ BreaksOff(o)
        BY <3>1 DEF BreaksOff, Steps, Over
      <4>3. ~ Look(o) /\ ~ Create(o)
        BY <2>1 DEF Look, Create
      <4> QED BY <4>1, <4>2, <4>3
    <3>3. \A o \in Runs : ~ List(o)
      <4> SUFFICES ASSUME NEW o \in Runs, List(o) PROVE FALSE
        OBVIOUS
      <4>1. ~ Ends(o, "over")
        BY <3>1 DEF Steps, Over
      <4>2. runs[o].at = "list" /\ runs'[r] = runs[r]
        BY <2>1, <4>1 DEF List
      <4> QED BY <4>2
    <3>4. \A o \in Runs : \A s \in Paths : ~ Write(o, s) /\ ~ Sweep(o, s)
      <4> SUFFICES ASSUME NEW o \in Runs, NEW s \in Paths, Write(o, s) \/ Sweep(o, s) PROVE FALSE
        OBVIOUS
      <4>1. ~ Ends(o, "over")
        BY <3>1 DEF Steps, Over
      <4>2. Left(o, s)
        BY <4>1 DEF Write, Sweep
      <4> QED BY <2>1, <4>2 DEF Left, Run
    <3>5. \A s \in Paths : ~ Edit(s)
      BY <2>1 DEF Edit, Seen, Run
    <3>6. ~ Unmark
      BY DEF Unmark
    <3>7. PICK o \in Runs : Mark(o)
      BY <3>2, <3>3, <3>4, <3>5, <3>6 DEF SeedNext, SeedStep
    <3>8. Ends(o, "done") \/ Ends(o, "over")
      BY <3>7 DEF Mark
    <3>9. o = r
      BY <3>1, <3>8 DEF Steps, Over
    <3> QED BY <3>7, <3>9
  <2> QED BY <2>1, <2>2 DEF Mark, Whole, RunOK
<1>2. SeedSpec => [][A]_seedVars
  BY <1>1, SeedInitially, SeedStepKeeps, PTL DEF SeedSpec
<1> QED BY <1>2 DEF ResetIsExact
=============================================================================
