---------------------------- MODULE ArtifactCache ----------------------------
(***************************************************************************)
(* The artifact tier of the cooldeps package proxy:                        *)
(* containers/cooldeps/internal/cache/artifact.go, driven by the handlers  *)
(* that serve npm tarballs and Go module zips (internal/backend).          *)
(*                                                                         *)
(* Handlers run concurrently.  Each serves an artifact from the disk, or   *)
(* streams it from upstream into a temp file that it then commits; whoever *)
(* commits past the high-water mark tries to become the one evictor.  Two  *)
(* mutexes and one atomic counter hold this together; a step of this       *)
(* module is what runs between two points where another goroutine may.     *)
(***************************************************************************)
EXTENDS Integers, FiniteSets

CONSTANTS
  Keys,        \* upstream URLs
  Size,        \* the bytes of each: an artifact is immutable by URL
  MaxBytes,    \* COOLDEPS_CACHE_ARTIFACTMAXBYTES, the cap
  Handlers,    \* requests served at once (a bound)
  Nobody,      \* holder of a free mutex
  MaxFetches,  \* bound on bodies streamed into the cache
  MaxFailures  \* bound on failed I/O and on restarts

ASSUME ArtifactCacheAssumption ==
  /\ Keys # {} /\ Size \in [Keys -> Nat \ {0}]
  /\ MaxBytes \in Nat \ {0}
  /\ Nobody \notin Handlers
  /\ MaxFetches \in Nat /\ MaxFailures \in Nat

VARIABLES
  file,      \* bytes on disk by key, 0 when there is no file
  curBytes,  \* the running total
  accMu,     \* serialises commit and removal with the total
  evictMu,   \* held by the one eviction pass
  handler,
  overdue,   \* history: a look at the total that found it too high led to nothing
  fetches, failures

vars == <<file, curBytes, accMu, evictMu, handler, overdue, fetches, failures>>
rest == <<overdue, fetches, failures>>

HighWater == (MaxBytes * 8) \div 10
LowWater  == (MaxBytes * 7) \div 10

\* Where a handler stands, by the operation it does next.
Stages == {"idle", "serve", "fetch", "copy", "finish", "commit", "rename", "add",
           "maybeEvict", "tryLock", "recheck", "walk", "evict", "lock", "remove", "subtract", "unlock"}
\* n: bytes written or served; old: bytes that were on disk; entries: the files
\* the eviction pass still has to consider; failed: the copy broke off.
Idle == [pc |-> "idle", key |-> CHOOSE k \in Keys : TRUE, n |-> 0, old |-> 0,
         failed |-> FALSE, entries |-> {}]

\* scan: the bytes in the directory.
Bytes(f) == UNION {{k} \X (1..f[k]) : k \in Keys}
OnDisk == Cardinality(Bytes(file))

TypeOK ==
  /\ file \in [Keys -> Nat] /\ \A k \in Keys : file[k] \in {0, Size[k]}
  /\ IsFiniteSet(Bytes(file)) /\ curBytes \in Int
  /\ accMu \in Handlers \cup {Nobody} /\ evictMu \in Handlers \cup {Nobody}
  /\ handler \in [Handlers -> [pc : Stages, key : Keys, n : Nat, old : Nat,
                               failed : BOOLEAN, entries : SUBSET Keys]]
  /\ overdue \in BOOLEAN
  /\ fetches \in 0..MaxFetches /\ failures \in 0..MaxFailures

Cached == {k \in Keys : file[k] # 0}

\* NewArtifactCache on an empty directory.
Init ==
  /\ file = [k \in Keys |-> 0]
  /\ curBytes = 0
  /\ accMu = Nobody /\ evictMu = Nobody
  /\ handler = [h \in Handlers |-> Idle]
  /\ overdue = FALSE /\ fetches = 0 /\ failures = 0

-----------------------------------------------------------------------------
Fail == failures < MaxFailures /\ failures' = failures + 1
At(h, pc) == handler[h].pc = pc
Goto(h, pc) == handler' = [handler EXCEPT ![h].pc = pc]
Return(h) == handler' = [handler EXCEPT ![h] = Idle]

\* Get opens the file; what is open stays readable whatever happens to it.
Hit(h, k) ==
  /\ At(h, "idle") /\ file[k] # 0
  /\ handler' = [handler EXCEPT ![h] = [Idle EXCEPT !.pc = "serve", !.key = k, !.n = file[k]]]
  /\ UNCHANGED <<file, curBytes, accMu, evictMu, rest>>
Serve(h) ==
  /\ At(h, "serve") /\ Return(h)
  /\ UNCHANGED <<file, curBytes, accMu, evictMu, rest>>

Miss(h, k) ==
  /\ At(h, "idle") /\ file[k] = 0
  /\ handler' = [handler EXCEPT ![h] = [Idle EXCEPT !.pc = "fetch", !.key = k]]
  /\ UNCHANGED <<file, curBytes, accMu, evictMu, rest>>

\* Upstream fails or answers other than 200, or no temp file can be made: the
\* client gets what there is and nothing is cached.
Uncached(h) ==
  /\ At(h, "fetch") /\ Return(h)
  /\ UNCHANGED <<file, curBytes, accMu, evictMu, rest>>

NewWriter(h) ==
  /\ At(h, "fetch")
  /\ fetches < MaxFetches /\ fetches' = fetches + 1
  /\ Goto(h, "copy")
  /\ UNCHANGED <<file, curBytes, accMu, evictMu, overdue, failures>>

\* io.Copy through the tee: the whole body, or part of it when the client, the
\* upstream or the temp file fails (tee.failed).
Copy(h, n) ==
  LET whole == n = Size[handler[h].key] IN
  /\ At(h, "copy")
  /\ (whole /\ UNCHANGED failures) \/ (~whole /\ Fail)
  /\ handler' = [handler EXCEPT ![h].pc = "finish", ![h].n = n, ![h].failed = ~whole]
  /\ UNCHANGED <<file, curBytes, accMu, evictMu, overdue, fetches>>

\* Wrong version: what arrived is kept.
KeepsAnyBody(failed) == TRUE

\* Only a complete body is committed, any other is aborted.
Keeps(failed) == ~failed
Finish(h) ==
  /\ At(h, "finish")
  /\ IF Keeps(handler[h].failed) THEN Goto(h, "commit") ELSE Return(h)
  /\ UNCHANGED <<file, curBytes, accMu, evictMu, rest>>

-----------------------------------------------------------------------------
(* Writer.Commit.                                                          *)

\* The temp file does not close.
CloseFails(h) ==
  /\ At(h, "commit") /\ Fail /\ Return(h)
  /\ UNCHANGED <<file, curBytes, accMu, evictMu, overdue, fetches>>

\* accMu.Lock, then the size of what is at the destination.
LockCommit(h) ==
  /\ At(h, "commit")
  /\ accMu = Nobody /\ accMu' = h
  /\ handler' = [handler EXCEPT ![h].pc = "rename", ![h].old = file[handler[h].key]]
  /\ UNCHANGED <<file, curBytes, evictMu, rest>>

Rename(h) ==
  /\ At(h, "rename")
  /\ file' = [file EXCEPT ![handler[h].key] = handler[h].n]
  /\ Goto(h, "add")
  /\ UNCHANGED <<curBytes, accMu, evictMu, rest>>
RenameFails(h) ==
  /\ At(h, "rename") /\ Fail /\ Return(h)
  /\ accMu' = Nobody
  /\ UNCHANGED <<file, curBytes, evictMu, overdue, fetches>>

\* Wrong version: a commit adds all it wrote, whatever it overwrote.
AllOfIt(n, old) == n

\* The difference a commit makes, then accMu.Unlock.
Delta(n, old) == n - old
Add(h) ==
  /\ At(h, "add")
  /\ curBytes' = curBytes + Delta(handler[h].n, handler[h].old)
  /\ accMu' = Nobody
  /\ Goto(h, "maybeEvict")
  /\ UNCHANGED <<file, evictMu, rest>>

-----------------------------------------------------------------------------
(* maybeEvict and evictTo.                                                 *)

\* Wrong version: the cap is taken for the mark.
AboveCap == curBytes > MaxBytes

\* The first look at the total; whoever finds it too high goes on.
Above == curBytes > HighWater
MaybeEvict(h) ==
  /\ At(h, "maybeEvict")
  /\ IF Above THEN Goto(h, "tryLock") ELSE Return(h)
  /\ UNCHANGED <<file, curBytes, accMu, evictMu, rest>>

\* evictMu.TryLock: "others can skip".
TryLock(h) ==
  /\ At(h, "tryLock")
  /\ evictMu = Nobody /\ evictMu' = h
  /\ Goto(h, "recheck")
  /\ UNCHANGED <<file, curBytes, accMu, rest>>
Skip(h) ==
  /\ At(h, "tryLock") /\ evictMu # Nobody
  /\ Return(h)
  /\ overdue' = (overdue \/ Above)
  /\ UNCHANGED <<file, curBytes, accMu, evictMu, fetches, failures>>

\* The second look at the total; then the walk over the directories begins.
Recheck(h) ==
  /\ At(h, "recheck")
  /\ \/ ~Above /\ Goto(h, "unlock")
     \/ Above /\ handler' = [handler EXCEPT ![h].pc = "walk", ![h].entries = Cached]
  /\ overdue' = FALSE
  /\ UNCHANGED <<file, curBytes, accMu, evictMu, fetches, failures>>

\* A file committed while the walk lasts is seen or not.
Walk(h, seen) ==
  /\ At(h, "walk")
  /\ handler' = [handler EXCEPT ![h].pc = "evict", ![h].entries = @ \cup seen]
  /\ UNCHANGED <<file, curBytes, accMu, evictMu, rest>>

\* Wrong version: an entry stays in the list.
KeepsEntry(entries, k) == entries

Rest(entries, k) == entries \ {k}
\* The loop over the entries, least recently served first: the order is left
\* open, because no property depends on it.
EvictNext(h, k) ==
  /\ At(h, "evict") /\ k \in handler[h].entries /\ curBytes > LowWater
  /\ handler' = [handler EXCEPT ![h].pc = "lock", ![h].key = k, ![h].entries = Rest(@, k)]
  /\ UNCHANGED <<file, curBytes, accMu, evictMu, rest>>
EvictEnd(h) ==
  /\ At(h, "evict")
  /\ handler[h].entries = {} \/ curBytes <= LowWater
  /\ Goto(h, "unlock")
  /\ UNCHANGED <<file, curBytes, accMu, evictMu, rest>>

\* The deferred evictMu.Unlock; Commit returns.
Unlock(h) ==
  /\ At(h, "unlock")
  /\ evictMu' = Nobody /\ Return(h)
  /\ UNCHANGED <<file, curBytes, accMu, rest>>

\* accMu.Lock, and the true size on disk.
LockRemove(h) ==
  /\ At(h, "lock")
  /\ accMu = Nobody /\ accMu' = h
  /\ handler' = [handler EXCEPT ![h].pc = "remove", ![h].old = file[handler[h].key]]
  /\ UNCHANGED <<file, curBytes, evictMu, rest>>

\* os.Remove; a file that is not there, or does not go, is not charged.
Remove(h) ==
  /\ At(h, "remove") /\ handler[h].old # 0
  /\ file' = [file EXCEPT ![handler[h].key] = 0]
  /\ Goto(h, "subtract")
  /\ UNCHANGED <<curBytes, accMu, evictMu, rest>>
NotRemoved(h) ==
  /\ At(h, "remove")
  /\ (handler[h].old = 0 /\ UNCHANGED failures) \/ Fail
  /\ accMu' = Nobody /\ Goto(h, "evict")
  /\ overdue' = (overdue \/ handler[h].old # 0)
  /\ UNCHANGED <<file, curBytes, evictMu, fetches>>
Subtract(h) ==
  /\ At(h, "subtract")
  /\ curBytes' = curBytes - handler[h].old
  /\ accMu' = Nobody /\ Goto(h, "evict")
  /\ UNCHANGED <<file, evictMu, rest>>

\* The proxy restarts and scans what is on the disk, without evicting; the temp
\* files that were being written stay there, uncounted.
Restart ==
  /\ Fail
  /\ curBytes' = OnDisk
  /\ accMu' = Nobody /\ evictMu' = Nobody
  /\ handler' = [h \in Handlers |-> Idle]
  /\ overdue' = (OnDisk > HighWater)
  /\ UNCHANGED <<file, fetches>>

-----------------------------------------------------------------------------
Request(h) == \E k \in Keys : Hit(h, k) \/ Miss(h, k)
Advance(h) ==
  \/ Serve(h) \/ Uncached(h) \/ NewWriter(h) \/ Finish(h)
  \/ \E n \in 1..Size[handler[h].key] : Copy(h, n)
  \/ CloseFails(h) \/ LockCommit(h) \/ Rename(h) \/ RenameFails(h) \/ Add(h)
  \/ MaybeEvict(h) \/ TryLock(h) \/ Skip(h) \/ Recheck(h) \/ EvictEnd(h) \/ Unlock(h)
  \/ \E seen \in SUBSET Cached : Walk(h, seen)
  \/ \E k \in Keys : EvictNext(h, k)
  \/ LockRemove(h) \/ Remove(h) \/ NotRemoved(h) \/ Subtract(h)
Next ==
  \/ \E h \in Handlers : Request(h) \/ Advance(h)
  \/ Restart

Spec == Init /\ [][Next]_vars

\* A goroutine that is inside a request goes on.
Fairness == \A h \in Handlers : WF_vars(Advance(h))
FairSpec == Spec /\ Fairness

-----------------------------------------------------------------------------
(* Properties.                                                             *)

\* The stages inside each of the mutexes.
AccStages == {"rename", "add", "remove", "subtract"}
EvictStages == {"recheck", "walk", "evict", "lock", "remove", "subtract", "unlock"}

\* "Serialising stat+rename+add keeps curBytes exact even when two goroutines
\* commit the same key": whenever nobody is inside accMu, the total is what is
\* on the disk, after any overlap of commits, removals and restarts.
CountExact == accMu = Nobody => curBytes = OnDisk

\* "Evict down to this": once nobody is between a commit's rename and the end of
\* its pass, the disk holds no more than the high-water mark, unless somebody who
\* found more than that gave up: a commit whose pass was another's, which had looked
\* at the total for the last time, a removal that failed, or a restart.
RestsBelow ==
  ~overdue /\ (\A h \in Handlers : handler[h].pc \notin {"add", "maybeEvict", "tryLock"} \cup EvictStages)
    => OnDisk <= HighWater

\* The total is exact, and it keeps the disk below the mark.
Accounted == CountExact /\ RestsBelow

\* What is served from the cache is the whole artifact, never a part that was
\* being streamed or that broke off.
ServedWhole ==
  \A h \in Handlers : At(h, "serve") => handler[h].n = Size[handler[h].key]

\* A pass never removes a file when the disk holds no more than the low-water mark
\* allows, although it looked at the total, not at the disk, and before it waited
\* for accMu.
EvictsWhileAbove ==
  [][\A k \in Keys : file[k] # 0 /\ file'[k] = 0 => OnDisk > LowWater]_vars

\* Every request that was taken up is answered.
RequestsEnd == \A h \in Handlers : ~At(h, "idle") ~> At(h, "idle")

-----------------------------------------------------------------------------
(* The parts of an inductive invariant that the type and the steps rest on. *)

\* Each mutex is held by exactly the handler that is inside its section.
Exclusive ==
  \A h \in Handlers :
    /\ (accMu = h) <=> (handler[h].pc \in AccStages)
    /\ (evictMu = h) <=> (handler[h].pc \in EvictStages)

\* What a handler carries towards the cache, or serves from it, is whole.
Carried(h) ==
  LET r == handler[h] IN
  /\ r.pc \in {"serve", "commit", "rename", "add"} \/ (r.pc = "finish" /\ ~r.failed)
       => r.n = Size[r.key]
  /\ r.pc \in {"rename", "add"} => r.old \in {0, Size[r.key]}
CarriedWhole == \A h \in Handlers : Carried(h)

\* From the evictor's look at the total to its removal, the total only grows.
StillAbove == \A h \in Handlers : handler[h].pc \in {"lock", "remove"} => curBytes > LowWater

\* What the total still lacks, or has too much, is what the holder of accMu is about.
OffBy(r) == IF r.pc = "add" THEN r.old - r.n ELSE IF r.pc = "subtract" THEN r.old ELSE 0
Balanced ==
  /\ accMu = Nobody => curBytes = OnDisk
  /\ \A h \in Handlers :
       LET r == handler[h] IN
       /\ r.pc \in AccStages => curBytes = OnDisk + OffBy(r)
       /\ r.pc \in {"rename", "remove"} => file[r.key] = r.old
       /\ r.pc = "add" => file[r.key] = r.n
       /\ r.pc = "subtract" => file[r.key] = 0

\* Whenever the total is above the mark, somebody is to look at it, or a pass has all
\* that is cached before it.
Ahead(r) == r.entries \cup (IF r.pc \in {"lock", "remove", "subtract"} THEN {r.key} ELSE {})
Pursues(r) ==
  \/ r.pc \in {"add", "maybeEvict", "tryLock", "recheck"}
  \/ r.pc \in EvictStages \ {"recheck", "unlock"} /\ Cached \subseteq Ahead(r)
Pursued == Above /\ ~overdue => \E h \in Handlers : Pursues(handler[h])

\* How much a request has still before it: every stage once, but those of the pass over
\* the entries, which come round once for each.
Phase(r) ==
  CASE r.pc = "idle" -> 0
    [] r.pc \in {"serve", "unlock"} -> 1
    [] r.pc \in {"evict", "lock", "remove", "subtract"} -> 2
    [] r.pc = "walk" -> 3
    [] r.pc = "recheck" -> 4
    [] r.pc = "tryLock" -> 5
    [] r.pc = "maybeEvict" -> 6
    [] r.pc = "add" -> 7
    [] r.pc = "rename" -> 8
    [] r.pc = "commit" -> 9
    [] r.pc = "finish" -> 10
    [] r.pc = "copy" -> 11
    [] r.pc = "fetch" -> 12
Rounds(r) ==
  4 * Cardinality(r.entries)
    + (CASE r.pc = "lock" -> 3 [] r.pc = "remove" -> 2 [] r.pc = "subtract" -> 1 [] OTHER -> 0)
Onward(h) ==
  LET r == handler[h] IN
  r.pc # "idle" /\ r' # r =>
    \/ Phase(r') < Phase(r)
    \/ Phase(r') = Phase(r) /\ Rounds(r') < Rounds(r)

\* What of RequestsEnd is safety: a request that was taken up only ever moves on, through
\* finitely many steps, however often the other handlers commit and fill the list that
\* an eviction pass works through.
RequestsGoOn ==
  /\ [](\A h \in Handlers : Rounds(handler[h]) \in Nat)
  /\ [][\A h \in Handlers : Onward(h)]_vars
=============================================================================
