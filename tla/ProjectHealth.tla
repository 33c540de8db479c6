---------------------------- MODULE ProjectHealth ----------------------------
(* The pages of /admin/health (typescript/portal/src/routes/admin.ts) over *)
(* services/project-health.ts: a snapshot of each project, put together    *)
(* from lookups that fail one by one, remembered for a while, and          *)
(* collected once for all who ask at the same time.  Of what a lookup      *)
(* finds only that matters: whether it gives a reason to call the project  *)
(* anything but green.  One that fails gives none: the project may well be *)
(* called green, with a warning beside it.  A step is what happens between *)
(* two awaits.                                                             *)
(***************************************************************************)
EXTENDS Naturals, FiniteSets

CONSTANTS
  Slugs,
  Sections,     \* the lookups: pods, events, quota, metrics, the Argo Application
  Pages,        \* requests at once (a bound)
  HealthTTL,    \* CACHE_TTL_MS, in ticks
  HealthDelay,  \* the longest that a call takes
  HealthCap,    \* where the clocks of the history variable stop (a bound)
  Limit         \* COLLECT_CONCURRENCY

ASSUME ProjectHealthAssumption ==
  /\ IsFiniteSet(Slugs) /\ HealthTTL \in Nat \ {0} /\ HealthDelay \in Nat
  /\ HealthCap \in Nat \ {0} /\ Limit \in Nat \ {0}

VARIABLES
  ready,      \* projects whose status is "ready", as their rows say
  fine,       \* what would give no reason, were it looked at now
  sinceFine,  \* history: how long ago each was last so
  entry,      \* cache: the last snapshot of each project, and for how long it is served
  run,        \* inflight
  page

healthVars == <<ready, fine, sinceFine, entry, run, page>>

Things == Slugs \X Sections

\* A snapshot: whether the project was "ready", the lookups that gave a reason, and those
\* that a line of `warnings` is about.
Snapshot == [ready : BOOLEAN, reasons : SUBSET Sections, warned : SUBSET Sections]
NoSnapshot == [ready |-> FALSE, reasons |-> {}, warned |-> Sections]
Run == [on : BOOLEAN, todo : SUBSET Sections, snap : Snapshot, age : 0..HealthDelay]
NoRun == [on |-> FALSE, todo |-> {}, snap |-> NoSnapshot, age |-> 0]
\* `todo`: projects nobody has taken; `wait`: those whose collection the page awaits.
Page == [pc : {"idle", "collect", "logs", "shown"}, ready : SUBSET Slugs,
         todo : SUBSET Slugs, wait : SUBSET Slugs, shows : SUBSET Things,
         detail : BOOLEAN, age : 0..HealthDelay]
NoPage == [pc |-> "idle", ready |-> {}, todo |-> {}, wait |-> {}, shows |-> {},
           detail |-> FALSE, age |-> 0]

HealthTypeOK ==
  /\ ready \in SUBSET Slugs /\ fine \in SUBSET Things
  /\ sinceFine \in [Things -> 0..HealthCap]
  /\ entry \in [Slugs -> [snap : Snapshot, left : 0..HealthTTL]]
  /\ run \in [Slugs -> Run] /\ page \in [Pages -> Page]

HealthInit ==
  /\ ready \in SUBSET Slugs /\ fine \in SUBSET Things
  /\ sinceFine = [t \in Things |-> IF t \in fine THEN 0 ELSE HealthCap]
  /\ entry = [s \in Slugs |-> [snap |-> NoSnapshot, left |-> 0]]
  /\ run = [s \in Slugs |-> NoRun] /\ page = [p \in Pages |-> NoPage]

-----------------------------------------------------------------------------
\* scoreProject: nothing gives a reason, be it because nothing could be read.
Green(snap) == snap.ready /\ snap.reasons = {}
\* What a page says is fine of a project, by the snapshot that it was given: if it calls
\* the project green, whatever it does not warn of in the same place.
SaysFine(s, snap) == IF Green(snap) THEN {s} \X (Sections \ snap.warned) ELSE {}

\* GET /health, the rows of all projects read; GET /health/:slug, that of one, perhaps
\* with a container's log.
Asks(rows, which, alone) ==
  [pc |-> "collect", ready |-> rows, todo |-> which, wait |-> {}, shows |-> {},
   detail |-> alone, age |-> 0]
OpenIndex(p) ==
  /\ page[p] = NoPage
  /\ page' = [page EXCEPT ![p] = Asks(ready, Slugs, FALSE)]
  /\ UNCHANGED <<ready, fine, sinceFine, entry, run>>
OpenDetail(p, s) ==
  /\ page[p] = NoPage
  /\ page' = [page EXCEPT ![p] = Asks(ready \cap {s}, {s}, TRUE)]
  /\ UNCHANGED <<ready, fine, sinceFine, entry, run>>

\* A worker of mapWithConcurrency takes a project, if there is a worker left.
TakesUp(p, s) == page[p].pc = "collect" /\ s \in page[p].todo /\ Cardinality(page[p].wait) < Limit
Given(q, s, snap) == [q EXCEPT !.todo = q.todo \ {s}, !.wait = q.wait \ {s},
                               !.shows = q.shows \cup SaysFine(s, snap)]
Awaits(q, s) == [q EXCEPT !.todo = q.todo \ {s}, !.wait = q.wait \cup {s}]

\* Of a project that is not ready nothing is looked up, and one line says so of all.
Begun(r) ==
  [on |-> TRUE, todo |-> IF r THEN Sections ELSE {}, age |-> 0,
   snap |-> [ready |-> r, reasons |-> {}, warned |-> IF r THEN {} ELSE Sections]]
\* getProjectHealth: what is remembered; what somebody is collecting; or a new collection.
FromCache(p, s) ==
  /\ TakesUp(p, s) /\ entry[s].left > 0
  /\ page' = [page EXCEPT ![p] = Given(page[p], s, entry[s].snap)]
  /\ UNCHANGED <<ready, fine, sinceFine, entry, run>>
Join(p, s) ==
  /\ TakesUp(p, s) /\ entry[s].left = 0 /\ run[s].on
  /\ page' = [page EXCEPT ![p] = Awaits(page[p], s)]
  /\ UNCHANGED <<ready, fine, sinceFine, entry, run>>
Collect(p, s) ==
  /\ TakesUp(p, s) /\ entry[s].left = 0 /\ ~run[s].on
  /\ run' = [run EXCEPT ![s] = Begun(s \in page[p].ready)]
  /\ page' = [page EXCEPT ![p] = Awaits(page[p], s)]
  /\ UNCHANGED <<ready, fine, sinceFine, entry>>

\* collectProjectHealth: the lookups run side by side; one that fails leaves its section
\* empty, which gives no reason, and a warning.
LeavesNoWarning(s, x) == run[s].snap    \* a mutant
Failed(s, x) == [run[s].snap EXCEPT !.warned = run[s].snap.warned \cup {x}]
Found(s, x) ==
  [run[s].snap EXCEPT !.reasons = run[s].snap.reasons
                                  \cup (IF <<s, x>> \in fine THEN {} ELSE {x})]
LooksUp(s, x) ==
  /\ run[s].on /\ x \in run[s].todo
  /\ \E snap \in {Found(s, x), Failed(s, x)} :
       run' = [run EXCEPT ![s] = [run[s] EXCEPT !.todo = run[s].todo \ {x}, !.snap = snap]]
  /\ UNCHANGED <<ready, fine, sinceFine, entry, page>>

\* All have settled: the snapshot is remembered from now on and given to all who wait.
Served == HealthTTL
CollectionEnds(s) ==
  /\ run[s].on /\ run[s].todo = {}
  /\ entry' = [entry EXCEPT ![s] = [snap |-> run[s].snap, left |-> Served]]
  /\ page' = [p \in Pages |-> IF s \in page[p].wait THEN Given(page[p], s, run[s].snap)
                              ELSE page[p]]
  /\ run' = [run EXCEPT ![s] = NoRun]
  /\ UNCHANGED <<ready, fine, sinceFine>>

\* The page is put together; a detail page may read a log first.
Collected(p) == page[p].pc = "collect" /\ page[p].todo = {} /\ page[p].wait = {}
Render(p) ==
  /\ \/ Collected(p)
     \/ page[p].pc = "logs"
  /\ page' = [page EXCEPT ![p].pc = "shown"]
  /\ UNCHANGED <<ready, fine, sinceFine, entry, run>>
ReadLog(p) ==
  /\ Collected(p) /\ page[p].detail
  /\ page' = [page EXCEPT ![p].pc = "logs"]
  /\ UNCHANGED <<ready, fine, sinceFine, entry, run>>
Sent(p) ==
  /\ page[p].pc = "shown" /\ page' = [page EXCEPT ![p] = NoPage]
  /\ UNCHANGED <<ready, fine, sinceFine, entry, run>>

-----------------------------------------------------------------------------
Turns(t) ==
  /\ IF t \in fine THEN fine' = fine \ {t} /\ UNCHANGED sinceFine
     ELSE fine' = fine \cup {t} /\ sinceFine' = [sinceFine EXCEPT ![t] = 0]
  /\ UNCHANGED <<ready, entry, run, page>>
StatusChanges(s) ==
  /\ ready' = IF s \in ready THEN ready \ {s} ELSE ready \cup {s}
  /\ UNCHANGED <<fine, sinceFine, entry, run, page>>
RestartHealth ==
  /\ entry' = [s \in Slugs |-> [snap |-> NoSnapshot, left |-> 0]]
  /\ run' = [s \in Slugs |-> NoRun] /\ page' = [p \in Pages |-> NoPage]
  /\ UNCHANGED <<ready, fine, sinceFine>>

\* Nothing that the portal can do by itself waits for the clock.
HealthTick ==
  /\ \A p \in Pages :
       /\ page[p].pc # "shown" /\ ~Collected(p)
       /\ page[p].pc = "logs" => page[p].age < HealthDelay
       /\ \A s \in Slugs : ~TakesUp(p, s)
  /\ \A s \in Slugs : run[s].on => run[s].todo # {} /\ run[s].age < HealthDelay
  /\ sinceFine' = [t \in Things |-> IF t \in fine THEN 0 ELSE
                     IF sinceFine[t] = HealthCap THEN HealthCap ELSE sinceFine[t] + 1]
  /\ entry' = [s \in Slugs |-> [entry[s] EXCEPT !.left = IF @ = 0 THEN 0 ELSE @ - 1]]
  /\ run' = [s \in Slugs |-> IF run[s].on THEN [run[s] EXCEPT !.age = @ + 1] ELSE run[s]]
  /\ page' = [p \in Pages |-> IF page[p].pc = "logs" THEN [page[p] EXCEPT !.age = @ + 1]
                              ELSE page[p]]
  /\ UNCHANGED <<ready, fine>>

HealthNext ==
  \/ \E p \in Pages :
       \/ OpenIndex(p) \/ Render(p) \/ ReadLog(p) \/ Sent(p)
       \/ \E s \in Slugs : OpenDetail(p, s) \/ FromCache(p, s) \/ Join(p, s) \/ Collect(p, s)
  \/ \E s \in Slugs :
       \/ CollectionEnds(s) \/ StatusChanges(s)
       \/ \E x \in Sections : LooksUp(s, x) \/ Turns(<<s, x>>)
  \/ RestartHealth \/ HealthTick

HealthSpec == HealthInit /\ [][HealthNext]_healthVars

-----------------------------------------------------------------------------
Shown == UNION {page[p].shows : p \in {q \in Pages : page[q].pc = "shown"}}
\* Collections that a page waits for one after the other, its own included; or the log.
Longest == IF Cardinality(Slugs) > 2 THEN Cardinality(Slugs) ELSE 2

HealthPage == INSTANCE Staleness WITH
  Users <- Things, inside <- Shown, since <- sinceFine,
  Window <- (HealthTTL - 1) + Longest * HealthDelay

(* What a page calls green and does not warn of was seen to give no        *)
(* reason, no longer ago than a snapshot is served and collections take:   *)
(* not by a lookup that failed unmentioned, nor by an older snapshot that  *)
(* a second collection left in the memory.  (A project that is green with  *)
(* every lookup failed says nothing but its warnings.  With the types of   *)
(* the variables.)                                                         *)
HealthBounded == HealthPage!Spec /\ []HealthTypeOK
=============================================================================
