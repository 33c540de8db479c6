--------------------------- MODULE EvaluatorProofs ---------------------------
(* Proofs about the verdicts of the dependency proxy: what is looked up is *)
(* looked up once and heeded, what failed is not stored, and neither cache *)
(* serves a version past an advisory or inside its cooldown, for any       *)
(* versions, advisories, requests and lives of the rows.                   *)
EXTENDS Evaluator, FiniteSetTheorems, TLAPS

(* What there is when deps.dev has not told the date of a version: it does *)
(* not have one, or it had not when it was asked, not before t.            *)
Undatable(v, m, t) == m.known \/ v \in undated \/ (~m.found /\ datedAt[v] >= t)

MetaRowsOK ==
  \A v \in Versions : metaRow[v] # None =>
    metaRow[v].at <= clock /\ Undatable(v, metaRow[v].value, metaRow[v].at)

\* A request begins with nothing in hand, and what it was told is good enough for it.
MetasOK(q) ==
  /\ q.start <= clock /\ \A v \in q.ask : Published[v] <= q.start
  /\ q.pc # "meta" => q.fetch = {}
  /\ q.pc \in {"meta", "query", "resolve"} =>
       \A v \in q.ask : v \in q.fetch \/ q.metas[v] # None \/ v \in q.metaErr
  /\ \A v \in Versions :
       /\ q.held[v] # None => Undatable(v, q.held[v], q.start)
       /\ q.fallback[v] # None =>
            q.fallback[v].found /\ (q.fallback[v].known \/ v \in undated)
       /\ q.metas[v] # None /\ ~q.metas[v].known =>
            v \in undated \/ datedAt[v] + NotFoundRefresh > q.start

\* One call for each advisory in flight, of which nothing is known yet, and who waits
\* waits for one of these.
FlightsOK(q) ==
  /\ q.pc # "resolve" => \A v \in Versions : q.job[v].mode = "done"
  /\ \A v \in Versions : /\ q.job[v].mode \in {"wait", "call"} <=> q.job[v].on # None
                         /\ q.job[v].on # None => q.job[v].on \in q.flying
  /\ \A i \in q.flying :
       /\ q.known[i] = None
       /\ \E v \in Versions : q.job[v].mode = "call" /\ q.job[v].on = i
  /\ \A v, w \in Versions :
       q.job[v].mode = "call" /\ q.job[w].mode = "call" /\ q.job[v].on = q.job[w].on => v = w

\* What is told of an advisory is its severity, or at worst the one that always offends;
\* where the policy asks for severities only a failure tells the latter.
Told(i, s, failed) ==
  /\ s \in {Severity[i], Unknown}
  /\ policy.fetchSeverity /\ ~failed => s = Severity[i]
Heeded(v, i, s) == i \in DOMAIN s /\ s[i] \in {Severity[i], Unknown}

VulnRowsOK ==
  \A v \in Versions : vulnRow[v] # None =>
    /\ vulnRow[v].at <= clock + VulnTTL
    /\ \A i \in Ids : v \in Affects[i] /\ issued[i] + VulnTTL < vulnRow[v].at
         => Heeded(v, i, vulnRow[v].value)

\* An advisory that was out when the request began is to be asked about, or heeded.
VulnsOK(q) ==
  /\ q.pc = "resolve" =>
       \A v \in q.ask : q.vulns[v] # None \/ v \in q.vulnErr \/ q.job[v].mode # "done"
  /\ \A i \in Ids : q.known[i] # None => Told(i, q.known[i].sev, q.known[i].failed)
  /\ \A v \in Versions :
       /\ \A i \in DOMAIN q.job[v].sev : Told(i, q.job[v].sev[i], q.job[v].failed)
       /\ q.job[v].mode # "done" => \A i \in Ids :
            v \in Affects[i] /\ issued[i] < q.start
              => i \in q.job[v].todo \cup DOMAIN q.job[v].sev
       /\ q.vulns[v] # None => \A i \in Ids :
            v \in Affects[i] /\ issued[i] + VulnTTL <= q.start => Heeded(v, i, q.vulns[v])

\* What an answer that lets a version through is worth.
Sound(q, v) ==
  /\ ~policy.warnCVE => \A i \in Ids :
       v \in Affects[i] /\ Offends(Severity[i]) => issued[i] + VulnTTL > q.start
  /\ ~policy.warnAge =>
       \/ Published[v] + MinAge <= q.start
       \/ ~policy.blockUnknown /\ (v \in undated \/ datedAt[v] + NotFoundRefresh > q.start)
AnswersOK(q) ==
  q.pc = "done" => \A v \in q.ask :
    q.answer[v] # Block /\ v \notin AllowPins /\ ~policy.failOpen => Sound(q, v)

EvalInv ==
  /\ TypeOK /\ MetaRowsOK /\ VulnRowsOK /\ TransientNotStored
  /\ \A r \in Requests :
       MetasOK(req[r]) /\ FlightsOK(req[r]) /\ VulnsOK(req[r]) /\ AnswersOK(req[r])

-----------------------------------------------------------------------------
(* Values.                                                                 *)

LEMMA Constants ==
  /\ MaxTime \in Nat /\ VulnTTL \in Nat /\ VulnTTL > 0 /\ NotFoundRefresh \in Nat
  /\ NotFoundRefresh > 0 /\ MinAge \in Nat /\ MetaTTL \in Nat
  /\ MaxRequests \in Nat /\ MaxFailures \in Nat /\ Never \in Nat /\ Never > MaxTime /\ 0..MaxTime \subseteq Nat /\ 0..Never \subseteq Nat
  /\ None \notin Ids /\ Unknown \in Bands
  /\ Severity \in [Ids -> Bands] /\ Published \in [Versions -> 0..MaxTime]
  BY EvaluatorAssumption, NoneAssumption DEF Never, Bands, Unknown

LEMMA SeveritiesAre ==
  ASSUME NEW s \in Severities
  PROVE  DOMAIN s \subseteq Ids /\ \A i \in DOMAIN s : s[i] \in Bands
  BY DEF Severities

LEMMA NoneKnown == NoSeverities \in Severities /\ DOMAIN NoSeverities = {}
<1>1. NoSeverities \in [{} -> Bands] /\ {} \in SUBSET Ids
  BY DEF NoSeverities
<1> QED BY <1>1 DEF Severities, NoSeverities

LEMMA TypeOfNoJob ==
  NoJob \in Job /\ NoJob.mode = "done" /\ NoJob.on = None /\ NoJob.todo = {} /\ ~NoJob.failed
                /\ NoJob.sev = NoSeverities
  BY NoneKnown DEF NoJob, Job

LEMMA Learns ==
  ASSUME NEW j \in Job, NEW i \in Ids, NEW s \in Bands, NEW failed \in BOOLEAN
  PROVE  LET l == Learn(j, i, s, failed)
         IN /\ l \in Job /\ l.mode = "run" /\ l.on = None /\ l.todo = j.todo \ {i}
            /\ DOMAIN l.sev = DOMAIN j.sev \cup {i} /\ l.sev[i] = s
            /\ \A k \in DOMAIN j.sev : k # i => l.sev[k] = j.sev[k]
            /\ l.failed = (j.failed \/ failed)
<1> DEFINE f == [k \in DOMAIN j.sev \cup {i} |-> IF k = i THEN s ELSE j.sev[k]]
<1>1. j.sev \in Severities /\ j.todo \in SUBSET Ids /\ j.failed \in BOOLEAN
  BY DEF Job
<1>2. f \in [DOMAIN j.sev \cup {i} -> Bands] /\ DOMAIN j.sev \cup {i} \in SUBSET Ids
  BY <1>1, SeveritiesAre
<1>3. f \in Severities
  BY <1>2 DEF Severities
<1>4. /\ j \in [mode : {"run", "wait", "call", "done"}, todo : SUBSET Ids,
                  on : Ids \cup {None}, sev : Severities, failed : BOOLEAN]
      /\ Learn(j, i, s, failed) =
           [j EXCEPT !.mode = "run", !.on = None, !.todo = j.todo \ {i}, !.sev = f,
                     !.failed = j.failed \/ failed]
  BY DEF Learn, Job
<1>5. /\ DOMAIN f = DOMAIN j.sev \cup {i} /\ f[i] = s
      /\ \A k \in DOMAIN j.sev : k # i => f[k] = j.sev[k]
  OBVIOUS
<1> HIDE DEF f
<1> DEFINE l == Learn(j, i, s, failed)
<1>6. l.mode = "run" /\ l.on = None /\ l.todo = j.todo \ {i} /\ l.sev = f
  BY <1>4
<1>7. l.failed = (j.failed \/ failed)
  BY <1>4
<1>8. l \in Job
  BY ZenonT(30), <1>1, <1>3, <1>4 DEF Job
<1> HIDE DEF l
<1>9. /\ l \in Job /\ l.mode = "run" /\ l.on = None /\ l.todo = j.todo \ {i}
      /\ DOMAIN l.sev = DOMAIN j.sev \cup {i} /\ l.sev[i] = s
      /\ \A k \in DOMAIN j.sev : k # i => l.sev[k] = j.sev[k]
      /\ l.failed = (j.failed \/ failed)
  BY <1>5, <1>6, <1>7, <1>8
<1> QED BY <1>9 DEF l

LEMMA TypeOfIdle ==
  /\ Idle \in Request /\ Idle.pc = "idle" /\ Idle.start = 0 /\ Idle.ask = {} /\ Idle.fetch = {}
  /\ Idle.flying = {} /\ \A i \in Ids : Idle.known[i] = None
  /\ \A v \in Versions : /\ Idle.job[v] = NoJob /\ Idle.held[v] = None
                         /\ Idle.fallback[v] = None /\ Idle.metas[v] = None
                         /\ Idle.vulns[v] = None
<1>1. Nothing \in [Versions -> Meta \cup {None}] /\ Nothing \in [Versions -> Severities \cup {None}]
  BY DEF Nothing
<1>2. [v \in Versions |-> NoJob] \in [Versions -> Job]
  BY TypeOfNoJob
<1>3. [v \in Versions |-> Block] \in [Versions -> {Allow, Warn, Block}]
  OBVIOUS
<1>4. [i \in Ids |-> None] \in [Ids -> [sev : Bands, failed : BOOLEAN] \cup {None}]
  OBVIOUS
<1>5. 0 \in 0..MaxTime
  BY Constants
<1> QED BY <1>1, <1>2, <1>3, <1>4, <1>5 DEF Idle, Request, Nothing

-----------------------------------------------------------------------------
(* Frames: what each part of the invariant depends on.                     *)

LEMMA RequestHas ==
  ASSUME NEW q \in Request
  PROVE  /\ q.pc \in {"idle", "meta", "query", "resolve", "done"} /\ q.start \in 0..MaxTime
         /\ q.ask \in SUBSET Versions /\ q.fetch \in SUBSET Versions
         /\ q.fallback \in [Versions -> Meta \cup {None}]
         /\ q.held \in [Versions -> Meta \cup {None}]
         /\ q.metas \in [Versions -> Meta \cup {None}] /\ q.metaErr \in SUBSET Versions
         /\ q.vulns \in [Versions -> Severities \cup {None}] /\ q.vulnErr \in SUBSET Versions
         /\ q.job \in [Versions -> Job]
         /\ q.known \in [Ids -> [sev : Bands, failed : BOOLEAN] \cup {None}]
         /\ q.flying \in SUBSET Ids /\ q.answer \in [Versions -> {Allow, Warn, Block}]
  BY DEF Request

LEMMA MetasFrame ==
  ASSUME NEW p, NEW q, MetasOK(p),
         q.pc = p.pc, q.start = p.start, q.ask = p.ask, q.fetch = p.fetch, q.held = p.held,
         q.fallback = p.fallback, q.metas = p.metas, q.metaErr = p.metaErr
  PROVE  MetasOK(q)
  BY DEF MetasOK

LEMMA FlightsFrame ==
  ASSUME NEW p, NEW q, FlightsOK(p),
         q.pc = p.pc, q.job = p.job, q.known = p.known, q.flying = p.flying
  PROVE  FlightsOK(q)
  BY DEF FlightsOK

LEMMA VulnsFrame ==
  ASSUME NEW p, NEW q, VulnsOK(p),
         q.pc = p.pc, q.start = p.start, q.ask = p.ask, q.vulns = p.vulns,
         q.vulnErr = p.vulnErr, q.job = p.job, q.known = p.known
  PROVE  VulnsOK(q)
  BY DEF VulnsOK

\* A request goes on, and the world stands still.
LEMMA OneMoves ==
  ASSUME EvalInv, UNCHANGED worldVars,
         NEW r \in Requests, NEW q \in Request, req' = [req EXCEPT ![r] = q],
         MetasOK(q), FlightsOK(q), VulnsOK(q), AnswersOK(q),
         asked' \in 0..MaxRequests, failures' \in 0..MaxFailures,
         metaRow' \in [Versions -> Row(Meta) \cup {None}], MetaRowsOK',
         vulnRow' \in [Versions -> Row(Severities) \cup {None}], VulnRowsOK',
         TransientNotStored'
  PROVE  EvalInv'
<1>1. req \in [Requests -> Request]
  BY DEF EvalInv, TypeOK
<1>2. req' \in [Requests -> Request] /\ req'[r] = q
      /\ \A s \in Requests \ {r} : req'[s] = req[s]
  BY <1>1
<1>3. ASSUME NEW s \in Requests
      PROVE  (MetasOK(req[s]) /\ FlightsOK(req[s]) /\ VulnsOK(req[s]) /\ AnswersOK(req[s]))'
  <2>1. MetasOK(req'[s]) /\ FlightsOK(req'[s]) /\ VulnsOK(req'[s]) /\ AnswersOK(req'[s])
    BY <1>2 DEF EvalInv
  <2>2. (MetasOK(req[s]))'
    BY <2>1 DEF MetasOK, Undatable, worldVars
  <2>3. (FlightsOK(req[s]))'
    BY <2>1 DEF FlightsOK
  <2>4. (VulnsOK(req[s]))'
    BY <2>1 DEF VulnsOK, Told, Heeded, worldVars
  <2>5. (AnswersOK(req[s]))'
    BY <2>1 DEF AnswersOK, Sound, worldVars
  <2> QED BY <2>2, <2>3, <2>4, <2>5
<1>4. TypeOK'
  <2>1. \A s \in Requests, v \in Versions :
          req'[s].job[v].mode \in {"wait", "call"} <=> req'[s].job[v].on # None
    BY <1>2 DEF EvalInv, FlightsOK
  <2> QED BY <1>2, <2>1 DEF EvalInv, TypeOK, worldVars
<1> QED BY <1>3, <1>4 DEF EvalInv

\* Rows that nobody writes.
LEMMA RowsFrame ==
  ASSUME EvalInv, UNCHANGED worldVars
  PROVE  /\ UNCHANGED metaRow =>
              metaRow' \in [Versions -> Row(Meta) \cup {None}] /\ MetaRowsOK'
         /\ UNCHANGED vulnRow =>
              /\ vulnRow' \in [Versions -> Row(Severities) \cup {None}] /\ VulnRowsOK'
              /\ TransientNotStored'
<1>1. ASSUME UNCHANGED metaRow
      PROVE  metaRow' \in [Versions -> Row(Meta) \cup {None}] /\ MetaRowsOK'
  BY <1>1 DEF EvalInv, TypeOK, MetaRowsOK, Undatable, worldVars
<1>2. ASSUME UNCHANGED vulnRow
      PROVE  /\ vulnRow' \in [Versions -> Row(Severities) \cup {None}] /\ VulnRowsOK'
             /\ TransientNotStored'
  BY <1>2 DEF EvalInv, TypeOK, VulnRowsOK, Heeded, TransientNotStored, worldVars
<1> QED BY <1>1, <1>2

LEMMA CountsFrame ==
  ASSUME EvalInv
  PROVE  /\ UNCHANGED asked => asked' \in 0..MaxRequests
         /\ UNCHANGED failures => failures' \in 0..MaxFailures
         /\ Failing => failures' \in 0..MaxFailures
  BY Constants DEF EvalInv, TypeOK, Failing

-----------------------------------------------------------------------------
(* The beginning, and the world.                                           *)

LEMMA IdleOK ==
  ASSUME clock \in Nat
  PROVE  MetasOK(Idle) /\ FlightsOK(Idle) /\ VulnsOK(Idle) /\ AnswersOK(Idle)
<1>1. MetasOK(Idle)
  BY TypeOfIdle DEF MetasOK
<1>2. FlightsOK(Idle)
  BY TypeOfIdle, TypeOfNoJob DEF FlightsOK
<1>3. VulnsOK(Idle)
  BY TypeOfIdle, TypeOfNoJob, NoneKnown DEF VulnsOK
<1>4. AnswersOK(Idle)
  BY TypeOfIdle DEF AnswersOK
<1> QED BY <1>1, <1>2, <1>3, <1>4

LEMMA EvalStarts == Init => EvalInv
<1> SUFFICES ASSUME Init PROVE EvalInv
  OBVIOUS
<1>1. clock \in Nat /\ clock \in 0..MaxTime /\ \A r \in Requests : req[r] = Idle
  BY Constants DEF Init
<1>2. \A v \in Versions : metaRow[v] = None /\ vulnRow[v] = None
  BY DEF Init, Nothing
<1>3. TypeOK
  <2>1. /\ datedAt \in [Versions -> 0..Never] /\ issued \in [Ids -> 0..Never]
    BY Constants DEF Init, Never
  <2>2. /\ metaRow \in [Versions -> Row(Meta) \cup {None}]
        /\ vulnRow \in [Versions -> Row(Severities) \cup {None}]
    BY DEF Init, Nothing
  <2>3. req \in [Requests -> Request]
    BY TypeOfIdle DEF Init
  <2>4. \A r \in Requests, v \in Versions :
          req[r].job[v].mode \in {"wait", "call"} <=> req[r].job[v].on # None
    BY <1>1, TypeOfIdle, TypeOfNoJob
  <2>5. asked \in 0..MaxRequests /\ failures \in 0..MaxFailures
    BY Constants DEF Init
  <2> QED BY <1>1, <2>1, <2>2, <2>3, <2>4, <2>5 DEF TypeOK, Init
<1>4. MetaRowsOK /\ VulnRowsOK /\ TransientNotStored
  BY <1>2 DEF MetaRowsOK, VulnRowsOK, TransientNotStored
<1> QED BY <1>1, <1>3, <1>4, IdleOK DEF EvalInv

\* What deps.dev and OSV say from now on, they begin to say now.
LEMMA WorldGrows ==
  ASSUME EvalInv, World
  PROVE  /\ UNCHANGED <<policy, metaRow, vulnRow, req, asked, failures>>
         /\ clock' \in 0..MaxTime /\ clock' >= clock
         /\ undated' \in SUBSET Versions /\ undated \subseteq undated'
         /\ datedAt' \in [Versions -> 0..Never] /\ issued' \in [Ids -> 0..Never]
         /\ \A v \in Versions : datedAt'[v] = datedAt[v] \/ datedAt'[v] = clock
         /\ \A i \in Ids : issued'[i] = issued[i] \/ issued'[i] = clock
<1>t. /\ clock \in 0..MaxTime /\ clock \in 0..Never /\ undated \in SUBSET Versions
      /\ datedAt \in [Versions -> 0..Never] /\ issued \in [Ids -> 0..Never]
  BY Constants DEF EvalInv, TypeOK
<1>1. CASE Tick
  BY <1>t, <1>1, Constants DEF Tick, countVars
<1>2. ASSUME NEW v \in Versions, ListUndated(v) \/ ListDated(v)
      PROVE  /\ UNCHANGED <<policy, metaRow, vulnRow, req, asked, failures, clock, issued>>
             /\ undated' \in SUBSET Versions /\ undated \subseteq undated'
             /\ datedAt' \in [Versions -> 0..Never]
             /\ \A w \in Versions : datedAt'[w] = datedAt[w] \/ datedAt'[w] = clock
  BY <1>t, <1>2 DEF ListUndated, ListDated, countVars
<1>3. ASSUME NEW i \in Ids, Issue(i)
      PROVE  /\ UNCHANGED <<policy, metaRow, vulnRow, req, asked, failures, clock, undated, datedAt>>
             /\ issued' \in [Ids -> 0..Never]
             /\ \A k \in Ids : issued'[k] = issued[k] \/ issued'[k] = clock
  BY <1>t, <1>3 DEF Issue, countVars
<1>4. clock \in Nat
  BY <1>t, Constants
<1> QED BY <1>t, <1>1, <1>2, <1>3, <1>4 DEF World

LEMMA WorldKeeps == ASSUME EvalInv, World PROVE EvalInv'
<1>w. /\ UNCHANGED <<policy, metaRow, vulnRow, req, asked, failures>>
      /\ clock' \in 0..MaxTime /\ clock' >= clock
      /\ undated' \in SUBSET Versions /\ undated \subseteq undated'
      /\ datedAt' \in [Versions -> 0..Never] /\ issued' \in [Ids -> 0..Never]
      /\ \A v \in Versions : datedAt'[v] = datedAt[v] \/ datedAt'[v] = clock
      /\ \A i \in Ids : issued'[i] = issued[i] \/ issued'[i] = clock
  BY WorldGrows
<1>n. /\ clock \in Nat /\ clock' \in Nat
      /\ \A v \in Versions : datedAt[v] \in Nat /\ datedAt'[v] \in Nat
      /\ \A i \in Ids : issued[i] \in Nat /\ issued'[i] \in Nat
  BY <1>w, Constants DEF EvalInv, TypeOK
<1>1. TypeOK'
  BY <1>w DEF EvalInv, TypeOK
<1>2. MetaRowsOK'
  <2> SUFFICES ASSUME NEW v \in Versions, metaRow[v] # None
               PROVE  /\ metaRow[v].at <= clock'
                      /\ (Undatable(v, metaRow[v].value, metaRow[v].at))'
    BY <1>w DEF MetaRowsOK
  <2>1. metaRow[v].at <= clock /\ Undatable(v, metaRow[v].value, metaRow[v].at)
    BY DEF EvalInv, MetaRowsOK
  <2>2. metaRow[v].at \in Nat
    BY Constants DEF EvalInv, TypeOK, Row
  <2> QED BY <1>w, <1>n, <2>1, <2>2 DEF Undatable
<1>3. VulnRowsOK'
  <2> SUFFICES ASSUME NEW v \in Versions, vulnRow[v] # None
               PROVE  /\ vulnRow[v].at <= clock' + VulnTTL
                      /\ \A i \in Ids : v \in Affects[i] /\ issued'[i] + VulnTTL < vulnRow[v].at
                           => Heeded(v, i, vulnRow[v].value)
    BY <1>w DEF VulnRowsOK, Heeded
  <2>1. vulnRow[v].at <= clock + VulnTTL
    BY DEF EvalInv, VulnRowsOK
  <2>2. vulnRow[v].at \in Nat
    BY Constants DEF EvalInv, TypeOK, Row
  <2>3. ASSUME NEW i \in Ids, issued'[i] + VulnTTL < vulnRow[v].at PROVE issued'[i] = issued[i]
    BY <1>w, <1>n, <2>1, <2>2, <2>3, Constants
  <2> QED BY <1>w, <1>n, <2>1, <2>2, <2>3, Constants DEF EvalInv, VulnRowsOK
<1>4. TransientNotStored'
  BY <1>w DEF EvalInv, TransientNotStored
<1>5. ASSUME NEW r \in Requests
      PROVE  (MetasOK(req[r]) /\ FlightsOK(req[r]) /\ VulnsOK(req[r]) /\ AnswersOK(req[r]))'
  <2> DEFINE q == req[r]
  <2>1. q \in Request /\ q.start \in Nat /\ q.start <= clock
    BY RequestHas, Constants DEF EvalInv, TypeOK, MetasOK
  <2>2. req'[r] = q
    BY <1>w
  <2>3. MetasOK(q) /\ FlightsOK(q) /\ VulnsOK(q) /\ AnswersOK(q) /\ q.ask \in SUBSET Versions
    BY <2>1, RequestHas DEF EvalInv
  <2> HIDE DEF q
  <2>4. (MetasOK(req[r]))'
    <3>1. /\ q.start <= clock' /\ \A v \in q.ask : Published[v] <= q.start
          /\ q.pc # "meta" => q.fetch = {}
          /\ q.pc \in {"meta", "query", "resolve"} =>
               \A v \in q.ask : v \in q.fetch \/ q.metas[v] # None \/ v \in q.metaErr
      BY <1>w, <1>n, <2>1, <2>3 DEF MetasOK
    <3>2. ASSUME NEW v \in Versions
          PROVE  /\ q.held[v] # None => (Undatable(v, req[r].held[v], req[r].start))'
                 /\ q.fallback[v] # None =>
                      q.fallback[v].found /\ (q.fallback[v].known \/ v \in undated')
                 /\ q.metas[v] # None /\ ~q.metas[v].known =>
                      v \in undated' \/ datedAt'[v] + NotFoundRefresh > q.start
      <4>1. q.held[v] # None => Undatable(v, q.held[v], q.start)
        BY <2>3 DEF MetasOK
      <4>2. q.held[v] # None => (Undatable(v, req[r].held[v], req[r].start))'
        BY <1>w, <1>n, <2>1, <2>2, <4>1 DEF Undatable
      <4>3. /\ q.fallback[v] # None =>
                 q.fallback[v].found /\ (q.fallback[v].known \/ v \in undated)
            /\ q.metas[v] # None /\ ~q.metas[v].known =>
                 v \in undated \/ datedAt[v] + NotFoundRefresh > q.start
        BY <2>3 DEF MetasOK
      <4> QED BY <1>w, <1>n, <2>1, <4>2, <4>3, Constants
    <3> QED BY <2>2, <3>1, <3>2 DEF MetasOK
  <2>5. (FlightsOK(req[r]))'
    BY <2>2, <2>3 DEF FlightsOK
  <2>6. (VulnsOK(req[r]))'
    <3>1. ASSUME NEW i \in Ids
          PROVE  /\ issued'[i] < q.start => issued[i] < q.start
                 /\ issued'[i] + VulnTTL <= q.start => issued[i] + VulnTTL <= q.start
      BY <1>w, <1>n, <2>1, Constants
    <3> QED BY <1>w, <2>2, <2>3, <3>1 DEF VulnsOK, Told, Heeded
  <2>7. (AnswersOK(req[r]))'
    <3> SUFFICES ASSUME NEW v \in q.ask, Sound(q, v) PROVE (Sound(req[r], v))'
      BY <1>w, <2>2, <2>3 DEF AnswersOK
    <3>1. ASSUME NEW i \in Ids, issued[i] + VulnTTL > q.start PROVE issued'[i] + VulnTTL > q.start
      BY <1>w, <1>n, <2>1, <3>1, Constants
    <3>2. ASSUME v \in undated \/ datedAt[v] + NotFoundRefresh > q.start
          PROVE  v \in undated' \/ datedAt'[v] + NotFoundRefresh > q.start
      BY <1>w, <1>n, <2>1, <2>3, <3>2, Constants
    <3> QED BY <1>w, <2>2, <3>1, <3>2 DEF Sound
  <2> QED BY <2>4, <2>5, <2>6, <2>7
<1> QED BY <1>1, <1>2, <1>3, <1>4, <1>5 DEF EvalInv

-----------------------------------------------------------------------------
(* A request begins, and its metadata.                                     *)

LEMMA BeginKeeps ==
  ASSUME EvalInv, NEW r \in Requests, NEW V \in Asks, Begin(r, V)
  PROVE  EvalInv'
<1> DEFINE fresh == {v \in V : metaRow[v] # None /\ Fresh(metaRow[v], clock)}
           metas == [v \in Versions |-> IF v \in fresh THEN metaRow[v].value ELSE None]
           fallback == [v \in Versions |->
             IF v \in V \ fresh /\ Fallback(metaRow[v]) THEN metaRow[v].value ELSE None]
           q == [Idle EXCEPT !.pc = "meta", !.start = clock, !.ask = V, !.fetch = V \ fresh,
                             !.metas = metas, !.fallback = fallback]
<1>1. /\ req' = [req EXCEPT ![r] = q] /\ \A v \in V : Published[v] <= clock
      /\ UNCHANGED <<worldVars, metaRow, vulnRow, failures>> /\ asked' \in 0..MaxRequests
  BY Constants DEF Begin, EvalInv, TypeOK
<1>2. V \subseteq Versions /\ clock \in 0..MaxTime /\ clock \in Nat
  BY EvaluatorAssumption, Constants DEF EvalInv, TypeOK
<1>3. \A v \in Versions : metaRow[v] # None =>
        /\ metaRow[v].value \in Meta /\ metaRow[v].at \in Nat /\ metaRow[v].at <= clock
        /\ Undatable(v, metaRow[v].value, metaRow[v].at)
  BY Constants DEF EvalInv, TypeOK, Row, MetaRowsOK
<1>4. metas \in [Versions -> Meta \cup {None}] /\ fallback \in [Versions -> Meta \cup {None}]
  BY <1>3 DEF Fallback
<1>5. \A v \in Versions : fallback[v] # None =>
        fallback[v].found /\ (fallback[v].known \/ v \in undated)
  BY <1>3 DEF Fallback, Undatable
<1>6. ASSUME NEW v \in Versions, metas[v] # None, ~metas[v].known
      PROVE  v \in undated \/ datedAt[v] + NotFoundRefresh > clock
  <2>1. /\ metas[v] = metaRow[v].value /\ metaRow[v] # None
        /\ Fresh(metaRow[v], clock)
    BY <1>6
  <2>2. CASE metaRow[v].value.found
    BY <1>3, <1>6, <2>1, <2>2 DEF Undatable
  <2>3. CASE ~metaRow[v].value.found
    <3>1. clock - metaRow[v].at < NotFoundRefresh
      BY <2>1, <2>3 DEF Fresh
    <3>2. v \in undated \/ datedAt[v] >= metaRow[v].at
      BY <1>3, <1>6, <2>1 DEF Undatable
    <3>3. datedAt[v] \in Nat
      BY Constants DEF EvalInv, TypeOK
    <3> QED BY <1>2, <1>3, <2>1, <3>1, <3>2, <3>3, Constants
  <2> QED BY <2>2, <2>3
<1>7. \A v \in V : v \in V \ fresh \/ metas[v] # None
  <2>1. ASSUME NEW v \in fresh PROVE metas[v] # None
    <3>1. metas[v] = metaRow[v].value /\ metaRow[v].value \in Meta
      BY <1>2, <1>3
    <3>2. metaRow[v].value # None
      BY <3>1, NoneAssumption
    <3> QED BY <3>1, <3>2
  <2> QED BY <2>1
<1> HIDE DEF metas, fallback, fresh
<1>8. /\ q \in Request /\ q.pc = "meta" /\ q.start = clock /\ q.ask = V /\ q.fetch = V \ fresh
      /\ q.metas = metas /\ q.fallback = fallback /\ q.flying = {} /\ q.job = Idle.job
      /\ q.held = Idle.held /\ q.known = Idle.known /\ q.vulns = Idle.vulns
  BY <1>2, <1>4, TypeOfIdle DEF Request
<1> HIDE DEF q
<1>9. MetasOK(q)
  BY <1>1, <1>2, <1>5, <1>6, <1>7, <1>8, TypeOfIdle DEF MetasOK
<1>10. FlightsOK(q)
  BY <1>8, TypeOfIdle, TypeOfNoJob DEF FlightsOK
<1>11. VulnsOK(q)
  BY <1>8, TypeOfIdle, TypeOfNoJob, NoneKnown DEF VulnsOK
<1>12. AnswersOK(q)
  BY <1>8 DEF AnswersOK
<1> QED BY <1>1, <1>8, <1>9, <1>10, <1>11, <1>12, OneMoves, RowsFrame, CountsFrame

\* What deps.dev says of a version holds of its date.
LEMMA UpstreamTells ==
  ASSUME EvalInv, NEW v \in Versions, NEW t \in Nat, t <= clock
  PROVE  Upstream(v) \in Meta /\ Upstream(v) # None /\ Undatable(v, Upstream(v), t)
<1>1. Upstream(v) \in Meta
  BY DEF Upstream, Meta
<1>2. datedAt[v] \in Nat /\ clock \in 0..MaxTime
  BY Constants DEF EvalInv, TypeOK
<1>3. Undatable(v, Upstream(v), t)
  <2>1. CASE datedAt[v] # Never
    <3>1. Upstream(v).known
      BY <2>1, Zenon DEF Upstream
    <3> QED BY <3>1 DEF Undatable
  <2>2. CASE datedAt[v] = Never /\ v \notin undated
    <3>1. Upstream(v).found = FALSE
      BY <2>2 DEF Upstream
    <3>2. datedAt[v] >= t
      BY <1>2, <2>2, Constants
    <3> QED BY <3>1, <3>2 DEF Undatable
  <2>3. CASE v \in undated
    BY <2>3 DEF Undatable
  <2> QED BY <2>1, <2>2, <2>3
<1> QED BY <1>1, <1>3, NoneAssumption

LEMMA GetVersionKeeps ==
  ASSUME EvalInv, NEW r \in Requests, NEW v \in Versions, GetVersion(r, v)
  PROVE  EvalInv'
<1> DEFINE p == req[r]
           held == [p.held EXCEPT ![v] = Upstream(v)]
           q == [p EXCEPT !.held = held]
<1>1. req' = [req EXCEPT ![r] = q] /\ UNCHANGED <<worldVars, metaRow, vulnRow, countVars>>
  BY DEF GetVersion
<1>2. /\ p \in Request /\ MetasOK(p) /\ FlightsOK(p) /\ VulnsOK(p) /\ AnswersOK(p)
      /\ p.held \in [Versions -> Meta \cup {None}] /\ p.start \in Nat /\ p.start <= clock
  BY RequestHas, Constants DEF EvalInv, TypeOK, MetasOK
<1> HIDE DEF p
<1>3. /\ held \in [Versions -> Meta \cup {None}] /\ held[v] = Upstream(v)
      /\ \A w \in Versions \ {v} : held[w] = p.held[w]
  BY <1>2, UpstreamTells
<1> HIDE DEF held
<1>4. /\ q \in Request /\ q.held = held
      /\ q.pc = p.pc /\ q.start = p.start /\ q.ask = p.ask /\ q.fetch = p.fetch
      /\ q.fallback = p.fallback /\ q.metas = p.metas /\ q.metaErr = p.metaErr
      /\ q.vulns = p.vulns /\ q.vulnErr = p.vulnErr /\ q.job = p.job /\ q.known = p.known
      /\ q.flying = p.flying /\ q.answer = p.answer
  BY <1>2, <1>3 DEF Request
<1> HIDE DEF q
<1>5. MetasOK(q)
  <2>1. \A w \in Versions : held[w] # None => Undatable(w, held[w], p.start)
    BY <1>2, <1>3, UpstreamTells DEF MetasOK
  <2> QED BY <1>2, <1>4, <2>1 DEF MetasOK
<1>6. FlightsOK(q) /\ VulnsOK(q)
  BY <1>2, <1>4, FlightsFrame, VulnsFrame
<1>7. AnswersOK(q)
  BY <1>2, <1>4 DEF AnswersOK, Sound
<1> QED BY <1>1, <1>4, <1>5, <1>6, <1>7, OneMoves, RowsFrame, CountsFrame DEF countVars

LEMMA GetVersionFailsKeeps ==
  ASSUME EvalInv, NEW r \in Requests, NEW v \in Versions, GetVersionFails(r, v)
  PROVE  EvalInv'
<1> DEFINE p == req[r]
           metas == [p.metas EXCEPT ![v] = p.fallback[v]]
           metaErr == IF p.fallback[v] = None THEN p.metaErr \cup {v} ELSE p.metaErr
           q == [p EXCEPT !.fetch = p.fetch \ {v}, !.metas = metas, !.metaErr = metaErr]
<1>1. /\ req' = [req EXCEPT ![r] = q] /\ UNCHANGED <<worldVars, metaRow, vulnRow, asked>>
      /\ Failing /\ v \in p.fetch
  BY DEF GetVersionFails
<1>2. /\ p \in Request /\ MetasOK(p) /\ FlightsOK(p) /\ VulnsOK(p) /\ AnswersOK(p)
      /\ p.fetch \in SUBSET Versions /\ p.metaErr \in SUBSET Versions
      /\ p.metas \in [Versions -> Meta \cup {None}] /\ p.fallback \in [Versions -> Meta \cup {None}]
  BY RequestHas DEF EvalInv, TypeOK
<1> HIDE DEF p
<1>3. /\ metas \in [Versions -> Meta \cup {None}] /\ metas[v] = p.fallback[v]
      /\ \A w \in Versions \ {v} : metas[w] = p.metas[w]
      /\ metaErr \in SUBSET Versions /\ p.metaErr \subseteq metaErr
      /\ p.fallback[v] = None => v \in metaErr
  BY <1>2
<1> HIDE DEF metas, metaErr
<1>4. /\ q \in Request /\ q.fetch = p.fetch \ {v} /\ q.metas = metas /\ q.metaErr = metaErr
      /\ q.pc = p.pc /\ q.start = p.start /\ q.ask = p.ask
      /\ q.fallback = p.fallback /\ q.held = p.held
      /\ q.vulns = p.vulns /\ q.vulnErr = p.vulnErr /\ q.job = p.job /\ q.known = p.known
      /\ q.flying = p.flying /\ q.answer = p.answer
  BY <1>2, <1>3 DEF Request
<1> HIDE DEF q
<1>5. MetasOK(q)
  <2>1. p.pc = "meta"
    BY <1>1, <1>2 DEF MetasOK
  <2>2. \A w \in p.ask : w \in p.fetch \ {v} \/ metas[w] # None \/ w \in metaErr
    BY <1>2, <1>3, <2>1, RequestHas DEF MetasOK
  <2>3. \A w \in Versions : metas[w] # None /\ ~metas[w].known =>
          w \in undated \/ datedAt[w] + NotFoundRefresh > p.start
    BY <1>2, <1>3 DEF MetasOK
  <2> QED BY <1>2, <1>4, <2>1, <2>2, <2>3 DEF MetasOK
<1>6. FlightsOK(q) /\ VulnsOK(q)
  BY <1>2, <1>4, FlightsFrame, VulnsFrame
<1>7. AnswersOK(q)
  BY <1>2, <1>4 DEF AnswersOK, Sound
<1> QED BY <1>1, <1>4, <1>5, <1>6, <1>7, OneMoves, RowsFrame, CountsFrame

LEMMA PutMetaKeeps ==
  ASSUME EvalInv, NEW r \in Requests, NEW v \in Versions, PutMeta(r, v)
  PROVE  EvalInv'
<1> DEFINE p == req[r]
           m == p.held[v]
           metas == [p.metas EXCEPT ![v] = m]
           held == [p.held EXCEPT ![v] = None]
           row == [value |-> m, at |-> p.start]
           q == [p EXCEPT !.fetch = p.fetch \ {v}, !.held = held, !.metas = metas]
<1>1. /\ req' = [req EXCEPT ![r] = q] /\ UNCHANGED <<worldVars, vulnRow, countVars>>
      /\ v \in p.fetch /\ m # None /\ metaRow' = [metaRow EXCEPT ![v] = row]
  BY DEF PutMeta
<1>2. /\ p \in Request /\ MetasOK(p) /\ FlightsOK(p) /\ VulnsOK(p) /\ AnswersOK(p)
      /\ p.fetch \in SUBSET Versions /\ p.start \in 0..MaxTime /\ p.start <= clock
      /\ p.metas \in [Versions -> Meta \cup {None}] /\ p.held \in [Versions -> Meta \cup {None}]
      /\ metaRow \in [Versions -> Row(Meta) \cup {None}]
  BY RequestHas DEF EvalInv, TypeOK, MetasOK
<1> HIDE DEF p
<1>3. m \in Meta /\ Undatable(v, m, p.start)
  BY <1>1, <1>2 DEF MetasOK
<1> HIDE DEF m
<1>4. /\ metas \in [Versions -> Meta \cup {None}] /\ metas[v] = m
      /\ \A w \in Versions \ {v} : metas[w] = p.metas[w]
      /\ held \in [Versions -> Meta \cup {None}] /\ held[v] = None
      /\ \A w \in Versions \ {v} : held[w] = p.held[w]
  BY <1>2, <1>3
<1> HIDE DEF metas, held
<1>5. row \in Row(Meta) /\ row.at = p.start /\ row.value = m
  BY <1>2, <1>3, Constants DEF Row
<1> HIDE DEF row
<1>6. metaRow' \in [Versions -> Row(Meta) \cup {None}]
  BY <1>1, <1>2, <1>5
<1>7. MetaRowsOK'
  <2> SUFFICES ASSUME NEW w \in Versions, metaRow'[w] # None
               PROVE  metaRow'[w].at <= clock /\ Undatable(w, metaRow'[w].value, metaRow'[w].at)
    BY <1>1 DEF MetaRowsOK, Undatable, worldVars
  <2>1. CASE w = v
    BY <1>1, <1>2, <1>3, <1>5, <2>1
  <2>2. CASE w # v
    BY <1>1, <1>2, <2>2 DEF EvalInv, MetaRowsOK
  <2> QED BY <2>1, <2>2
<1>8. /\ q \in Request /\ q.fetch = p.fetch \ {v} /\ q.metas = metas /\ q.held = held
      /\ q.pc = p.pc /\ q.start = p.start /\ q.ask = p.ask
      /\ q.fallback = p.fallback /\ q.metaErr = p.metaErr
      /\ q.vulns = p.vulns /\ q.vulnErr = p.vulnErr /\ q.job = p.job /\ q.known = p.known
      /\ q.flying = p.flying /\ q.answer = p.answer
  BY <1>2, <1>4 DEF Request
<1> HIDE DEF q
<1>9. MetasOK(q)
  <2>1. p.pc = "meta"
    BY <1>1, <1>2 DEF MetasOK
  <2>2. m # None
    BY <1>3, NoneAssumption
  <2>3. \A w \in p.ask : w \in p.fetch \ {v} \/ metas[w] # None \/ w \in p.metaErr
    BY <1>2, <1>4, <2>1, <2>2, RequestHas DEF MetasOK
  <2>4. ~m.known => v \in undated \/ datedAt[v] + NotFoundRefresh > p.start
    <3>1. datedAt[v] \in Nat /\ p.start \in Nat
      BY <1>2, Constants DEF EvalInv, TypeOK
    <3> QED BY <1>3, <3>1, Constants DEF Undatable
  <2>5. \A w \in Versions : metas[w] # None /\ ~metas[w].known =>
          w \in undated \/ datedAt[w] + NotFoundRefresh > p.start
    BY <1>2, <1>4, <2>4 DEF MetasOK
  <2>6. \A w \in Versions : held[w] # None => Undatable(w, held[w], p.start)
    BY <1>2, <1>4 DEF MetasOK
  <2> QED BY <1>2, <1>8, <2>1, <2>3, <2>5, <2>6 DEF MetasOK
<1>10. FlightsOK(q) /\ VulnsOK(q)
  BY <1>2, <1>8, FlightsFrame, VulnsFrame
<1>11. AnswersOK(q)
  BY <1>2, <1>8 DEF AnswersOK, Sound
<1> QED BY <1>1, <1>6, <1>7, <1>8, <1>9, <1>10, <1>11, OneMoves, RowsFrame, CountsFrame DEF countVars

-----------------------------------------------------------------------------
(* Its advisories.                                                         *)

LEMMA GetVulnsKeeps == ASSUME EvalInv, NEW r \in Requests, GetVulns(r) PROVE EvalInv'
<1> DEFINE p == req[r]
           cached == {v \in p.ask : vulnRow[v] # None /\ ~Expired(vulnRow[v], p.start)}
           pc == IF cached = p.ask THEN "resolve" ELSE "query"
           vulns == [v \in Versions |-> IF v \in cached THEN vulnRow[v].value ELSE None]
           q == [p EXCEPT !.pc = pc, !.vulns = vulns]
<1>1. /\ req' = [req EXCEPT ![r] = q] /\ UNCHANGED <<worldVars, metaRow, vulnRow, countVars>>
      /\ p.pc = "meta" /\ p.fetch = {}
  BY DEF GetVulns
<1>2. /\ p \in Request /\ MetasOK(p) /\ FlightsOK(p) /\ VulnsOK(p)
      /\ p.ask \in SUBSET Versions /\ p.start \in Nat
  BY RequestHas, Constants DEF EvalInv, TypeOK
<1>3. \A v \in Versions : vulnRow[v] # None =>
        /\ vulnRow[v].value \in Severities /\ vulnRow[v].at \in Nat
        /\ \A i \in Ids : v \in Affects[i] /\ issued[i] + VulnTTL < vulnRow[v].at
             => Heeded(v, i, vulnRow[v].value)
  BY Constants DEF EvalInv, TypeOK, Row, VulnRowsOK
<1>4. \A v \in cached : vulns[v] = vulnRow[v].value /\ vulns[v] # None
  BY <1>2, <1>3, NoneAssumption
<1>5. vulns \in [Versions -> Severities \cup {None}]
  BY <1>2, <1>3
<1>6. ASSUME NEW v \in Versions, vulns[v] # None, NEW i \in Ids,
             v \in Affects[i], issued[i] + VulnTTL <= p.start
      PROVE  Heeded(v, i, vulns[v])
  <2>1. v \in cached /\ vulnRow[v] # None /\ vulns[v] = vulnRow[v].value
    BY <1>6
  <2>2. p.start < vulnRow[v].at
    BY <1>2, <1>3, <2>1 DEF Expired
  <2>3. issued[i] \in Nat
    BY Constants DEF EvalInv, TypeOK
  <2> QED BY <1>2, <1>3, <1>6, <2>1, <2>2, <2>3, Constants
<1>7. pc \in {"resolve", "query"} /\ (pc = "resolve" => cached = p.ask)
  OBVIOUS
<1> HIDE DEF p, cached, vulns, pc
<1>8. /\ q \in Request /\ q.pc = pc /\ q.vulns = vulns
      /\ q.start = p.start /\ q.ask = p.ask /\ q.fetch = p.fetch /\ q.held = p.held
      /\ q.fallback = p.fallback /\ q.metas = p.metas /\ q.metaErr = p.metaErr
      /\ q.vulnErr = p.vulnErr /\ q.job = p.job /\ q.known = p.known /\ q.flying = p.flying
  BY <1>2, <1>5, <1>7 DEF Request
<1> HIDE DEF q
<1>9. MetasOK(q)
  BY <1>1, <1>2, <1>8 DEF MetasOK
<1>10. FlightsOK(q)
  BY <1>1, <1>2, <1>8 DEF FlightsOK
<1>11. VulnsOK(q)
  BY <1>2, <1>4, <1>6, <1>7, <1>8 DEF VulnsOK
<1>12. AnswersOK(q)
  BY <1>7, <1>8 DEF AnswersOK
<1> QED BY <1>1, <1>8, <1>9, <1>10, <1>11, <1>12, OneMoves, RowsFrame, CountsFrame DEF countVars

LEMMA QueryBatchKeeps == ASSUME EvalInv, NEW r \in Requests, QueryBatch(r) PROVE EvalInv'
<1> DEFINE p == req[r]
           job == [v \in Versions |-> IF v \in Need(r)
                    THEN [NoJob EXCEPT !.mode = "run", !.todo = Advisories(v)] ELSE NoJob]
           q == [p EXCEPT !.pc = "resolve", !.job = job]
<1>1. /\ req' = [req EXCEPT ![r] = q] /\ UNCHANGED <<worldVars, metaRow, vulnRow, countVars>>
      /\ p.pc = "query"
  BY DEF QueryBatch
<1>2. /\ p \in Request /\ MetasOK(p) /\ FlightsOK(p) /\ VulnsOK(p)
      /\ p.ask \in SUBSET Versions /\ p.start \in 0..MaxTime /\ p.flying \in SUBSET Ids
  BY RequestHas DEF EvalInv, TypeOK
<1>3. Need(r) = {v \in p.ask : p.vulns[v] = None}
  BY DEF Need
<1> HIDE DEF p
<1>4. ASSUME NEW v \in Versions
      PROVE  /\ job[v] \in Job /\ job[v].on = None /\ job[v].sev = NoSeverities /\ ~job[v].failed
             /\ job[v].mode = IF v \in Need(r) THEN "run" ELSE "done"
             /\ v \in Need(r) => job[v].todo = Advisories(v)
  <2>1. Advisories(v) \in SUBSET Ids
    BY DEF Advisories
  <2>2. NoJob \in Job
    BY TypeOfNoJob
  <2>3. [NoJob EXCEPT !.mode = "run", !.todo = Advisories(v)] \in Job
    BY <2>1, <2>2 DEF Job
  <2> QED BY <2>1, <2>2, <2>3, TypeOfNoJob DEF NoJob
<1>5. job \in [Versions -> Job]
  BY <1>4
<1> HIDE DEF job
<1>6. /\ q \in Request /\ q.pc = "resolve" /\ q.job = job
      /\ q.start = p.start /\ q.ask = p.ask /\ q.fetch = p.fetch /\ q.held = p.held
      /\ q.fallback = p.fallback /\ q.metas = p.metas /\ q.metaErr = p.metaErr
      /\ q.vulns = p.vulns /\ q.vulnErr = p.vulnErr /\ q.known = p.known /\ q.flying = p.flying
  BY <1>2, <1>5 DEF Request
<1> HIDE DEF q
<1>7. MetasOK(q)
  BY <1>1, <1>2, <1>6 DEF MetasOK
<1>8. p.flying = {}
  BY <1>1, <1>2 DEF FlightsOK
<1>9. FlightsOK(q)
  BY <1>4, <1>6, <1>8 DEF FlightsOK
<1>10. VulnsOK(q)
  <2>1. \A v \in Versions, i \in Ids :
          v \in Need(r) /\ v \in Affects[i] /\ issued[i] < p.start => i \in job[v].todo
    <3>1. \A i \in Ids : issued[i] < p.start => issued[i] # Never
      BY <1>2, Constants DEF EvalInv, TypeOK
    <3> QED BY <1>4, <3>1 DEF Advisories
  <2>2. \A v \in p.ask : p.vulns[v] # None \/ job[v].mode # "done"
    BY <1>2, <1>3, <1>4
  <2> QED BY <1>2, <1>4, <1>6, <2>1, <2>2, NoneKnown DEF VulnsOK
<1>11. AnswersOK(q)
  BY <1>6 DEF AnswersOK
<1> QED BY <1>1, <1>6, <1>7, <1>9, <1>10, <1>11, OneMoves, RowsFrame, CountsFrame DEF countVars

LEMMA QueryBatchFailsKeeps == ASSUME EvalInv, NEW r \in Requests, QueryBatchFails(r) PROVE EvalInv'
<1> DEFINE p == req[r]
           q == [p EXCEPT !.pc = "resolve", !.vulnErr = Need(r)]
<1>1. /\ req' = [req EXCEPT ![r] = q] /\ UNCHANGED <<worldVars, metaRow, vulnRow, asked>>
      /\ p.pc = "query" /\ Failing
  BY DEF QueryBatchFails
<1>2. /\ p \in Request /\ MetasOK(p) /\ FlightsOK(p) /\ VulnsOK(p) /\ p.ask \in SUBSET Versions
  BY RequestHas DEF EvalInv, TypeOK
<1>3. Need(r) = {v \in p.ask : p.vulns[v] = None}
  BY DEF Need
<1> HIDE DEF p
<1>4. Need(r) \in SUBSET Versions
  BY <1>2, <1>3
<1>5. /\ q \in Request /\ q.pc = "resolve" /\ q.vulnErr = Need(r)
      /\ q.start = p.start /\ q.ask = p.ask /\ q.fetch = p.fetch /\ q.held = p.held
      /\ q.fallback = p.fallback /\ q.metas = p.metas /\ q.metaErr = p.metaErr
      /\ q.vulns = p.vulns /\ q.job = p.job /\ q.known = p.known /\ q.flying = p.flying
  BY <1>2, <1>4 DEF Request
<1> HIDE DEF q
<1>6. MetasOK(q)
  BY <1>1, <1>2, <1>5 DEF MetasOK
<1>7. FlightsOK(q)
  BY <1>1, <1>2, <1>5 DEF FlightsOK
<1>8. VulnsOK(q)
  BY <1>2, <1>3, <1>5 DEF VulnsOK
<1>9. AnswersOK(q)
  BY <1>5 DEF AnswersOK
<1> QED BY <1>1, <1>5, <1>6, <1>7, <1>8, <1>9, OneMoves, RowsFrame, CountsFrame

-----------------------------------------------------------------------------
(* The lookups that its goroutines share.                                  *)

\* A goroutine is told of an advisory; what else it remembers of others stays true.
LEMMA LearnsTruly ==
  ASSUME NEW j \in Job, NEW i \in Ids, NEW s \in Bands, NEW failed \in BOOLEAN,
         Told(i, s, failed), \A k \in DOMAIN j.sev : Told(k, j.sev[k], j.failed)
  PROVE  LET l == Learn(j, i, s, failed)
         IN  \A k \in DOMAIN l.sev : Told(k, l.sev[k], l.failed)
<1> DEFINE l == Learn(j, i, s, failed)
<1>1. /\ DOMAIN l.sev = DOMAIN j.sev \cup {i} /\ l.sev[i] = s
      /\ \A k \in DOMAIN j.sev : k # i => l.sev[k] = j.sev[k]
      /\ l.failed = (j.failed \/ failed) /\ j.failed \in BOOLEAN
  BY Learns DEF Job
<1> HIDE DEF l
<1>2. ASSUME NEW k \in DOMAIN l.sev PROVE Told(k, l.sev[k], l.failed)
  <2>1. CASE k = i
    BY <1>1, <2>1 DEF Told
  <2>2. CASE k # i
    BY <1>1, <1>2, <2>2 DEF Told
  <2> QED BY <2>1, <2>2
<1> QED BY <1>2 DEF l

LEMMA ResolveKeeps ==
  ASSUME EvalInv, NEW r \in Requests, NEW v \in Versions, NEW i \in Ids, Resolve(r, v, i)
  PROVE  EvalInv'
<1> DEFINE p == req[r]
           j == p.job[v]
<1>1. /\ p \in Request /\ MetasOK(p) /\ FlightsOK(p) /\ VulnsOK(p)
      /\ p.job \in [Versions -> Job] /\ p.flying \in SUBSET Ids
      /\ p.known \in [Ids -> [sev : Bands, failed : BOOLEAN] \cup {None}]
  BY RequestHas DEF EvalInv, TypeOK
<1>2. /\ j.mode = "run" /\ i \in j.todo /\ j \in Job
      /\ UNCHANGED <<worldVars, metaRow, vulnRow, countVars>>
  BY <1>1 DEF Resolve
<1>3. p.pc = "resolve" /\ j.on = None
  BY <1>1, <1>2 DEF FlightsOK
\* Whatever becomes of it, it is one goroutine that moves, and perhaps a new call.
<1>4. ASSUME NEW l \in Job, NEW flying \in SUBSET Ids,
             req' = [req EXCEPT ![r] = [p EXCEPT !.job = [p.job EXCEPT ![v] = l], !.flying = flying]],
             l.mode # "done", l.mode \in {"wait", "call"} <=> l.on # None, l.on # None => l.on \in flying,
             \/ flying = p.flying /\ l.mode # "call"
             \/ flying = p.flying \cup {i} /\ i \notin p.flying /\ p.known[i] = None
                /\ l.mode = "call" /\ l.on = i,
             \A k \in DOMAIN l.sev : Told(k, l.sev[k], l.failed),
             j.todo \cup DOMAIN j.sev \subseteq l.todo \cup DOMAIN l.sev
      PROVE  EvalInv'
  <2> DEFINE job == [p.job EXCEPT ![v] = l]
             q == [p EXCEPT !.job = job, !.flying = flying]
  <2> HIDE DEF p
  <2>1. /\ job \in [Versions -> Job] /\ job[v] = l /\ p.job[v] = j
        /\ \A w \in Versions \ {v} : job[w] = p.job[w]
    BY <1>1, <1>4
  <2>2. req' = [req EXCEPT ![r] = q]
    BY <1>4
  <2> HIDE DEF job, j
  <2>3. /\ q \in Request /\ q.job = job /\ q.flying = flying
        /\ q.pc = p.pc /\ q.start = p.start /\ q.ask = p.ask /\ q.fetch = p.fetch
        /\ q.held = p.held /\ q.fallback = p.fallback /\ q.metas = p.metas
        /\ q.metaErr = p.metaErr /\ q.vulns = p.vulns /\ q.vulnErr = p.vulnErr
        /\ q.known = p.known
    BY <1>1, <1>4, <2>1 DEF Request
  <2> HIDE DEF q
  <2>4. MetasOK(q)
    BY <1>1, <2>3, MetasFrame
  <2>5. FlightsOK(q)
    <3>1. \A w \in Versions : /\ job[w].mode \in {"wait", "call"} <=> job[w].on # None
                              /\ job[w].on # None => job[w].on \in flying
      BY <1>1, <1>4, <2>1 DEF FlightsOK
    <3>2. ASSUME NEW k \in flying
          PROVE  /\ p.known[k] = None
                 /\ \E w \in Versions : job[w].mode = "call" /\ job[w].on = k
      <4>1. CASE k \in p.flying
        <5>1. PICK w \in Versions : p.job[w].mode = "call" /\ p.job[w].on = k
          BY <1>1, <4>1 DEF FlightsOK
        <5>2. w # v
          BY <1>2, <2>1, <5>1
        <5> QED BY <1>1, <2>1, <4>1, <5>1, <5>2 DEF FlightsOK
      <4>2. CASE k \notin p.flying
        BY <1>4, <2>1, <3>2, <4>2
      <4> QED BY <4>1, <4>2
    <3>3. ASSUME NEW w \in Versions, NEW x \in Versions,
                 job[w].mode = "call", job[x].mode = "call", job[w].on = job[x].on
          PROVE  w = x
      <4>1. \A y \in Versions \ {v} : job[y].mode = "call" => job[y].on \in p.flying
        BY <1>1, <2>1 DEF FlightsOK
      <4>2. CASE w = v \/ x = v
        BY <1>4, <2>1, <3>3, <4>1, <4>2
      <4>3. CASE w # v /\ x # v
        BY <1>1, <2>1, <3>3, <4>3 DEF FlightsOK
      <4> QED BY <4>2, <4>3
    <3> QED BY <1>3, <2>3, <3>1, <3>2, <3>3 DEF FlightsOK
  <2>6. VulnsOK(q)
    <3>1. \A w \in Versions : \A k \in DOMAIN job[w].sev : Told(k, job[w].sev[k], job[w].failed)
      BY <1>1, <1>4, <2>1 DEF VulnsOK
    <3>2. \A w \in Versions : job[w].mode # "done" => \A k \in Ids :
            w \in Affects[k] /\ issued[k] < p.start => k \in job[w].todo \cup DOMAIN job[w].sev
      BY <1>1, <1>2, <1>4, <2>1 DEF VulnsOK
    <3>3. \A w \in p.ask : p.vulns[w] # None \/ w \in p.vulnErr \/ job[w].mode # "done"
      BY <1>1, <1>3, <1>4, <2>1, RequestHas DEF VulnsOK
    <3> QED BY <1>1, <2>3, <3>1, <3>2, <3>3 DEF VulnsOK
  <2>7. AnswersOK(q)
    BY <1>3, <2>3 DEF AnswersOK
  <2> QED BY <1>2, <2>2, <2>3, <2>4, <2>5, <2>6, <2>7, OneMoves, RowsFrame, CountsFrame DEF countVars
\* It is told.
<1>5. ASSUME NEW s \in Bands, NEW failed \in BOOLEAN, Told(i, s, failed),
             req' = [req EXCEPT ![r].job[v] = Learn(@, i, s, failed)]
      PROVE  EvalInv'
  <2> DEFINE l == Learn(j, i, s, failed)
  <2>1. /\ l \in Job /\ l.mode = "run" /\ l.on = None /\ l.todo = j.todo \ {i}
        /\ DOMAIN l.sev = DOMAIN j.sev \cup {i}
    BY <1>2, Learns
  <2>2. \A k \in DOMAIN l.sev : Told(k, l.sev[k], l.failed)
    <3>1. \A k \in DOMAIN j.sev : Told(k, j.sev[k], j.failed)
      BY <1>1 DEF VulnsOK
    <3> QED BY <1>2, <1>5, <3>1, LearnsTruly
  <2>3. p.flying = p.flying /\ p.flying \in SUBSET Ids
    BY <1>1
  <2>4. req' = [req EXCEPT ![r] = [p EXCEPT !.job = [p.job EXCEPT ![v] = l], !.flying = p.flying]]
    <3>1. [p EXCEPT !.job = [p.job EXCEPT ![v] = l]] =
            [p EXCEPT !.job = [p.job EXCEPT ![v] = l], !.flying = p.flying]
      BY <1>1 DEF Request
    <3> QED BY <1>5, <3>1
  <2> HIDE DEF l
  <2> QED BY <1>4, <2>1, <2>2, <2>3, <2>4
<1>6. CASE ~policy.fetchSeverity
  <2>1. Unknown \in Bands /\ Told(i, Unknown, FALSE)
    BY <1>6, Constants DEF Told
  <2>2. req' = [req EXCEPT ![r].job[v] = Learn(@, i, Unknown, FALSE)]
    BY <1>6 DEF Resolve
  <2> QED BY <1>5, <2>1, <2>2
<1>7. CASE policy.fetchSeverity /\ p.known[i] # None
  <2>1. p.known[i] \in [sev : Bands, failed : BOOLEAN]
    BY <1>1, <1>7
  <2>2. Told(i, p.known[i].sev, p.known[i].failed)
    BY <1>1, <1>7 DEF VulnsOK
  <2>3. req' = [req EXCEPT ![r].job[v] = Learn(@, i, p.known[i].sev, p.known[i].failed)]
    BY <1>7 DEF Resolve, Remembered
  <2> QED BY <1>5, <2>1, <2>2, <2>3
<1>8. CASE policy.fetchSeverity /\ p.known[i] = None /\ i \in p.flying
  <2> DEFINE l == [j EXCEPT !.mode = "wait", !.on = i]
  <2>1. /\ l \in Job /\ l.mode = "wait" /\ l.on = i /\ l.todo = j.todo /\ l.sev = j.sev
        /\ l.failed = j.failed
    BY <1>2 DEF Job
  <2>2. req' = [req EXCEPT ![r] = [p EXCEPT !.job = [p.job EXCEPT ![v] = l], !.flying = p.flying]]
    <3>1. req' = [req EXCEPT ![r].job[v] = l]
      BY <1>8 DEF Resolve, InFlight
    <3>2. req' = [req EXCEPT ![r] = [p EXCEPT !.job = [p.job EXCEPT ![v] = l]]]
      BY <1>1, <3>1 DEF EvalInv, TypeOK, Request
    <3>3. [p EXCEPT !.job = [p.job EXCEPT ![v] = l]] =
            [p EXCEPT !.job = [p.job EXCEPT ![v] = l], !.flying = p.flying]
      BY <1>1 DEF Request
    <3> QED BY <3>2, <3>3
  <2>3. \A k \in DOMAIN l.sev : Told(k, l.sev[k], l.failed)
    BY <1>1, <2>1 DEF VulnsOK
  <2>4. p.flying \in SUBSET Ids /\ l.on # None /\ l.on \in p.flying
    BY <1>1, <1>8, <2>1, NoneAssumption
  <2> HIDE DEF l
  <2> QED BY <1>4, <2>1, <2>2, <2>3, <2>4
<1>9. CASE policy.fetchSeverity /\ p.known[i] = None /\ i \notin p.flying
  <2> DEFINE l == [j EXCEPT !.mode = "call", !.on = i]
             flying == p.flying \cup {i}
  <2>1. /\ l \in Job /\ l.mode = "call" /\ l.on = i /\ l.todo = j.todo /\ l.sev = j.sev
        /\ l.failed = j.failed
    BY <1>2 DEF Job
  <2>2. req' = [req EXCEPT ![r] = [p EXCEPT !.job = [p.job EXCEPT ![v] = l], !.flying = flying]]
    <3>1. req' = [req EXCEPT ![r].job[v] = l, ![r].flying = flying]
      BY <1>9 DEF Resolve, InFlight
    <3> QED BY <1>1, <3>1 DEF EvalInv, TypeOK, Request
  <2>3. \A k \in DOMAIN l.sev : Told(k, l.sev[k], l.failed)
    BY <1>1, <2>1 DEF VulnsOK
  <2>4. flying \in SUBSET Ids /\ l.on # None /\ l.on \in flying
    BY <1>1, <2>1, NoneAssumption
  <2>5. flying = p.flying \cup {i}
    OBVIOUS
  <2> HIDE DEF l, flying
  <2> QED BY <1>4, <1>9, <2>1, <2>2, <2>3, <2>4, <2>5
<1> QED BY <1>6, <1>7, <1>8, <1>9

\* An answer: it is remembered, the caller is told, and those who wait look again.
LEMMA LandKeeps ==
  ASSUME EvalInv, NEW r \in Requests, NEW v \in Versions, NEW s \in Bands, NEW failed \in BOOLEAN,
         Told(req[r].job[v].on, s, failed), Land(r, v, s, failed), failures' \in 0..MaxFailures
  PROVE  EvalInv'
<1> DEFINE p == req[r]
           i == p.job[v].on
           l == Learn(p.job[v], i, s, failed)
           known == [p.known EXCEPT ![i] = [sev |-> s, failed |-> failed]]
           flying == p.flying \ {i}
           told == [p.job EXCEPT ![v] = l]
           job == Close(told, i)
           q == [p EXCEPT !.known = known, !.flying = flying, !.job = job]
<1>1. /\ p \in Request /\ MetasOK(p) /\ FlightsOK(p) /\ VulnsOK(p)
      /\ p.job \in [Versions -> Job] /\ p.flying \in SUBSET Ids
      /\ p.known \in [Ids -> [sev : Bands, failed : BOOLEAN] \cup {None}]
  BY RequestHas DEF EvalInv, TypeOK
<1>2. req' = [req EXCEPT ![r] = q] /\ UNCHANGED <<worldVars, metaRow, vulnRow, asked>>
  <2>1. req' = [req EXCEPT ![r].known[i] = [sev |-> s, failed |-> failed],
                           ![r].flying = flying, ![r].job = job]
    BY DEF Land
  <2> HIDE DEF i, flying, job
  <2>2. req' = [req EXCEPT ![r] = q]
    BY <1>1, <2>1 DEF EvalInv, TypeOK, Request
  <2> QED BY <2>2 DEF Land
<1>3. p.job[v].mode = "call" /\ p.job[v] \in Job
  BY <1>1 DEF Land
<1>4. i # None /\ i \in p.flying /\ i \in Ids /\ p.pc = "resolve" /\ Told(i, s, failed)
  BY <1>1, <1>3 DEF FlightsOK
<1> HIDE DEF p, i
<1>5. /\ l \in Job /\ l.mode = "run" /\ l.on = None /\ l.todo = p.job[v].todo \ {i}
      /\ DOMAIN l.sev = DOMAIN p.job[v].sev \cup {i}
      /\ \A k \in DOMAIN l.sev : Told(k, l.sev[k], l.failed)
  <2>1. \A k \in DOMAIN p.job[v].sev : Told(k, p.job[v].sev[k], p.job[v].failed)
    BY <1>1 DEF VulnsOK
  <2> QED BY <1>3, <1>4, <2>1, Learns, LearnsTruly
<1> HIDE DEF l
<1>6. /\ told \in [Versions -> Job] /\ told[v] = l
      /\ \A w \in Versions \ {v} : told[w] = p.job[w]
  BY <1>1, <1>5
<1> HIDE DEF told
<1>7. ASSUME NEW w \in Versions
      PROVE  /\ job[w] \in Job /\ job[w].sev = told[w].sev /\ job[w].todo = told[w].todo
             /\ job[w].failed = told[w].failed
             /\ told[w].mode = "wait" /\ told[w].on = i => job[w].mode = "run" /\ job[w].on = None
             /\ ~(told[w].mode = "wait" /\ told[w].on = i) => job[w] = told[w]
  <2>1. told[w] \in Job
    BY <1>6
  <2>2. [told[w] EXCEPT !.mode = "run", !.on = None] \in Job
    BY <2>1 DEF Job
  <2> QED BY <2>1, <2>2 DEF Close, Job
<1>8. job \in [Versions -> Job]
  <2>1. \A w \in Versions : job[w] \in Job
    BY <1>7
  <2> QED BY <2>1 DEF Close
<1> HIDE DEF job
<1>9. /\ known \in [Ids -> [sev : Bands, failed : BOOLEAN] \cup {None}] /\ flying \in SUBSET Ids
      /\ known[i].sev = s /\ known[i].failed = failed
      /\ \A k \in Ids \ {i} : known[k] = p.known[k]
  BY <1>1, <1>4
<1> HIDE DEF known
<1>10. /\ q \in Request /\ q.known = known /\ q.flying = flying /\ q.job = job
       /\ q.pc = p.pc /\ q.start = p.start /\ q.ask = p.ask /\ q.fetch = p.fetch
       /\ q.held = p.held /\ q.fallback = p.fallback /\ q.metas = p.metas
       /\ q.metaErr = p.metaErr /\ q.vulns = p.vulns /\ q.vulnErr = p.vulnErr
  BY <1>1, <1>8, <1>9 DEF Request
<1> HIDE DEF q
<1>11. MetasOK(q)
  BY <1>1, <1>10, MetasFrame
<1>12. FlightsOK(q)
  <2>1. ASSUME NEW w \in Versions
        PROVE  /\ job[w].mode \in {"wait", "call"} <=> job[w].on # None
               /\ job[w].on # None => job[w].on \in flying
               /\ job[w].mode = "call" => w # v /\ job[w] = p.job[w]
    <3>1. CASE w = v
      BY <1>5, <1>6, <1>7, <3>1
    <3>2. CASE w # v
      <4>1. told[w] = p.job[w]
        BY <1>6, <3>2
      <4>2. /\ p.job[w].mode \in {"wait", "call"} <=> p.job[w].on # None
            /\ p.job[w].on # None => p.job[w].on \in p.flying
            /\ ~(p.job[w].mode = "call" /\ p.job[w].on = i)
        BY <1>1, <1>3, <3>2 DEF FlightsOK, i
      <4>3. CASE p.job[w].mode = "wait" /\ p.job[w].on = i
        BY <1>7, <4>1, <4>3
      <4>4. CASE ~(p.job[w].mode = "wait" /\ p.job[w].on = i)
        <5>1. job[w] = p.job[w]
          BY <1>7, <4>1, <4>4
        <5>2. p.job[w].on # None => p.job[w].on # i
          BY <4>2, <4>4
        <5> QED BY <3>2, <4>2, <5>1, <5>2
      <4> QED BY <4>3, <4>4
    <3> QED BY <3>1, <3>2
  <2>2. ASSUME NEW k \in flying
        PROVE  /\ known[k] = None
               /\ \E w \in Versions : job[w].mode = "call" /\ job[w].on = k
    <3>1. PICK w \in Versions : p.job[w].mode = "call" /\ p.job[w].on = k
      BY <1>1 DEF FlightsOK
    <3>2. w # v
      BY <3>1 DEF i
    <3>3. job[w] = p.job[w]
      BY <1>6, <1>7, <3>1, <3>2
    <3>4. p.known[k] = None /\ k \in Ids
      BY <1>1 DEF FlightsOK
    <3> QED BY <1>9, <3>1, <3>3, <3>4
  <2>3. ASSUME NEW w \in Versions, NEW x \in Versions,
               job[w].mode = "call", job[x].mode = "call", job[w].on = job[x].on
        PROVE  w = x
    BY <1>1, <2>1, <2>3 DEF FlightsOK
  <2> QED BY <1>4, <1>10, <2>1, <2>2, <2>3 DEF FlightsOK
<1>13. VulnsOK(q)
  <2>1. \A k \in Ids : known[k] # None => Told(k, known[k].sev, known[k].failed)
    BY <1>1, <1>4, <1>9 DEF VulnsOK
  <2>2. ASSUME NEW w \in Versions
        PROVE  /\ \A k \in DOMAIN job[w].sev : Told(k, job[w].sev[k], job[w].failed)
               /\ job[w].mode # "done" => p.job[w].mode # "done"
               /\ p.job[w].mode # "done" => job[w].mode # "done"
               /\ p.job[w].todo \cup DOMAIN p.job[w].sev \subseteq job[w].todo \cup DOMAIN job[w].sev
    <3>1. CASE w = v
      BY <1>3, <1>5, <1>6, <1>7, <3>1
    <3>2. CASE w # v
      <4>1. told[w] = p.job[w]
        BY <1>6, <3>2
      <4>2. \A k \in DOMAIN p.job[w].sev : Told(k, p.job[w].sev[k], p.job[w].failed)
        BY <1>1 DEF VulnsOK
      <4> QED BY <1>7, <4>1, <4>2
    <3> QED BY <3>1, <3>2
  <2>3. \A w \in Versions : job[w].mode # "done" => \A k \in Ids :
          w \in Affects[k] /\ issued[k] < p.start => k \in job[w].todo \cup DOMAIN job[w].sev
    BY <1>1, <2>2 DEF VulnsOK
  <2>4. \A w \in p.ask : p.vulns[w] # None \/ w \in p.vulnErr \/ job[w].mode # "done"
    BY <1>1, <1>4, <2>2, RequestHas DEF VulnsOK
  <2> QED BY <1>1, <1>10, <2>1, <2>2, <2>3, <2>4 DEF VulnsOK
<1>14. AnswersOK(q)
  BY <1>4, <1>10 DEF AnswersOK
<1> QED BY <1>2, <1>10, <1>11, <1>12, <1>13, <1>14, OneMoves, RowsFrame, CountsFrame

LEMMA GetSeverityKeeps ==
  ASSUME EvalInv, NEW r \in Requests, NEW v \in Versions, GetSeverity(r, v) \/ GetSeverityFails(r, v)
  PROVE  EvalInv'
<1>1. req[r].job[v].mode = "call"
  BY DEF GetSeverity, GetSeverityFails, Land
<1>2. req[r].job[v].on \in Ids /\ req[r].pc = "resolve"
  BY <1>1, RequestHas DEF EvalInv, TypeOK, FlightsOK
<1>3. CASE GetSeverity(r, v)
  <2> DEFINE s == Severity[req[r].job[v].on]
  <2>1. s \in Bands /\ Told(req[r].job[v].on, s, FALSE) /\ Land(r, v, s, FALSE)
        /\ failures' \in 0..MaxFailures
    BY <1>2, <1>3, Constants, CountsFrame DEF Told, GetSeverity
  <2> HIDE DEF s
  <2> QED BY <2>1, LandKeeps
<1>4. CASE GetSeverityFails(r, v)
  <2>1. Unknown \in Bands /\ Told(req[r].job[v].on, Unknown, TRUE) /\ Land(r, v, Unknown, TRUE)
        /\ failures' \in 0..MaxFailures
    BY <1>4, Constants, CountsFrame DEF Told, GetSeverityFails
  <2> QED BY <2>1, LandKeeps
<1> QED BY <1>3, <1>4

LEMMA PutVulnsKeeps ==
  ASSUME EvalInv, NEW r \in Requests, NEW v \in Versions, PutVulns(r, v)
  PROVE  EvalInv'
<1> DEFINE p == req[r]
           j == p.job[v]
           job == [p.job EXCEPT ![v] = NoJob]
           vulns == [p.vulns EXCEPT ![v] = j.sev]
           row == [value |-> j.sev, at |-> p.start + VulnTTL]
           q == [p EXCEPT !.job = job, !.vulns = vulns]
<1>1. /\ p \in Request /\ MetasOK(p) /\ FlightsOK(p) /\ VulnsOK(p)
      /\ p.job \in [Versions -> Job] /\ p.vulns \in [Versions -> Severities \cup {None}]
      /\ p.start \in 0..MaxTime /\ p.start \in Nat /\ p.start <= clock /\ p.ask \in SUBSET Versions
      /\ vulnRow \in [Versions -> Row(Severities) \cup {None}]
  BY RequestHas, Constants DEF EvalInv, TypeOK, MetasOK
<1>2. /\ j.mode = "run" /\ j.todo = {} /\ j \in Job /\ j.failed \in BOOLEAN /\ j.sev \in Severities
      /\ UNCHANGED <<worldVars, metaRow, countVars>>
      /\ vulnRow' = IF j.failed THEN vulnRow ELSE [vulnRow EXCEPT ![v] = row]
  BY <1>1 DEF PutVulns, Job, Expires
<1>3. req' = [req EXCEPT ![r] = q]
  <2>1. req' = [req EXCEPT ![r].job[v] = NoJob, ![r].vulns[v] = j.sev]
    BY DEF PutVulns
  <2> QED BY <1>1, <2>1 DEF EvalInv, TypeOK, Request
<1>4. p.pc = "resolve" /\ j.on = None
  BY <1>1, <1>2 DEF FlightsOK
<1>5. /\ \A i \in DOMAIN j.sev : Told(i, j.sev[i], j.failed)
      /\ \A i \in Ids : v \in Affects[i] /\ issued[i] < p.start => i \in DOMAIN j.sev
  BY <1>1, <1>2 DEF VulnsOK
<1> HIDE DEF p
<1>6. /\ job \in [Versions -> Job] /\ job[v] = NoJob
      /\ \A w \in Versions \ {v} : job[w] = p.job[w]
      /\ vulns \in [Versions -> Severities \cup {None}] /\ vulns[v] = j.sev /\ vulns[v] # None
      /\ \A w \in Versions \ {v} : vulns[w] = p.vulns[w]
  BY <1>1, <1>2, TypeOfNoJob, NoneAssumption
<1>7. row \in Row(Severities) /\ row.value = j.sev /\ row.at = p.start + VulnTTL
  BY <1>1, <1>2, Constants DEF Row
<1> HIDE DEF row
<1>8. /\ vulnRow' \in [Versions -> Row(Severities) \cup {None}]
      /\ ~j.failed => vulnRow'[v] = row
      /\ \A w \in Versions : ~(w = v /\ ~j.failed) => vulnRow'[w] = vulnRow[w]
  BY <1>1, <1>2, <1>7
<1>9. VulnRowsOK'
  <2>1. \A i \in Ids : issued[i] \in Nat
    BY Constants DEF EvalInv, TypeOK
  <2> SUFFICES ASSUME NEW w \in Versions, vulnRow'[w] # None
               PROVE  /\ vulnRow'[w].at <= clock + VulnTTL
                      /\ \A i \in Ids : w \in Affects[i] /\ issued[i] + VulnTTL < vulnRow'[w].at
                           => Heeded(w, i, vulnRow'[w].value)
    BY <1>2 DEF VulnRowsOK, Heeded, worldVars
  <2>2. CASE w = v /\ ~j.failed
    <3>1. /\ vulnRow'[w].at = p.start + VulnTTL /\ vulnRow'[w].value = j.sev
          /\ p.start + VulnTTL <= clock + VulnTTL
      BY <1>1, <1>7, <1>8, <2>2, Constants DEF EvalInv, TypeOK
    <3>2. \A i \in Ids : issued[i] + VulnTTL < p.start + VulnTTL => issued[i] < p.start
      BY <1>1, <2>1, Constants
    <3> QED BY <1>5, <2>2, <3>1, <3>2 DEF Heeded, Told
  <2>3. CASE ~(w = v /\ ~j.failed)
    BY <1>8, <2>3 DEF EvalInv, VulnRowsOK
  <2> QED BY <2>2, <2>3
<1>10. TransientNotStored'
  <2> SUFFICES ASSUME policy.fetchSeverity, NEW w \in Versions, vulnRow'[w] # None,
                      NEW i \in DOMAIN vulnRow'[w].value
               PROVE  vulnRow'[w].value[i] = Severity[i]
    BY <1>2 DEF TransientNotStored, worldVars
  <2>1. CASE w = v /\ ~j.failed
    BY <1>5, <1>7, <1>8, <2>1 DEF Told
  <2>2. CASE ~(w = v /\ ~j.failed)
    BY <1>8, <2>2 DEF EvalInv, TransientNotStored
  <2> QED BY <2>1, <2>2
<1> HIDE DEF job, vulns
<1>11. /\ q \in Request /\ q.job = job /\ q.vulns = vulns
       /\ q.pc = p.pc /\ q.start = p.start /\ q.ask = p.ask /\ q.fetch = p.fetch
       /\ q.held = p.held /\ q.fallback = p.fallback /\ q.metas = p.metas
       /\ q.metaErr = p.metaErr /\ q.vulnErr = p.vulnErr /\ q.known = p.known
       /\ q.flying = p.flying
  BY <1>1, <1>6 DEF Request
<1> HIDE DEF q
<1>12. MetasOK(q)
  BY <1>1, <1>11, MetasFrame
<1>13. FlightsOK(q)
  <2>1. \A w \in Versions : job[w].mode # "done" => w # v /\ job[w] = p.job[w]
    BY <1>6, TypeOfNoJob
  <2>2. \A w \in Versions : /\ job[w].mode \in {"wait", "call"} <=> job[w].on # None
                            /\ job[w].on # None => job[w].on \in p.flying
    BY <1>1, <1>6, TypeOfNoJob DEF FlightsOK
  <2>3. \A i \in p.flying : \E w \in Versions : job[w].mode = "call" /\ job[w].on = i
    <3> SUFFICES ASSUME NEW i \in p.flying
                 PROVE  \E w \in Versions : job[w].mode = "call" /\ job[w].on = i
      OBVIOUS
    <3>1. PICK w \in Versions : p.job[w].mode = "call" /\ p.job[w].on = i
      BY <1>1 DEF FlightsOK
    <3> QED BY <1>2, <1>6, <3>1
  <2> QED BY <1>1, <1>4, <1>11, <2>1, <2>2, <2>3 DEF FlightsOK
<1>14. VulnsOK(q)
  <2>1. \A w \in Versions, i \in Ids :
          vulns[w] # None /\ w \in Affects[i] /\ issued[i] + VulnTTL <= p.start
            => Heeded(w, i, vulns[w])
    <3>1. \A i \in Ids : issued[i] + VulnTTL <= p.start => issued[i] < p.start
      BY <1>1, Constants DEF EvalInv, TypeOK
    <3>2. \A i \in Ids : v \in Affects[i] /\ issued[i] < p.start => Heeded(v, i, vulns[v])
      BY <1>5, <1>6 DEF Heeded, Told
    <3> QED BY <1>1, <1>6, <3>1, <3>2 DEF VulnsOK
  <2>2. \A w \in p.ask : vulns[w] # None \/ w \in p.vulnErr \/ job[w].mode # "done"
    BY <1>1, <1>4, <1>6 DEF VulnsOK
  <2>3. \A w \in Versions :
          /\ \A i \in DOMAIN job[w].sev : Told(i, job[w].sev[i], job[w].failed)
          /\ job[w].mode # "done" => \A i \in Ids :
               w \in Affects[i] /\ issued[i] < p.start => i \in job[w].todo \cup DOMAIN job[w].sev
    BY <1>1, <1>6, TypeOfNoJob, NoneKnown DEF VulnsOK
  <2> QED BY <1>1, <1>11, <2>1, <2>2, <2>3 DEF VulnsOK
<1>15. AnswersOK(q)
  BY <1>4, <1>11 DEF AnswersOK
<1> QED BY <1>2, <1>3, <1>8, <1>9, <1>10, <1>11, <1>12, <1>13, <1>14, <1>15,
           OneMoves, RowsFrame, CountsFrame DEF countVars

-----------------------------------------------------------------------------
(* The verdict.                                                            *)

LEMMA WorstIs ==
  ASSUME NEW D, D \subseteq {Allow, Warn, Block}, D # {}
  PROVE  Worst(D) \in D /\ (Block \in D => Worst(D) = Block)
<1>1. \A d \in D : d \in {0, 1, 2}
  BY DEF Allow, Warn, Block
<1>2. \E d \in D : \A e \in D : e <= d
  <2>1. CASE Block \in D
    BY <1>1, <2>1 DEF Block
  <2>2. CASE Block \notin D /\ Warn \in D
    BY <1>1, <2>2 DEF Block, Warn
  <2>3. CASE Block \notin D /\ Warn \notin D
    <3>1. \A e \in D : e = 0
      BY <1>1, <2>3 DEF Block, Warn
    <3> QED BY <3>1
  <2> QED BY <2>1, <2>2, <2>3
<1>3. Worst(D) \in D /\ \A e \in D : e <= Worst(D)
  BY <1>2 DEF Worst
<1> QED BY <1>1, <1>3 DEF Block

LEMMA ChecksAre ==
  ASSUME NEW v, NEW m, NEW now, NEW sev
  PROVE  LET D == CheckReleaseAge(v, m, now) \cup CheckLicense(v, m) \cup CheckCVE(sev)
         IN  D \subseteq {Allow, Warn, Block} /\ D # {}
<1>1. CheckReleaseAge(v, m, now) \subseteq {Allow, Warn, Block} /\ CheckReleaseAge(v, m, now) # {}
  BY DEF CheckReleaseAge
<1>2. CheckLicense(v, m) \subseteq {Allow, Warn, Block}
  BY DEF CheckLicense
<1>3. CheckCVE(sev) \subseteq {Allow, Warn, Block}
  BY DEF CheckCVE
<1> QED BY <1>1, <1>2, <1>3

LEMMA DecisionIs ==
  ASSUME EvalInv, NEW r \in Requests, NEW v \in req[r].ask, req[r].pc = "resolve",
         \A w \in Versions : req[r].job[w].mode = "done"
  PROVE  /\ Decision(r, v) \in {Allow, Warn, Block}
         /\ Decision(r, v) # Block /\ v \notin AllowPins /\ ~policy.failOpen => Sound(req[r], v)
<1> DEFINE p == req[r]
           D == CheckReleaseAge(v, p.metas[v], p.start)
                \cup CheckLicense(v, p.metas[v]) \cup CheckCVE(p.vulns[v])
<1>1. D \subseteq {Allow, Warn, Block} /\ D # {}
  BY ChecksAre
<1>2. Worst(D) \in {Allow, Warn, Block} /\ (Block \in D => Worst(D) = Block)
  <2> HIDE DEF D
  <2> QED BY <1>1, WorstIs
<1>3. /\ p \in Request /\ MetasOK(p) /\ VulnsOK(p) /\ p.ask \in SUBSET Versions /\ p.start \in Nat
  BY RequestHas, Constants DEF EvalInv, TypeOK
<1>4. ASSUME Decision(r, v) # Block, v \notin AllowPins, ~policy.failOpen
      PROVE  Sound(p, v)
  <2>1. v \notin p.metaErr /\ v \notin p.vulnErr /\ Block \notin D
    BY <1>2, <1>4 DEF Decision, Degraded
  <2>2. v \in Versions /\ p.metas[v] # None /\ p.vulns[v] # None /\ p.fetch = {}
    BY <1>3, <2>1 DEF MetasOK, VulnsOK
  <2>3. ASSUME ~policy.warnCVE, NEW i \in Ids, v \in Affects[i], Offends(Severity[i])
        PROVE  issued[i] + VulnTTL > p.start
    <3>1. Block \notin CheckCVE(p.vulns[v])
      BY <2>1
    <3>2. \A k \in DOMAIN p.vulns[v] : ~Offends(p.vulns[v][k])
      BY <2>3, <3>1 DEF CheckCVE
    <3>3. Offends(Unknown)
      BY DEF Offends
    <3>4. ~Heeded(v, i, p.vulns[v])
      BY <2>3, <3>2, <3>3 DEF Heeded
    <3>5. ~(issued[i] + VulnTTL <= p.start)
      BY <1>3, <2>2, <2>3, <3>4 DEF VulnsOK
    <3> QED BY <1>3, <3>5, Constants DEF EvalInv, TypeOK
  <2>4. ASSUME ~policy.warnAge
        PROVE  \/ Published[v] + MinAge <= p.start
               \/ ~policy.blockUnknown /\ (v \in undated \/ datedAt[v] + NotFoundRefresh > p.start)
    <3>1. Block \notin CheckReleaseAge(v, p.metas[v], p.start)
      BY <2>1
    <3>2. Published[v] \in Nat /\ Published[v] <= p.start
      BY <1>3, <2>2, Constants DEF MetasOK
    <3>3. CASE MinAge = 0
      BY <1>3, <3>2, <3>3
    <3>4. CASE MinAge # 0 /\ ~p.metas[v].known
      <4>1. ~policy.blockUnknown
        BY <3>1, <3>4 DEF CheckReleaseAge
      <4> QED BY <1>3, <2>2, <3>4, <4>1 DEF MetasOK
    <3>5. CASE MinAge # 0 /\ p.metas[v].known
      <4>1. p.start - Published[v] >= MinAge
        BY <2>4, <3>1, <3>5 DEF CheckReleaseAge
      <4> QED BY <1>3, <3>2, <4>1, Constants
    <3> QED BY <3>3, <3>4, <3>5
  <2> QED BY <2>3, <2>4 DEF Sound
<1>5. Decision(r, v) \in {Allow, Warn, Block}
  BY <1>2 DEF Decision, Degraded
<1> QED BY <1>4, <1>5

LEMMA DecideKeeps == ASSUME EvalInv, NEW r \in Requests, Decide(r) PROVE EvalInv'
<1> DEFINE p == req[r]
           answer == [v \in Versions |-> IF v \in p.ask THEN Decision(r, v) ELSE Block]
           q == [Idle EXCEPT !.pc = "done", !.start = p.start, !.ask = p.ask, !.answer = answer]
<1>1. /\ req' = [req EXCEPT ![r] = q] /\ UNCHANGED <<worldVars, metaRow, vulnRow, countVars>>
      /\ p.pc = "resolve" /\ \A v \in Versions : p.job[v].mode = "done"
  BY DEF Decide
<1>2. /\ p \in Request /\ MetasOK(p) /\ p.ask \in SUBSET Versions /\ p.start \in 0..MaxTime
  BY RequestHas DEF EvalInv, TypeOK
<1>3. \A v \in p.ask :
        /\ Decision(r, v) \in {Allow, Warn, Block}
        /\ Decision(r, v) # Block /\ v \notin AllowPins /\ ~policy.failOpen => Sound(p, v)
  BY <1>1, DecisionIs
<1> HIDE DEF p
<1>4. /\ answer \in [Versions -> {Allow, Warn, Block}]
      /\ \A v \in p.ask : answer[v] # Block /\ v \notin AllowPins /\ ~policy.failOpen => Sound(p, v)
  BY <1>2, <1>3
<1> HIDE DEF answer
<1>5. /\ q \in Request /\ q.pc = "done" /\ q.start = p.start /\ q.ask = p.ask /\ q.answer = answer
      /\ q.fetch = {} /\ q.flying = {} /\ q.job = Idle.job /\ q.held = Idle.held
      /\ q.fallback = Idle.fallback /\ q.metas = Idle.metas /\ q.known = Idle.known
      /\ q.vulns = Idle.vulns
  BY <1>2, <1>4, TypeOfIdle DEF Request
<1> HIDE DEF q
<1>6. MetasOK(q)
  BY <1>2, <1>5, TypeOfIdle DEF MetasOK
<1>7. FlightsOK(q)
  BY <1>5, TypeOfIdle, TypeOfNoJob DEF FlightsOK
<1>8. VulnsOK(q)
  BY <1>5, TypeOfIdle, TypeOfNoJob, NoneKnown DEF VulnsOK
<1>9. AnswersOK(q)
  BY <1>4, <1>5 DEF AnswersOK, Sound
<1> QED BY <1>1, <1>5, <1>6, <1>7, <1>8, <1>9, OneMoves, RowsFrame, CountsFrame DEF countVars

-----------------------------------------------------------------------------
\* Every step of the proxy, of deps.dev and of OSV keeps the invariant.
LEMMA EvalSteps == EvalInv /\ [Next]_vars => EvalInv'
<1> SUFFICES ASSUME EvalInv, [Next]_vars PROVE EvalInv'
  OBVIOUS
<1>1. CASE World
  BY <1>1, WorldKeeps
<1>2. ASSUME NEW r \in Requests, NEW V \in Asks, Begin(r, V) PROVE EvalInv'
  BY <1>2, BeginKeeps
<1>3. ASSUME NEW r \in Requests, Work(r) PROVE EvalInv'
  <2>1. CASE GetVulns(r)
    BY <2>1, GetVulnsKeeps
  <2>2. CASE QueryBatch(r)
    BY <2>2, QueryBatchKeeps
  <2>3. CASE QueryBatchFails(r)
    BY <2>3, QueryBatchFailsKeeps
  <2>4. CASE Decide(r)
    BY <2>4, DecideKeeps
  <2>5. ASSUME NEW v \in Versions, GetVersion(r, v) PROVE EvalInv'
    BY <2>5, GetVersionKeeps
  <2>6. ASSUME NEW v \in Versions, GetVersionFails(r, v) PROVE EvalInv'
    BY <2>6, GetVersionFailsKeeps
  <2>7. ASSUME NEW v \in Versions, PutMeta(r, v) PROVE EvalInv'
    BY <2>7, PutMetaKeeps
  <2>8. ASSUME NEW v \in Versions, GetSeverity(r, v) \/ GetSeverityFails(r, v) PROVE EvalInv'
    BY <2>8, GetSeverityKeeps
  <2>9. ASSUME NEW v \in Versions, PutVulns(r, v) PROVE EvalInv'
    BY <2>9, PutVulnsKeeps
  <2>10. ASSUME NEW v \in Versions, NEW i \in Ids, Resolve(r, v, i) PROVE EvalInv'
    BY <2>10, ResolveKeeps
  <2> QED BY <1>3, <2>1, <2>2, <2>3, <2>4, <2>5, <2>6, <2>7, <2>8, <2>9, <2>10 DEF Work
<1>4. CASE UNCHANGED vars
  <2>1. UNCHANGED <<clock, policy, datedAt, undated, issued, metaRow, vulnRow, req, asked, failures>>
    BY <1>4 DEF vars
  <2>2. (\A r \in Requests :
           MetasOK(req[r]) /\ FlightsOK(req[r]) /\ VulnsOK(req[r]) /\ AnswersOK(req[r]))'
    BY <2>1 DEF EvalInv, MetasOK, FlightsOK, VulnsOK, AnswersOK, Undatable, Told, Heeded, Sound
  <2>3. (TypeOK /\ MetaRowsOK /\ VulnRowsOK /\ TransientNotStored)'
    BY <2>1 DEF EvalInv, TypeOK, MetaRowsOK, VulnRowsOK, TransientNotStored, Undatable, Heeded
  <2> QED BY <2>2, <2>3 DEF EvalInv
<1> QED BY <1>1, <1>2, <1>3, <1>4 DEF Next

LEMMA EvalAlways == Spec => []EvalInv
  BY EvalStarts, EvalSteps, PTL DEF Spec

-----------------------------------------------------------------------------
\* What the goroutines of a request share (resolve of EvaluateMany): an advisory is looked
\* up once at a time and not again, and whoever waits is woken.
THEOREM SharesLookups == Spec => []LookupsShared
<1>1. EvalInv => LookupsShared
  <2> SUFFICES ASSUME EvalInv PROVE SingleFlight /\ NobodyWaitsInVain
    BY DEF LookupsShared, EvalInv
  <2>1. \A r \in Requests : FlightsOK(req[r])
    BY DEF EvalInv
  <2>2. NobodyWaitsInVain
    BY <2>1 DEF FlightsOK, NobodyWaitsInVain
  <2>3. ASSUME NEW r \in Requests, NEW i \in Ids
        PROVE  LET callers == {v \in Versions : req[r].job[v].mode = "call" /\ req[r].job[v].on = i}
               IN Cardinality(callers) <= 1 /\ (callers # {} => req[r].known[i] = None)
    <3> DEFINE callers == {v \in Versions : req[r].job[v].mode = "call" /\ req[r].job[v].on = i}
    <3>1. ASSUME callers = {} PROVE Cardinality(callers) <= 1
      <4> HIDE DEF callers
      <4> QED BY <3>1, FS_EmptySet
    <3>2. ASSUME callers # {} PROVE Cardinality(callers) <= 1 /\ req[r].known[i] = None
      <4>1. PICK v \in Versions : req[r].job[v].mode = "call" /\ req[r].job[v].on = i
        BY <3>2
      <4>2. callers = {v}
        BY <2>1, <4>1 DEF FlightsOK
      <4>3. req[r].known[i] = None
        BY <2>1, <4>1 DEF FlightsOK
      <4>4. Cardinality({v}) = 1
        BY FS_Singleton
      <4> HIDE DEF callers
      <4> QED BY <4>2, <4>3, <4>4
    <3>3. Cardinality(callers) <= 1 /\ (callers # {} => req[r].known[i] = None)
      BY <3>1, <3>2
    <3> QED BY <3>3
  <2>4. SingleFlight
    BY <2>3 DEF SingleFlight
  <2> QED BY <2>2, <2>4
<1> QED BY <1>1, EvalAlways, PTL

\* A severity that is stored is one that OSV gave (PutVulns after a failed lookup).
THEOREM StoresNoTransient == Spec => []TransientNotStored
<1>1. EvalInv => TransientNotStored
  BY DEF EvalInv
<1> QED BY <1>1, EvalAlways, PTL

\* Neither cache, nor an evaluation that wrote late, hides an advisory that has been out
\* for the life of a row (fillVulns).
THEOREM HeedsAdvisories == Spec => []AdvisoriesInForce
<1>1. EvalInv => AdvisoriesInForce
  <2> SUFFICES ASSUME EvalInv, ~policy.warnCVE, NEW r \in Requests, NEW v \in Versions,
                      NEW i \in Ids, Served(r, v), v \in Affects[i], Offends(Severity[i])
               PROVE  issued[i] + VulnTTL > req[r].start
    BY DEF AdvisoriesInForce
  <2>1. AnswersOK(req[r])
    BY DEF EvalInv
  <2> QED BY <2>1 DEF AnswersOK, Sound, Served
<1> QED BY <1>1, EvalAlways, PTL

\* Nor does either let a version through inside its cooldown, but for the grace that the
\* policy gives to unknown ages (fillMetadata).
THEOREM HoldsCooldown == Spec => []CooldownHolds
<1>1. EvalInv => CooldownHolds
  <2> SUFFICES ASSUME EvalInv, ~policy.warnAge, NEW r \in Requests, NEW v \in Versions, Served(r, v)
               PROVE  Published[v] + MinAge <= req[r].start \/ Tolerated(r, v)
    BY DEF CooldownHolds
  <2>1. AnswersOK(req[r])
    BY DEF EvalInv
  <2> QED BY <2>1 DEF AnswersOK, Sound, Served, Tolerated
<1> QED BY <1>1, EvalAlways, PTL
=============================================================================
