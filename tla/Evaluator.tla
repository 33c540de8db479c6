----------------------------- MODULE Evaluator ------------------------------
(* The verdicts of the dependency proxy: EvaluateMany of                   *)
(* containers/cooldeps/internal/eval/eval.go with the engine of            *)
(* internal/policy, the two tiers of internal/cache and what it asks of    *)
(* deps.dev and of OSV.  Requests run at once and share the two tiers,     *)
(* which say what was true when they were filled; within a request one     *)
(* goroutine per version resolves severities, and those that need the same *)
(* advisory share one lookup.  A step is a database transaction, a section *)
(* under a mutex, or the answer of a call.                                 *)
(***************************************************************************)
EXTENDS Naturals, FiniteSets

CONSTANTS
  Versions, Ids,   \* of the package; advisories
  Requests,        \* requests at once (a bound)
  Asks,            \* what a request may be for: one version (npm, Go) or a listing (PyPI)
  None,
  Published,       \* when each version was published
  Listed,          \* versions deps.dev knows, with their date, from the start
  License,         \* of each version: [any |-> of an OR expression, of |-> its operands]
  Affects,         \* the versions an advisory is about
  Severity,        \* of each advisory, 0..5 (5 is Unknown, above Critical)
  Policies,        \* policies to consider; one is in force
  AllowLicense, BlockLicense, AllowPins, BlockPins,
  MinAge, MaxSeverity,
  VulnTTL, NotFoundRefresh,
  MetaTTL,         \* 0: a row that was found is never fetched again
  MaxTime, MaxRequests, MaxFailures, \* bounds on the clock, on requests, on failed calls
  MaxAtOnce        \* a bound on the versions that are being evaluated at once

Bands == 0..5
Unknown == 5
Allow == 0
Warn == 1
Block == 2
Never == MaxTime + 1

ASSUME EvaluatorAssumption ==
  /\ Asks \subseteq (SUBSET Versions) \ {{}}
  /\ Published \in [Versions -> 0..MaxTime] /\ Listed \subseteq Versions
  /\ Affects \in [Ids -> SUBSET Versions] /\ Severity \in [Ids -> Bands]
  /\ MaxSeverity \in Bands
  /\ VulnTTL \in Nat \ {0} /\ NotFoundRefresh \in Nat \ {0}
  /\ MetaTTL \in Nat /\ MinAge \in Nat
  /\ MaxTime \in Nat /\ MaxRequests \in Nat /\ MaxFailures \in Nat

VARIABLES
  clock,
  policy,
  datedAt,    \* when deps.dev began to give each version's date
  undated,    \* versions deps.dev lists, or listed at first, without a date
  issued,     \* when OSV published each advisory
  metaRow,    \* bucket "meta"
  vulnRow,    \* bucket "vuln"
  req,
  asked,      \* requests begun
  failures    \* calls that failed

vars == <<clock, policy, datedAt, undated, issued, metaRow, vulnRow, req, asked, failures>>
worldVars == <<clock, policy, datedAt, undated, issued>>
countVars == <<asked, failures>>

Meta == [found : BOOLEAN, known : BOOLEAN]
Row(value) == [value : value, at : 0..MaxTime + VulnTTL]
Severities == UNION {[S -> Bands] : S \in SUBSET Ids}
NoSeverities == [i \in {} |-> Unknown]
ASSUME NoneAssumption == None \notin Ids /\ None \notin Meta /\ None \notin Severities

Job == [mode : {"run", "wait", "call", "done"}, todo : SUBSET Ids,
        on : Ids \cup {None}, sev : Severities, failed : BOOLEAN]
NoJob == [mode |-> "done", todo |-> {}, on |-> None, sev |-> NoSeverities, failed |-> FALSE]

Request == [
  pc : {"idle", "meta", "query", "resolve", "done"},
  start : 0..MaxTime, ask : SUBSET Versions,
  fetch : SUBSET Versions,                    \* metadata not there yet
  fallback : [Versions -> Meta \cup {None}],  \* stale rows to fall back on
  held : [Versions -> Meta \cup {None}],      \* answers not stored yet
  metas : [Versions -> Meta \cup {None}], metaErr : SUBSET Versions,
  vulns : [Versions -> Severities \cup {None}], vulnErr : SUBSET Versions,
  job : [Versions -> Job],
  known : [Ids -> [sev : Bands, failed : BOOLEAN] \cup {None}], \* sevCache
  flying : SUBSET Ids,                                          \* inflight
  answer : [Versions -> {Allow, Warn, Block}]]

Nothing == [v \in Versions |-> None]
Idle == [pc |-> "idle", start |-> 0, ask |-> {}, fetch |-> {}, fallback |-> Nothing,
         held |-> Nothing, metas |-> Nothing, metaErr |-> {}, vulns |-> Nothing,
         vulnErr |-> {}, job |-> [v \in Versions |-> NoJob],
         known |-> [i \in Ids |-> None], flying |-> {}, answer |-> [v \in Versions |-> Block]]

TypeOK ==
  /\ clock \in 0..MaxTime /\ policy \in Policies
  /\ datedAt \in [Versions -> 0..Never] /\ undated \in SUBSET Versions
  /\ issued \in [Ids -> 0..Never]
  /\ metaRow \in [Versions -> Row(Meta) \cup {None}]
  /\ vulnRow \in [Versions -> Row(Severities) \cup {None}]
  /\ req \in [Requests -> Request]
  /\ \A r \in Requests, v \in Versions :
       req[r].job[v].mode \in {"wait", "call"} <=> req[r].job[v].on # None
  /\ asked \in 0..MaxRequests /\ failures \in 0..MaxFailures

Init ==
  /\ clock = 0 /\ policy \in Policies
  /\ datedAt = [v \in Versions |-> IF v \in Listed THEN Published[v] ELSE Never]
  /\ undated = {}
  /\ issued = [i \in Ids |-> Never]
  /\ metaRow = Nothing /\ vulnRow = Nothing
  /\ req = [r \in Requests |-> Idle]
  /\ asked = 0 /\ failures = 0

-----------------------------------------------------------------------------
(* The world: time passes, deps.dev comes to know a version (perhaps       *)
(* without its date at first), an advisory is published.                   *)
Tick ==
  /\ clock < MaxTime /\ clock' = clock + 1
  /\ UNCHANGED <<policy, datedAt, undated, issued, metaRow, vulnRow, req, countVars>>

ListUndated(v) ==
  /\ Published[v] <= clock /\ datedAt[v] = Never /\ v \notin undated
  /\ undated' = undated \cup {v}
  /\ UNCHANGED <<clock, policy, datedAt, issued, metaRow, vulnRow, req, countVars>>

ListDated(v) ==
  /\ Published[v] <= clock /\ datedAt[v] = Never
  /\ datedAt' = [datedAt EXCEPT ![v] = clock]
  /\ UNCHANGED <<clock, policy, undated, issued, metaRow, vulnRow, req, countVars>>

Issue(i) ==
  /\ issued[i] = Never
  /\ issued' = [issued EXCEPT ![i] = clock]
  /\ UNCHANGED <<clock, policy, datedAt, undated, metaRow, vulnRow, req, countVars>>

-----------------------------------------------------------------------------
(* The engine.                                                             *)
LicenseAllowed(l) == l \notin BlockLicense /\ (AllowLicense = {} \/ l \in AllowLicense)
EvalLicense(e) ==
  IF e.any THEN \E l \in e.of : LicenseAllowed(l) ELSE \A l \in e.of : LicenseAllowed(l)

CheckLicense(v, m) ==
  IF ~m.found \/ License[v].of = {} THEN {IF policy.warnUnknown THEN Warn ELSE Allow}
  ELSE {IF EvalLicense(License[v]) THEN Allow ELSE Block}

CheckReleaseAge(v, m, now) ==
  IF MinAge = 0 THEN {Allow}
  ELSE IF ~m.known THEN {IF policy.blockUnknown THEN Block ELSE Warn}
  ELSE IF now - Published[v] >= MinAge THEN {Allow}
  ELSE {IF policy.warnAge THEN Warn ELSE Block}

Offends(s) == s = Unknown \/ s >= MaxSeverity
CheckCVE(sev) ==
  IF \E i \in DOMAIN sev : Offends(sev[i]) THEN {IF policy.warnCVE THEN Warn ELSE Block}
  ELSE {Allow}

Worst(D) == CHOOSE d \in D : \A e \in D : e <= d
Degraded == IF policy.failOpen THEN Warn ELSE Block

\* A block pin, then an allow pin, then the rest.
Decision(r, v) ==
  IF v \in BlockPins THEN Block
  ELSE IF v \in AllowPins THEN Allow
  ELSE IF v \in req[r].metaErr \cup req[r].vulnErr THEN Degraded
  ELSE Worst(CheckReleaseAge(v, req[r].metas[v], req[r].start)
             \cup CheckLicense(v, req[r].metas[v]) \cup CheckCVE(req[r].vulns[v]))

-----------------------------------------------------------------------------
(* fillMetadata.  The rows of a request's versions are read one after      *)
(* another; each is a key of its own, so that here they are read at once.  *)
Fresh(row, now) ==
  IF row.value.found THEN MetaTTL = 0 \/ now - row.at < MetaTTL
  ELSE now - row.at < NotFoundRefresh

AnyRow(row) == row # None \* a mutant: that it is not known is good enough, too
Fallback(row) == row # None /\ row.value.found

UnderWay == {p \in Requests \X Versions : req[p[1]].pc # "done" /\ p[2] \in req[p[1]].ask}

Begin(r, V) ==
  LET fresh == {v \in V : metaRow[v] # None /\ Fresh(metaRow[v], clock)} IN
  /\ req[r].pc \in {"idle", "done"} /\ \A v \in V : Published[v] <= clock
  /\ asked < MaxRequests /\ asked' = asked + 1
  /\ Cardinality(UnderWay) + Cardinality(V) <= MaxAtOnce
  /\ req' = [req EXCEPT ![r] = [Idle EXCEPT
       !.pc = "meta", !.start = clock, !.ask = V, !.fetch = V \ fresh,
       !.metas = [v \in Versions |-> IF v \in fresh THEN metaRow[v].value ELSE None],
       !.fallback = [v \in Versions |->
          IF v \in V \ fresh /\ Fallback(metaRow[v]) THEN metaRow[v].value ELSE None]]]
  /\ UNCHANGED <<worldVars, metaRow, vulnRow, failures>>

\* What deps.dev says of a version: a 404 is `not found`.
Upstream(v) == [found |-> datedAt[v] # Never \/ v \in undated, known |-> datedAt[v] # Never]

GetVersion(r, v) ==
  /\ v \in req[r].fetch /\ req[r].held[v] = None
  /\ req' = [req EXCEPT ![r].held[v] = Upstream(v)]
  /\ UNCHANGED <<worldVars, metaRow, vulnRow, countVars>>

Failing == failures < MaxFailures /\ failures' = failures + 1

\* Four retries later: the client gives up, or its request was cancelled.
GetVersionFails(r, v) ==
  /\ v \in req[r].fetch /\ req[r].held[v] = None /\ Failing
  /\ req' = [req EXCEPT
       ![r].fetch = @ \ {v},
       ![r].metas[v] = req[r].fallback[v],
       ![r].metaErr = IF req[r].fallback[v] = None THEN @ \cup {v} ELSE @]
  /\ UNCHANGED <<worldVars, metaRow, vulnRow, asked>>

\* The row bears the time the REQUEST began.
PutMeta(r, v) ==
  /\ v \in req[r].fetch /\ req[r].held[v] # None
  /\ metaRow' = [metaRow EXCEPT ![v] = [value |-> req[r].held[v], at |-> req[r].start]]
  /\ req' = [req EXCEPT ![r].fetch = @ \ {v}, ![r].held[v] = None,
                        ![r].metas[v] = req[r].held[v]]
  /\ UNCHANGED <<worldVars, vulnRow, countVars>>

-----------------------------------------------------------------------------
(* fillVulns.                                                              *)
Expired(row, now) == now >= row.at

GetVulns(r) ==
  LET cached == {v \in req[r].ask : vulnRow[v] # None /\ ~Expired(vulnRow[v], req[r].start)} IN
  /\ req[r].pc = "meta" /\ req[r].fetch = {}
  /\ req' = [req EXCEPT
       ![r].pc = IF cached = req[r].ask THEN "resolve" ELSE "query",
       ![r].vulns = [v \in Versions |-> IF v \in cached THEN vulnRow[v].value ELSE None]]
  /\ UNCHANGED <<worldVars, metaRow, vulnRow, countVars>>

Need(r) == {v \in req[r].ask : req[r].vulns[v] = None}
Advisories(v) == {i \in Ids : v \in Affects[i] /\ issued[i] # Never}

QueryBatch(r) ==
  /\ req[r].pc = "query"
  /\ req' = [req EXCEPT ![r].pc = "resolve",
       ![r].job = [v \in Versions |-> IF v \in Need(r)
                     THEN [NoJob EXCEPT !.mode = "run", !.todo = Advisories(v)] ELSE NoJob]]
  /\ UNCHANGED <<worldVars, metaRow, vulnRow, countVars>>

\* Also when the response has fewer results than there were queries.
QueryBatchFails(r) ==
  /\ req[r].pc = "query" /\ Failing
  /\ req' = [req EXCEPT ![r].pc = "resolve", ![r].vulnErr = Need(r)]
  /\ UNCHANGED <<worldVars, metaRow, vulnRow, asked>>

Learn(j, i, s, failed) ==
  [j EXCEPT !.mode = "run", !.on = None, !.todo = @ \ {i},
            !.sev = [k \in DOMAIN @ \cup {i} |-> IF k = i THEN s ELSE @[k]],
            !.failed = @ \/ failed]

\* resolve(id), under sevMu: the answer is there, or is on its way, or is asked for.
ForgetsFailure(known) == FALSE \* a mutant: who shares a failed lookup is not told it failed
Remembered(known) == known.failed
NobodyFlies(r, i) == FALSE     \* a mutant: everybody asks
InFlight(r, i) == i \in req[r].flying
Resolve(r, v, i) ==
  /\ req[r].job[v].mode = "run" /\ i \in req[r].job[v].todo
  /\ IF ~policy.fetchSeverity
     THEN req' = [req EXCEPT ![r].job[v] = Learn(@, i, Unknown, FALSE)]
     ELSE IF req[r].known[i] # None
     THEN req' = [req EXCEPT ![r].job[v] =
                    Learn(@, i, req[r].known[i].sev, Remembered(req[r].known[i]))]
     ELSE IF InFlight(r, i)
     THEN req' = [req EXCEPT ![r].job[v] = [@ EXCEPT !.mode = "wait", !.on = i]]
     ELSE req' = [req EXCEPT ![r].job[v] = [@ EXCEPT !.mode = "call", !.on = i],
                             ![r].flying = @ \cup {i}]
  /\ UNCHANGED <<worldVars, metaRow, vulnRow, countVars>>

\* The answer, under sevMu: it is remembered and the channel is closed, on which
\* those who wait for it look again.
LeavesOpen(jobs, i) == jobs \* a mutant: the channel is never closed
Close(jobs, i) ==
  [v \in Versions |-> IF jobs[v].mode = "wait" /\ jobs[v].on = i
                      THEN [jobs[v] EXCEPT !.mode = "run", !.on = None] ELSE jobs[v]]

Land(r, v, s, failed) ==
  LET i == req[r].job[v].on
      told == [req[r].job EXCEPT ![v] = Learn(@, i, s, failed)] IN
  /\ req[r].job[v].mode = "call"
  /\ req' = [req EXCEPT ![r].known[i] = [sev |-> s, failed |-> failed],
                        ![r].flying = @ \ {i}, ![r].job = Close(told, i)]
  /\ UNCHANGED <<worldVars, metaRow, vulnRow, asked>>

GetSeverity(r, v) ==
  /\ req[r].job[v].on # None /\ Land(r, v, Severity[req[r].job[v].on], FALSE)
  /\ UNCHANGED failures
GetSeverityFails(r, v) == Failing /\ Land(r, v, Unknown, TRUE)

\* The row is good until VulnTTL after the request BEGAN.
FromNow(r) == clock + VulnTTL \* a mutant: from when it is stored
Expires(r) == req[r].start + VulnTTL
PutVulns(r, v) ==
  LET j == req[r].job[v] IN
  /\ j.mode = "run" /\ j.todo = {}
  /\ req' = [req EXCEPT ![r].job[v] = NoJob, ![r].vulns[v] = j.sev]
  /\ vulnRow' = IF j.failed THEN vulnRow
                ELSE [vulnRow EXCEPT ![v] = [value |-> j.sev, at |-> Expires(r)]]
  /\ UNCHANGED <<worldVars, metaRow, countVars>>

Decide(r) ==
  /\ req[r].pc = "resolve" /\ \A v \in Versions : req[r].job[v].mode = "done"
  /\ req' = [req EXCEPT ![r] = [Idle EXCEPT !.pc = "done", !.start = req[r].start,
       !.ask = req[r].ask, !.answer = [v \in Versions |-> IF v \in req[r].ask THEN Decision(r, v) ELSE Block]]]
  /\ UNCHANGED <<worldVars, metaRow, vulnRow, countVars>>

-----------------------------------------------------------------------------
Work(r) ==
  \/ GetVulns(r) \/ QueryBatch(r) \/ QueryBatchFails(r) \/ Decide(r)
  \/ \E v \in Versions :
       \/ GetVersion(r, v) \/ GetVersionFails(r, v) \/ PutMeta(r, v)
       \/ GetSeverity(r, v) \/ GetSeverityFails(r, v) \/ PutVulns(r, v)
       \/ \E i \in Ids : Resolve(r, v, i)

World ==
  \/ Tick
  \/ \E v \in Versions : ListUndated(v) \/ ListDated(v)
  \/ \E i \in Ids : Issue(i)

Next ==
  \/ World
  \/ \E r \in Requests :
       \/ Work(r)
       \/ \E V \in Asks : Begin(r, V)

Spec == Init /\ [][Next]_vars

-----------------------------------------------------------------------------
Served(r, v) ==
  /\ req[r].pc = "done" /\ v \in req[r].ask /\ req[r].answer[v] # Block
  /\ v \notin AllowPins /\ ~policy.failOpen

(* An advisory that has been out for the life of a vuln row when a request *)
(* begins is heeded by that request, whatever the cache and whichever of   *)
(* two racing evaluations wrote last (fillVulns, PutVulns).                *)
AdvisoriesInForce ==
  ~policy.warnCVE =>
    \A r \in Requests, v \in Versions, i \in Ids :
      Served(r, v) /\ v \in Affects[i] /\ Offends(Severity[i])
        => issued[i] + VulnTTL > req[r].start

(* A version is served inside its cooldown only where the policy lets      *)
(* unknown ages pass and deps.dev gave no date until NotFoundRefresh       *)
(* before: neither an outage nor a race of two evaluations, of which the   *)
(* slower one knows less, prolongs that (fillMetadata, PutMeta).           *)
Tolerated(r, v) ==
  ~policy.blockUnknown /\ (v \in undated \/ datedAt[v] + NotFoundRefresh > req[r].start)
CooldownHolds ==
  ~policy.warnAge =>
    \A r \in Requests, v \in Versions :
      Served(r, v) => Published[v] + MinAge <= req[r].start \/ Tolerated(r, v)

(* A severity that is remembered is one OSV gave: a failed lookup, one's   *)
(* own or one shared, is never stored as Unknown (config-schema.md 7.4).   *)
TransientNotStored ==
  policy.fetchSeverity =>
    \A v \in Versions : vulnRow[v] # None =>
      \A i \in DOMAIN vulnRow[v].value : vulnRow[v].value[i] = Severity[i]

(* The goroutines of a request make one lookup of an advisory, together.   *)
SingleFlight ==
  \A r \in Requests, i \in Ids :
    LET callers == {v \in Versions : req[r].job[v].mode = "call" /\ req[r].job[v].on = i} IN
    /\ Cardinality(callers) <= 1
    /\ callers # {} => req[r].known[i] = None

(* No goroutine waits for a lookup that nobody makes, or for a channel     *)
(* that is not going to be closed: every request comes to an answer.       *)
NobodyWaitsInVain ==
  \A r \in Requests, v \in Versions :
    req[r].job[v].mode = "wait" =>
      \E w \in Versions : req[r].job[w].mode = "call" /\ req[r].job[w].on = req[r].job[v].on

(* What the goroutines of a request share (resolve, sevMu, inflight): each *)
(* advisory is looked up once at a time and not again, and whoever waits   *)
(* is woken.  (With the types of the variables.)                           *)
LookupsShared == TypeOK /\ SingleFlight /\ NobodyWaitsInVain
=============================================================================
