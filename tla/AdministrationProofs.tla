------------------------ MODULE AdministrationProofs ------------------------
(* Proofs about the administrators' pages.  OwnershipTransfer, for any     *)
(* people, any number of submissions at once and any bounds: the row       *)
(* follows the repository, and a transfer that says it succeeded did,      *)
(* whatever failed or was repaired by hand before.  ProjectHealth, for any *)
(* projects, lookups and pages: what a page calls green and does not warn  *)
(* of was seen to give no reason, not long ago.                            *)
(***************************************************************************)
EXTENDS OwnershipTransfer, ProjectHealth, FiniteSetTheorems, TLAPS

\* Idle submissions, and those that are under way.
Submissions == [Handlers -> Submission \cup {Idle}]

LEMMA TypeOfSubmission ==
  ASSUME handler \in Submissions, NEW h \in Handlers
  PROVE  /\ Busy(h) => handler[h] \in Submission
         /\ ~Busy(h) => handler[h] = Idle
  BY DEF Submissions, Submission, Idle, Busy, At

LEMMA TypeOfLogins ==
  ASSUME grants \in [People -> People \cup {Nobody}]
  PROVE  Logins \subseteq People
  BY DEF Logins

\* The failure budget is a natural number that is not exceeded.
LEMMA TypeOfFailures ==
  ASSUME failures \in 0..MaxFailures, Fail
  PROVE  failures' \in 0..MaxFailures
  BY OwnershipTransferAssumption DEF Fail

LEMMA InitTypeOK == ASSUME Init PROVE TypeOK
<1>1. handler \in Submissions
  BY DEF Init, Submissions
<1>2. PICK o \in People, granted \in SUBSET People :
        /\ row = [owner |-> o, path |-> o] /\ repo = o /\ app = o
        /\ grants = [u \in People |-> IF u \in granted THEN u ELSE Nobody]
        /\ collab = granted
  BY DEF Init
<1>3. row \in Rows
  BY <1>2 DEF Rows
<1>4. grants \in [People -> People \cup {Nobody}]
  BY <1>2
<1>5. sweep \in People \cup {Nobody} /\ submits \in 0..MaxSubmits /\ failures \in 0..MaxFailures
  BY OwnershipTransferAssumption DEF Init
<1> QED BY <1>1, <1>2, <1>3, <1>4, <1>5 DEF TypeOK, Submissions

\* What a step may do to its own submission keeps the type.
LEMMA TypeOfUpdates ==
  ASSUME TypeOK, NEW h \in Handlers, Busy(h), NEW pc \in Stages \ {"idle"}, NEW b \in BOOLEAN
  PROVE  /\ Goto(h, pc) => handler' \in Submissions
         /\ Tell(h, b) => handler' \in Submissions
         /\ Answered(h) => handler' \in Submissions
         /\ \A step \in FollowUps :
              handler' = [handler EXCEPT ![h].pc = pc, ![h].partial = @ \cup {step}]
                => handler' \in Submissions
<1>1. handler \in Submissions /\ handler[h] \in Submission /\ "told" \in Stages \ {"idle"}
  BY TypeOfSubmission DEF TypeOK, Submissions, Stages
<1>2. \A r \in Submission :
        /\ [r EXCEPT !.pc = pc] \in Submission
        /\ [r EXCEPT !.pc = "told", !.changed = b] \in Submission
        /\ \A step \in FollowUps :
             [r EXCEPT !.pc = pc, !.partial = @ \cup {step}] \in Submission
  BY <1>1 DEF Submission
<1>3. \A r \in Submission \cup {Idle} : [handler EXCEPT ![h] = r] \in Submissions
  BY <1>1 DEF Submissions
<1>4. ASSUME NEW step \in FollowUps,
             handler' = [handler EXCEPT ![h].pc = pc, ![h].partial = @ \cup {step}]
      PROVE  handler' \in Submissions
  <2>1. handler' = [handler EXCEPT ![h] = [handler[h] EXCEPT !.pc = pc, !.partial = @ \cup {step}]]
    BY <1>1, <1>4 DEF Submissions
  <2> QED BY <1>1, <1>2, <1>3, <2>1
<1>5. ASSUME Tell(h, b) PROVE handler' \in Submissions
  <2>1. handler' = [handler EXCEPT ![h] = [handler[h] EXCEPT !.pc = "told", !.changed = b]]
    BY <1>1, <1>5 DEF Tell, Submissions
  <2> QED BY <1>1, <1>2, <1>3, <2>1
<1>6. ASSUME Goto(h, pc) PROVE handler' \in Submissions
  <2>1. handler' = [handler EXCEPT ![h] = [handler[h] EXCEPT !.pc = pc]]
    BY <1>1, <1>6 DEF Goto, Submissions
  <2> QED BY <1>1, <1>2, <1>3, <2>1
<1>7. ASSUME Answered(h) PROVE handler' \in Submissions
  BY <1>3, <1>7 DEF Answered
<1> QED BY <1>4, <1>5, <1>6, <1>7

\* A follow-up step goes on to the next one, done or failed.
LEMMA TypeOfFollowUps ==
  ASSUME TypeOK, NEW h \in Handlers, NEW pc \in Stages \ {"idle"},
         handler[h].pc \in FollowUps, Done(h, pc) \/ Partial(h, pc)
  PROVE  handler' \in Submissions /\ failures' \in 0..MaxFailures
<1>1. Busy(h)
  BY DEF Busy, At, FollowUps
<1> QED BY <1>1, TypeOfUpdates, TypeOfFailures DEF Done, Partial, TypeOK

\* What a submission does after it was submitted.
After(h) == Transfer(h) \/ Dismiss(h) \/ RunSql(h) \/ RunKubectl(h)

LEMMA AfterIsBusy == ASSUME NEW h \in Handlers, After(h) PROVE Busy(h)
  BY DEF After, Transfer, ProvisionTarget, SkipMove, Move, Park, MoveFails, Verify, Record,
     RecordFails, DropGrant, KeepGrant, Converge, Repoint, Dismiss, RunSql, RunKubectl, At, Busy

\* Every step of one submission, and what its administrator does, keeps the types.
LEMMA HandlerTypeOK ==
  ASSUME TypeOK, NEW h \in Handlers, Transfer(h) \/ Administrator(h)
  PROVE  TypeOK'
<1> DEFINE HandlersOK == handler' \in Submissions /\ failures' \in 0..MaxFailures
<1>0. /\ handler \in Submissions
      /\ Stages \ {"idle"} = {"told"} \cup Moving \cup FollowUps
      /\ Busy(h) => /\ handler[h] \in Submission /\ handler[h].target \in People
                    /\ handler[h].project.owner \in People /\ handler[h].project.path \in People
  <2>1. handler \in Submissions
    BY DEF TypeOK, Submissions
  <2>2. Stages \ {"idle"} = {"told"} \cup Moving \cup FollowUps
    BY DEF Stages, Moving, FollowUps
  <2>3. ASSUME Busy(h)
        PROVE  /\ handler[h] \in Submission /\ handler[h].target \in People
               /\ handler[h].project.owner \in People /\ handler[h].project.path \in People
    <3>1. handler[h] \in Submission
      BY <2>1, <2>3, TypeOfSubmission
    <3> QED BY <3>1 DEF Submission, Rows
  <2> QED BY <2>1, <2>2, <2>3
<1>b. After(h) => Busy(h)
  BY AfterIsBusy
<1> USE DEF After, Transfer
<1>1. ASSUME NEW t \in People, NEW keep \in BOOLEAN, Submit(h, t, keep) PROVE TypeOK'
  <2> USE OwnershipTransferAssumption DEF TypeOK, Submissions, boundVars
  <2> DEFINE quiet == \A f \in Handlers : ~Busy(f)
  <2>1. [pc |-> "provision", project |-> row, target |-> t, keep |-> keep,
         changed |-> FALSE, recorded |-> FALSE, partial |-> {},
         home |-> repo, alone |-> quiet] \in Submission
    <3> HIDE DEF quiet
    <3>1. quiet \in BOOLEAN
      BY DEF quiet
    <3>2. "provision" \in Stages \ {"idle"} /\ {} \in SUBSET FollowUps
      BY DEF Stages
    <3> QED BY <3>1, <3>2 DEF Submission
  <2>2. \A f \in Handlers : Busy(f) => [handler[f] EXCEPT !.alone = FALSE] \in Submission
    <3>1. \A r \in Submission : [r EXCEPT !.alone = FALSE] \in Submission
      BY DEF Submission
    <3> QED BY <1>0, <3>1, TypeOfSubmission
  <2>3. handler' \in Submissions
    BY <1>1, <2>1, <2>2 DEF Submit
  <2>4. submits' \in 0..MaxSubmits
    <3>1. submits \in Nat /\ submits < MaxSubmits /\ submits' = submits + 1
      BY <1>1 DEF Submit
    <3> QED BY <3>1
  <2>5. UNCHANGED <<row, grants, repo, collab, app, sweep, failures>>
    BY <1>1 DEF Submit
  <2> HIDE DEF quiet
  <2> QED BY <2>3, <2>4, <2>5
<1>2. ASSUME ProvisionTarget(h) \/ SkipMove(h) \/ Verify(h) \/ Dismiss(h) \/ Park(h)
      PROVE  TypeOK'
  <2>1. HandlersOK
    BY <1>0, <1>b, <1>2, TypeOfUpdates, TypeOfFailures
    DEF TypeOK, ProvisionTarget, SkipMove, Verify, Dismiss, Park, Moving, boundVars
  <2> QED
    BY <1>2, <2>1 DEF TypeOK, Submissions, ProvisionTarget, SkipMove, Verify, Dismiss, Park,
       boundVars
<1>3. ASSUME Move(h) \/ MoveFails(h) PROVE TypeOK'
  <2>1. HandlersOK
    BY <1>0, <1>b, <1>3, TypeOfUpdates, TypeOfFailures
    DEF TypeOK, Move, MoveFails, Moving, boundVars
  <2>2. repo' \in People /\ collab' \subseteq People
    BY <1>0, <1>b, <1>3 DEF TypeOK, Move, MoveFails, Moved
  <2> QED
    BY <1>3, <2>1, <2>2 DEF TypeOK, Submissions, Move, MoveFails, boundVars
<1>4. ASSUME Record(h) PROVE TypeOK'
  <2> DEFINE noted == [handler[h] EXCEPT !.pc = "dropGrant", !.recorded = TRUE, !.changed = TRUE]
  <2>1. noted \in Submission
    <3>1. handler[h] \in Submission /\ "dropGrant" \in Stages \ {"idle"}
      BY <1>0, <1>b, <1>4 DEF FollowUps
    <3> QED BY <3>1 DEF Submission
  <2>2. handler' = [handler EXCEPT ![h] = noted]
    BY <1>0, <1>4 DEF Record, Submissions
  <2>3. handler' \in Submissions
    BY <1>0, <2>1, <2>2 DEF Submissions
  <2>4. row' \in Rows
    BY <1>0, <1>b, <1>4 DEF Record, NewRow, Rows
  <2> QED BY <1>4, <2>3, <2>4 DEF TypeOK, Submissions, Record, boundVars
<1>5. ASSUME RecordFails(h) PROVE TypeOK'
  <2>1. HandlersOK
    BY <1>0, <1>b, <1>5, TypeOfUpdates, TypeOfFailures DEF TypeOK, RecordFails
  <2> QED BY <1>5, <2>1 DEF TypeOK, Submissions, RecordFails
<1>6. ASSUME DropGrant(h) \/ KeepGrant(h) PROVE TypeOK'
  <2>1. HandlersOK
    BY <1>0, <1>b, <1>6, TypeOfFollowUps DEF DropGrant, KeepGrant, At, FollowUps
  <2>2. grants' \in [People -> People \cup {Nobody}]
    BY <1>0, <1>b, <1>6 DEF TypeOK, DropGrant, KeepGrant
  <2> QED BY <1>6, <2>1, <2>2 DEF TypeOK, Submissions, DropGrant, KeepGrant
<1>7. ASSUME Converge(h) PROVE TypeOK'
  <2>1. handler[h].pc = "converge" /\ "converge" \in FollowUps /\ "repoint" \in Stages
    BY <1>7 DEF Converge, At, FollowUps, Stages
  <2>2. HandlersOK
    BY <1>0, <1>b, <1>7, <2>1, TypeOfFollowUps, TypeOfUpdates, TypeOfFailures DEF TypeOK, Converge
  <2>3. collab' \subseteq People
    BY <1>7, TypeOfLogins DEF TypeOK, Converge, Converged
  <2> QED BY <1>7, <2>2, <2>3 DEF TypeOK, Submissions, Converge
<1>8. ASSUME Repoint(h) PROVE TypeOK'
  <2>1. HandlersOK
    BY <1>0, <1>b, <1>8, TypeOfFollowUps DEF Repoint, At, FollowUps
  <2> QED BY <1>0, <1>b, <1>8, <2>1 DEF TypeOK, Submissions, Repoint, NewSource
<1>9. ASSUME RunSql(h) \/ RunKubectl(h) PROVE TypeOK'
  <2>1. handler' \in Submissions
    BY <1>9, <1>0, <1>b, TypeOfUpdates DEF RunSql, RunKubectl
  <2>2. row' \in Rows /\ app' \in People
    BY <1>0, <1>b, <1>9 DEF TypeOK, Rows, RunSql, RunKubectl
  <2> QED BY <1>9, <2>1, <2>2 DEF TypeOK, Submissions, RunSql, RunKubectl, boundVars
<1> QED
  BY <1>1, <1>2, <1>3, <1>4, <1>5, <1>6, <1>7, <1>8, <1>9 DEF Transfer, Administrator

LEMMA NextTypeOK == ASSUME TypeOK, [Next]_vars PROVE TypeOK'
<1>1. CASE \E h \in Handlers : Transfer(h) \/ Administrator(h)
  BY <1>1, HandlerTypeOK
<1>2. CASE StartSweep \/ Sweep
  BY <1>2, TypeOfLogins DEF TypeOK, Rows, StartSweep, Sweep, Converged, boundVars
<1>3. CASE Restart
  BY <1>3, TypeOfSubmission, TypeOfFailures DEF TypeOK, Restart, Submission
<1>4. CASE UNCHANGED vars
  BY <1>4 DEF TypeOK, vars
<1> QED BY <1>1, <1>2, <1>3, <1>4 DEF Next

\* The tables, Gitea, the Application and the submissions keep their types: the
\* row names a person, grants hold logins, and outcomes are built in order.
THEOREM TypeCorrect == Spec => []TypeOK
<1> QED BY InitTypeOK, NextTypeOK, PTL DEF Spec

-----------------------------------------------------------------------------
IndInv == TypeOK /\ AloneProgress

\* Such a step is of a submission that is under way, changes no other, and keeps
\* what the form said.
LEMMA AfterIsLocal ==
  ASSUME TypeOK, NEW h \in Handlers, After(h)
  PROVE  /\ Busy(h)
         /\ \A f \in Handlers \ {h} : handler'[f] = handler[f]
         /\ Busy(h)' => /\ handler'[h].alone = handler[h].alone
                        /\ handler'[h].project = handler[h].project
                        /\ handler'[h].target = handler[h].target
                        /\ handler'[h].home = handler[h].home
<1>1. Busy(h) /\ handler \in Submissions /\ handler[h] \in Submission
  BY AfterIsBusy, TypeOfSubmission DEF TypeOK, Submissions
<1>2. CASE Answered(h)
  BY <1>1, <1>2 DEF Answered, Submissions, Busy, At, Idle
<1>3. CASE ~Answered(h)
  BY <1>1, <1>3 DEF Submission, Submissions,
     After, Transfer, ProvisionTarget, SkipMove, Move, Park, MoveFails, Verify, Record,
     RecordFails, DropGrant, KeepGrant, Converge, Repoint, Dismiss, RunSql, RunKubectl,
     At, Goto, Tell, Done, Partial, Busy
<1> QED BY <1>1, <1>2, <1>3

\* A submission that is alone goes on as it should.
LEMMA AfterProgress ==
  ASSUME TypeOK, NEW h \in Handlers, After(h), Progress(handler[h]), Busy(h)'
  PROVE  Progress(handler[h])'
<1>0. /\ handler \in Submissions /\ handler[h] \in Submission /\ row \in Rows
      /\ grants \in [People -> People \cup {Nobody}]
      /\ repo \in People /\ collab \subseteq People /\ app \in People
  BY AfterIsBusy, TypeOfSubmission DEF TypeOK, Submissions
<1> USE <1>0 DEF Submissions, Submission, At, Goto, Tell, Done, Partial, boundVars, Progress,
        Moving, FollowUps, Trusted
<1>1. CASE ProvisionTarget(h)
  BY <1>1 DEF ProvisionTarget
<1>2. CASE SkipMove(h)
  BY <1>2 DEF SkipMove, UnderTarget
<1>3. CASE Move(h)
  BY <1>3 DEF Move, UnderTarget
<1>4. CASE MoveFails(h)
  BY <1>4 DEF MoveFails
<1>5. CASE Verify(h)
  BY <1>5 DEF Verify, Arrived
<1>6. CASE Record(h)
  BY <1>6 DEF Record, NewRow
<1>7. CASE RecordFails(h)
  BY <1>7 DEF RecordFails
<1>8. CASE DropGrant(h)
  BY <1>8 DEF DropGrant
<1>9. CASE KeepGrant(h)
  BY <1>9 DEF KeepGrant
<1>10. CASE Converge(h)
  BY <1>10 DEF Converge
<1>11. CASE Repoint(h)
  <2>1. CASE app' = NewSource(h) /\ Done(h, "told")
    BY <1>11, <2>1 DEF Repoint, NewSource
  <2>2. CASE Partial(h, "told") /\ UNCHANGED app
    <3>1. handler' = [handler EXCEPT ![h].pc = "told", ![h].partial = @ \cup {"repoint"}]
      BY <1>11, <2>2 DEF Repoint
    <3> HIDE DEF Partial
    <3> QED BY <1>11, <2>2, <3>1 DEF Repoint
  <2> QED BY <1>11, <2>1, <2>2 DEF Repoint
<1>12. CASE Dismiss(h) \/ RunSql(h) \/ RunKubectl(h)
  BY <1>12 DEF Dismiss, RunSql, RunKubectl, Answered, Busy, Idle
<1>13. CASE Park(h)
  BY <1>13 DEF Park, UnderTarget
<1> QED
  BY <1>1, <1>2, <1>3, <1>4, <1>5, <1>6, <1>7, <1>8, <1>9, <1>10, <1>11, <1>12, <1>13
  DEF After, Transfer

LEMMA HandlerAlone ==
  ASSUME IndInv, NEW h \in Handlers, Transfer(h) \/ Administrator(h)
  PROVE  AloneProgress'
<1> SUFFICES ASSUME NEW k \in Handlers, Busy(k)', handler'[k].alone
             PROVE  Progress(handler[k])' /\ \A f \in Handlers \ {k} : ~Busy(f)'
  BY DEF AloneProgress
<1>1. ASSUME NEW t \in People, NEW keep \in BOOLEAN, Submit(h, t, keep)
      PROVE  Progress(handler[k])' /\ \A f \in Handlers \ {k} : ~Busy(f)'
  <2>1. k = h
    <3> SUFFICES ASSUME k # h PROVE FALSE
      OBVIOUS
    <3>1. Busy(k) => handler[k] \in Submission
      BY TypeOfSubmission DEF IndInv, TypeOK, Submissions
    <3>2. handler'[k] = IF Busy(k) THEN [handler[k] EXCEPT !.alone = FALSE] ELSE Idle
      BY <1>1 DEF Submit
    <3>3. ~handler'[k].alone
      BY <3>1, <3>2 DEF Submission, Idle
    <3> QED BY <3>3
  <2>2. \A f \in Handlers : ~Busy(f)
    BY <1>1, <2>1 DEF Submit, IndInv, TypeOK
  <2>3. \A f \in Handlers \ {k} : ~Busy(f)'
    BY <1>1, <2>1, <2>2 DEF Submit, IndInv, TypeOK, Busy, At, Idle
  <2>4. Progress(handler[k])'
    BY <1>1, <2>1 DEF Submit, IndInv, TypeOK, Progress, Moving, FollowUps, Trusted
  <2> QED BY <2>3, <2>4
<1>2. CASE After(h)
  <2>1. k = h
    BY <1>2, AfterIsLocal DEF IndInv, AloneProgress, Busy, At
  <2>2. Busy(h) /\ handler[h].alone
    BY <1>2, <2>1, AfterIsLocal DEF IndInv
  <2>3. Progress(handler[h]) /\ \A f \in Handlers \ {h} : ~Busy(f)
    BY <2>2 DEF IndInv, AloneProgress
  <2>4. \A f \in Handlers \ {k} : ~Busy(f)'
    BY <1>2, <2>1, <2>3, AfterIsLocal DEF IndInv, Busy, At
  <2>5. Progress(handler[k])'
    BY <1>2, <2>1, <2>3, AfterProgress DEF IndInv
  <2> QED BY <2>4, <2>5
<1> QED BY <1>1, <1>2 DEF After, Administrator

LEMMA NextIndInv == ASSUME IndInv, [Next]_vars PROVE IndInv'
<1>1. TypeOK'
  BY NextTypeOK DEF IndInv
<1>2. CASE \E h \in Handlers : Transfer(h) \/ Administrator(h)
  BY <1>1, <1>2, HandlerAlone DEF IndInv
<1>3. CASE StartSweep \/ Sweep
  BY <1>1, <1>3 DEF IndInv, AloneProgress, Progress, Trusted, StartSweep, Sweep, Busy, At
<1>4. CASE Restart
  BY <1>1, <1>4 DEF IndInv, AloneProgress, Restart, Busy, At, Idle
<1>5. CASE UNCHANGED vars
  BY <1>1, <1>5 DEF IndInv, AloneProgress, Progress, Trusted, vars, Busy, At
<1> QED BY <1>2, <1>3, <1>4, <1>5 DEF Next

LEMMA InitIndInv == ASSUME Init PROVE IndInv
  BY InitTypeOK DEF IndInv, AloneProgress, Init, Busy, At, Idle

\* What "transferred" promises is what Progress says of a finished submission.
LEMMA FinishedIsComplete == ASSUME IndInv PROVE SuccessIsComplete
  BY DEF IndInv, AloneProgress, Progress, SuccessIsComplete, Succeeded, HandedOver, Busy, At

\* The answer "transferred" holds of the row, the Application, the new owner's
\* grant and the repository with its collaborators, after whatever earlier
\* failures and repairs by hand, if no other transfer was submitted meanwhile.
THEOREM SuccessfulTransferIsComplete == Spec => []SuccessIsComplete
<1> QED BY InitIndInv, NextIndInv, FinishedIsComplete, PTL DEF Spec

\* The row's path is changed in two places: by the transfer and by the SQL.
LEMMA PathIsRepo ==
  ASSUME IndInv, [Next]_vars
  PROVE  [NoOverlap /\ row'.path # row.path => row'.path = repo]_vars
<1> SUFFICES ASSUME Next, NoOverlap, row'.path # row.path
             PROVE  row'.path = repo
  OBVIOUS
<1>1. PICK h \in Handlers : Record(h) \/ RunSql(h)
  BY DEF Next, Transfer, Administrator, Submit, ProvisionTarget, SkipMove, Move, Park, MoveFails,
     Verify, Record, RecordFails, DropGrant, KeepGrant, Converge, Repoint, Dismiss, RunSql,
     RunKubectl, StartSweep, Sweep, Restart
<1>2. Busy(h) /\ row'.path = handler[h].target /\ ~handler[h].recorded
  <2>1. Busy(h)
    BY <1>1 DEF Record, RunSql, Busy, At
  <2>2. row \in Rows
    BY DEF IndInv, TypeOK
  <2>3. Progress(handler[h])
    BY <2>1 DEF NoOverlap, IndInv, AloneProgress
  <2> QED BY <1>1, <2>1, <2>2, <2>3 DEF Record, NewRow, RunSql, Rows, Progress, Moving, At
<1>3. Progress(handler[h])
  BY <1>2 DEF NoOverlap, IndInv, AloneProgress
<1>4. handler[h].project.path # handler[h].target
  BY <1>2, <1>3 DEF Progress
<1> QED BY <1>1, <1>2, <1>3, <1>4 DEF Record, RunSql, Progress, At

\* Unless transfers overlap, the row is only ever made to name the place where
\* the repository is, whatever failed before and whoever repaired it.
THEOREM TheRowFollowsTheRepository == Spec => RowFollowsRepo
<1> QED BY InitIndInv, NextIndInv, PathIsRepo, PTL DEF Spec, RowFollowsRepo

-----------------------------------------------------------------------------
(* The pages about the health of the projects.                             *)

\* The projects a page has still to hear of; how old what it shows may be by then, were it
\* to be rendered at once.
Awaited(q) == q.todo \cup q.wait
AsServed == HealthTTL - 1 + HealthDelay
Due(q) == HealthTTL - 1 + (Cardinality(Slugs) - Cardinality(Awaited(q))) * HealthDelay

\* What a page shows, whose collections are `runs` and whose clocks are `since`.  Of a list
\* each collection that it awaits pays for what the page has shown in the meantime.
ListGood(q, runs, since) ==
  q.pc = "collect" /\ ~q.detail => \A t \in q.shows :
    \/ since[t] <= Due(q)
    \/ \E s \in q.wait : since[t] <= Due(q) + runs[s].age
DetailGood(q, since) ==
  q.detail =>
    /\ q.pc = "collect" => /\ \A r, s \in Awaited(q) : r = s
                           /\ \A t \in q.shows : Awaited(q) = {} /\ since[t] <= AsServed
    /\ q.pc = "logs" => \A t \in q.shows : since[t] <= AsServed + q.age
PageGood(q, runs, since) ==
  /\ q.pc # "collect" => Awaited(q) = {}
  /\ q.pc = "collect" => q.age = 0
  /\ q.pc = "logs" => q.detail
  /\ \A s \in q.wait : runs[s].on
  /\ ListGood(q, runs, since) /\ DetailGood(q, since)
  /\ q.pc = "shown" => \A t \in q.shows :
       since[t] <= HealthTTL - 1 + Longest * HealthDelay

\* What a snapshot has neither a reason nor a warning about.
Clear(snap) == Sections \ (snap.reasons \cup snap.warned)

LEMMA ClearIsOfThings ==
  ASSUME NEW s \in Slugs, NEW snap
  PROVE  /\ \A x \in Clear(snap) : <<s, x>> \in Things
         /\ \A t \in SaysFine(s, snap) : \E x \in Clear(snap) : t = <<s, x>>
BY DEF Clear, Things, SaysFine, Green

HealthFine == \A t \in fine : sinceFine[t] = 0
HealthServed ==
  \A s \in Slugs : \A x \in Clear(entry[s].snap) :
    entry[s].left > 0 => sinceFine[<<s, x>>] + entry[s].left <= HealthTTL + HealthDelay
HealthFound ==
  \A s \in Slugs : \A x \in Clear(run[s].snap) \ run[s].todo :
    run[s].on => sinceFine[<<s, x>>] <= run[s].age
HealthPages == \A p \in Pages : PageGood(page[p], run, sinceFine)
HealthInv == HealthTypeOK /\ HealthFine /\ HealthServed /\ HealthFound /\ HealthPages

\* The numbers.
LEMMA NumberOfSlugs ==
  ASSUME NEW S \in SUBSET Slugs
  PROVE  /\ IsFiniteSet(S) /\ Cardinality(Slugs) \in Nat /\ Cardinality(S) \in Nat
         /\ Cardinality(S) <= Cardinality(Slugs)
         /\ \A s \in S : Cardinality(S \ {s}) = Cardinality(S) - 1
<1>1. IsFiniteSet(Slugs) /\ IsFiniteSet(S) /\ Cardinality(S) <= Cardinality(Slugs)
  BY FS_Subset, ProjectHealthAssumption
<1>2. \A s \in S : Cardinality(S \ {s}) = Cardinality(S) - 1
  BY <1>1, FS_RemoveElement
<1> QED BY <1>1, <1>2, FS_CardinalityType

LEMMA OneDelayMore ==
  ASSUME NEW k \in Nat
  PROVE  k * HealthDelay \in Nat /\ (k + 1) * HealthDelay = k * HealthDelay + HealthDelay
<1>1. HealthDelay \in Nat
  BY ProjectHealthAssumption
<1> QED BY <1>1

LEMMA DelaysGrow ==
  ASSUME NEW i \in Nat, NEW k \in Nat, i <= k
  PROVE  i * HealthDelay <= k * HealthDelay
<1>1. PICK d \in Nat : k = i + d
  <2>1. k - i \in Nat
    OBVIOUS
  <2> QED BY <2>1
<1>2. HealthDelay \in Nat /\ d * HealthDelay \in Nat /\ i * HealthDelay \in Nat
  BY OneDelayMore, ProjectHealthAssumption
<1>3. (i + d) * HealthDelay = i * HealthDelay + d * HealthDelay
  BY <1>2
<1> QED BY <1>1, <1>2, <1>3

LEMMA DueIsBounded ==
  ASSUME NEW q \in Page
  PROVE  /\ Due(q) \in Nat /\ AsServed \in Nat
         /\ Awaited(q) = {} => Due(q) <= HealthTTL - 1 + Longest * HealthDelay
         /\ AsServed + HealthDelay <= HealthTTL - 1 + Longest * HealthDelay
         /\ HealthTTL - 1 + Longest * HealthDelay \in Nat
<1> DEFINE n == Cardinality(Slugs)
           c == Cardinality(Awaited(q))
<1>1. Awaited(q) \in SUBSET Slugs
  BY DEF Awaited, Page
<1>2. n \in Nat /\ c \in Nat /\ c <= n
  BY <1>1, NumberOfSlugs
<1>3. Awaited(q) = {} => c = 0
  BY FS_EmptySet
<1>4. HealthTTL - 1 \in Nat /\ HealthDelay \in Nat
  BY ProjectHealthAssumption
<1>5. Longest \in Nat /\ n <= Longest /\ 2 <= Longest
  BY <1>2 DEF Longest
<1> HIDE DEF n, c
<1>6. (n - c) * HealthDelay \in Nat /\ n * HealthDelay <= Longest * HealthDelay
  BY <1>2, <1>5, OneDelayMore, DelaysGrow
<1>7. 2 * HealthDelay <= Longest * HealthDelay /\ Longest * HealthDelay \in Nat
  BY <1>5, OneDelayMore, DelaysGrow
<1>8. Due(q) = HealthTTL - 1 + (n - c) * HealthDelay
  BY DEF Due, n, c
<1>9. Awaited(q) = {} => (n - c) * HealthDelay = n * HealthDelay
  BY <1>2, <1>3
<1>10. n * HealthDelay \in Nat
  BY <1>2, OneDelayMore
<1>11. 2 * HealthDelay = HealthDelay + HealthDelay
  BY <1>4
<1>12. AsServed \in Nat /\ AsServed = (HealthTTL - 1) + HealthDelay
  BY <1>4 DEF AsServed
<1>13. HealthTTL - 1 + Longest * HealthDelay \in Nat
  BY <1>4, <1>7
<1> QED BY <1>4, <1>6, <1>7, <1>8, <1>9, <1>10, <1>11, <1>12, <1>13

\* Whoever is told of one project more is given one delay more.
LEMMA DueOfGiven ==
  ASSUME NEW q \in Page, NEW s \in Awaited(q), NEW snap \in Snapshot
  PROVE  /\ Given(q, s, snap) \in Page
         /\ Awaited(Given(q, s, snap)) = Awaited(q) \ {s}
         /\ Due(Given(q, s, snap)) = Due(q) + HealthDelay
         /\ AsServed <= Due(Given(q, s, snap))
<1> DEFINE r == Given(q, s, snap)
           n == Cardinality(Slugs)
           c == Cardinality(Awaited(q))
<1>1. Awaited(q) \in SUBSET Slugs /\ s \in Slugs
  BY DEF Awaited, Page
<1>2. r \in Page
  BY <1>1 DEF Given, Page, SaysFine, Snapshot, Things
<1>3. Awaited(r) = Awaited(q) \ {s}
  BY DEF Awaited, Given, Page
<1>4. n \in Nat /\ c \in Nat /\ c <= n /\ Cardinality(Awaited(r)) = c - 1 /\ c - 1 \in Nat
  <2>1. n \in Nat /\ c \in Nat /\ c <= n /\ Cardinality(Awaited(q) \ {s}) = c - 1
    BY <1>1, NumberOfSlugs
  <2>2. IsFiniteSet(Awaited(q) \ {s})
    BY <1>1, NumberOfSlugs
  <2>3. Cardinality(Awaited(q) \ {s}) \in Nat
    BY <2>2, FS_CardinalityType
  <2> QED BY <1>3, <2>1, <2>3
<1>5. HealthTTL - 1 \in Nat /\ HealthDelay \in Nat
  BY ProjectHealthAssumption
<1>6. /\ Due(q) = HealthTTL - 1 + (n - c) * HealthDelay
      /\ Due(r) = HealthTTL - 1 + (n - (c - 1)) * HealthDelay
  BY <1>4 DEF Due
<1> HIDE DEF n, c, r
<1>7. /\ (n - c) * HealthDelay \in Nat
      /\ ((n - c) + 1) * HealthDelay = (n - c) * HealthDelay + HealthDelay
  BY <1>4, OneDelayMore
<1>8. n - (c - 1) = (n - c) + 1
  BY <1>4
<1>9. (n - (c - 1)) * HealthDelay = (n - c) * HealthDelay + HealthDelay
  BY <1>7, <1>8
<1>10. Due(r) = Due(q) + HealthDelay /\ AsServed <= Due(r)
  BY <1>5, <1>6, <1>7, <1>9 DEF AsServed
<1> QED BY <1>2, <1>3, <1>10 DEF r

\* Its numbers are numbers.
LEMMA NoPageIsAPage == NoPage \in Page /\ NoRun \in Run /\ NoSnapshot \in Snapshot
  BY ProjectHealthAssumption DEF NoPage, Page, NoRun, Run, NoSnapshot, Snapshot

LEMMA ClocksAreNumbers ==
  ASSUME HealthTypeOK
  PROVE  /\ \A t \in Things : sinceFine[t] \in Nat
         /\ \A s \in Slugs : /\ entry[s].left \in Nat /\ run[s].age \in Nat
                             /\ run[s].age <= HealthDelay
                             /\ run[s] \in Run /\ run[s].snap \in Snapshot
                             /\ entry[s].snap \in Snapshot
         /\ \A p \in Pages : /\ page[p] \in Page /\ page[p].age \in Nat
                             /\ page[p].age <= HealthDelay
                             /\ page[p].shows \subseteq Things
                             /\ page[p].wait \subseteq Slugs /\ page[p].todo \subseteq Slugs
  BY ProjectHealthAssumption DEF HealthTypeOK, Page, Run

\* A page that nothing happens to stays good while the collections it awaits only get older
\* and the clocks do not advance.
LEMMA PageRests ==
  ASSUME NEW q \in Page, NEW runs, NEW older, NEW since \in [Things -> Nat],
         NEW next \in [Things -> Nat],
         PageGood(q, runs, since),
         \A t \in Things : next[t] <= since[t],
         \A s \in q.wait : older[s].on = runs[s].on /\ older[s].age = runs[s].age,
         \A s \in q.wait : runs[s].age \in Nat
  PROVE  PageGood(q, older, next)
<1>1. q.shows \subseteq Things /\ q.age \in Nat
  BY ProjectHealthAssumption DEF Page
<1>2. Due(q) \in Nat /\ AsServed \in Nat /\ HealthTTL - 1 + Longest * HealthDelay \in Nat
  BY DueIsBounded
<1>3. ListGood(q, older, next)
  <2> SUFFICES ASSUME q.pc = "collect", ~q.detail, NEW t \in q.shows
               PROVE  \/ next[t] <= Due(q)
                      \/ \E s \in q.wait : next[t] <= Due(q) + older[s].age
    BY DEF ListGood
  <2>1. next[t] \in Nat /\ since[t] \in Nat /\ next[t] <= since[t]
    BY <1>1
  <2>2. CASE since[t] <= Due(q)
    BY <1>2, <2>1, <2>2
  <2>3. CASE \E s \in q.wait : since[t] <= Due(q) + runs[s].age
    <3>1. PICK s \in q.wait : since[t] <= Due(q) + runs[s].age
      BY <2>3
    <3>2. next[t] <= Due(q) + older[s].age
      BY <1>2, <2>1, <3>1
    <3> QED BY <3>2
  <2> QED BY <2>2, <2>3 DEF PageGood, ListGood
<1>4. \A t \in q.shows : next[t] \in Nat /\ since[t] \in Nat /\ next[t] <= since[t]
  BY <1>1
<1>5. DetailGood(q, next)
  BY <1>1, <1>2, <1>4 DEF PageGood, DetailGood
<1>6. q.pc = "shown" => \A t \in q.shows : next[t] <= HealthTTL - 1 + Longest * HealthDelay
  <2> DEFINE bound == HealthTTL - 1 + Longest * HealthDelay
  <2>1. bound \in Nat /\ (q.pc = "shown" => \A t \in q.shows : since[t] <= bound)
    BY <1>2 DEF PageGood
  <2> HIDE DEF bound
  <2>2. q.pc = "shown" => \A t \in q.shows : next[t] <= bound
    BY <1>4, <2>1
  <2> QED BY <2>2 DEF bound
<1> QED BY <1>3, <1>5, <1>6 DEF PageGood

\* A page is told of a project: from the memory, or by a collection that ends.
LEMMA PageIsGiven ==
  ASSUME NEW q \in Page, NEW runs, NEW next, NEW since \in [Things -> Nat],
         q.pc = "collect", NEW s \in Awaited(q), NEW snap \in Snapshot,
         PageGood(q, runs, since),
         \A x \in Clear(snap) : since[<<s, x>>] <= AsServed,
         \A r \in q.wait : runs[r].age \in 0..HealthDelay,
         \A r \in q.wait \ {s} : next[r].on = runs[r].on /\ next[r].age = runs[r].age
  PROVE  PageGood(Given(q, s, snap), next, since)
<1> DEFINE g == Given(q, s, snap)
<1>1. /\ Awaited(q) \in SUBSET Slugs /\ s \in Slugs /\ q.shows \subseteq Things
      /\ HealthDelay \in Nat
  BY ProjectHealthAssumption DEF Awaited, Page
<1>2. /\ g.pc = "collect" /\ g.detail = q.detail /\ g.age = q.age /\ g.wait = q.wait \ {s}
      /\ g.shows = q.shows \cup SaysFine(s, snap)
  BY DEF Given, Page
<1>3. /\ Awaited(g) = Awaited(q) \ {s} /\ Due(g) = Due(q) + HealthDelay
      /\ AsServed <= Due(g)
  BY DueOfGiven
<1>4. Due(q) \in Nat /\ AsServed \in Nat
  BY DueIsBounded
<1>5. \A t \in SaysFine(s, snap) : t \in Things /\ since[t] \in Nat /\ since[t] <= AsServed
  BY <1>1, ClearIsOfThings
<1>6. \A t \in q.shows : since[t] \in Nat
  BY <1>1
<1> HIDE DEF g
<1>7. ListGood(g, next, since)
  <2> SUFFICES ASSUME ~q.detail, NEW t \in g.shows
               PROVE  \/ since[t] <= Due(g)
                      \/ \E r \in g.wait : since[t] <= Due(g) + next[r].age
    BY <1>2 DEF ListGood
  <2>1. CASE t \in SaysFine(s, snap)
    BY <1>3, <1>4, <1>5, <2>1, <1>1
  <2>2. CASE t \in q.shows
    <3>1. CASE since[t] <= Due(q)
      BY <1>1, <1>3, <1>4, <1>6, <2>2, <3>1
    <3>2. CASE \E r \in q.wait : since[t] <= Due(q) + runs[r].age
      <4>1. PICK r \in q.wait : since[t] <= Due(q) + runs[r].age
        BY <3>2
      <4>2. since[t] <= Due(g)
        BY <1>1, <1>3, <1>4, <1>6, <2>2, <4>1
      <4> QED BY <4>2
    <3> QED BY <2>2, <3>1, <3>2 DEF PageGood, ListGood
  <2> QED BY <1>2, <2>1, <2>2
<1>8. DetailGood(g, since)
  <2> SUFFICES ASSUME q.detail
               PROVE  /\ \A r, u \in Awaited(g) : r = u
                      /\ \A t \in g.shows : Awaited(g) = {} /\ since[t] <= AsServed
    BY <1>2 DEF DetailGood
  <2>1. \A r, u \in Awaited(q) : r = u
    BY DEF PageGood, DetailGood
  <2>2. Awaited(g) = {}
    BY <1>3, <2>1
  <2>3. q.shows = {}
    BY DEF PageGood, DetailGood
  <2> QED BY <1>2, <1>5, <2>2, <2>3
<1>9. \A r \in g.wait : next[r].on
  BY <1>2 DEF PageGood
<1>10. g.age = 0
  BY <1>2 DEF PageGood
<1> QED BY <1>2, <1>7, <1>8, <1>9, <1>10 DEF PageGood, g

\* A page awaits a collection that is under way or just begun.
LEMMA PageAwaits ==
  ASSUME NEW q \in Page, NEW runs, NEW since, q.pc = "collect", NEW s \in q.todo,
         NEW next, PageGood(q, runs, since), next[s].on,
         \A r \in q.wait : next[r].on = runs[r].on /\ next[r].age = runs[r].age
  PROVE  PageGood(Awaits(q, s), next, since)
<1> DEFINE a == Awaits(q, s)
<1>1. /\ a.pc = "collect" /\ a.detail = q.detail /\ a.age = q.age /\ a.wait = q.wait \cup {s}
      /\ a.shows = q.shows /\ Awaited(a) = Awaited(q)
  BY DEF Awaits, Page, Awaited
<1>2. Due(a) = Due(q)
  BY <1>1 DEF Due
<1> HIDE DEF a
<1>3. ListGood(a, next, since)
  <2> SUFFICES ASSUME ~q.detail, NEW t \in q.shows
               PROVE  \/ since[t] <= Due(q)
                      \/ \E r \in a.wait : since[t] <= Due(q) + next[r].age
    BY <1>1, <1>2 DEF ListGood
  <2> QED BY <1>1 DEF PageGood, ListGood
<1>4. DetailGood(a, since)
  BY <1>1 DEF PageGood, DetailGood
<1>5. \A r \in a.wait : next[r].on
  BY <1>1 DEF PageGood
<1>6. a.age = 0
  BY <1>1 DEF PageGood
<1> QED BY <1>1, <1>3, <1>4, <1>5, <1>6 DEF PageGood, a

PageSteps == [HealthPage!Next]_<<Shown, sinceFine>>

LEMMA ShownTo ==
  ASSUME NEW t
  PROVE  t \in Shown <=> \E p \in Pages : page[p].pc = "shown" /\ t \in page[p].shows
  BY DEF Shown

\* What is shown is not too old.
LEMMA ShownIsFresh ==
  ASSUME HealthInv
  PROVE  /\ Shown \subseteq Things
         /\ \A t \in Shown : sinceFine[t] <= (HealthTTL - 1) + Longest * HealthDelay
<1>1. SUFFICES ASSUME NEW t \in Shown
               PROVE  t \in Things /\ sinceFine[t] <= (HealthTTL - 1) + Longest * HealthDelay
  OBVIOUS
<1>2. PICK p \in Pages : page[p].pc = "shown" /\ t \in page[p].shows
  BY <1>1, ShownTo
<1> QED BY <1>2, ClocksAreNumbers DEF HealthInv, HealthPages, PageGood

\* A step of one page, which may begin a collection.
LEMMA OnePageInv ==
  ASSUME HealthInv, NEW p \in Pages, NEW q \in Page, page' = [page EXCEPT ![p] = q],
         UNCHANGED <<ready, fine, sinceFine, entry>>, run' \in [Slugs -> Run],
         \A s \in Slugs : run'[s] = run[s] \/ (~run[s].on /\ Clear(run'[s].snap) \subseteq run'[s].todo),
         PageGood(q, run', sinceFine)
  PROVE  HealthInv'
<1>1. HealthTypeOK'
  BY DEF HealthInv, HealthTypeOK
<1>2. HealthFine' /\ HealthServed'
  BY DEF HealthInv, HealthFine, HealthServed
<1>3. HealthFound'
  BY DEF HealthInv, HealthFound
<1>4. HealthPages'
  <2> SUFFICES ASSUME NEW r \in Pages PROVE PageGood(page'[r], run', sinceFine')
    BY DEF HealthPages
  <2>1. CASE r = p
    BY <2>1 DEF HealthInv, HealthTypeOK
  <2>2. CASE r # p
    <3>1. page'[r] = page[r] /\ page[r] \in Page /\ page[r].wait \subseteq Slugs
      BY <2>2, ClocksAreNumbers DEF HealthInv, HealthTypeOK
    <3>2. PageGood(page[r], run, sinceFine)
      BY DEF HealthInv, HealthPages
    <3>3. sinceFine \in [Things -> Nat] /\ \A t \in Things : sinceFine[t] <= sinceFine[t]
      BY ClocksAreNumbers DEF HealthInv, HealthTypeOK
    <3>4. \A s \in page[r].wait : run[s].on /\ run'[s] = run[s] /\ run[s].age \in Nat
      BY <3>1, <3>2, ClocksAreNumbers DEF PageGood, HealthInv
    <3>5. PageGood(page[r], run', sinceFine)
      BY <3>1, <3>2, <3>3, <3>4, PageRests
    <3> QED BY <3>1, <3>5
  <2> QED BY <2>1, <2>2
<1> QED BY <1>1, <1>2, <1>3, <1>4 DEF HealthInv

\* Unless it is then shown, nothing is let in by it.
LEMMA OnePageStep ==
  ASSUME HealthInv, NEW p \in Pages, NEW q \in Page, page' = [page EXCEPT ![p] = q],
         q.pc # "shown", UNCHANGED sinceFine
  PROVE  PageSteps
<1>1. Shown' \subseteq Shown
  <2> SUFFICES ASSUME NEW t \in Shown' PROVE t \in Shown
    OBVIOUS
  <2>1. PICK r \in Pages : page'[r].pc = "shown" /\ t \in page'[r].shows
    BY DEF Shown
  <2>2. page'[r] = page[r]
    BY <2>1 DEF HealthInv, HealthTypeOK
  <2> QED BY <2>1, <2>2, ShownTo
<1> QED BY <1>1 DEF PageSteps, HealthPage!Next, HealthPage!Leave

LEMMA PageOpens ==
  ASSUME HealthInv, NEW p \in Pages,
         OpenIndex(p) \/ \E s \in Slugs : OpenDetail(p, s)
  PROVE  HealthInv' /\ PageSteps
<1>1. PICK q \in Page : /\ page' = [page EXCEPT ![p] = q] /\ q.pc = "collect"
                        /\ q.wait = {} /\ q.shows = {} /\ q.age = 0
                        /\ q.detail => \A r, s \in q.todo : r = s
  <2> DEFINE whole == Asks(ready, Slugs, FALSE)
             one(s) == Asks(ready \cap {s}, {s}, TRUE)
  <2>1. 0 \in 0..HealthDelay /\ ready \subseteq Slugs
    BY ProjectHealthAssumption DEF HealthInv, HealthTypeOK
  <2>2. /\ whole \in Page /\ whole.pc = "collect" /\ whole.wait = {} /\ whole.shows = {}
        /\ whole.age = 0 /\ whole.detail = FALSE
    BY <2>1 DEF Asks, Page
  <2>3. ASSUME NEW s \in Slugs
        PROVE  /\ one(s) \in Page /\ one(s).pc = "collect" /\ one(s).wait = {}
               /\ one(s).shows = {} /\ one(s).age = 0 /\ one(s).todo = {s}
    BY <2>1 DEF Asks, Page
  <2>4. \/ page' = [page EXCEPT ![p] = whole]
        \/ \E s \in Slugs : page' = [page EXCEPT ![p] = one(s)]
    BY DEF OpenIndex, OpenDetail
  <2> HIDE DEF whole, one
  <2>5. CASE page' = [page EXCEPT ![p] = whole]
    BY <2>2, <2>5
  <2>6. CASE \E s \in Slugs : page' = [page EXCEPT ![p] = one(s)]
    <3>1. PICK s \in Slugs : page' = [page EXCEPT ![p] = one(s)]
      BY <2>6
    <3>2. \A r, u \in one(s).todo : r = u
      BY <2>3
    <3> QED BY <2>3, <3>1, <3>2
  <2> QED BY <2>4, <2>5, <2>6
<1>2. PageGood(q, run, sinceFine)
  BY <1>1 DEF PageGood, ListGood, DetailGood, Awaited
<1>3. UNCHANGED <<ready, fine, sinceFine, entry, run>> /\ run \in [Slugs -> Run]
  BY DEF OpenIndex, OpenDetail, HealthInv, HealthTypeOK
<1> QED BY <1>1, <1>2, <1>3, OnePageInv, OnePageStep

LEMMA PageFromCache ==
  ASSUME HealthInv, NEW p \in Pages, NEW s \in Slugs, FromCache(p, s)
  PROVE  HealthInv' /\ PageSteps
<1> DEFINE q == page[p]
           g == Given(q, s, entry[s].snap)
<1>1. q \in Page /\ q.pc = "collect" /\ s \in Awaited(q) /\ entry[s].snap \in Snapshot
  BY ClocksAreNumbers DEF FromCache, TakesUp, Awaited, HealthInv
<1>2. g \in Page /\ g.pc = "collect"
  <2>1. g.pc = q.pc
    BY <1>1 DEF Given, Page
  <2> QED BY <1>1, <2>1, DueOfGiven
<1>3. \A x \in Clear(entry[s].snap) : sinceFine[<<s, x>>] <= AsServed
  <2> SUFFICES ASSUME NEW x \in Clear(entry[s].snap) PROVE sinceFine[<<s, x>>] <= AsServed
    OBVIOUS
  <2>1. <<s, x>> \in Things
    BY <1>1, ClearIsOfThings
  <2>2. /\ sinceFine[<<s, x>>] \in Nat /\ entry[s].left \in Nat /\ entry[s].left > 0
        /\ HealthTTL \in Nat /\ HealthDelay \in Nat
    BY <2>1, ClocksAreNumbers, ProjectHealthAssumption DEF HealthInv, FromCache
  <2>3. sinceFine[<<s, x>>] + entry[s].left <= HealthTTL + HealthDelay
    BY <2>2 DEF HealthInv, HealthServed
  <2> QED BY <2>2, <2>3 DEF AsServed
<1>4. PageGood(q, run, sinceFine) /\ sinceFine \in [Things -> Nat]
  BY ClocksAreNumbers DEF HealthInv, HealthPages, HealthTypeOK
<1>5. \A r \in q.wait : run[r].age \in 0..HealthDelay
  BY ClocksAreNumbers, ProjectHealthAssumption DEF HealthInv
<1> HIDE DEF q
<1>6. PageGood(g, run, sinceFine)
  BY <1>1, <1>3, <1>4, <1>5, PageIsGiven
<1>7. page' = [page EXCEPT ![p] = g] /\ UNCHANGED <<ready, fine, sinceFine, entry, run>>
      /\ run \in [Slugs -> Run]
  BY DEF FromCache, q, HealthInv, HealthTypeOK
<1> HIDE DEF g
<1> QED BY <1>2, <1>6, <1>7, OnePageInv, OnePageStep

\* A collection begins with all to look up, or with nothing and a warning about all.
LEMMA BegunIs ==
  ASSUME NEW r \in BOOLEAN
  PROVE  Begun(r) \in Run /\ Begun(r).on /\ Clear(Begun(r).snap) \subseteq Begun(r).todo
<1> DEFINE todo == IF r THEN Sections ELSE {}
           warned == IF r THEN {} ELSE Sections
           q == [on |-> TRUE, todo |-> todo, age |-> 0,
                 snap |-> [ready |-> r, reasons |-> {}, warned |-> warned]]
<1>1. 0 \in 0..HealthDelay /\ todo \subseteq Sections /\ warned \subseteq Sections
      /\ Sections \ warned \subseteq todo
  BY ProjectHealthAssumption
<1> HIDE DEF todo, warned
<1>2. q \in Run /\ q.on /\ Clear(q.snap) \subseteq q.todo
  BY <1>1 DEF Run, Snapshot, Clear
<1> QED BY <1>2 DEF Begun, todo, warned

LEMMA PageJoins ==
  ASSUME HealthInv, NEW p \in Pages, NEW s \in Slugs, Join(p, s) \/ Collect(p, s)
  PROVE  HealthInv' /\ PageSteps
<1> DEFINE q == page[p]
           a == Awaits(q, s)
<1>1. q \in Page /\ q.pc = "collect" /\ s \in q.todo
  BY ClocksAreNumbers DEF Join, Collect, TakesUp, HealthInv
<1>2. a \in Page /\ a.pc = "collect"
  BY <1>1 DEF Awaits, Page
<1>3. PageGood(q, run, sinceFine)
  BY DEF HealthInv, HealthPages
<1>4. page' = [page EXCEPT ![p] = a] /\ UNCHANGED <<ready, fine, sinceFine, entry>>
  BY DEF Join, Collect
<1>5. /\ run' \in [Slugs -> Run] /\ run'[s].on
      /\ \A r \in Slugs : run'[r] = run[r] \/ (~run[r].on /\ Clear(run'[r].snap) \subseteq run'[r].todo)
  <2>1. CASE Join(p, s)
    BY <2>1 DEF Join, HealthInv, HealthTypeOK
  <2>2. CASE Collect(p, s)
    <3> DEFINE new == Begun(s \in page[p].ready)
    <3>1. new \in Run /\ new.on /\ Clear(new.snap) \subseteq new.todo
      <4>1. (s \in page[p].ready) \in BOOLEAN
        OBVIOUS
      <4> QED BY <4>1, BegunIs, Zenon
    <3>2. run' = [run EXCEPT ![s] = new] /\ ~run[s].on
      BY <2>2 DEF Collect
    <3> QED BY <3>1, <3>2 DEF HealthInv, HealthTypeOK
  <2> QED BY <2>1, <2>2
<1>6. \A r \in q.wait : run'[r].on = run[r].on /\ run'[r].age = run[r].age
  <2>1. \A r \in q.wait : run[r].on /\ r \in Slugs
    BY <1>1, <1>3 DEF PageGood, Page
  <2> QED BY <1>5, <2>1
<1> HIDE DEF q
<1>7. PageGood(a, run', sinceFine)
  BY <1>1, <1>3, <1>5, <1>6, PageAwaits
<1> HIDE DEF a
<1> QED BY <1>2, <1>4, <1>5, <1>7, OnePageInv, OnePageStep

LEMMA PageIsCollected ==
  ASSUME HealthInv, NEW p \in Pages, ReadLog(p)
  PROVE  HealthInv' /\ PageSteps
<1> DEFINE q == [page[p] EXCEPT !.pc = "logs"]
<1>1. page[p] \in Page /\ page[p].pc = "collect" /\ Awaited(page[p]) = {} /\ page[p].detail
  BY ClocksAreNumbers DEF ReadLog, Collected, HealthInv, Awaited
<1>2. /\ q \in Page /\ q.pc = "logs" /\ q.detail = page[p].detail /\ q.age = page[p].age
      /\ q.wait = page[p].wait /\ q.todo = page[p].todo /\ q.shows = page[p].shows
  BY <1>1 DEF Page
<1>3. PageGood(page[p], run, sinceFine) /\ page[p].shows \subseteq Things /\ AsServed \in Nat
  BY <1>1, ClocksAreNumbers, DueIsBounded DEF HealthInv, HealthPages
<1>4. \A t \in page[p].shows : sinceFine[t] \in Nat
  BY <1>3, ClocksAreNumbers DEF HealthInv
<1> DEFINE old == page[p]
<1>5. page' = [page EXCEPT ![p] = q] /\ UNCHANGED <<ready, fine, sinceFine, entry, run>>
      /\ run \in [Slugs -> Run]
  BY DEF ReadLog, HealthInv, HealthTypeOK
<1> HIDE DEF q, old
<1>6. PageGood(q, run, sinceFine)
  <2>1. \A t \in q.shows : sinceFine[t] <= AsServed + q.age
    BY <1>1, <1>2, <1>3, <1>4 DEF PageGood, DetailGood
  <2>2. Awaited(q) = {} /\ q.wait = {}
    BY <1>1, <1>2 DEF Awaited
  <2> QED BY <1>1, <1>2, <2>1, <2>2 DEF PageGood, ListGood, DetailGood
<1> QED BY <1>2, <1>5, <1>6, OnePageInv, OnePageStep

\* The page is shown: all that it says is fine is let in, and none of it is too old.
LEMMA PageIsShown ==
  ASSUME HealthInv, NEW p \in Pages, Render(p)
  PROVE  HealthInv' /\ PageSteps
<1> DEFINE q == [page[p] EXCEPT !.pc = "shown"]
           bound == HealthTTL - 1 + Longest * HealthDelay
<1>1. page[p] \in Page /\ page[p].age \in Nat /\ page[p].age <= HealthDelay
      /\ page[p].shows \subseteq Things /\ HealthDelay \in Nat
  BY ClocksAreNumbers, ProjectHealthAssumption DEF HealthInv
<1>2. /\ q \in Page /\ q.pc = "shown" /\ q.detail = page[p].detail
      /\ q.wait = page[p].wait /\ q.todo = page[p].todo /\ q.shows = page[p].shows
  BY <1>1 DEF Page
<1>3. PageGood(page[p], run, sinceFine)
  BY DEF HealthInv, HealthPages
<1>4. Awaited(page[p]) = {}
  BY <1>3 DEF Render, Collected, Awaited, PageGood
<1>5. /\ Due(page[p]) \in Nat /\ AsServed \in Nat /\ bound \in Nat /\ Due(page[p]) <= bound
      /\ AsServed + HealthDelay <= bound
  BY <1>1, <1>4, DueIsBounded
<1>6. page' = [page EXCEPT ![p] = q] /\ UNCHANGED <<ready, fine, sinceFine, entry, run>>
      /\ run \in [Slugs -> Run]
  BY DEF Render, HealthInv, HealthTypeOK
<1>7. page[p].pc \in {"collect", "logs"}
  BY DEF Render, Collected
<1> HIDE DEF q, bound
<1>8. \A t \in q.shows : sinceFine[t] <= bound
  <2> SUFFICES ASSUME NEW t \in page[p].shows PROVE sinceFine[t] <= bound
    BY <1>2
  <2>1. sinceFine[t] \in Nat
    BY <1>1, ClocksAreNumbers DEF HealthInv
  <2>2. page[p].wait = {}
    BY <1>4 DEF Awaited
  <2>3. CASE page[p].pc = "collect" /\ ~page[p].detail
    <3>1. sinceFine[t] <= Due(page[p])
      BY <1>3, <2>2, <2>3 DEF PageGood, ListGood
    <3> QED BY <1>5, <2>1, <3>1
  <2>4. CASE page[p].pc = "collect" /\ page[p].detail
    <3>1. sinceFine[t] <= AsServed
      BY <1>3, <2>4 DEF PageGood, DetailGood
    <3> QED BY <1>1, <1>5, <2>1, <3>1
  <2>5. CASE page[p].pc = "logs"
    <3>1. sinceFine[t] <= AsServed + page[p].age
      BY <1>3, <2>5 DEF PageGood, DetailGood
    <3> QED BY <1>1, <1>5, <2>1, <3>1
  <2> QED BY <1>7, <2>3, <2>4, <2>5
<1>9. PageGood(q, run, sinceFine)
  <2>1. Awaited(q) = {} /\ q.wait = {}
    BY <1>2, <1>4 DEF Awaited
  <2> QED BY <1>2, <1>8, <2>1 DEF PageGood, ListGood, DetailGood, bound
<1>10. HealthInv'
  BY <1>2, <1>6, <1>9, OnePageInv
<1>11. HealthPage!Admit
  <2>1. page'[p] = q /\ \A r \in Pages \ {p} : page'[r] = page[r]
    BY <1>6 DEF HealthInv, HealthTypeOK
  <2>2. page[p].pc # "shown"
    BY <1>7
  <2>3. Shown' = Shown \cup q.shows
    <3>1. ASSUME NEW t PROVE t \in Shown' <=> t \in Shown \cup q.shows
      <4>1. t \in Shown' <=> \E r \in Pages : page'[r].pc = "shown" /\ t \in page'[r].shows
        BY DEF Shown
      <4> QED BY <1>2, <2>1, <2>2, <4>1, ShownTo
    <3> QED BY <3>1
  <2>4. /\ q.shows \subseteq Things
        /\ \A t \in q.shows : sinceFine[t] <= (HealthTTL - 1) + Longest * HealthDelay
    BY <1>1, <1>2, <1>8 DEF bound
  <2> QED BY <1>6, <2>3, <2>4 DEF HealthPage!Admit
<1> QED BY <1>10, <1>11 DEF PageSteps, HealthPage!Next

LEMMA PageIsSent ==
  ASSUME HealthInv, NEW p \in Pages, Sent(p)
  PROVE  HealthInv' /\ PageSteps
<1>1. NoPage \in Page /\ NoPage.pc = "idle" /\ Awaited(NoPage) = {} /\ NoPage.wait = {}
      /\ ~NoPage.detail
  BY NoPageIsAPage DEF NoPage, Awaited
<1>2. PageGood(NoPage, run, sinceFine)
  BY <1>1 DEF PageGood, ListGood, DetailGood
<1>3. /\ page' = [page EXCEPT ![p] = NoPage] /\ UNCHANGED <<ready, fine, sinceFine, entry, run>>
      /\ run \in [Slugs -> Run]
  BY DEF Sent, HealthInv, HealthTypeOK
<1> QED BY <1>1, <1>2, <1>3, OnePageInv, OnePageStep

-----------------------------------------------------------------------------
\* Nobody is let in or out where neither the pages nor the clocks change.
LEMMA HealthStutters ==
  ASSUME UNCHANGED <<page, sinceFine>>
  PROVE  PageSteps
  BY DEF PageSteps, Shown

LEMMA CollectionLooks ==
  ASSUME HealthInv, NEW s \in Slugs, NEW x \in Sections, LooksUp(s, x)
  PROVE  HealthInv' /\ PageSteps
<1> DEFINE snaps == {Found(s, x), Failed(s, x)}
<1>1. PICK snap \in snaps :
        run' = [run EXCEPT ![s] = [run[s] EXCEPT !.todo = run[s].todo \ {x}, !.snap = snap]]
  BY DEF LooksUp
<1>2. /\ run[s] \in Run /\ run[s].snap \in Snapshot
      /\ UNCHANGED <<ready, fine, sinceFine, entry, page>>
      /\ run \in [Slugs -> Run]
  BY ClocksAreNumbers DEF LooksUp, HealthInv, HealthTypeOK
<1>3. snap \in Snapshot
  BY <1>2 DEF Found, Failed, Snapshot
<1>4. \A y \in Clear(snap) \ (run[s].todo \ {x}) :
        y \in Clear(run[s].snap) \ run[s].todo \/ <<s, y>> \in fine
  <2>1. CASE snap = Found(s, x)
    BY <1>2, <2>1 DEF Found, Clear, Snapshot
  <2>2. CASE snap = Failed(s, x)
    BY <1>2, <2>2 DEF Failed, Clear, Snapshot
  <2> QED BY <2>1, <2>2
<1> DEFINE new == [run[s] EXCEPT !.todo = run[s].todo \ {x}, !.snap = snap]
<1>5. /\ new \in Run /\ new.on = run[s].on /\ new.age = run[s].age /\ new.snap = snap
      /\ new.todo = run[s].todo \ {x}
  BY <1>2, <1>3 DEF Run
<1>6. run' = [run EXCEPT ![s] = new]
  BY <1>1
<1> HIDE DEF new, snaps
<1>7. /\ run' \in [Slugs -> Run] /\ run'[s] = new
      /\ \A r \in Slugs : run'[r].on = run[r].on /\ run'[r].age = run[r].age
      /\ \A r \in Slugs \ {s} : run'[r] = run[r]
  BY <1>2, <1>5, <1>6
<1>8. HealthTypeOK' /\ HealthFine' /\ HealthServed'
  BY <1>2, <1>7 DEF HealthInv, HealthTypeOK, HealthFine, HealthServed
<1>9. HealthFound'
  <2> SUFFICES ASSUME NEW r \in Slugs, NEW y \in Clear(run'[r].snap) \ run'[r].todo, run'[r].on
               PROVE  sinceFine[<<r, y>>] <= run[r].age
    BY <1>2, <1>7 DEF HealthFound
  <2>1. CASE r # s
    BY <1>7, <2>1 DEF HealthInv, HealthFound
  <2>2. CASE r = s
    <3>1. run[s].age \in Nat /\ (run[s].on)
      BY <1>7, <2>2, ClocksAreNumbers DEF HealthInv
    <3>2. CASE y \in Clear(run[s].snap) \ run[s].todo
      BY <2>2, <3>1, <3>2 DEF HealthInv, HealthFound
    <3>3. CASE <<s, y>> \in fine
      <4>1. sinceFine[<<s, y>>] = 0
        BY <3>3 DEF HealthInv, HealthFine
      <4> QED BY <2>2, <3>1, <4>1
    <3> QED BY <1>4, <1>5, <1>7, <2>2, <3>2, <3>3
  <2> QED BY <2>1, <2>2
<1>10. HealthPages'
  <2> SUFFICES ASSUME NEW p \in Pages PROVE PageGood(page[p], run', sinceFine)
    BY <1>2 DEF HealthPages
  <2>1. page[p] \in Page /\ page[p].wait \subseteq Slugs /\ sinceFine \in [Things -> Nat]
        /\ \A t \in Things : sinceFine[t] <= sinceFine[t]
    BY ClocksAreNumbers DEF HealthInv, HealthTypeOK
  <2>2. \A r \in page[p].wait :
          run[r].age \in Nat /\ run'[r].on = run[r].on /\ run'[r].age = run[r].age
    BY <1>7, <2>1, ClocksAreNumbers DEF HealthInv
  <2>3. PageGood(page[p], run, sinceFine)
    BY DEF HealthInv, HealthPages
  <2> QED BY <2>1, <2>2, <2>3, PageRests
<1> QED BY <1>2, <1>8, <1>9, <1>10, HealthStutters DEF HealthInv

\* A collection that ends tells all who await it, and is remembered from then on.
LEMMA CollectionIsOver ==
  ASSUME HealthInv, NEW s \in Slugs, CollectionEnds(s)
  PROVE  HealthInv' /\ PageSteps
<1> DEFINE snap == run[s].snap
           told(p) == IF s \in page[p].wait THEN Given(page[p], s, snap) ELSE page[p]
<1>1. /\ snap \in Snapshot /\ run[s].on /\ run[s].age \in Nat /\ run[s].age <= HealthDelay
      /\ HealthDelay \in Nat /\ HealthTTL \in Nat \ {0}
      /\ UNCHANGED <<ready, fine, sinceFine>>
  BY ClocksAreNumbers, ProjectHealthAssumption DEF HealthInv, CollectionEnds
<1>0. run[s].todo = {}
  BY DEF CollectionEnds
<1>2. \A x \in Clear(snap) : <<s, x>> \in Things /\ sinceFine[<<s, x>>] \in Nat
                            /\ sinceFine[<<s, x>>] <= HealthDelay
  <2> SUFFICES ASSUME NEW x \in Clear(snap)
               PROVE  <<s, x>> \in Things /\ sinceFine[<<s, x>>] \in Nat
                      /\ sinceFine[<<s, x>>] <= HealthDelay
    OBVIOUS
  <2>1. <<s, x>> \in Things
    BY <1>1, ClearIsOfThings
  <2>2. sinceFine[<<s, x>>] \in Nat
    BY <2>1, ClocksAreNumbers DEF HealthInv
  <2>3. sinceFine[<<s, x>>] <= run[s].age
    BY <1>0, <1>1 DEF HealthInv, HealthFound
  <2> QED BY <1>1, <2>1, <2>2, <2>3
<1>3. \A x \in Clear(snap) : sinceFine[<<s, x>>] <= AsServed
  BY <1>1, <1>2 DEF AsServed
<1>4. /\ page' = [p \in Pages |-> told(p)]
      /\ run' = [run EXCEPT ![s] = NoRun]
      /\ entry' = [entry EXCEPT ![s] = [snap |-> snap, left |-> HealthTTL]]
  BY DEF CollectionEnds, Served
<1>5. /\ run' \in [Slugs -> Run] /\ run'[s].on = FALSE
      /\ \A r \in Slugs \ {s} : run'[r] = run[r]
  BY <1>4, NoPageIsAPage DEF HealthInv, HealthTypeOK, NoRun
<1>6. ASSUME NEW p \in Pages
      PROVE  page[p] \in Page /\ told(p) \in Page /\ PageGood(told(p), run', sinceFine)
             /\ told(p).pc = page[p].pc /\ (told(p).pc = "shown" => told(p) = page[p])
  <2> DEFINE q == page[p]
  <2>1. /\ q \in Page /\ q.wait \subseteq Slugs /\ PageGood(q, run, sinceFine)
        /\ sinceFine \in [Things -> Nat]
    BY ClocksAreNumbers DEF HealthInv, HealthPages, HealthTypeOK
  <2>2. \A r \in q.wait : run[r].age \in 0..HealthDelay
    BY <2>1, ClocksAreNumbers, ProjectHealthAssumption DEF HealthInv
  <2>3. \A r \in q.wait \ {s} : run'[r].on = run[r].on /\ run'[r].age = run[r].age
    BY <1>5, <2>1
  <2>4. CASE s \in q.wait
    <3>1. q.pc = "collect" /\ s \in Awaited(q)
      BY <2>1, <2>4 DEF PageGood, Awaited
    <3>2. told(p) = Given(q, s, snap) /\ told(p).pc = q.pc
      BY <2>1, <2>4 DEF Given, Page
    <3> HIDE DEF q, told
    <3>3. PageGood(Given(q, s, snap), run', sinceFine)
      <4> HIDE DEF snap
      <4> QED BY <1>1, <1>3, <2>1, <2>2, <2>3, <3>1, PageIsGiven
    <3>4. Given(q, s, snap) \in Page
      BY <1>1, <2>1, <3>1, DueOfGiven
    <3> QED BY <2>1, <3>1, <3>2, <3>3, <3>4 DEF q
  <2>5. CASE s \notin q.wait
    <3>1. told(p) = q
      BY <2>5
    <3>2. /\ \A r \in q.wait : /\ run'[r].on = run[r].on /\ run'[r].age = run[r].age
                               /\ run[r].age \in Nat
          /\ \A t \in Things : sinceFine[t] <= sinceFine[t]
      BY <2>1, <2>3, <2>5, ClocksAreNumbers DEF HealthInv
    <3> HIDE DEF q, told
    <3>3. PageGood(q, run', sinceFine)
      BY <2>1, <3>2, PageRests
    <3> QED BY <2>1, <3>1, <3>3 DEF q
  <2> QED BY <2>4, <2>5
<1> HIDE DEF told
<1>7. HealthTypeOK'
  <2>1. entry' \in [Slugs -> [snap : Snapshot, left : 0..HealthTTL]]
    <3>1. HealthTTL \in 0..HealthTTL
      BY <1>1
    <3> QED BY <1>1, <1>4, <3>1 DEF HealthInv, HealthTypeOK
  <2> QED BY <1>1, <1>4, <1>5, <1>6, <2>1 DEF HealthInv, HealthTypeOK
<1>8. HealthFine'
  BY <1>1 DEF HealthInv, HealthFine
<1>9. HealthServed'
  <2> SUFFICES ASSUME NEW r \in Slugs, NEW x \in Clear(entry'[r].snap), entry'[r].left > 0
               PROVE  sinceFine[<<r, x>>] + entry'[r].left <= HealthTTL + HealthDelay
    BY <1>1 DEF HealthServed
  <2>1. CASE r = s
    <3>1. entry'[s] = [snap |-> snap, left |-> HealthTTL]
      BY <1>4 DEF HealthInv, HealthTypeOK
    <3>2. x \in Clear(snap) /\ entry'[r].left = HealthTTL
      BY <2>1, <3>1
    <3>3. sinceFine[<<s, x>>] \in Nat /\ sinceFine[<<s, x>>] <= HealthDelay
      BY <1>2, <3>2
    <3> QED BY <1>1, <2>1, <3>2, <3>3
  <2>2. CASE r # s
    <3>1. entry'[r] = entry[r]
      BY <1>4, <2>2 DEF HealthInv, HealthTypeOK
    <3> QED BY <3>1 DEF HealthInv, HealthServed
  <2> QED BY <2>1, <2>2
<1>10. HealthFound'
  BY <1>1, <1>5 DEF HealthInv, HealthFound
<1>11. HealthPages'
  BY <1>1, <1>4, <1>6 DEF HealthPages
<1>12. Shown' = Shown
  <2>1. ASSUME NEW t PROVE t \in Shown' <=> t \in Shown
    <3>1. t \in Shown' <=> \E p \in Pages : page'[p].pc = "shown" /\ t \in page'[p].shows
      BY DEF Shown
    <3> QED BY <1>4, <1>6, <3>1, ShownTo
  <2> QED BY <2>1
<1> QED BY <1>1, <1>7, <1>8, <1>9, <1>10, <1>11, <1>12 DEF HealthInv, PageSteps

\* The pages rest while a clock is set back.
LEMMA ClocksSetBack ==
  ASSUME HealthInv, UNCHANGED <<entry, run, page>>, sinceFine' \in [Things -> 0..HealthCap],
         \A t \in Things : sinceFine'[t] <= sinceFine[t]
  PROVE  HealthServed' /\ HealthFound' /\ HealthPages'
<1>1. /\ \A t \in Things : /\ sinceFine[t] \in Nat /\ sinceFine'[t] \in Nat
                           /\ sinceFine'[t] <= sinceFine[t]
      /\ sinceFine \in [Things -> Nat] /\ sinceFine' \in [Things -> Nat]
  <2>1. 0..HealthCap \subseteq Nat
    BY ProjectHealthAssumption
  <2> QED BY <2>1 DEF HealthInv, HealthTypeOK
<1>2. \A s \in Slugs : /\ entry[s].left \in Nat /\ run[s].age \in Nat
                       /\ \A x \in Clear(entry[s].snap) : <<s, x>> \in Things
                       /\ \A x \in Clear(run[s].snap) : <<s, x>> \in Things
  BY ClocksAreNumbers, ClearIsOfThings DEF HealthInv
<1>3. HealthServed'
  <2>1. HealthTTL \in Nat /\ HealthDelay \in Nat
    BY ProjectHealthAssumption
  <2> SUFFICES ASSUME NEW s \in Slugs, NEW x \in Clear(entry[s].snap), entry[s].left > 0
               PROVE  sinceFine'[<<s, x>>] + entry[s].left <= HealthTTL + HealthDelay
    BY DEF HealthServed
  <2>2. sinceFine[<<s, x>>] + entry[s].left <= HealthTTL + HealthDelay
    BY DEF HealthInv, HealthServed
  <2>3. /\ sinceFine[<<s, x>>] \in Nat /\ sinceFine'[<<s, x>>] \in Nat
        /\ sinceFine'[<<s, x>>] <= sinceFine[<<s, x>>] /\ entry[s].left \in Nat
    BY <1>1, <1>2
  <2> QED BY <2>1, <2>2, <2>3
<1>4. HealthFound'
  <2> SUFFICES ASSUME NEW s \in Slugs, NEW x \in Clear(run[s].snap) \ run[s].todo, run[s].on
               PROVE  sinceFine'[<<s, x>>] <= run[s].age
    BY DEF HealthFound
  <2>1. sinceFine[<<s, x>>] <= run[s].age
    BY DEF HealthInv, HealthFound
  <2>2. /\ sinceFine[<<s, x>>] \in Nat /\ sinceFine'[<<s, x>>] \in Nat /\ run[s].age \in Nat
        /\ sinceFine'[<<s, x>>] <= sinceFine[<<s, x>>]
    BY <1>1, <1>2
  <2> QED BY <2>1, <2>2
<1>5. HealthPages'
  <2> SUFFICES ASSUME NEW p \in Pages PROVE PageGood(page[p], run, sinceFine')
    BY DEF HealthPages
  <2>1. /\ page[p] \in Page /\ page[p].wait \subseteq Slugs
        /\ PageGood(page[p], run, sinceFine)
    BY ClocksAreNumbers DEF HealthInv, HealthPages
  <2>2. \A r \in page[p].wait :
          run[r].age \in Nat /\ run[r].on = run[r].on /\ run[r].age = run[r].age
    BY <1>2, <2>1
  <2> QED BY <1>1, <2>1, <2>2, PageRests
<1> QED BY <1>3, <1>4, <1>5

LEMMA ThingTurns ==
  ASSUME HealthInv, NEW t \in Things, Turns(t)
  PROVE  HealthInv' /\ PageSteps
<1>1. UNCHANGED <<ready, entry, run, page>> /\ Shown' = Shown
  BY DEF Turns, Shown
<1>2. 0 \in 0..HealthCap /\ 0..HealthCap \subseteq Nat
  BY ProjectHealthAssumption
<1>3. CASE t \in fine
  <2>1. fine' = fine \ {t} /\ UNCHANGED sinceFine
    BY <1>3 DEF Turns
  <2>2. \A u \in Things : sinceFine'[u] <= sinceFine[u]
    BY <2>1, ClocksAreNumbers DEF HealthInv
  <2>3. sinceFine' \in [Things -> 0..HealthCap]
    BY <2>1 DEF HealthInv, HealthTypeOK
  <2>4. HealthTypeOK' /\ HealthFine'
    BY <1>1, <2>1 DEF HealthInv, HealthTypeOK, HealthFine
  <2> QED BY <1>1, <2>1, <2>2, <2>3, <2>4, ClocksSetBack DEF HealthInv, PageSteps
<1>4. CASE t \notin fine
  <2>1. fine' = fine \cup {t} /\ sinceFine' = [sinceFine EXCEPT ![t] = 0]
    BY <1>4 DEF Turns
  <2>2. sinceFine' \in [Things -> 0..HealthCap]
    BY <1>2, <2>1 DEF HealthInv, HealthTypeOK
  <2>3. \A u \in Things : sinceFine'[u] <= sinceFine[u]
    <3>1. \A u \in Things : sinceFine[u] \in Nat /\ sinceFine'[u] \in {0, sinceFine[u]}
      BY <2>1, ClocksAreNumbers DEF HealthInv, HealthTypeOK
    <3> QED BY <3>1
  <2>4. HealthTypeOK' /\ HealthFine'
    BY <1>1, <2>1, <2>2 DEF HealthInv, HealthTypeOK, HealthFine
  <2>5. HealthPage!Entitle
    BY <1>1, <2>1 DEF HealthPage!Entitle
  <2> QED BY <1>1, <2>2, <2>3, <2>4, <2>5, ClocksSetBack DEF HealthInv, PageSteps, HealthPage!Next
<1> QED BY <1>3, <1>4

LEMMA HealthRests ==
  ASSUME HealthInv, \/ \E s \in Slugs : StatusChanges(s)
                    \/ UNCHANGED healthVars
  PROVE  HealthInv' /\ PageSteps
<1>1. UNCHANGED <<fine, sinceFine, entry, run, page>> /\ ready' \in SUBSET Slugs
  BY DEF StatusChanges, healthVars, HealthInv, HealthTypeOK
<1>2. HealthTypeOK' /\ HealthFine' /\ HealthServed' /\ HealthFound' /\ HealthPages'
  BY <1>1 DEF HealthInv, HealthTypeOK, HealthFine, HealthServed, HealthFound, HealthPages
<1> QED BY <1>1, <1>2, HealthStutters DEF HealthInv

LEMMA HealthRestarts ==
  ASSUME HealthInv, RestartHealth
  PROVE  HealthInv' /\ PageSteps
<1>1. /\ NoPage.pc = "idle" /\ Awaited(NoPage) = {} /\ NoPage.wait = {} /\ ~NoPage.detail
      /\ NoRun.on = FALSE
  BY DEF NoPage, Awaited, NoSnapshot, NoRun
<1>2. /\ UNCHANGED <<ready, fine, sinceFine>>
      /\ entry' = [s \in Slugs |-> [snap |-> NoSnapshot, left |-> 0]]
      /\ run' = [s \in Slugs |-> NoRun] /\ page' = [p \in Pages |-> NoPage]
  BY DEF RestartHealth
<1>3. HealthTypeOK'
  <2>1. 0 \in 0..HealthTTL
    BY ProjectHealthAssumption
  <2> QED BY <1>2, <2>1, NoPageIsAPage DEF HealthInv, HealthTypeOK
<1>4. HealthFine' /\ HealthServed' /\ HealthFound'
  BY <1>1, <1>2 DEF HealthInv, HealthFine, HealthServed, HealthFound
<1>5. HealthPages'
  BY <1>1, <1>2 DEF HealthPages, PageGood, ListGood, DetailGood
<1>6. Shown' = {}
  BY <1>1, <1>2 DEF Shown
<1> QED BY <1>2, <1>3, <1>4, <1>5, <1>6 DEF HealthInv, PageSteps, HealthPage!Next, HealthPage!Leave

\* When the clock can advance, a list that is not complete awaits somebody.
LEMMA SomebodyIsAwaited ==
  ASSUME HealthInv, HealthTick, NEW p \in Pages, page[p].pc = "collect"
  PROVE  page[p].wait # {}
<1> SUFFICES ASSUME page[p].wait = {} PROVE FALSE
  OBVIOUS
<1>1. ~Collected(p) /\ \A s \in Slugs : ~TakesUp(p, s)
  BY DEF HealthTick
<1>2. PICK s \in Slugs : s \in page[p].todo
  BY <1>1, ClocksAreNumbers DEF Collected, HealthInv
<1>3. Cardinality(page[p].wait) < Limit
  BY FS_EmptySet, ProjectHealthAssumption
<1> QED BY <1>1, <1>2, <1>3 DEF TakesUp

LEMMA HealthTicks ==
  ASSUME HealthInv, HealthTick
  PROVE  HealthInv' /\ PageSteps
<1> DEFINE older(s) == IF run[s].on THEN [run[s] EXCEPT !.age = run[s].age + 1] ELSE run[s]
           read(p) == IF page[p].pc = "logs" THEN [page[p] EXCEPT !.age = page[p].age + 1]
                      ELSE page[p]
<1>0. HealthTTL \in Nat /\ HealthDelay \in Nat /\ HealthCap \in Nat \ {0}
  BY ProjectHealthAssumption
<1>1. /\ UNCHANGED <<ready, fine>>
      /\ run' = [s \in Slugs |-> older(s)] /\ page' = [p \in Pages |-> read(p)]
      /\ \A s \in Slugs : run[s].on => run[s].age < HealthDelay
      /\ \A p \in Pages : page[p].pc # "shown" /\ (page[p].pc = "logs" => page[p].age < HealthDelay)
  BY DEF HealthTick
<1>2. /\ sinceFine' \in [Things -> 0..HealthCap]
      /\ \A t \in Things : /\ sinceFine[t] \in Nat /\ sinceFine'[t] \in Nat
                           /\ sinceFine'[t] \in {sinceFine[t], sinceFine[t] + 1}
                           /\ sinceFine'[t] <= sinceFine[t] + 1
                           /\ t \in fine => sinceFine'[t] = 0
  <2> DEFINE aged(t) == IF t \in fine THEN 0
                        ELSE IF sinceFine[t] = HealthCap THEN HealthCap ELSE sinceFine[t] + 1
  <2>1. sinceFine' = [t \in Things |-> aged(t)]
    BY DEF HealthTick
  <2>2. ASSUME NEW t \in Things
        PROVE  /\ aged(t) \in 0..HealthCap /\ sinceFine[t] \in Nat
               /\ aged(t) \in {sinceFine[t], sinceFine[t] + 1}
    <3>1. sinceFine[t] \in 0..HealthCap /\ (t \in fine => sinceFine[t] = 0)
      BY DEF HealthInv, HealthTypeOK, HealthFine
    <3> QED BY <1>0, <3>1
  <2>3. \A t \in Things : t \in fine => aged(t) = 0
    OBVIOUS
  <2> HIDE DEF aged
  <2>4. \A t \in Things : sinceFine'[t] = aged(t)
    BY <2>1
  <2>5. sinceFine' \in [Things -> 0..HealthCap]
    BY <2>1, <2>2
  <2> QED BY <1>0, <2>2, <2>3, <2>4, <2>5
<1>3. ASSUME NEW s \in Slugs
      PROVE  /\ older(s) \in Run /\ older(s).on = run[s].on /\ older(s).snap = run[s].snap
             /\ older(s).todo = run[s].todo
             /\ run[s].on => older(s).age = run[s].age + 1
             /\ run[s].age \in Nat /\ run[s].snap \in Snapshot
  <2>1. run[s] \in Run /\ run[s].age \in Nat /\ (run[s].on => run[s].age + 1 \in 0..HealthDelay)
        /\ run[s].snap \in Snapshot
    BY <1>0, <1>1, ClocksAreNumbers DEF HealthInv
  <2> QED BY <2>1 DEF Run
<1>4. ASSUME NEW p \in Pages
      PROVE  /\ page[p] \in Page /\ read(p) \in Page /\ read(p).pc = page[p].pc
             /\ page[p].age \in Nat
             /\ page[p].pc = "logs" => read(p).age = page[p].age + 1
             /\ page[p].pc # "logs" => read(p) = page[p]
             /\ read(p).shows = page[p].shows /\ read(p).wait = page[p].wait
             /\ read(p).todo = page[p].todo /\ read(p).detail = page[p].detail
             /\ page[p].shows \subseteq Things /\ page[p].wait \subseteq Slugs
             /\ PageGood(page[p], run, sinceFine)
  <2>1. /\ page[p] \in Page /\ page[p].age \in Nat
        /\ page[p].pc = "logs" => page[p].age + 1 \in 0..HealthDelay
        /\ page[p].shows \subseteq Things /\ page[p].wait \subseteq Slugs
    BY <1>0, <1>1, ClocksAreNumbers DEF HealthInv
  <2>2. PageGood(page[p], run, sinceFine)
    BY DEF HealthInv, HealthPages
  <2> QED BY <2>1, <2>2 DEF Page
<1> HIDE DEF older, read
<1>5. /\ \A s \in Slugs : run'[s] = older(s)
      /\ \A p \in Pages : page'[p] = read(p)
  BY <1>1
<1>6. ASSUME NEW s \in Slugs
      PROVE  /\ entry'[s] \in [snap : Snapshot, left : 0..HealthTTL]
             /\ entry'[s].snap = entry[s].snap /\ entry[s].left \in Nat
             /\ entry'[s].left = (IF entry[s].left = 0 THEN 0 ELSE entry[s].left - 1)
  <2>1. entry[s] \in [snap : Snapshot, left : 0..HealthTTL]
    BY DEF HealthInv, HealthTypeOK
  <2>2. entry'[s] = [entry[s] EXCEPT !.left = IF entry[s].left = 0 THEN 0 ELSE entry[s].left - 1]
    BY DEF HealthTick
  <2> QED BY <1>0, <2>1, <2>2
<1>7. HealthTypeOK'
  <2>1. DOMAIN entry' = Slugs /\ entry' = [s \in Slugs |-> entry'[s]]
    BY DEF HealthTick
  <2>2. run' \in [Slugs -> Run] /\ page' \in [Pages -> Page]
    BY <1>1, <1>3, <1>4
  <2>3. entry' \in [Slugs -> [snap : Snapshot, left : 0..HealthTTL]]
    BY <1>6, <2>1
  <2> QED BY <1>1, <1>2, <2>2, <2>3 DEF HealthInv, HealthTypeOK
<1>8. HealthFine'
  BY <1>1, <1>2 DEF HealthInv, HealthTypeOK, HealthFine
<1>9. HealthServed'
  <2> SUFFICES ASSUME NEW s \in Slugs, NEW x \in Clear(entry[s].snap), entry'[s].left > 0
               PROVE  sinceFine'[<<s, x>>] + entry'[s].left <= HealthTTL + HealthDelay
    BY <1>6 DEF HealthServed
  <2>1. <<s, x>> \in Things
    BY ClearIsOfThings
  <2>2. entry[s].left > 0 /\ entry'[s].left = entry[s].left - 1 /\ entry[s].left \in Nat
    BY <1>6
  <2>3. sinceFine[<<s, x>>] + entry[s].left <= HealthTTL + HealthDelay
    BY <2>2 DEF HealthInv, HealthServed
  <2> QED BY <1>0, <1>2, <2>1, <2>2, <2>3
<1>10. HealthFound'
  <2> SUFFICES ASSUME NEW s \in Slugs, NEW x \in Clear(run[s].snap) \ run[s].todo, run[s].on
               PROVE  sinceFine'[<<s, x>>] <= run[s].age + 1
    BY <1>3, <1>5 DEF HealthFound
  <2>1. <<s, x>> \in Things /\ run[s].age \in Nat
    BY <1>3, ClearIsOfThings
  <2>2. sinceFine[<<s, x>>] <= run[s].age
    BY DEF HealthInv, HealthFound
  <2> QED BY <1>2, <2>1, <2>2
<1>11. HealthPages'
  <2> SUFFICES ASSUME NEW p \in Pages PROVE PageGood(read(p), run', sinceFine')
    BY <1>5 DEF HealthPages
  <2> DEFINE q == page[p]
             r == read(p)
  <2>1. /\ q \in Page /\ r.pc = q.pc /\ r.shows = q.shows /\ r.wait = q.wait
        /\ r.todo = q.todo /\ r.detail = q.detail /\ q.age \in Nat
        /\ q.pc = "logs" => r.age = q.age + 1
        /\ q.pc # "logs" => r = q
        /\ q.shows \subseteq Things /\ q.wait \subseteq Slugs
        /\ PageGood(q, run, sinceFine) /\ q.pc # "shown"
        /\ q.pc = "collect" => q.wait # {}
    BY <1>1, <1>4, SomebodyIsAwaited
  <2> HIDE DEF q, r
  <2>2. Awaited(r) = Awaited(q) /\ Due(r) = Due(q) /\ Due(q) \in Nat /\ AsServed \in Nat
    BY <2>1, DueIsBounded DEF Awaited, Due
  <2>3. \A s \in q.wait : /\ run[s].on /\ run'[s].on /\ run'[s].age = run[s].age + 1
                          /\ run[s].age \in Nat
    BY <1>3, <1>5, <2>1 DEF PageGood
  <2>4. ListGood(r, run', sinceFine')
    <3> SUFFICES ASSUME q.pc = "collect", ~q.detail, NEW t \in q.shows
                 PROVE  \E s \in q.wait : sinceFine'[t] <= Due(q) + run'[s].age
      BY <2>1, <2>2 DEF ListGood
    <3>1. /\ sinceFine[t] \in Nat /\ sinceFine'[t] \in Nat /\ sinceFine'[t] <= sinceFine[t] + 1
      BY <1>2, <2>1
    <3>2. CASE sinceFine[t] <= Due(q)
      <4>1. PICK s \in q.wait : TRUE
        BY <2>1
      <4>2. sinceFine'[t] <= Due(q) + run'[s].age
        BY <2>2, <2>3, <3>1, <3>2
      <4> QED BY <4>2
    <3>3. CASE \E s \in q.wait : sinceFine[t] <= Due(q) + run[s].age
      <4>1. PICK s \in q.wait : sinceFine[t] <= Due(q) + run[s].age
        BY <3>3
      <4>2. sinceFine'[t] <= Due(q) + run'[s].age
        BY <2>2, <2>3, <3>1, <4>1
      <4> QED BY <4>2
    <3> QED BY <2>1, <3>2, <3>3 DEF PageGood, ListGood
  <2>5. DetailGood(r, sinceFine')
    <3>1. CASE q.detail /\ q.pc = "collect"
      <4>1. Awaited(q) # {} /\ (\A u, s \in Awaited(q) : u = s) /\ q.shows = {}
        BY <2>1, <3>1 DEF Awaited, PageGood, DetailGood
      <4> QED BY <2>1, <2>2, <3>1, <4>1 DEF DetailGood
    <3>2. CASE q.detail /\ q.pc = "logs"
      <4> SUFFICES ASSUME NEW t \in q.shows PROVE sinceFine'[t] <= AsServed + (q.age + 1)
        BY <2>1, <3>2 DEF DetailGood
      <4>1. sinceFine[t] <= AsServed + q.age
        BY <2>1, <3>2 DEF PageGood, DetailGood
      <4> QED BY <1>2, <2>1, <2>2, <4>1
    <3>3. CASE q.detail /\ q.pc \notin {"collect", "logs"}
      BY <2>1, <3>3 DEF DetailGood
    <3>4. CASE ~q.detail
      BY <2>1, <3>4 DEF DetailGood
    <3> QED BY <3>1, <3>2, <3>3, <3>4
  <2>6. /\ r.pc # "collect" => Awaited(r) = {}
        /\ r.pc = "collect" => r.age = 0
        /\ r.pc = "logs" => r.detail
        /\ \A s \in r.wait : run'[s].on
    BY <2>1, <2>2, <2>3 DEF PageGood
  <2>7. PageGood(r, run', sinceFine')
    BY <2>1, <2>4, <2>5, <2>6 DEF PageGood
  <2> QED BY <2>7 DEF r
<1>12. Shown = {} /\ Shown' = {}
  BY <1>1, <1>4, <1>5 DEF Shown
<1>13. HealthPage!Tick
  BY <1>2, <1>12 DEF HealthPage!Tick
<1> QED BY <1>7, <1>8, <1>9, <1>10, <1>11, <1>13 DEF HealthInv, PageSteps, HealthPage!Next

LEMMA HealthSteps ==
  ASSUME HealthInv, [HealthNext]_healthVars
  PROVE  HealthInv' /\ PageSteps
<1>1. CASE UNCHANGED healthVars
  BY <1>1, HealthRests
<1>2. ASSUME NEW p \in Pages, \/ OpenIndex(p) \/ Render(p) \/ ReadLog(p) \/ Sent(p)
                              \/ \E s \in Slugs : \/ OpenDetail(p, s) \/ FromCache(p, s)
                                                  \/ Join(p, s) \/ Collect(p, s)
      PROVE  HealthInv' /\ PageSteps
  BY <1>2, PageOpens, PageIsShown, PageIsCollected, PageIsSent, PageFromCache, PageJoins
<1>3. ASSUME NEW s \in Slugs, \/ CollectionEnds(s) \/ StatusChanges(s)
                              \/ \E x \in Sections : LooksUp(s, x) \/ Turns(<<s, x>>)
      PROVE  HealthInv' /\ PageSteps
  <2>1. \A x \in Sections : <<s, x>> \in Things
    BY DEF Things
  <2> QED BY <1>3, <2>1, CollectionIsOver, HealthRests, CollectionLooks, ThingTurns
<1>4. CASE RestartHealth \/ HealthTick
  BY <1>4, HealthRestarts, HealthTicks
<1> QED BY <1>1, <1>2, <1>3, <1>4 DEF HealthNext

\* The pages about the projects' health, for any projects, lookups, pages and workers: what
\* one calls green and does not warn of was seen to give no reason, at most as long ago as a
\* snapshot is served and as many calls take as there are projects, or a collection and a
\* log.
THEOREM HealthIsFresh == HealthSpec => HealthBounded
<1>1. HealthInit => HealthInv /\ HealthPage!Init
  <2> SUFFICES ASSUME HealthInit PROVE HealthInv /\ HealthPage!Init
    OBVIOUS
  <2>1. /\ NoPage.pc = "idle" /\ Awaited(NoPage) = {} /\ NoPage.wait = {} /\ ~NoPage.detail
        /\ NoRun.on = FALSE /\ 0 \in 0..HealthTTL
        /\ 0 \in 0..HealthCap /\ HealthCap \in 0..HealthCap /\ 0..HealthCap \subseteq Nat
    BY ProjectHealthAssumption DEF NoPage, Awaited, NoSnapshot, NoRun
  <2>2. /\ sinceFine \in [Things -> 0..HealthCap] /\ \A t \in fine : sinceFine[t] = 0
    BY <2>1 DEF HealthInit
  <2>3. HealthTypeOK
    BY <2>1, <2>2, NoPageIsAPage DEF HealthInit, HealthTypeOK
  <2>4. HealthFine /\ HealthServed /\ HealthFound
    BY <2>1, <2>2 DEF HealthInit, HealthFine, HealthServed, HealthFound
  <2>5. HealthPages
    BY <2>1 DEF HealthInit, HealthPages, PageGood, ListGood, DetailGood
  <2>6. Shown = {} /\ sinceFine \in [Things -> Nat]
    BY <2>1, <2>2 DEF HealthInit, Shown
  <2> QED BY <2>3, <2>4, <2>5, <2>6 DEF HealthInv, HealthPage!Init
<1>2. HealthInv /\ [HealthNext]_healthVars => HealthInv' /\ PageSteps
  BY HealthSteps
<1>3. HealthInv => HealthTypeOK
  BY DEF HealthInv
<1> QED BY <1>1, <1>2, <1>3, PTL DEF HealthSpec, HealthBounded, PageSteps, HealthPage!Spec

LEMMA HealthPageShuts == HealthPage!Spec => []HealthPage!NobodyStale
<1> DEFINE Fresh == Shown \subseteq Things /\ sinceFine \in [Things -> Nat] /\ HealthPage!NobodyStale
<1>1. HealthPage!Init => Fresh
  BY DEF HealthPage!Init, HealthPage!NobodyStale
<1>2. Fresh /\ [HealthPage!Next]_<<Shown, sinceFine>> => Fresh'
  <2>1. (HealthTTL - 1) + Longest * HealthDelay \in Int
    BY ProjectHealthAssumption, FS_CardinalityType DEF Longest
  <2> QED BY <2>1 DEF HealthPage!Next, HealthPage!Admit, HealthPage!Leave, HealthPage!Entitle,
                      HealthPage!Tick, HealthPage!NobodyStale
<1>3. Fresh => HealthPage!NobodyStale
  OBVIOUS
<1> QED BY <1>1, <1>2, <1>3, PTL DEF HealthPage!Spec

\* No page calls green and leaves unwarned, at any moment, what has given a reason for longer
\* than a snapshot is served and collections take.
THEOREM HealthIsCurrent == HealthSpec => []HealthPage!NobodyStale
BY HealthIsFresh, HealthPageShuts, PTL DEF HealthBounded
=============================================================================
