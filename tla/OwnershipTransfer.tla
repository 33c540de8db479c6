------------------------- MODULE OwnershipTransfer --------------------------
(***************************************************************************)
(* An administrator hands a project to another member:                     *)
(* typescript/portal/src/services/ownership-transfer.ts, driven by the     *)
(* form of routes/admin.ts.                                                *)
(*                                                                         *)
(* Four places say whose a project is: the repository in Gitea, the row,   *)
(* the grants with the collaborators made from them, and the source of the *)
(* Application.  The transfer changes them one after the other, and only   *)
(* the first cannot be taken back.  When a step fails the administrator is *)
(* told what to do by hand, or to submit the form again.  Gitea leaves a   *)
(* redirect where a repository has been, which a call may follow or not.   *)
(* A step of this module is one call.                                      *)
(***************************************************************************)
EXTENDS Integers

CONSTANTS
  People,      \* members, each with one Gitea login
  Nobody,
  Handlers,    \* submissions of the form under way at once (a bound)
  MaxSubmits,  \* bound on submissions
  MaxFailures  \* bound on failed calls and on portal restarts

ASSUME OwnershipTransferAssumption ==
  /\ People # {} /\ Nobody \notin People
  /\ MaxSubmits \in Nat /\ MaxFailures \in Nat

VARIABLES
  row,     \* projects: owner_id, and the owner in the path gitea_repo
  grants,  \* the repo grant of each person: the gitea_username in it, or Nobody
  repo,    \* Gitea: under whom the repository is
  collab,  \* Gitea: the logins that are its collaborators
  app,     \* whose repository the Application deploys
  handler,
  sweep,   \* the owner in the path that the sweep under way has read, or Nobody
  submits, failures

vars == <<row, grants, repo, collab, app, handler, sweep, submits, failures>>
boundVars == <<submits, failures>>

Stages == {"idle", "provision", "move", "verify", "record", "dropGrant", "keepGrant",
           "converge", "repoint", "told"}
Rows == [owner : People, path : People]
FollowUps == {"dropGrant", "keepGrant", "converge", "repoint"}

\* A submission: TransferInput and how far it has come.
Submission ==
  [pc : Stages \ {"idle"}, project : Rows, target : People, keep : BOOLEAN,
   changed : BOOLEAN,                \* what the outcome says
   recorded : BOOLEAN,               \* the row was updated
   partial : SUBSET FollowUps,       \* the steps that failed after it
   home : People, alone : BOOLEAN]   \* history: repo when submitted; no other since
Idle == [pc |-> "idle", project |-> [owner |-> Nobody, path |-> Nobody],
         target |-> Nobody, keep |-> FALSE,
         changed |-> FALSE, recorded |-> FALSE, partial |-> {},
         home |-> Nobody, alone |-> FALSE]

TypeOK ==
  /\ row \in Rows
  /\ grants \in [People -> People \cup {Nobody}]
  /\ repo \in People /\ collab \subseteq People /\ app \in People
  /\ handler \in [Handlers -> Submission \cup {Idle}]
  /\ sweep \in People \cup {Nobody}
  /\ submits \in 0..MaxSubmits /\ failures \in 0..MaxFailures

\* The logins that the grants make collaborators.
Logins == {grants[u] : u \in People} \ {Nobody}

\* A project that is ready, with grants to some; its owner needs none.
Init ==
  \E o \in People, granted \in SUBSET People :
    /\ o \notin granted
    /\ row = [owner |-> o, path |-> o] /\ repo = o /\ app = o
    /\ grants = [u \in People |-> IF u \in granted THEN u ELSE Nobody]
    /\ collab = granted
    /\ handler = [h \in Handlers |-> Idle]
    /\ sweep = Nobody /\ submits = 0 /\ failures = 0

-----------------------------------------------------------------------------
Fail == failures < MaxFailures /\ failures' = failures + 1
At(h, pc) == handler[h].pc = pc
Goto(h, pc) == handler' = [handler EXCEPT ![h].pc = pc]
Busy(h) == ~At(h, "idle")

\* The outcome that the administrator reads.
Tell(h, changed) == handler' = [handler EXCEPT ![h].pc = "told", ![h].changed = changed]
\* A follow-up step is done, or noted as failed; the next one is tried.
Done(h, next) == Goto(h, next) /\ UNCHANGED failures
Partial(h, next) ==
  /\ handler' = [handler EXCEPT ![h].pc = next, ![h].partial = @ \cup {handler[h].pc}]
  /\ Fail

-----------------------------------------------------------------------------
(* The form, up to the point of no return.                                 *)

\* The row is read; the plan refuses the present owner.
Submit(h, t, keep) ==
  /\ At(h, "idle") /\ submits < MaxSubmits /\ submits' = submits + 1
  /\ t # row.owner
  /\ handler' = [g \in Handlers |->
       IF g = h THEN [pc |-> "provision", project |-> row, target |-> t, keep |-> keep,
                      changed |-> FALSE, recorded |-> FALSE, partial |-> {},
                      home |-> repo, alone |-> \A f \in Handlers : ~Busy(f)]
       ELSE IF Busy(g) THEN [handler[g] EXCEPT !.alone = FALSE] ELSE Idle]
  /\ UNCHANGED <<row, grants, repo, collab, app, sweep, failures>>

\* ensureProvisioned, and a look at the account it should have made.
ProvisionTarget(h) ==
  /\ At(h, "provision")
  /\ (Goto(h, "move") /\ UNCHANGED failures) \/ (Tell(h, FALSE) /\ Fail)
  /\ UNCHANGED <<row, grants, repo, collab, app, sweep, submits>>

\* "Repo already under": the row is believed, and Gitea is not asked.
UnderTarget(h) == handler[h].project.path = handler[h].target
SkipMove(h) ==
  /\ At(h, "move") /\ UnderTarget(h)
  /\ Goto(h, "record")
  /\ UNCHANGED <<row, grants, repo, collab, app, sweep, boundVars>>

\* transferRepo: the POST.  Gitea applies a site admin's transfer at once, and the
\* new owner stops being a collaborator.
Moved(h) == repo' = handler[h].target /\ collab' = collab \ {handler[h].target}
Move(h) ==
  /\ At(h, "move") /\ ~UnderTarget(h)
  /\ repo # handler[h].target
  /\ Moved(h)
  /\ Goto(h, "verify")
  /\ UNCHANGED <<row, grants, app, sweep, boundVars>>

\* For a token that is no site admin's, Gitea parks the transfer and answers 201.
Park(h) ==
  /\ At(h, "move") /\ ~UnderTarget(h)
  /\ Goto(h, "verify") /\ Fail
  /\ UNCHANGED <<row, grants, repo, collab, app, sweep, submits>>

\* Gitea refuses: the repository is not where the row says, or has that owner; or
\* the call fails, before Gitea did it or after.
MoveFails(h) ==
  /\ At(h, "move") /\ ~UnderTarget(h)
  /\ \/ repo # handler[h].project.path /\ UNCHANGED <<repo, collab, failures>>
     \/ Fail /\ UNCHANGED <<repo, collab>>
     \/ Fail /\ repo # handler[h].target /\ Moved(h)
  /\ Tell(h, FALSE)
  /\ UNCHANGED <<row, grants, app, sweep, submits>>

\* Wrong version: any answer of the GET will do.
AnyAnswer(h) == TRUE

\* The GET under the new owner, whose answer must name it.
Arrived(h) == repo = handler[h].target
Verify(h) ==
  /\ At(h, "verify")
  /\ \/ Arrived(h) /\ Goto(h, "record") /\ UNCHANGED failures
     \/ ~Arrived(h) /\ Tell(h, FALSE) /\ UNCHANGED failures
     \/ Fail /\ Tell(h, FALSE)
  /\ UNCHANGED <<row, grants, repo, collab, app, sweep, submits>>

-----------------------------------------------------------------------------
(* The row, and the follow-up steps.                                       *)

\* setProjectOwner: "the two MUST move together".
NewRow(h) == [owner |-> handler[h].target, path |-> handler[h].target]
Record(h) ==
  /\ At(h, "record")
  /\ row' = NewRow(h)
  /\ handler' = [handler EXCEPT ![h].pc = "dropGrant", ![h].recorded = TRUE, ![h].changed = TRUE]
  /\ UNCHANGED <<grants, repo, collab, app, sweep, boundVars>>
RecordFails(h) ==
  /\ At(h, "record") /\ Fail
  /\ Tell(h, TRUE)
  /\ UNCHANGED <<row, grants, repo, collab, app, sweep, submits>>

\* The new owner's own grant goes.
DropGrant(h) ==
  LET next == IF handler[h].keep THEN "keepGrant" ELSE "converge" IN
  /\ At(h, "dropGrant")
  /\ \/ /\ grants' = [grants EXCEPT ![handler[h].target] = Nobody]
        /\ Done(h, next)
     \/ Partial(h, next) /\ UNCHANGED grants
  /\ UNCHANGED <<row, repo, collab, app, sweep, submits>>

\* The previous owner is made admin, under the login that the row's path has.
KeepGrant(h) ==
  LET p == handler[h].project IN
  /\ At(h, "keepGrant")
  /\ \/ grants' = [grants EXCEPT ![p.owner] = p.path] /\ Done(h, "converge")
     \/ Partial(h, "converge") /\ UNCHANGED grants
  /\ UNCHANGED <<row, repo, collab, app, sweep, submits>>

\* syncRepoAccess with a row that names path: the collaborators become what the
\* grants say, but path is neither added nor removed, and the owner cannot be one.
\* Elsewhere it works by the redirect, or fails.  (Its own steps are RepoAccess.)
Converged(path) == collab' = (Logins \ {path, repo}) \cup (collab \cap {path})
Converge(h) ==
  LET t == handler[h].target IN
  /\ At(h, "converge")
  /\ \/ Converged(t) /\ Done(h, "repoint")
     \/ /\ repo # t /\ (Converged(t) \/ UNCHANGED collab)
        /\ handler' = [handler EXCEPT ![h].pc = "repoint", ![h].partial = @ \cup {"converge"}]
        /\ UNCHANGED failures
     \/ Partial(h, "repoint") /\ UNCHANGED collab
  /\ UNCHANGED <<row, grants, repo, app, sweep, submits>>

\* Wrong version: the Application keeps its source.
KeepsSource(h) == app

\* patchArgoApplicationRepoUrl; the audit row and the answer follow.
NewSource(h) == handler[h].target
Repoint(h) ==
  /\ At(h, "repoint")
  /\ \/ app' = NewSource(h) /\ Done(h, "told")
     \/ Partial(h, "told") /\ UNCHANGED app
  /\ UNCHANGED <<row, grants, repo, collab, sweep, submits>>

-----------------------------------------------------------------------------
(* The administrator, the sweep, and the process.                          *)

Answered(h) == handler' = [handler EXCEPT ![h] = Idle]
Dismiss(h) ==
  /\ At(h, "told") /\ Answered(h)
  /\ UNCHANGED <<row, grants, repo, collab, app, sweep, boundVars>>

\* "Run against the portal database": the path only.
RunSql(h) ==
  /\ At(h, "told") /\ handler[h].changed /\ ~handler[h].recorded
  /\ row' = [row EXCEPT !.path = handler[h].target]
  /\ Answered(h)
  /\ UNCHANGED <<grants, repo, collab, app, sweep, boundVars>>

\* "Deployments will not follow new pushes until you run": the kubectl patch.
RunKubectl(h) ==
  /\ At(h, "told") /\ "repoint" \in handler[h].partial
  /\ app' = handler[h].target
  /\ Answered(h)
  /\ UNCHANGED <<row, grants, repo, collab, sweep, boundVars>>

\* reconcileAllProjects lists the rows, and gets to this one when it may have changed.
StartSweep ==
  /\ sweep = Nobody /\ sweep' = row.path
  /\ UNCHANGED <<row, grants, repo, collab, app, handler, boundVars>>
Sweep ==
  /\ sweep # Nobody /\ sweep' = Nobody
  /\ Converged(sweep) \/ (repo # sweep /\ UNCHANGED collab)
  /\ UNCHANGED <<row, grants, repo, app, handler, boundVars>>

\* The portal restarts: the steps that are left are not taken, and nobody is told.
Restart ==
  /\ Fail
  /\ handler' = [h \in Handlers |-> Idle] /\ sweep' = Nobody
  /\ UNCHANGED <<row, grants, repo, collab, app, submits>>

-----------------------------------------------------------------------------
Transfer(h) ==
  \/ ProvisionTarget(h) \/ SkipMove(h) \/ Move(h) \/ Park(h) \/ MoveFails(h) \/ Verify(h)
  \/ Record(h) \/ RecordFails(h)
  \/ DropGrant(h) \/ KeepGrant(h) \/ Converge(h) \/ Repoint(h)
Administrator(h) ==
  \/ \E t \in People, keep \in BOOLEAN : Submit(h, t, keep)
  \/ Dismiss(h) \/ RunSql(h) \/ RunKubectl(h)
Next ==
  \/ \E h \in Handlers : Transfer(h) \/ Administrator(h)
  \/ StartSweep \/ Sweep \/ Restart

Spec == Init /\ [][Next]_vars

-----------------------------------------------------------------------------
(* Properties.                                                             *)

\* Every transfer under way has had the project to itself since it was submitted.
NoOverlap == \A h \in Handlers : Busy(h) => handler[h].alone

\* "Gitea first, then the row, immediately": unless transfers overlap, the row is
\* never made to name a place where the repository is not, whichever call fails,
\* whatever was done by hand and wherever the portal stopped before.
RowFollowsRepo ==
  [][NoOverlap /\ row'.path # row.path => row'.path = repo]_vars

\* The answer "transferred" is true of all four places when no other transfer was
\* submitted meanwhile: row, Application, the new owner's grant, and repository.
\* (The repository, unless the form was submitted for the very owner that the
\* row's path wrongly had: that branch does not look.)
Succeeded(h) == At(h, "told") /\ handler[h].recorded /\ handler[h].partial = {}
Trusted(r) == r.project.path = r.target => r.home = r.target
HandedOver(t) ==
  row = [owner |-> t, path |-> t] /\ app = t /\ grants[t] = Nobody
SuccessIsComplete ==
  \A h \in Handlers :
    Succeeded(h) /\ handler[h].alone =>
      /\ HandedOver(handler[h].target)
      /\ Trusted(handler[h]) => repo = handler[h].target

-----------------------------------------------------------------------------
(* Why they hold: what a transfer on its own has done so far.              *)

Moving == {"provision", "move", "verify", "record"}
Progress(r) ==
  /\ r.target # r.project.owner
  /\ r.pc \in Moving => ~r.recorded /\ r.partial = {}
  /\ r.pc \in {"provision", "move"} => repo = r.home
  /\ r.pc = "verify" => r.project.path # r.target
  /\ r.pc = "record" => repo = IF r.project.path = r.target THEN r.home ELSE r.target
  /\ ~r.recorded => row = r.project
  /\ r.pc \in FollowUps => r.recorded
  /\ r.recorded => /\ row = [owner |-> r.target, path |-> r.target]
                   /\ Trusted(r) => repo = r.target
  /\ r.recorded /\ r.pc \in {"keepGrant", "converge", "repoint", "told"}
       => "dropGrant" \in r.partial \/ grants[r.target] = Nobody
  /\ r.recorded /\ r.pc = "told" => "repoint" \in r.partial \/ app = r.target
  /\ r.pc = "told" /\ ~r.recorded /\ r.changed => repo = r.target \/ r.project.path = r.target
AloneProgress ==
  \A h \in Handlers :
    Busy(h) /\ handler[h].alone =>
      Progress(handler[h]) /\ \A g \in Handlers \ {h} : ~Busy(g)
=============================================================================
