-------------------------- MODULE ProjectLifecycle --------------------------
(***************************************************************************)
(* The life of one project slug: the two creation paths of the portal      *)
(* (routes/dashboard.ts, services/mcp.ts), services/provisionProject.ts,   *)
(* and the cascade of services/project-purge.ts.                           *)
(*                                                                         *)
(* A project is a row of the database and, under the same slug, a          *)
(* Kubernetes namespace, an ArgoCD Application that deploys a repository   *)
(* into it, and the repository, under its owner's Gitea account.  Nothing  *)
(* ties the four together but the order of the calls: a run that provisions*)
(* takes a minute, is not awaited by its request, and shares the slug with *)
(* the deletes and with the next owner of it.  A step of this module is    *)
(* one call; Kubernetes and ArgoCD finish a deletion when they please.     *)
(***************************************************************************)
EXTENDS Integers, FiniteSets

CONSTANTS
  People,      \* who create projects
  Nameless,    \* those whose session carries no preferred_username
  Handlers,    \* requests, with the runs they leave behind, at once (a bound)
  MaxProjects, \* bound on the projects ever created on the slug
  MaxFailures  \* bound on failed calls and on portal restarts

ASSUME ProjectLifecycleAssumption ==
  /\ People # {} /\ Nameless \subseteq People
  /\ MaxProjects \in Nat /\ MaxFailures \in Nat

VARIABLES
  row,      \* the row of projects with the slug (UNIQUE); id 0 when there is none
  ns,       \* the namespace: state, and whether every policy of the baseline is in it
  repos,    \* Gitea repositories <owner>/<slug> that exist
  rendered, \* those whose k8s/ directory holds the composed manifests
  app,      \* the Application: state, and the owner whose repository it deploys
  handler,
  created,  \* number of projects created so far
  failures,
  pristine, \* history: the project that had the slug to itself since it was created
  raced,    \* history: a delete was taken up while a run or a delete was under way
  leftover, \* history: a delete failed in one of its steps, or was told to keep something
  lost      \* history: a run was killed or could not write its verdict

world == <<ns, repos, rendered, app>>
history == <<pristine, raced, leftover, lost>>
vars == <<row, world, handler, created, failures, history>>

RunStages == {"seal", "policies", "generate", "record", "render", "gate",
              "register", "ready", "failed"}
PurgeStages == {"dropApp", "dropNamespace", "dropRepo", "dropRow"}
Stages == {"idle", "namespace", "insert"} \cup RunStages \cup PurgeStages

Ids == 0..MaxProjects
Statuses == {"provisioning", "ready", "failed"}
Somebody == CHOOSE o \in People : TRUE
NoRow == [id |-> 0, owner |-> Somebody, repo |-> FALSE, status |-> "failed"]
NoNamespace == [state |-> "none", sealed |-> FALSE]
NoApp == [state |-> "none", owner |-> Somebody]
Idle == [pc |-> "idle", id |-> 0, owner |-> Somebody,
         sealed |-> FALSE, repo |-> FALSE, manifests |-> FALSE,
         keepRepo |-> FALSE, keepNamespace |-> FALSE]

HandlerRecords ==
  [pc : Stages, id : Ids, owner : People,
   sealed : BOOLEAN, repo : BOOLEAN, manifests : BOOLEAN, \* ProvisionResult, or the row read
   keepRepo : BOOLEAN, keepNamespace : BOOLEAN]           \* PurgeOptions

TypeOK ==
  /\ row \in [id : Ids, owner : People, repo : BOOLEAN, status : Statuses]
  /\ ns \in [state : {"none", "active", "terminating"}, sealed : BOOLEAN]
  /\ repos \subseteq People /\ rendered \subseteq repos
  /\ app \in [state : {"none", "live", "deleting"}, owner : People]
  /\ handler \in [Handlers -> HandlerRecords]
  /\ created \in Ids /\ failures \in 0..MaxFailures
  /\ pristine \in Ids /\ raced \in BOOLEAN /\ leftover \in BOOLEAN /\ lost \in BOOLEAN

Init ==
  /\ row = NoRow /\ ns = NoNamespace /\ repos = {} /\ rendered = {} /\ app = NoApp
  /\ handler = [h \in Handlers |-> Idle]
  /\ created = 0 /\ failures = 0
  /\ pristine = 0 /\ raced = FALSE /\ leftover = FALSE /\ lost = FALSE

-----------------------------------------------------------------------------
At(h, pc) == handler[h].pc = pc
Goto(h, pc) == handler' = [handler EXCEPT ![h].pc = pc]
Return(h) == handler' = [handler EXCEPT ![h] = Idle]
Fail == failures < MaxFailures /\ failures' = failures + 1

\* A step on the slug's resources on behalf of project id disturbs any other.
Touch(id) == pristine' = IF pristine = id THEN id ELSE 0
OfRow(h) == row.id # 0 /\ row.id = handler[h].id

-----------------------------------------------------------------------------
(* POST /projects and the create_project tool.                             *)

\* The slug is refused when it has a row ...
CheckSlug(h, o) ==
  /\ At(h, "idle") /\ row.id = 0
  /\ handler' = [handler EXCEPT ![h] = [Idle EXCEPT !.pc = "namespace", !.owner = o]]
  /\ UNCHANGED <<row, world, created, failures, history>>

\* ... and when its namespace is still there, terminating or not, or the call
\* to find out throws.
Available(state) == state = "none"
CheckNamespace(h) ==
  /\ At(h, "namespace")
  /\ \/ Available(ns.state) /\ Goto(h, "insert") /\ UNCHANGED failures
     \/ ~Available(ns.state) /\ Return(h) /\ UNCHANGED failures
     \/ Fail /\ Return(h)
  /\ UNCHANGED <<row, world, created, history>>

\* createProject: the UNIQUE column decides between two creators.  (The bound on
\* the projects refuses as well.)
Insert(h) ==
  /\ At(h, "insert") /\ row.id = 0 /\ created < MaxProjects
  /\ created' = created + 1
  /\ row' = [id |-> created + 1, owner |-> handler[h].owner, repo |-> FALSE,
             status |-> "provisioning"]
  /\ handler' = [handler EXCEPT ![h].pc = "seal", ![h].id = created + 1]
  /\ pristine' = IF app = NoApp /\ ns = NoNamespace THEN created + 1 ELSE 0
  /\ UNCHANGED <<world, failures, raced, leftover, lost>>
Refused(h) ==
  /\ At(h, "insert") /\ (row.id # 0 \/ created = MaxProjects)
  /\ Return(h)
  /\ UNCHANGED <<row, world, created, failures, history>>

-----------------------------------------------------------------------------
(* provisionProject.                                                       *)

\* applyNamespaceBaseline: the namespace (a 409 is no error) ...
CreateNamespace(h) ==
  /\ At(h, "seal")
  /\ ns' = IF ns.state = "none" THEN [state |-> "active", sealed |-> FALSE] ELSE ns
  /\ Goto(h, "policies")
  /\ Touch(handler[h].id)
  /\ UNCHANGED <<row, repos, rendered, app, created, failures, raced, leftover, lost>>

\* ... then its labels, network policies, quota and limits; none can be put
\* into a namespace that is terminating or gone.
Seal(h) ==
  /\ At(h, "policies") /\ ns.state = "active"
  /\ ns' = [ns EXCEPT !.sealed = TRUE]
  /\ handler' = [handler EXCEPT ![h].pc = "generate", ![h].sealed = TRUE]
  /\ Touch(handler[h].id)
  /\ UNCHANGED <<row, repos, rendered, app, created, failures, raced, leftover, lost>>
SealFails(h) ==
  /\ handler[h].pc \in {"seal", "policies"}
  /\ (At(h, "policies") /\ ns.state # "active" /\ UNCHANGED failures) \/ Fail
  /\ Goto(h, "generate")
  /\ UNCHANGED <<row, world, created, history>>

\* ensureUser and generateFromTemplate: a repository that is there is adopted.
\* Without a username there is nothing to create under.
Generate(h) ==
  LET o == handler[h].owner IN
  /\ At(h, "generate") /\ o \notin Nameless
  /\ repos' = repos \cup {o}
  /\ Goto(h, "record")
  /\ UNCHANGED <<row, ns, rendered, app, created, failures, history>>
SkipRepo(h) ==
  /\ At(h, "generate") /\ handler[h].owner \in Nameless
  /\ Goto(h, "gate")
  /\ UNCHANGED <<row, world, created, failures, history>>

\* The repository may have been made all the same when the answer is lost.
GenerateFails(h) ==
  LET o == handler[h].owner IN
  /\ At(h, "generate") /\ o \notin Nameless /\ Fail
  /\ repos' \in {repos, repos \cup {o}}
  /\ Goto(h, "gate")
  /\ UNCHANGED <<row, ns, rendered, app, created, history>>

\* setGiteaRepo: an UPDATE by id, which finds no row after a delete.
Record(h) ==
  /\ At(h, "record")
  /\ row' = IF OfRow(h) THEN [row EXCEPT !.repo = TRUE] ELSE row
  /\ handler' = [handler EXCEPT ![h].pc = "render", ![h].repo = TRUE]
  /\ UNCHANGED <<world, created, failures, history>>
RecordFails(h) ==
  /\ At(h, "record") /\ Fail
  /\ Goto(h, "gate")
  /\ UNCHANGED <<row, world, created, history>>

\* Wrong version: files are put into a repository that is not there.
NoRepoNeeded(o) == TRUE

Writable(o) == o \in repos
\* Collaborators, credentials and composeProjectManifests; only the last one
\* counts, and it needs the repository.  What follows is best effort.
Render(h) ==
  LET o == handler[h].owner IN
  /\ At(h, "render") /\ Writable(o)
  /\ rendered' = rendered \cup {o}
  /\ handler' = [handler EXCEPT ![h].pc = "gate", ![h].manifests = TRUE]
  /\ UNCHANGED <<row, ns, repos, app, created, failures, history>>
RenderFails(h) ==
  /\ At(h, "render")
  /\ (~Writable(handler[h].owner) /\ UNCHANGED failures) \/ Fail
  /\ Goto(h, "gate")
  /\ UNCHANGED <<row, world, created, history>>

\* Wrong versions: the manifests do not count; the namespace does not count.
GateIgnoresManifests(r) == r.sealed /\ (r.owner \notin Nameless => r.repo)
GateIgnoresSeal(r) == r.owner \notin Nameless => r.repo /\ r.manifests

\* "FAIL CLOSED on two conditions."
Deployable(r) == r.sealed /\ (r.owner \notin Nameless => r.repo /\ r.manifests)
Gate(h) ==
  LET r == handler[h] IN
  /\ At(h, "gate")
  /\ Goto(h, IF ~Deployable(r) THEN "failed"
             ELSE IF r.owner \in Nameless THEN "ready" ELSE "register")
  /\ UNCHANGED <<row, world, created, failures, history>>

\* createArgoApplication: an Application that is there, of whomever and
\* deleting or not, is a success.
Registered(o) == IF app.state = "none" THEN [state |-> "live", owner |-> o] ELSE app
Register(h) ==
  /\ At(h, "register")
  /\ app' = Registered(handler[h].owner)
  /\ Goto(h, "ready")
  /\ Touch(handler[h].id)
  /\ UNCHANGED <<row, ns, repos, rendered, created, failures, raced, leftover, lost>>
RegisterFails(h) ==
  /\ At(h, "register") /\ Fail
  /\ app' \in {app, Registered(handler[h].owner)}
  /\ Goto(h, "failed")
  /\ Touch(handler[h].id)
  /\ UNCHANGED <<row, ns, repos, rendered, created, raced, leftover, lost>>

\* Wrong version: a run that fails leaves the row as it is.
MarksReadyOnly(status) == IF status = "ready" THEN status ELSE row.status

\* setProjectStatus: the last thing a run does, best effort.
Verdict(status) == status
SetStatus(h) ==
  /\ handler[h].pc \in {"ready", "failed"}
  /\ row' = IF OfRow(h) THEN [row EXCEPT !.status = Verdict(handler[h].pc)] ELSE row
  /\ Return(h)
  /\ UNCHANGED <<world, created, failures, history>>
SetStatusFails(h) ==
  /\ handler[h].pc \in {"ready", "failed"} /\ Fail
  /\ lost' = TRUE
  /\ Return(h)
  /\ UNCHANGED <<row, world, created, pristine, raced, leftover>>

-----------------------------------------------------------------------------
(* POST /projects/:id/delete and the delete_project tool.                  *)

Busy(h) == handler[h].pc \in RunStages \cup PurgeStages

\* The row is read once; what it says of the repository goes into the purge.
StartDelete(h, keepRepo, keepNamespace) ==
  /\ At(h, "idle") /\ row.id # 0
  /\ handler' = [handler EXCEPT ![h] =
       [Idle EXCEPT !.pc = "dropApp", !.id = row.id, !.owner = row.owner, !.repo = row.repo,
                    !.keepRepo = keepRepo, !.keepNamespace = keepNamespace]]
  /\ raced' = (raced \/ \E g \in Handlers : Busy(g))
  /\ leftover' = (leftover \/ keepRepo \/ keepNamespace)
  /\ UNCHANGED <<row, world, created, failures, pristine, lost>>

\* A step that fails is noted and the next one is tried.
StepFails == Fail /\ leftover' = TRUE
StepDone == UNCHANGED <<failures, leftover>>

\* deleteArgoApplication: its finalizer holds it until the workloads are pruned.
DropApp(h) ==
  /\ At(h, "dropApp")
  /\ \/ /\ app' = IF app.state = "live" THEN [app EXCEPT !.state = "deleting"] ELSE app
        /\ StepDone
     \/ StepFails /\ UNCHANGED app
  /\ Goto(h, IF handler[h].keepNamespace THEN "dropRepo" ELSE "dropNamespace")
  /\ Touch(0)
  /\ UNCHANGED <<row, ns, repos, rendered, created, raced, lost>>

\* deleteNamespace: Kubernetes accepts, and finishes later.
DropNamespace(h) ==
  /\ At(h, "dropNamespace")
  /\ \/ /\ ns' = IF ns.state = "active" THEN [ns EXCEPT !.state = "terminating"] ELSE ns
        /\ StepDone
     \/ StepFails /\ UNCHANGED ns
  /\ Goto(h, "dropRepo")
  /\ Touch(0)
  /\ UNCHANGED <<row, repos, rendered, app, created, raced, lost>>

\* Wrong version: the repository is not deleted.
ForgetsRepo(r) == {}

\* deleteRepo, of the repository that the row named when it was read.
ToDelete(r) == IF r.repo /\ ~r.keepRepo THEN {r.owner} ELSE {}
DropRepo(h) ==
  /\ At(h, "dropRepo")
  /\ \/ /\ repos' = repos \ ToDelete(handler[h])
        /\ rendered' = rendered \ ToDelete(handler[h])
        /\ StepDone
     \/ StepFails /\ UNCHANGED <<repos, rendered>>
  /\ Goto(h, "dropRow")
  /\ Touch(0)
  /\ UNCHANGED <<row, ns, app, created, raced, lost>>

\* deleteProject, whatever the purge says.
DropRow(h) ==
  /\ At(h, "dropRow")
  /\ row' = IF OfRow(h) THEN NoRow ELSE row
  /\ Return(h)
  /\ UNCHANGED <<world, created, failures, history>>
DropRowFails(h) ==
  /\ At(h, "dropRow") /\ Fail
  /\ Return(h)
  /\ UNCHANGED <<row, world, created, history>>

-----------------------------------------------------------------------------
(* The cluster and the process.                                            *)

NamespaceGone ==
  /\ ns.state = "terminating" /\ ns' = NoNamespace
  /\ UNCHANGED <<row, repos, rendered, app, handler, created, failures, history>>
AppGone ==
  /\ app.state = "deleting" /\ app' = NoApp
  /\ UNCHANGED <<row, ns, repos, rendered, handler, created, failures, history>>

\* The portal restarts: runs and requests are gone, and nothing resumes them.
Restart ==
  /\ Fail
  /\ handler' = [h \in Handlers |-> Idle]
  /\ lost' = TRUE
  /\ UNCHANGED <<row, world, created, pristine, raced, leftover>>

-----------------------------------------------------------------------------
Request(h) ==
  \/ \E o \in People : CheckSlug(h, o)
  \/ \E keepRepo, keepNamespace \in BOOLEAN : StartDelete(h, keepRepo, keepNamespace)
Run(h) ==
  \/ CreateNamespace(h) \/ Seal(h) \/ SealFails(h)
  \/ Generate(h) \/ SkipRepo(h) \/ GenerateFails(h)
  \/ Record(h) \/ RecordFails(h) \/ Render(h) \/ RenderFails(h)
  \/ Gate(h) \/ Register(h) \/ RegisterFails(h)
  \/ SetStatus(h) \/ SetStatusFails(h)
Purge(h) == DropApp(h) \/ DropNamespace(h) \/ DropRepo(h) \/ DropRow(h) \/ DropRowFails(h)
Advance(h) == CheckNamespace(h) \/ Insert(h) \/ Refused(h) \/ Run(h) \/ Purge(h)
Next ==
  \/ \E h \in Handlers : Request(h) \/ Advance(h)
  \/ NamespaceGone \/ AppGone \/ Restart

Spec == Init /\ [][Next]_vars

\* An asynchronous function goes on until it returns: every call it awaits
\* answers or times out.
Fairness == \A h \in Handlers : WF_vars(Advance(h))
FairSpec == Spec /\ Fairness

-----------------------------------------------------------------------------
(* Properties.                                                             *)

\* "`ready` only on the full happy path": a ready project that has had the slug
\* to itself has a sealed namespace, a rendered repository that its row names,
\* and a live Application that deploys that repository.
Deployed(o) ==
  /\ ns = [state |-> "active", sealed |-> TRUE]
  /\ o \notin Nameless =>
       o \in rendered /\ row.repo /\ app = [state |-> "live", owner |-> o]
ReadyIsDeployed ==
  row.id # 0 /\ row.status = "ready" /\ pristine = row.id => Deployed(row.owner)

\* "Never deploy tenant code into an unsealed namespace": unless a delete raced
\* with a run or failed to remove an Application, none that is live has a
\* namespace to deploy into that is not sealed, whatever call fails.
SealedFirst ==
  app.state = "live" /\ ns.state = "active" /\ ~ns.sealed => raced \/ leftover

\* A delete that raced with nothing and failed in nothing leaves nothing behind
\* that runs, whatever had happened to the project before; it leaves no
\* repository unless a call failed before the repository was recorded.
AtRest == \A h \in Handlers : ~Busy(h)
NothingLeft ==
  app.state # "live" /\ ns.state # "active" /\ (failures = 0 => repos = {})
DeleteLeavesNothing ==
  AtRest /\ row.id = 0 /\ ~raced /\ ~leftover => NothingLeft

\* "Rather than leaving it stuck `provisioning`": every project gets a verdict or
\* is deleted, unless its run was killed or its verdict could not be written.
ProvisioningEnds ==
  row.id # 0 /\ row.status = "provisioning"
    ~> row.id = 0 \/ row.status # "provisioning" \/ lost

-----------------------------------------------------------------------------
(* Why a ready project is deployed: what the steps maintain all along.     *)

\* Ids are given once, in order; the undisturbed project is the row's.
Numbered ==
  /\ row.id <= created /\ pristine \in {0, row.id}
  /\ \A h \in Handlers : handler[h].id <= created /\ (Busy(h) => handler[h].id # 0)

\* At most one run works for a project, under the owner its row names.
OneRun ==
  \A h \in Handlers :
    handler[h].pc \in RunStages =>
      /\ handler[h].id = row.id => handler[h].owner = row.owner
      /\ \A g \in Handlers \ {h} :
           handler[g].pc \in RunStages => handler[g].id # handler[h].id

\* A purge has disturbed its project from its first step on, and nothing of an
\* undisturbed project is being deleted.
Undisturbed ==
  /\ pristine # 0 => ns.state # "terminating" /\ app.state # "deleting"
  /\ \A h \in Handlers :
       handler[h].pc \in PurgeStages \ {"dropApp"} => handler[h].id # pristine

\* What a run has noted of its progress is true of an undisturbed project.
Noted(r) ==
  /\ r.pc = "seal" => ns = NoNamespace
  /\ r.pc = "policies" => ns.state = "active"
  /\ r.pc \in RunStages \ {"ready", "failed"} => app = NoApp
  /\ r.sealed => ns = [state |-> "active", sealed |-> TRUE]
  /\ r.pc = "record" \/ r.repo => r.owner \in repos
  /\ r.repo => row.repo
  /\ r.manifests => r.owner \in rendered
  /\ r.pc = "register" => r.owner \notin Nameless
  /\ r.pc \in {"register", "ready"} => Deployable(r)
  /\ r.pc = "ready" /\ r.owner \notin Nameless => app = [state |-> "live", owner |-> r.owner]
RunsNoted ==
  \A h \in Handlers :
    /\ handler[h].pc \in {"namespace", "insert"} =>
         ~handler[h].sealed /\ ~handler[h].repo /\ ~handler[h].manifests
    /\ handler[h].pc \in RunStages /\ handler[h].id = pristine => Noted(handler[h])

-----------------------------------------------------------------------------
(* Why a delete leaves nothing: what the steps maintain while no delete    *)
(* has raced with anything, and nothing was kept or failed to be deleted.  *)

\* One handler works on the slug, and for its row.
OneWorker ==
  ~raced => \A h \in Handlers : Busy(h) =>
    handler[h].id = row.id /\ \A g \in Handlers \ {h} : ~Busy(g)

\* What a purge read of its row still stands there, and it is to keep nothing.
PurgeKnows ==
  \A h \in Handlers : handler[h].pc \in PurgeStages =>
    /\ ~raced => handler[h].owner = row.owner /\ handler[h].repo = row.repo
    /\ ~leftover => ~handler[h].keepRepo /\ ~handler[h].keepNamespace

\* What runs, runs in a sealed namespace, and a purge has ended it when it goes on.
TornDown ==
  ~raced /\ ~leftover =>
    /\ app.state = "live" => ns = [state |-> "active", sealed |-> TRUE]
    /\ row.id = 0 => app.state # "live" /\ ns.state # "active"
    /\ \A h \in Handlers :
         /\ handler[h].pc \in {"dropNamespace", "dropRepo", "dropRow"} => app.state # "live"
         /\ handler[h].pc \in {"dropRepo", "dropRow"} => ns.state # "active"
         /\ handler[h].pc = "register" => handler[h].sealed
         /\ handler[h].pc \in RunStages /\ handler[h].sealed =>
              ns = [state |-> "active", sealed |-> TRUE]

\* While no call has failed, the only repository is that of the row, which names it
\* or is about to.
Recorded ==
  ~raced /\ ~leftover /\ failures = 0 =>
    /\ repos \subseteq {row.owner} /\ (row.id = 0 => repos = {})
    /\ repos # {} => row.repo \/ \E h \in Handlers : handler[h].pc = "record"
    /\ \A h \in Handlers : handler[h].pc = "dropRow" => repos = {}

TidyInv == OneWorker /\ PurgeKnows /\ TornDown /\ Recorded

-----------------------------------------------------------------------------
(* What the repository's text says, and the code does not do.              *)

\* The cascade "tears down the Gitea repo + ArgoCD Application + project
\* namespace before dropping the portal DB row": when no call failed and nothing
\* was to be kept, nothing outlives the row.
NoOrphans ==
  AtRest /\ row.id = 0 /\ failures = 0 /\ ~leftover => NothingLeft

-----------------------------------------------------------------------------
(* What of ProvisioningEnds is safety.                                     *)

\* "Rather than leaving it stuck": a project that has no verdict yet has a run that is
\* still to give it one, unless a run was killed or could not write its verdict.
StillWorkedOn ==
  row.id # 0 /\ row.status = "provisioning" /\ ~lost
    => \E h \in Handlers : handler[h].pc \in RunStages /\ handler[h].id = row.id

\* How many stages a handler has before it, at most.
Left(r) ==
  CASE r.pc = "idle" -> 0
    [] r.pc \in {"ready", "failed", "dropRow"} -> 1
    [] r.pc \in {"register", "dropRepo"} -> 2
    [] r.pc \in {"gate", "dropNamespace"} -> 3
    [] r.pc \in {"render", "dropApp"} -> 4
    [] r.pc = "record" -> 5
    [] r.pc = "generate" -> 6
    [] r.pc = "policies" -> 7
    [] r.pc = "seal" -> 8
    [] r.pc = "insert" -> 9
    [] r.pc = "namespace" -> 10
Onward(h) ==
  handler[h].pc # "idle" /\ handler'[h] # handler[h] => Left(handler'[h]) < Left(handler[h])

\* No creation, run or purge goes back, whatever fails and whoever else is at work: each
\* is over after ten steps at most.
WorkGoesOn ==
  /\ [](\A h \in Handlers : Left(handler[h]) \in 0..10)
  /\ [][\A h \in Handlers : Onward(h)]_vars
=============================================================================
