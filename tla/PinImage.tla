------------------------------ MODULE PinImage ------------------------------
(* How a new image gets deployed: the pin handler of                       *)
(* typescript/portal/src/routes/internal.ts, the tokens it demands         *)
(* (services/pin-token.ts, pin-token-backfill.ts, provisionProject.ts), the *)
(* rewriting of services/pin-image.ts, and composeProjectManifests of      *)
(* services/manifests.ts, which rewrites the same file.                    *)
(*                                                                         *)
(* A push to main starts a build.  The build asks the portal to pin its    *)
(* image: the portal compares the commit with the head of main, reads      *)
(* k8s/deployment.yaml and writes it back with the image, a commit on main *)
(* that starts no build.  The owner edits the file too, and a change of    *)
(* capabilities generates it anew around the image and the resources it    *)
(* finds.  A step of this module is one call.                              *)
(***************************************************************************)
EXTENDS Naturals

CONSTANTS
  Caps,       \* sets of capabilities, as far as the file shows them
  Tuning,     \* the owner's resources in the file
  Token,      \* what generatePinToken may return
  None,
  MaxEvents,  \* bound on pushes, edits, changes of capabilities, failures and restarts
  MaxCommits  \* bound on commits on main

ASSUME PinImageAssumption ==
  /\ Caps # {} /\ Tuning # {}
  /\ None \notin Token
  /\ MaxEvents \in Nat /\ MaxCommits \in Nat \ {0}

VARIABLES
  head,     \* commits on main; commits are numbered
  code,     \* the last commit that changed the sources
  deploy,   \* k8s/deployment.yaml
  workflow, \* does .gitea/workflows/build.yaml send the token?
  hash,     \* pin_token_hash of the row, as the token it was made from
  secret,   \* the Actions secret CV_PIN_TOKEN
  build,    \* the build of each commit, and its request to the portal
  toggle,   \* a change of capabilities in the portal
  boot,     \* who is rolling a token out: provisionProject, or the backfill at start-up
  overtaken, lost, \* history: has a pin landed on a commit it did not know;
                   \* has a call failed, or the portal been restarted?
  events

pinVars == <<head, code, deploy, workflow, hash, secret, build, toggle, boot, overtaken, lost, events>>
fileVars == <<head, code, deploy, workflow>>
tokenVars == <<hash, secret, boot>>
pinBounds == <<lost, events>>

Commits == 1..MaxCommits
File == [image : 0..MaxCommits, caps : Caps, tune : Tuning] \* the commit whose image; 0: bootstrap

Build == [pc : {"none", "queued", "read", "write", "done"},
          file : File \cup {None},
          behind : BOOLEAN]  \* history: did main move since its commit was seen at its head?
NoBuild == [pc |-> "none", file |-> None, behind |-> FALSE]

Toggle == [pc : {"idle", "read", "write"}, caps : Caps, file : File \cup {None}]
NoToggle == [pc |-> "idle", caps |-> CHOOSE c \in Caps : TRUE, file |-> None]

Boot == [pc : {"idle", "select", "hash", "secret", "workflow"}, token : Token \cup {None},
         fresh : BOOLEAN] \* the project is being made: its workflow is the template's
NoBoot == [pc |-> "idle", token |-> None, fresh |-> FALSE]

PinTypeOK ==
  /\ head \in Commits /\ code \in Commits
  /\ deploy \in File /\ workflow \in BOOLEAN
  /\ hash \in Token \cup {None} /\ secret \in Token \cup {None}
  /\ build \in [Commits -> Build]
  /\ toggle \in Toggle /\ boot \in Boot
  /\ overtaken \in BOOLEAN /\ lost \in BOOLEAN
  /\ events \in 0..MaxEvents

\* A project whose manifests are composed and whose token is to come, or one from before
\* tokens that a portal just started finds.  Its first commit has a build.
PinInit ==
  /\ head = 1 /\ code = 1
  /\ deploy = [image |-> 0, caps |-> CHOOSE c \in Caps : TRUE, tune |-> CHOOSE t \in Tuning : TRUE]
  /\ hash = None /\ secret = None
  /\ \/ workflow = TRUE /\ boot = [NoBoot EXCEPT !.pc = "hash", !.fresh = TRUE]
     \/ workflow = FALSE /\ boot = [NoBoot EXCEPT !.pc = "select"]
  /\ build = [c \in Commits |-> IF c = 1 THEN [NoBuild EXCEPT !.pc = "queued"] ELSE NoBuild]
  /\ toggle = NoToggle
  /\ overtaken = FALSE /\ lost = FALSE
  /\ events = 0

-----------------------------------------------------------------------------
Event == events < MaxEvents /\ events' = events + 1

\* The pins that have seen their commit at the head of main fall behind it.
Behind(b) == [c \in Commits |->
                [b[c] EXCEPT !.behind = @ \/ (b[c].pc \in {"read", "write"})]]

\* A commit on main, with a build unless its message says [skip ci].
Commit(skip) ==
  /\ head < MaxCommits /\ head' = head + 1
  /\ build' = IF skip THEN Behind(build)
              ELSE [Behind(build) EXCEPT ![head + 1] = [NoBuild EXCEPT !.pc = "queued"]]

(* The owner.                                                              *)

Push ==
  /\ Event /\ Commit(FALSE) /\ code' = head'
  /\ UNCHANGED <<deploy, workflow, tokenVars, toggle, overtaken, lost>>

\* Only the resources of the containers: whoever edits the image line answers for it.
Tune(t) ==
  /\ t # deploy.tune
  /\ Event /\ Commit(FALSE) /\ deploy' = [deploy EXCEPT !.tune = t]
  /\ UNCHANGED <<code, workflow, tokenVars, toggle, overtaken, lost>>

-----------------------------------------------------------------------------
(* A build and its request.                                                *)

Done(b, c) == [b EXCEPT ![c] = [NoBuild EXCEPT !.pc = "done"]]

\* The image is pushed and the portal asked: 401 unless the bearer is the project's token,
\* 409 unless the commit is the head of main.  (Secret and hash are only ever set, so that
\* the job may as well see the secret, and the portal the row, when the head is looked at.)
Bearer == IF workflow THEN secret ELSE None
Known == Bearer # None /\ Bearer = hash
AnyHead(c) == TRUE    \* a mutant: the sha is not compared
IsHead(c) == head = c
CompareHead(c) ==
  /\ build[c].pc = "queued"
  /\ build' = IF Known /\ IsHead(c) THEN [build EXCEPT ![c].pc = "read"] ELSE Done(build, c)
  /\ UNCHANGED <<fileVars, tokenVars, toggle, overtaken, pinBounds>>

ReadFile(c) ==
  /\ build[c].pc = "read"
  /\ build' = [build EXCEPT ![c] = [@ EXCEPT !.file = deploy, !.pc = "write"]]
  /\ UNCHANGED <<fileVars, tokenVars, toggle, overtaken, pinBounds>>

\* Gitea replaces a file only if its blob is the one that was read.
AnyPinBlob(read) == read # None    \* a mutant: the file is written whatever it is now
Unchanged(read) == deploy = read

\* rewritePinnedImageLines on what was read.
Pinned(c) == [build[c].file EXCEPT !.image = c]
WriteFile(c) ==
  /\ build[c].pc = "write"
  /\ \/ /\ Pinned(c) = build[c].file \/ ~Unchanged(build[c].file)
        /\ build' = Done(build, c)
        /\ UNCHANGED <<fileVars, overtaken>>
     \/ /\ Pinned(c) # build[c].file /\ Unchanged(build[c].file)
        /\ head < MaxCommits /\ head' = head + 1
        /\ deploy' = Pinned(c)
        /\ build' = Done(Behind(build), c)
        /\ overtaken' = (overtaken \/ head # c)
        /\ UNCHANGED <<code, workflow>>
  /\ UNCHANGED <<tokenVars, toggle, pinBounds>>

-----------------------------------------------------------------------------
(* composeProjectManifests.                                                *)

Compose(c) ==
  /\ toggle.pc = "idle" /\ c # deploy.caps /\ Event
  /\ toggle' = [toggle EXCEPT !.pc = "read", !.caps = c]
  /\ UNCHANGED <<fileVars, tokenVars, build, overtaken, lost>>

ReadDeployment ==
  /\ toggle.pc = "read"
  /\ toggle' = [toggle EXCEPT !.pc = "write", !.file = deploy]
  /\ UNCHANGED <<fileVars, tokenVars, build, overtaken, pinBounds>>

\* buildDeploymentYaml: the pinned tag and the owner's resources are read back.
Untuned(read, c) == [read EXCEPT !.caps = c, !.tune = None]   \* a mutant: no resources read
Generated(read, c) == [read EXCEPT !.caps = c]
\* An equal file is not written.  The commits of the Service and the Ingress that follow
\* are like this one, and counted with it.
WriteDeployment ==
  /\ toggle.pc = "write"
  /\ LET new == Generated(toggle.file, toggle.caps) IN
     \/ /\ Unchanged(toggle.file) /\ new # toggle.file
        /\ Commit(FALSE) /\ deploy' = new
     \/ /\ ~Unchanged(toggle.file) \/ new = toggle.file
        /\ UNCHANGED <<head, deploy, build>>
  /\ toggle' = NoToggle
  /\ UNCHANGED <<code, workflow, tokenVars, overtaken, pinBounds>>

-----------------------------------------------------------------------------
(* Tokens.                                                                 *)

\* backfillPinTokens, for this project.
Missing == hash = None
SelectMissing ==
  /\ boot.pc = "select"
  /\ boot' = IF Missing THEN [boot EXCEPT !.pc = "hash"] ELSE NoBoot
  /\ UNCHANGED <<fileVars, hash, secret, build, toggle, overtaken, pinBounds>>

StoreHash ==
  /\ boot.pc = "hash"
  /\ \E t \in Token \ {hash, secret} :
       hash' = t /\ boot' = [boot EXCEPT !.token = t, !.pc = "secret"]
  /\ UNCHANGED <<fileVars, secret, build, toggle, overtaken, pinBounds>>

SetSecret ==
  /\ boot.pc = "secret"
  /\ secret' = boot.token
  /\ boot' = IF boot.fresh THEN NoBoot ELSE [boot EXCEPT !.pc = "workflow"]
  /\ UNCHANGED <<fileVars, hash, build, toggle, overtaken, pinBounds>>

KeepsWorkflow == workflow    \* a mutant: the secret without the workflow that sends it
Refreshed == TRUE
RefreshWorkflow ==
  /\ boot.pc = "workflow"
  /\ boot' = NoBoot
  /\ workflow' = Refreshed
  /\ IF workflow' = workflow THEN UNCHANGED <<head, build>> ELSE Commit(FALSE)
  /\ UNCHANGED <<code, deploy, hash, secret, toggle, overtaken, pinBounds>>

-----------------------------------------------------------------------------
(* Failures.                                                               *)

Failure == Event /\ lost' = TRUE

\* A call of a pin, a toggle or a roll-out fails; nobody repeats it.
PinFails(c) ==
  /\ build[c].pc \in {"queued", "read", "write"}
  /\ build' = Done(build, c)
  /\ Failure /\ UNCHANGED <<fileVars, tokenVars, toggle, overtaken>>
ToggleFails ==
  /\ toggle.pc # "idle" /\ toggle' = NoToggle
  /\ Failure /\ UNCHANGED <<fileVars, tokenVars, build, overtaken>>
BootFails ==
  /\ boot.pc # "idle" /\ boot' = NoBoot
  /\ Failure /\ UNCHANGED <<fileVars, hash, secret, build, toggle, overtaken>>

PinRestart ==
  /\ build' = [c \in Commits |->
       IF build[c].pc \in {"read", "write"} THEN [NoBuild EXCEPT !.pc = "done"]
       ELSE build[c]]
  /\ toggle' = NoToggle
  /\ boot' = [NoBoot EXCEPT !.pc = "select"]
  /\ Failure /\ UNCHANGED <<fileVars, hash, secret, overtaken>>

-----------------------------------------------------------------------------
Pin(c) == CompareHead(c) \/ ReadFile(c) \/ WriteFile(c)
ComposeStep == ReadDeployment \/ WriteDeployment
RollOut == SelectMissing \/ StoreHash \/ SetSecret \/ RefreshWorkflow

PinNext ==
  \/ Push \/ \E t \in Tuning : Tune(t)
  \/ \E c \in Caps : Compose(c)
  \/ ComposeStep \/ RollOut
  \/ \E c \in Commits : Pin(c) \/ PinFails(c)
  \/ ToggleFails \/ BootFails \/ PinRestart

\* Every build runs, and every call answers or fails.
PinFairness ==
  /\ \A c \in Commits : WF_pinVars(Pin(c))
  /\ WF_pinVars(ComposeStep) /\ WF_pinVars(RollOut)

PinSpec == PinInit /\ [][PinNext]_pinVars
PinFairSpec == PinSpec /\ PinFairness

-----------------------------------------------------------------------------
(* Nobody's writing of k8s/deployment.yaml undoes another's: a pin changes *)
(* the image in the file as it is at that moment and nothing else, also    *)
(* when the owner or a change of capabilities wrote since it was read, and *)
(* a change of capabilities never takes the image or the tuning away.      *)
NoLostUpdate ==
  [][deploy' # deploy =>
       \/ \E c \in Commits : build[c].pc = "write" /\ deploy' = [deploy EXCEPT !.image = c]
       \/ toggle.pc = "write" /\ deploy' = [deploy EXCEPT !.caps = toggle.caps]
       \/ events' = events + 1 /\ deploy' = [deploy EXCEPT !.tune = deploy'.tune]]_pinVars

(* An older image replaces a newer one only if main moved after the head   *)
(* was compared with its commit: the anti-misfire check.                   *)
RollbackNeedsRace ==
  [][\A c \in Commits :
       deploy'.image = c /\ deploy.image > c => build[c].pc = "write" /\ build[c].behind]_pinVars

(* What was pushed is deployed in the end, also by way of the build of a   *)
(* commit that the platform made, and also for a project from before       *)
(* tokens, once their roll-out has ended: unless a call failed or a pin    *)
(* landed on a commit that it did not know of.                             *)
EventuallyDeployed ==
  \A n \in Commits :
    (code = n /\ head = n /\ build[n].pc = "queued" /\ boot.pc = "idle")
      ~> (deploy.image >= n \/ code > n \/ overtaken \/ lost)
=============================================================================
