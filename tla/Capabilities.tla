---------------------------- MODULE Capabilities ----------------------------
(***************************************************************************)
(* The capabilities of one project are switched on and off:                *)
(* applyCapabilities of typescript/portal/src/services/mcp.ts, the         *)
(* Database and Storage cards of routes/dashboard.ts, and what they call   *)
(* in services/postgres.ts, services/garage.ts and services/manifests.ts.  *)
(*                                                                         *)
(* The files of the project's repository say what is deployed: one         *)
(* Deployment with a container per capability, and for the database and    *)
(* the storage a manifest and a sealed secret of their own.  The secret's  *)
(* credentials are claimed in the projects row, and a volume keeps those   *)
(* it was first started with.  Every request reads files, waits, and       *)
(* writes them with the blob it read as the condition.  A step of this     *)
(* module is one call.                                                     *)
(***************************************************************************)
EXTENDS Naturals

CONSTANTS
  Handlers,     \* requests under way at once (a bound)
  Cred,         \* what the generators of credentials may return
  Blob,         \* the names Gitea gives to the contents of a sealed file
  None,
  Asks,         \* what is asked for: pairs of capabilities to add and to drop (a bound)
  MaxEvents     \* bound on requests and failed calls together

ASSUME CapabilitiesAssumption ==
  /\ None \notin Cred /\ None \notin [cred : Cred, blob : Blob]
  /\ \A ask \in Asks : ask[1] \cap ask[2] = {}   \* a field of `partial` is true or false
  /\ MaxEvents \in Nat

VARIABLES
  row,      \* projects: postgres_password and garage_creds
  manifest, \* k8s/postgres.yaml, k8s/garage.yaml: is the file there?
  sealed,   \* k8s/secrets/postgres.sealed.yaml, .../garage.sealed.yaml
  deploy,   \* k8s/deployment.yaml: the capabilities that have a container
  route,    \* is the Ingress of /mcp in the namespace?
  running,  \* the cluster: has the backend a pod?
  disk,     \* the credentials its volume was first started with
  doomed,   \* is the deletion of the volume waiting for the pod?
  handler,
  cleared,  \* history: have the row's credentials ever been cleared?
  events

vars == <<row, manifest, sealed, deploy, route, running, disk, doomed, handler,
          cleared, events>>
repoVars == <<manifest, sealed, deploy>>
clusterVars == <<route, running, disk, doomed, cleared>>

Stateful == {"database", "storage"}
Caps == Stateful \cup {"mcp"}

\* Sealing is randomised: each sealed file is a blob of its own.
Sealed == [cred : Cred, blob : Blob]

ToggleStages == {"idle", "detect", "claim", "reread", "readManifest", "writeManifest", "readSealed",
           "writeSealed", "lookManifest", "lookSealed", "dropManifest", "dropSealed",
           "readDeploy", "writeDeploy", "gateway", "dropVolume", "clear", "done"}

Handler == [pc : ToggleStages,
            tool : BOOLEAN,                          \* applyCapabilities, not the dashboard
            on : SUBSET Caps, off : SUBSET Caps,     \* what is asked
            purge : BOOLEAN,                         \* destroy_data
            prior : [Stateful -> Cred \cup {None}],  \* the row, as it was resolved
            cur : SUBSET Caps, next : SUBSET Caps,
            left : SUBSET Stateful,                  \* the backends still to be changed
            cred : Cred \cup {None},
            found : BOOLEAN, file : Sealed \cup {None}, seen : SUBSET Caps, \* as read
            alone : BOOLEAN, misread : BOOLEAN]      \* history: no other request since;
                                                     \* a failed read taken for no file
Unused == [pc |-> "idle", tool |-> FALSE, on |-> {}, off |-> {}, purge |-> FALSE,
         prior |-> [b \in Stateful |-> None], cur |-> {}, next |-> {}, left |-> {},
         cred |-> None, found |-> FALSE, file |-> None, seen |-> {},
         alone |-> FALSE, misread |-> FALSE]

CapsTypeOK ==
  /\ row \in [Stateful -> Cred \cup {None}]
  /\ manifest \in [Stateful -> BOOLEAN]
  /\ sealed \in [Stateful -> Sealed \cup {None}]
  /\ deploy \in SUBSET Caps /\ route \in BOOLEAN
  /\ running \in [Stateful -> BOOLEAN] /\ doomed \in [Stateful -> BOOLEAN]
  /\ disk \in [Stateful -> Cred \cup {None}]
  /\ handler \in [Handlers -> Handler]
  /\ cleared \in [Stateful -> BOOLEAN]
  /\ events \in 0..MaxEvents

\* A project with its website only.
Init ==
  /\ row = [b \in Stateful |-> None]
  /\ manifest = [b \in Stateful |-> FALSE] /\ sealed = [b \in Stateful |-> None]
  /\ deploy = {} /\ route = FALSE
  /\ running = [b \in Stateful |-> FALSE] /\ doomed = [b \in Stateful |-> FALSE]
  /\ disk = [b \in Stateful |-> None]
  /\ handler = [h \in Handlers |-> Unused]
  /\ cleared = [b \in Stateful |-> FALSE]
  /\ events = 0

-----------------------------------------------------------------------------
At(h, pc) == handler[h].pc = pc
Put(h, rec) == handler' = [handler EXCEPT ![h] = rec]
Goto(h, pc) == Put(h, [handler[h] EXCEPT !.pc = pc])
Fails(h) == Put(h, Unused)
Busy(h) == handler[h].pc \notin {"idle", "done"}

Event == events < MaxEvents /\ events' = events + 1
NoEvent == UNCHANGED events

\* The backend that h is at: the database before the storage.
Backend(h) == IF "database" \in handler[h].left THEN "database" ELSE "storage"

\* A request comes in while those of the others are under way.
Accept(h, rec) ==
  /\ ~Busy(h) /\ Event
  /\ handler' = [g \in Handlers |->
       IF g = h THEN [rec EXCEPT !.alone = \A f \in Handlers \ {h} : ~Busy(f)]
       ELSE IF Busy(g) THEN [handler[g] EXCEPT !.alone = FALSE] ELSE Unused]
  /\ UNCHANGED <<row, repoVars, clusterVars>>

\* set_capabilities, enable_postgres, disable_storage, ...: the project is resolved.
SetCapabilities(h, on, off, purge) ==
  /\ <<on, off>> \in Asks
  /\ purge => on = {} /\ off \in {{b} : b \in Stateful}
  /\ Accept(h, [Unused EXCEPT !.pc = "detect", !.tool = TRUE, !.on = on, !.off = off,
                            !.purge = purge, !.prior = row])

\* The cards of the dashboard change the backend and leave the Deployment alone.
Toggle(h, b, on, purge) ==
  /\ purge => ~on
  /\ \E ask \in Asks : b \in IF on THEN ask[1] ELSE ask[2]
  /\ Accept(h, [Unused EXCEPT !.pc = IF on THEN "claim" ELSE "lookManifest",
                            !.on = IF on THEN {b} ELSE {}, !.off = IF on THEN {} ELSE {b},
                            !.purge = purge, !.prior = row, !.left = {b}])
ToggleDatabase(h, on, purge) == Toggle(h, "database", on, purge)
ToggleStorage(h, on, purge) == Toggle(h, "storage", on, purge)

\* Where h goes when the backends in `rest` are still to be changed.
Then(h, rest) ==
  IF rest # {}
  THEN IF (IF "database" \in rest THEN "database" ELSE "storage") \in handler[h].on
       THEN "claim" ELSE "lookManifest"
  ELSE IF handler[h].tool THEN "readDeploy"
  ELSE IF handler[h].purge THEN "dropVolume" ELSE "done"

\* detectCapabilities, which throws rather than guess.
Target(h, now) == (now \cup handler[h].on) \ handler[h].off
Detect(h) ==
  /\ At(h, "detect")
  /\ LET next == Target(h, deploy)
         rest == Stateful \cap ((next \ deploy) \cup (deploy \ next))
     IN Put(h, [handler[h] EXCEPT !.cur = deploy, !.next = next, !.left = rest,
                                  !.pc = Then(h, rest)])
  /\ NoEvent /\ UNCHANGED <<row, repoVars, clusterVars>>

\* Any call that throws ends the request.
CallFails(h) ==
  /\ Busy(h) /\ ~At(h, "dropVolume")
  /\ Event /\ Fails(h)
  /\ UNCHANGED <<row, repoVars, clusterVars>>

-----------------------------------------------------------------------------
(* The credentials of a backend.                                           *)

\* Those that the request read with the project, or the statement that claims new ones
\* where there are none.
ClaimAlways(b) == TRUE    \* a mutant: without "IS NULL"
Claimable(b) == row[b] = None
Claim(h, b) ==
  /\ At(h, "claim") /\ Backend(h) = b
  /\ \/ /\ handler[h].prior[b] # None
        /\ Put(h, [handler[h] EXCEPT !.cred = handler[h].prior[b], !.pc = "readManifest"])
        /\ UNCHANGED row
     \/ /\ handler[h].prior[b] = None /\ Claimable(b)
        /\ \E c \in Cred : /\ row' = [row EXCEPT ![b] = c]
                           /\ Put(h, [handler[h] EXCEPT !.cred = c, !.pc = "readManifest"])
     \/ /\ handler[h].prior[b] = None /\ ~Claimable(b)
        /\ Goto(h, "reread") /\ UNCHANGED row
  /\ NoEvent /\ UNCHANGED <<repoVars, clusterVars>>

\* The claim was lost: the winner's value is read, or is gone again.
Reread(h, b) ==
  /\ At(h, "reread") /\ Backend(h) = b
  /\ \/ row[b] = None /\ Fails(h)
     \/ /\ row[b] # None
        /\ Put(h, [handler[h] EXCEPT !.cred = row[b], !.pc = "readManifest"])
  /\ NoEvent /\ UNCHANGED <<row, repoVars, clusterVars>>

ClaimPassword(h) == Claim(h, "database") \/ Reread(h, "database")
ClaimKeys(h) == Claim(h, "storage") \/ Reread(h, "storage")

-----------------------------------------------------------------------------
(* The files of a backend.                                                 *)

\* Gitea: a file is created where none is, and replaced or deleted only as the blob read.
Matches(now, read) == now = read

\* No two contents that anybody holds have one name.
Fresh(h, n) == \A f \in Handlers \ {h} : handler[f].file # None => handler[f].file.blob # n

\* getFile(...).catch(() => null): a read that fails looks like a file that is not there.
ReadsManifest(h, to) ==
  /\ \/ NoEvent /\ Put(h, [handler[h] EXCEPT !.found = manifest[Backend(h)], !.pc = to])
     \/ Event /\ Put(h, [handler[h] EXCEPT !.found = FALSE, !.misread = TRUE, !.pc = to])
  /\ UNCHANGED <<row, repoVars, clusterVars>>
ReadsSealed(h, to) ==
  /\ \/ NoEvent /\ Put(h, [handler[h] EXCEPT !.file = sealed[Backend(h)], !.pc = to])
     \/ Event /\ Put(h, [handler[h] EXCEPT !.file = None, !.misread = TRUE, !.pc = to])
  /\ UNCHANGED <<row, repoVars, clusterVars>>

\* A write that Gitea refuses ends the request.
Refused(h) == Fails(h) /\ UNCHANGED <<row, repoVars>>

\* The backend at hand is done.
Onwards(h) ==
  LET rest == handler[h].left \ {Backend(h)}
  IN Put(h, [handler[h] EXCEPT !.left = rest, !.pc = Then(h, rest),
                               !.cred = None, !.found = FALSE, !.file = None])

\* enablePostgres, enableGarage
ReadManifest(h) == At(h, "readManifest") /\ ReadsManifest(h, "writeManifest")
WriteManifest(h) ==
  /\ At(h, "writeManifest")
  /\ \/ /\ Matches(manifest[Backend(h)], handler[h].found)
        /\ manifest' = [manifest EXCEPT ![Backend(h)] = TRUE]
        /\ Goto(h, "readSealed") /\ UNCHANGED <<row, sealed, deploy>>
     \/ ~Matches(manifest[Backend(h)], handler[h].found) /\ Refused(h)
  /\ NoEvent /\ UNCHANGED clusterVars
ReadSealed(h) == At(h, "readSealed") /\ ReadsSealed(h, "writeSealed")
WriteSealed(h) ==
  /\ At(h, "writeSealed")
  /\ \/ /\ Matches(sealed[Backend(h)], handler[h].file)
        /\ \E n \in Blob :
             /\ Fresh(h, n)
             /\ sealed' = [sealed EXCEPT ![Backend(h)] = [cred |-> handler[h].cred, blob |-> n]]
        /\ Onwards(h) /\ UNCHANGED <<row, manifest, deploy>>
     \/ ~Matches(sealed[Backend(h)], handler[h].file) /\ Refused(h)
  /\ NoEvent /\ UNCHANGED clusterVars

\* disablePostgres, disableGarage: both files are looked for before the first is deleted.
LookManifest(h) == At(h, "lookManifest") /\ ReadsManifest(h, "lookSealed")
LookSealed(h) == At(h, "lookSealed") /\ ReadsSealed(h, "dropManifest")
DropManifest(h) ==
  /\ At(h, "dropManifest")
  /\ \/ ~handler[h].found /\ Goto(h, "dropSealed") /\ UNCHANGED <<row, repoVars>>
     \/ /\ handler[h].found /\ manifest[Backend(h)]
        /\ manifest' = [manifest EXCEPT ![Backend(h)] = FALSE]
        /\ Goto(h, "dropSealed") /\ UNCHANGED <<row, sealed, deploy>>
     \/ handler[h].found /\ ~manifest[Backend(h)] /\ Refused(h)
  /\ NoEvent /\ UNCHANGED clusterVars
DropSealed(h) ==
  /\ At(h, "dropSealed")
  /\ \/ handler[h].file = None /\ Onwards(h) /\ UNCHANGED <<row, repoVars>>
     \/ /\ handler[h].file # None /\ Matches(sealed[Backend(h)], handler[h].file)
        /\ sealed' = [sealed EXCEPT ![Backend(h)] = None]
        /\ Onwards(h) /\ UNCHANGED <<row, manifest, deploy>>
     \/ /\ handler[h].file # None /\ ~Matches(sealed[Backend(h)], handler[h].file)
        /\ Refused(h)
  /\ NoEvent /\ UNCHANGED clusterVars

-----------------------------------------------------------------------------
(* The Deployment and the route.                                           *)

\* composeProjectManifests: the Deployment is read for its blob, and made from the
\* capabilities that were detected before.
ReadDeploy(h) ==
  /\ At(h, "readDeploy")
  /\ Put(h, [handler[h] EXCEPT !.seen = deploy, !.pc = "writeDeploy"])
  /\ NoEvent /\ UNCHANGED <<row, repoVars, clusterVars>>
WriteDeploy(h) ==
  /\ At(h, "writeDeploy")
  /\ \/ /\ handler[h].seen = handler[h].next \/ Matches(deploy, handler[h].seen)
        /\ deploy' = IF handler[h].seen = handler[h].next THEN deploy ELSE handler[h].next
        /\ Put(h, [handler[h] EXCEPT !.seen = {}, !.pc = "gateway"])
        /\ UNCHANGED <<row, manifest, sealed>>
     \/ /\ handler[h].seen # handler[h].next /\ ~Matches(deploy, handler[h].seen)
        /\ Refused(h)
  /\ NoEvent /\ UNCHANGED clusterVars

\* applyMcpGateway, removeMcpGateway
NeverUnrouted(h) == route \/ "mcp" \in handler[h].next    \* a mutant: no removal
Routed(h) ==
  IF "mcp" \in handler[h].next \ handler[h].cur THEN TRUE
  ELSE IF "mcp" \in handler[h].cur \ handler[h].next THEN FALSE
  ELSE route
Gateway(h) ==
  /\ At(h, "gateway")
  /\ route' = Routed(h)
  /\ Goto(h, IF handler[h].purge THEN "dropVolume" ELSE "done")
  /\ NoEvent /\ UNCHANGED <<row, repoVars, running, disk, doomed, cleared>>

-----------------------------------------------------------------------------
(* The data.                                                               *)

Purged(h) == CHOOSE b \in Stateful : b \in handler[h].off

\* destroyPostgresPvc, destroyGaragePvc: a failure is logged.  Kubernetes deletes a volume
\* that a pod uses when the pod is gone.
DropVolume(h) ==
  /\ At(h, "dropVolume")
  /\ LET b == Purged(h) IN
     \/ /\ NoEvent
        /\ doomed' = [doomed EXCEPT ![b] = running[b]]
        /\ disk' = [disk EXCEPT ![b] = IF running[b] THEN disk[b] ELSE None]
     \/ Event /\ UNCHANGED <<doomed, disk>>
  /\ Goto(h, "clear")
  /\ UNCHANGED <<row, repoVars, route, running, cleared>>

\* clearPostgresPassword, clearGarageCredentials
ClearCreds(h) ==
  /\ At(h, "clear")
  /\ row' = [row EXCEPT ![Purged(h)] = None]
  /\ cleared' = [cleared EXCEPT ![Purged(h)] = TRUE]
  /\ Goto(h, "done")
  /\ NoEvent /\ UNCHANGED <<repoVars, route, running, disk, doomed>>

\* ArgoCD brings the cluster in line with the repository.  A pod starts when its secret is
\* there, on the volume there is or on a new one.
Runs(b) == manifest[b] /\ (running[b] \/ sealed[b] # None)
Sync ==
  /\ running' = [b \in Stateful |-> Runs(b)]
  /\ disk' = [b \in Stateful |->
       LET kept == IF doomed[b] /\ ~Runs(b) THEN None ELSE disk[b]
       IN IF Runs(b) /\ kept = None THEN sealed[b].cred ELSE kept]
  /\ doomed' = [b \in Stateful |-> doomed[b] /\ Runs(b)]
  /\ UNCHANGED <<row, repoVars, route, handler, cleared, events>>

-----------------------------------------------------------------------------
\* The two backends have their files, and the functions that write them, alike.
Enabled(h) == ReadManifest(h) \/ WriteManifest(h) \/ ReadSealed(h) \/ WriteSealed(h)
EnablePostgres(h) == Backend(h) = "database" /\ Enabled(h)
EnableGarage(h) == Backend(h) = "storage" /\ Enabled(h)

Disabled(h) == LookManifest(h) \/ LookSealed(h) \/ DropManifest(h) \/ DropSealed(h)
DisablePostgres(h) == Backend(h) = "database" /\ Disabled(h)
DisableGarage(h) == Backend(h) = "storage" /\ Disabled(h)

HandlerStep(h) ==
  \/ Detect(h) \/ CallFails(h) \/ ClaimPassword(h) \/ ClaimKeys(h)
  \/ EnablePostgres(h) \/ EnableGarage(h) \/ DisablePostgres(h) \/ DisableGarage(h)
  \/ ReadDeploy(h) \/ WriteDeploy(h) \/ Gateway(h) \/ DropVolume(h) \/ ClearCreds(h)

Next ==
  \/ \E h \in Handlers :
       \/ \E on, off \in SUBSET Caps, purge \in BOOLEAN : SetCapabilities(h, on, off, purge)
       \/ \E on, purge \in BOOLEAN : ToggleDatabase(h, on, purge) \/ ToggleStorage(h, on, purge)
       \/ HandlerStep(h)
  \/ Sync

Spec == Init /\ [][Next]_vars

-----------------------------------------------------------------------------
(* Until somebody has the data destroyed, the row, the sealed secret and   *)
(* the volume of a backend agree on its credentials, whatever requests     *)
(* raced to enable it and whatever failed: the claim of the credentials.   *)
(* (With the types of the variables.)                                      *)
OneCredential ==
  /\ CapsTypeOK
  /\ \A b \in Stateful : ~cleared[b] =>
       /\ sealed[b] # None => sealed[b].cred = row[b]
       /\ disk[b] # None => disk[b] = row[b]

(* A change of capabilities that succeeded with no other request beside it *)
(* is whole, whatever earlier requests left half done: the Deployment has  *)
(* the containers asked for, a backend that was added has its manifest and *)
(* its secret, one that was dropped has neither, and /mcp is routed so.    *)
ToggleIsWhole ==
  \A h \in Handlers : At(h, "done") /\ handler[h].tool /\ handler[h].alone =>
    LET added == handler[h].next \ handler[h].cur
        dropped == handler[h].cur \ handler[h].next
    IN /\ deploy = handler[h].next
       /\ \A b \in added \cap Stateful :
            manifest[b] /\ sealed[b] # None /\ sealed[b].cred = row[b]
       /\ \A b \in dropped \cap Stateful :
            ~handler[h].misread => ~manifest[b] /\ sealed[b] = None
       /\ "mcp" \in added => route
       /\ "mcp" \in dropped => ~route
=============================================================================
