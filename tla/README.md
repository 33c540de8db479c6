# Corpo Valley: specifications

TLA+ specifications of Corpo Valley, the self-hosted platform on which the
members of one organisation create projects (a Git repository, a deployed site,
optional database, storage and MCP endpoint) and share them. TLC checks them on
small instances; TLAPS proves the most important facts for instances of any
size. The specifications are translated from the code; paths below are relative
to the repository.

## 1. Inventory

The system is a handful of processes around services it does not implement.

| Component | Code | State it keeps | Operations |
|---|---|---|---|
| Portal (Express) | `typescript/portal/src` | rows in Postgres: `projects`, `project_grants`, `groups`, `group_members`, activity, settings; a few in-memory maps | pages and forms (`routes/dashboard.ts`, `groups.ts`, `admin.ts`), MCP tools (`services/mcp.ts`), Ory login and consent handlers, internal endpoints (access check, pin, webhook) |
| - repository access | `services/repo-access.ts`, `access.ts`, `routes/groups.ts` | grants and memberships; the collaborator lists are Gitea's | grant, revoke, group edits; `syncRepoAccess`, fan-out to a new account, periodic sweep |
| - project lifecycle | `services/provisionProject.ts`, `project-purge.ts` | row with `status`; namespace, repository and ArgoCD Application elsewhere | create, provision, delete |
| - ownership transfer | `services/ownership-transfer.ts` | `owner_id` and `gitea_repo` of the row | move the repository, then row, grants, collaborators, Application |
| - user deletion | `services/user-delete.ts` | identities, accounts, keys, projects | the cascade, repeatable |
| - capabilities | `services/postgres.ts`, `garage.ts`, `manifests.ts`, `seal.ts` | encrypted credentials in the row, sealed secrets in the repository | claim, enable, disable |
| - image pinning | `routes/internal.ts`, `services/pin-*.ts` | hash of a token in the row; the token in Gitea; `k8s/deployment.yaml` | pin, backfill |
| - site access | `routes/site-access.ts` | two maps with expiry times | check |
| - identity | `services/provisioning.ts`, `gitea-identity.ts`, `kratos-admin.ts` | logins in Kratos, accounts in Gitea | give a unique login, bot, account |
| - activity, templates, settings | `services/achievements.ts`, `template-seed.ts`, `platform-config.ts` | rows; a seeded repository | record, award, seed |
| - OAuth consent and audiences | `routes/hydra.ts`, `services/mcp-facade.ts`, `mcp-client-audience.ts` | a memo of audiences; allowlists and challenges are Hydra's | authorize, register, consent |
| - health pages | `services/project-health.ts`, `routes/admin.ts` | a cache of snapshots, the collections under way | list, detail |
| MCP gateway | `typescript/mcp-gateway` | a map of refused tokens; open streams | check, forward, revalidate |
| Cooldeps (Go) | `containers/cooldeps` | SQLite tables of metadata and advisories; the artifact directory and its byte count | evaluate a package version, filter a registry document, stream and cache an artifact |
| Community Center | `community-center`, `services/template-seed.ts`, `community-center.ts` | files of a template project; its repository and collaborators | seed, reset, who may write; sample servers |
| outside | Kratos, Hydra, Keto, Gitea, Kubernetes, ArgoCD, Postgres | | called over HTTP or SQL |

**How they interact.** Almost every operation of the portal is a sequence of
calls to services that know nothing of each other, with no transaction around
it. A request runs on one thread between two `await`s; at each `await` any other
request, timer or background promise may run. Several things are started and not
awaited: a provisioning run after the redirect, a convergence after a grant, the
sweep. A failed call is usually logged and the next one tried. Cooldeps is
different: goroutines, mutexes and a directory.

**What is hard.** Convergences of one repository that overlap, each with rows it
read at another time; a delete that overtakes the run that is still creating;
a slug that changes hands while something of its former owner survives; calls
that fail half way, or succeed with their answer lost; a restart, after which
nothing resumes; caches that answer with what was true some seconds ago; a byte
count kept beside a directory by concurrent goroutines. There is no consensus,
no replication and no message queue.

**What makes each component correct.** Access: what Gitea enforces was granted,
and what is granted is eventually what Gitea enforces. Lifecycle: `ready` means
deployed, nothing is deployed into an unsealed namespace, a delete leaves
nothing, every project gets a verdict. Artifact cache: the count is the disk,
only whole artifacts are served, the directory is bounded. Transfer: at every
stop the row and Gitea can be brought together again. User deletion: no
credential survives the identity. Pinning: the deployed image is never older
than a pinned one, but for a push in between. Caches: a stale answer is at most
a lifetime and its calls old. Credentials: row, sealed secret and volume agree.
Budgets: the cluster has what row and defaults ask, and no budget contradicts
itself. Settings: who is told that a policy is saved has it in force. Audiences:
what is remembered as allowed is allowed. Activity: a day counts once, a badge is
announced once. Health: nothing is shown to be fine that was not looked at.
Template: its marker means a whole template, and nobody's edit is lost.

`PROJECT.json` lists every part with its status and every hazard at its line.

## 2. Plan

The order in which the modules were written, the most consequential first. A proof
module holds the theorems of the components beside it.

1. `RepoAccess`: grants, groups, convergences. `RepoAccessProofs`.
2. `ArtifactCache`, `PinImage`, `TemplateSeed`, `TemplateAccess`: what is delivered to
   builds, clusters and newcomers. `DeliveryProofs`.
3. `ProjectLifecycle`. `ProjectLifecycleProofs`.
4. `OwnershipTransfer` and `ProjectHealth`: two pages of the administrators.
   `AdministrationProofs`.
5. `Accounts`: provisioning and the deletion of users. `AccountsProofs`.
6. `Staleness`, what a door with a memory promises, and the doors that implement it:
   `SiteAccess`, `Gateway` and `Consent` (over `SiteGrants`), `ToolChannel`; the page of
   `ProjectHealth` does, too. `DoorsProofs`.
7. `Evaluator`: the verdicts of the dependency proxy. `EvaluatorProofs`.
8. `Capabilities`, `TenantResources`, `CooldepsSettings`, `ClientAudiences`, `Activity`: what
   the portal keeps a record of. `RecordsProofs`.

What composes what: the `MC...` modules put components that rest while another moves
into one run. `MCDelivery` has the cache and the pins, `MCDoors` the four doors,
`MCAdministration` the transfer and the health pages, `MCRecords` budgets, settings,
audiences and activity, `MCTemplate` the content and the writers of the template,
which do meet: a collaborator needs a repository. The other components meet only
through services outside; what one module leaves to another is said below.

Every safety property that a passing run checks is a theorem. Left: liveness of the
`Evaluator`, whose clock must be unbounded first. An abstract specification of the
transfer was considered and left out: at each stop it would say no more than
`RowFollowsRepo` and `SuccessIsComplete`, which are proved as they are.

## 3. The modules

### RepoAccess

One project's repository. `grants`, `members`, `live` are the tables; `accounts`,
`collab`, `private` are Gitea. `sync` holds every `syncRepoAccess` in flight: a
worker is a request handler with the convergence it fires, the sweeper is the
timer. An action is what happens between two awaits: `ReadGrants` takes the
snapshot of the grants, `Expand` handles one grant (reading the members of a
group *then*), `List` reads the collaborators and computes what to set and what
to remove, `SetCollaborator` and `RemoveCollaborator` are single calls, with
`...Fails` beside them. `Provision`, `FanLookup` and `FanPut` are the account of a new
member and its fan-out; `EditByHand` and `PublishByHand` are Gitea's own pages;
`Restart` drops what is in flight. Abstractions: levels are 0..3; a user is a
login; sites' permissions (the other half of a grant row) do not touch Gitea and
are left out; three tries of a removal are one.

History variables (`everGranted`, `everMember`, `byHand`, and `clean`/`misread` of a
sync) exist for the properties only.

- `CollaboratorsJustified`: no interleaving gives a level that was never granted.
- `SoloSyncConverges`: a convergence that nobody disturbed and that met no error
  leaves exactly what the policy says.
- `ProtectedUntouched`: the owner's and reserved accounts' rows are only changed
  by hand.
- `EventuallySettled`: after the last edit, Gitea ends up right and stays so.
- `StaysSettled` (a theorem, not a run's property): the "stays so". `Settled` alone is
  undone by a convergence or a fan-out that read the tables too early; once none is left
  (`Calm`) only a person's act unsettles the repository, however many convergences overlap,
  fail or are cut off.

### ArtifactCache

`file` is the directory, `curBytes` the running total, `accMu` and `evictMu` the two
mutexes, `handler` the requests. A request is a hit (`Hit`, `Serve`) or a stream from
upstream into a temporary file (`Miss`, `NewWriter`, `Copy`), committed (`LockCommit`,
`Rename`, `Add`) or aborted (`Finish`), followed by a look at the total (`MaybeEvict`), the attempt at the lock (`TryLock`, `Skip`)
and the eviction pass (`Recheck` to `Unlock`, removing under `accMu` in `LockRemove`, `Remove`,
`Subtract`). Each access to the total, the directory or a lock is a step. The bytes on
the disk are the cardinality of a set (`Bytes`), so that the theorems about finite sets
say what a commit and a removal add and take. The order in which the pass removes
files (by time of last use) is left open: any order is allowed. `Restart` is a
new process that scans the directory.

- `Accounted`: `CountExact`, outside `accMu` the total is the bytes on disk; and `RestsBelow`,
  once nobody is to look at the total the disk is below the high-water mark. The
  second is promised with an exception, which the history variable `overdue` keeps: a
  commit skipped because a pass was under way, a removal failed, or the process
  restarted, since the last look under `evictMu`.
- `ServedWhole`: only complete artifacts are served.
- `EvictsWhileAbove`: nothing is removed once the disk is at the low-water mark, although
  the pass reads the total, before it waits for `accMu`.
- `RequestsEnd`: every request is answered (a part of `WorkEnds`, in `MCDelivery`).
- `RequestsGoOn` (a theorem): each step of a request brings it nearer to its end, by its
  stage and, in an eviction pass, by the entries left; no step of another sets it back.

### ProjectLifecycle

One slug, through successive projects. `row` is the row with that slug, `ns`, `repos`,
`rendered`, `app` the world outside. A handler is a request with the run it leaves
behind: the two creation paths are alike up to who awaits the run (`CheckSlug`,
`CheckNamespace`, `Insert`), then each step of `provisionProject` and its failure
(`CreateNamespace` to `SetStatus`); or a delete, with each step of the purge (`DropApp`,
`DropNamespace`, `DropRepo`, `DropRow`), each of which may fail without stopping the
next. Kubernetes and ArgoCD finish a deletion in steps of their own
(`NamespaceGone`, `AppGone`). Abstractions: the policies of the baseline are one step
after the namespace; collaborators, credentials, branch protection, the MCP
ingress and the pin token are best effort and do not reach the verdict, so they
are part of `Render` without state of their own; a project has a repository only
under the owner's name, and transfers are left to their module.

History: `pristine` is the project whose slug nobody else touched since it was
created, `raced` and `leftover` say that a delete overlapped something or failed in
a step, `lost` that a run was killed or could not write its verdict.

- `ReadyIsDeployed`: a ready project, left alone, has its sealed namespace, its
  recorded and rendered repository and an Application of that repository.
- `SealedFirst`: no live Application has an unsealed namespace to deploy into,
  unless a delete overlapped a run or failed in a step.
- `DeleteLeavesNothing`: a delete that raced with nothing leaves nothing running.
- `ProvisioningEnds`: every project leaves `provisioning`, unless its run was lost.
- `StillWorkedOn` and `WorkGoesOn` (theorems): what of that is safety. A project without
  a verdict has a run that is still to give it one, and no run or purge goes back.

The conditions of these properties are where the code gives no guarantee: an
Application that outlives its project makes the next one's registration a
success (`createArgoApplication` takes 409 for done), and nothing resumes a run
after a restart.

### OwnershipTransfer

One project that is handed from member to member. `row` is the owner and the owner in
the path (`gitea_repo`), `repo` where Gitea has the repository, `grants` the login in each
person's repo grant, `collab` the collaborators, `app` the source of the Application.
A handler is a submission of the form, its project the row it read: `ProvisionTarget`,
then `Move` (the POST) and `Verify` (the GET) or `SkipMove` when the row already names the
target, `Record` (both columns), `DropGrant`, `KeepGrant`, `Converge`, `Repoint`. `Park` is the
transfer that Gitea does not apply at once, `MoveFails` one that is refused, fails, or
was done with its answer lost; the steps after `Record` note a failure and go on. The
administrator reads the outcome and dismisses it, runs the printed SQL (`RunSql`) or
kubectl (`RunKubectl`), and may submit again. `StartSweep` and `Sweep` are the periodic
convergence, with the row it listed before. Abstractions: a person is a login; a
convergence is one step, whose own interleavings are `RepoAccess`, and one that fails
leaves the collaborators; grants are edited by transfers only; a call on a place
where the repository is not may follow Gitea's redirect or fail; a parked transfer
is never accepted; a query that fails had no effect.

A submission that is not under way is `Idle`, whose fields name nobody, so that no
person is set apart and `SYMMETRY` is sound.

History: `home` and `alone` of a submission are where the repository was when it was
submitted and that no other was under way since.

- `RowFollowsRepo`: unless transfers overlap, the row is only made to name the place
  where the repository is, also by the printed SQL.
- `SuccessIsComplete`: what a transfer that was alone reports as done is done. Of the
  repository only when the row could be trusted: for the target that the path
  already names, the code does not look where the repository is.

### Accounts

Members are identities; `trait`, `bot`, `account`, `owner` and `grant` are the login in
Kratos, the companion identity, the Gitea account of that login, the owner of an
API key and the login stored in a grant. `prov` holds each `ensureProvisioned`
(`Probe` candidates, `Persist`, `FindBot`, `CreateBot`, `FindAccount`, `CreateAccount`), `cascade` each
deletion (`DropGrants`, `ListKeys`, `RevokeKeys`, `FindPaired`, `Purge`, `DropBot`, `DropHuman`), with
`ProvisionFails` and `DeleteFails` for every call, `Restart`, and what people do meanwhile:
`Create`, `Rename`, `Grant`, `BeginKey` and `CreateKey`. An identity stands for its email.

- `CredentialsGoFirst`: once an identity is gone, so are its keys and accounts.
- `BotsOfOthersSurvive`: a companion goes only with the human it was made for.
- `ResolvedIsOwn`: the login that a provisioning settled on is nobody else's.

### Capabilities

`row` is what the projects table has of both credentials, `manifest`, `sealed` and
`deploy` the files, `route` the Ingress, `running`, `disk` and `doomed` the cluster. A
handler is a request that switches several capabilities (`SetCapabilities`) or one of
the cards (`ToggleDatabase`, `ToggleStorage`) and goes through reading and writing each
file, with the blob it read as the condition. `Claim` and `Reread` are the conditional
UPDATE and the SELECT after it. `Sync` is ArgoCD, at any time.

- `OneCredential`: row, sealed secret and volume agree until a purge.
- `ToggleIsWhole`: an undisturbed success leaves all parts of one mind.

### PinImage

Commits are numbered. `build` is each commit's build and its request: `Check` compares
with the head of main, `ReadFile` and `WriteFile` pin. `toggle` is the dashboard that
generates the same file (`Compose`, `ReadDeployment`, `WriteDeployment`). `boot` hands a
token out (`SelectMissing`, `StoreHash`, `SetSecret`, `RefreshWorkflow`). `Push` and `Tune` are the
owner's commits. Each call may fail, and `Restart` ends what is in flight.

- `NoLostUpdate`: every write of the file changes its own part of what is there.
- `RollbackNeedsRace`: an older image replaces a newer one only after a push in
  between.
- `EventuallyDeployed` (a part of `WorkEnds`): what was pushed last is deployed.

### Staleness, SiteGrants, SiteAccess, Gateway, ToolChannel, Consent

`Staleness` has two variables, who is `inside` and how long ago each user was last
entitled (`since`), and four actions: somebody is admitted who was entitled within
`Window`; somebody leaves; somebody becomes entitled; time passes, but not while it
would leave somebody inside for too long. `NobodyStale` is what that amounts to, and is
a theorem for every door and for the health pages.

Each door is time driven: `...Tick` lets a tick pass in every clock at once, and is
held up while a call would exceed `Delay` or a callback is due. That is the
assumption behind every bound: a call takes at most `Delay`, and a timer's callback
runs when it is due. `Cap` stops the history clocks.

- `SiteAccess`: a request (`visit`) finds or misses two memories; `AnswerSession` and
  `StoreSession` are apart, for the life of an entry runs from its arrival, and so an
  older answer can be stored over a newer one. `Flush` is a restart, or the bound
  of a map. `SiteBounded`: `Staleness` for the permission and for the session.
- `Gateway`: a stream asks Hydra, then the portal, opens, and does so again each
  `Interval`; `refused` is the memory of refusals. `StreamBounded`: `Staleness` for the
  token and the permission of those connected, and for those refused, who were
  bad, or unlucky, within the life of a refusal: an outage is forgotten.
- `ToolChannel`: `answers` and `shared` are two memories in front of Hydra, one made of
  the other; `perUser` and `total` count the channels. A request is told of its token
  (`Request` from memory, `Hydra`, `AuthTold`), then awaits its identity from Kratos
  (`Identified`), and only then takes its place and opens; the token is not looked at
  again before the first heartbeat. `ChannelBounded`: `Staleness` with a window of a
  remembered answer's life, a heartbeat and its call, and the longer of the identity
  call (a channel just opened) and a shared answer's life (an older one). With the
  constants of the run a window one tick shorter is violated. `ChannelsCounted`: the counters are the open
  channels, of each user and in all. A client that leaves during the authentication keeps its place.
- `Consent`: an authorization (`challenge`) was asked for by somebody for audiences that
  the client's allowlist admits; a form (`post`) loads it, asks who may use the client
  (`AnswerService`), then who may use the project's site (`AnswerAccess`), reads the claims
  and accepts or rejects. `ConsentBounded`: `Staleness` for both questions with the calls
  after them as the window, and a token is for who consented and for what was
  asked, never for an audience that the filter does not know.

### Evaluator

`metaRow` and `vulnRow` are the tables, `datedAt`, `undated` and `issued` what the two sources
say by when. A request takes its rows (`fetch`, `fallback`, `held`), asks for what is
missing in a batch, and a goroutine per version (`job`) resolves severities: it
finds one, waits for another's lookup, or makes it. Then the verdict, a function of
rows, clock and policy with allow and block lists, licenses, age, advisories.

- `AdvisoriesInForce`, `CooldownHolds`: what was served satisfied the policy as of the
  life of a row, whatever failed and whichever evaluation wrote last.
- `TransientNotStored`: what failed is not remembered as an answer.
- `LookupsShared`: one lookup per advisory at a time, and whoever waits for one waits
  for a goroutine that makes it.

### TenantResources

`saved` and `cached` are the defaults, `overrides` the project's, `live` the fields of quota
and limits, `volume` the two data volumes, which share the quota's storage. A request
saves defaults, saves or clears overrides, sweeps, loads the page (which reads the
defaults back) or sets the baseline of a new namespace. A save that gives a size goes
through the volumes (`ReadVolume`, `Grow`): a PATCH that fails, refused by the quota or
lost, is a line of the page (`Reported`), the next volume follows, and the save still
reports success; a call that reads a volume and fails ends the save (`Fail`). `told`
are the volumes that the page says are grown or large enough. `MakeVolume` and
`DestroyVolume` are a capability's. Knobs are numbers, `Rules` the orderings between
them.

- `AloneIsExact`: an undisturbed save, clear or sweep has quota and limits as row and
  defaults ask before it looks at volumes and when it reports success; and a volume
  that a page says is grown or large enough is, disturbed or not. Success says nothing
  of a volume reported with an error, and nothing is claimed of it.
- `BudgetConsistent`: no budget breaks the rules while defaults only rise.

### CooldepsSettings

`policyRow` is the row, `configMap` what cooldeps is configured by, `stamp` and `pod` the
Deployment's template and the pod that serves with what it read when it started. A
save writes the row (`SaveRow`), the ConfigMap (`PatchMap`), asks for a restart (`Roll`)
and answers; each may fail. `RollsOut` and `PodRestarts` are Kubernetes.

- `SettingsAgree`: who saved alone and was told so has the policy in all three places
  once the pods have followed, and no ConfigMap is left unread unless a restart was
  not asked for.

### ClientAudiences

`allow` is each client's allowlist in Hydra, a bag, since `append` does not look; `memo` the
pairs that the portal does not check again; `life` the clients. `facade` is an
authorization (`Recall`, `Read`, `Patch`, `Memoize`), `edit` a change of a registration,
which merges its list with one read before (`Update`, `Replace`) or forgets the memo.
Projects are created and deleted meanwhile (`absent`).

- `MemoTrue`: what the memo lets through Hydra accepts, but for a list that was
  written over a changed one (`raced`), and for projects that were not there.

### Activity

`ledger` counts the rows of each sort; `insert` are the calls of `recordActivity`, whose
statement starts (`Starts`) and commits apart, so that two can both see no row;
`viewed` is the memory that spares the second statement. `reconcile` computes a
resident's badges (`Query`), stores the new ones (`Upsert`) and announces them (`Toast`).
`NextDay`, `Prune` and `ClearViewed` are the clock, the retention and the timer.

- `OnceEach`: a row a day of what is capped, unless statements overlapped, which views
  do only where the memory was lost; a badge is announced once, and was earned.
- `PruneSafeForBadges`: *violated*, see section 6.

### ProjectHealth

`fine` is what would give no reason for concern were it looked at now, and `sinceFine`
its clock. `entry` is the cache of snapshots, `run` the collections under way, `page` the
requests: `OpenIndex` and `OpenDetail`, then per project `FromCache`, `Join` or `Collect`, then
`Render` or first `ReadLog`. `LooksUp` is one lookup, which answers (`Found`) or fails
(`Failed`); `CollectionEnds` stores the snapshot and tells all pages that wait for it.
A snapshot has the lookups that gave a reason and those that it warns of. A lookup
that failed leaves its section empty, and an empty section gives no reason: a
project is `Green` also when nothing of it could be read, and only the warnings
beside the level say so. What a page says is fine (`SaysFine`) is therefore what it
calls green *and* does not warn of.

- `HealthBounded`: `Staleness` for what a page says is fine, with the life of a
  snapshot and a delay for every project (or for a collection and a log) as window.
  A failed lookup that left no warning would break it; the level alone promises
  nothing of the kind, and nothing of the kind is claimed.

### TemplateSeed and TemplateAccess

`files` and the sentinel `mark` are the repository; a run lists, writes each file under
the blob that it listed, sweeps what does not belong, marks; a reset is a run with
`force`. `Edit` and `Unmark` are done by hand. `TemplateAccess` has `admins` (Keto), `collab`
(Gitea) and `byHand`, and operations that change first the one and then the other. The
`Check` of a grant or a revoke sees the administrators whose identity Kratos gave it
(`seen`) and takes any other for nobody special; `sure` notes whether the operation's
own user was missed.

- `MarkedIsWhole`, `EditsSurvive`, `ResetIsExact`: as in the run below.
- `AccessFollowsRole`: collaborators are the administrators and those granted by
  hand, but for users whom overlapping or failed operations were about, or an
  operation whose check missed that they are administrators.

## 4. Runs

| Run | Instance | Shows |
|---|---|---|
| `repo_safety` | owner, a member without an account, a reserved login; one group; a worker and the sweeper; 3 edits, 1 failure | the invariants and `EventuallySettled`, all interleavings of two convergences with the fan-out |
| `lifecycle_safety` | two people, one without a username; 2 handlers, 2 projects, 1 failure or restart | the invariants and `ProvisioningEnds` |
| `lifecycle_orphan` | one person, one project, no failures | *violated*: a delete that overtakes a run leaves orphans |
| `administration` | three people, 2 submissions at once, 3 in all, 1 failure or restart; 2 projects with 2 lookups, a list and a detail page, snapshots served for 2 ticks, calls of 1, one worker | `SuccessIsComplete`, `RowFollowsRepo`; `HealthBounded` |
| `delivery` | artifacts of 6, 6 and 3 bytes in a cache of 10 (marks 8 and 7), 2 handlers, 4 fetches, 1 failure; 2 sets of capabilities, 2 tunings, 2 tokens, 7 commits, 2 events (pushes, edits, toggles, failures, restarts) | `Accounted`, `ServedWhole`, `EvictsWhileAbove`; `NoLostUpdate`, `RollbackNeedsRace`; `WorkEnds` |
| `accounts_safety` | two people whose names collide, two logins, one key; 2 workers, 2 provisionings, 2 deletions, 1 edit, 1 failure | nobody's account is taken for another's, none outlives its identity |
| `caps_safety` | two handlers over database, storage, gateway; 3 events (requests and failed calls), 2 credentials and 2 blobs | `OneCredential`, `ToggleIsWhole` |
| `doors` | one user; 2 requests, 2 streams, 3 channels, an authorization with 2 forms; calls of 1 tick, lives of 1 to 4 | the four doors implement `Staleness`; channels are counted |
| `evaluator_safety` | two versions, one advisory, two requests (3 in all), 3 instants, 1 failure | verdicts, rows and lookups |
| `records` | four knobs, one rule, 2 requests at once, 4 in all, 1 failure; 2 saves at once, 3 in all, of 2 policies; one client, 2 authorizations and an edit, 2 projects; one resident, 2 projects, 2 days, 2 calls | `AloneIsExact`, `BudgetConsistent`; `SettingsAgree`; `MemoTrue`; `OnceEach` |
| `template_safety` | two starts and a reset, one edit; two users, two operations at once, 4 in all | content and writers |
| `activity_prune` | the activity of `records`, a retention of one day, a badge for two days | *violated*: the retention takes a badge |

The violated runs state what a comment says; each is a finding in `PROJECT.json`, with
the sentence and the line that does otherwise.

**Bounds and why they are enough.** Constants named `Max...` bound what outside actors
do; the number of workers or handlers bounds overlap. Every property of two
overlapping operations needs two of them and one edit between a read and a
write: a grant, its revocation and one more edit (3) with a worker and the
sweeper. A second project on the slug is what survivors of the first can harm; a
third would meet nothing else. Three submissions are one that fails, its repair,
and one that overlaps the repair or undoes it. The cache sizes make the second
file of 6 cross the mark, so that a pass of one commit meets the commit of
another, and let one removal be enough or not. One failure, placed anywhere,
shows whether a single failed call breaks a property; the code promises nothing
about several beyond what one shows.

`accounts_safety`: two people and two logins are what a collision takes; a second
deletion is the repetition that the code promises to be safe. `caps_safety`: the
asks leave no capability untouched, and three events are two requests that
overlap and a failure, or a third request that meets what they left. `delivery`: two
events are what it takes to come between a read and the write after it and to
write the same file; seven commits are as many as two events can lead to. `doors`:
users have no state in common but the counters, which `MaxTotal` makes contended by
one user with two places for three channels; the lives are the smallest in which
an entry can expire during a call and a tick be lost on the wrong side of a bound.
`administration`: one lookup of one project turns and fails while the rest of that
project and the other one are steady, which is what a list with one worker has to
wait for behind it. `evaluator_safety`: two instants after the first let a row expire
and be refreshed. `records` has forms that raise, lower, contradict and exceed; two
saves that overlap and one after them; two days, which is what a streak and a call
over midnight take. Where `SYMMETRY` is used, the constants are interchangeable, no
definition chooses among them, and the run has no liveness property. The theorems
of section 5 do not depend on any of these numbers.

Deadlock is checked in `repo_safety`, the two runs of the lifecycle and
`administration`: in `RepoAccess` and `OwnershipTransfer` the sweep can always start or go
on, a project can always be asked for, a page always be opened. The others say
`CHECK_DEADLOCK FALSE`: once a bound on requests, edits or the clock is used up and
every request has ended, nothing is left that could happen. What a deadlock would
hide there is a request that never ends: `WorkEnds` says that none does in the cache,
and `LookupsShared` is about the only other code in which one process waits for
another.

**Fairness.** `RepoAccess`: weak fairness of each asynchronous call chain (every
`fetch` in `gitea.ts` and every query answers or fails, so a promise goes on) and of
the sweep, a `setInterval` of 30 minutes that is on by default. None for people.
`ArtifactCache`: weak fairness of each goroutine; that is enough because only a
bounded number of commits and removals can take the mutexes from a waiter.
`ProjectLifecycle`: weak fairness of each handler. `PinImage`: weak fairness of each
build, which the runner of Gitea Actions takes up, and of what the portal has
begun; none for pushes, edits or toggles. Nothing is assumed of Kubernetes or
ArgoCD: they may take for ever to finish a deletion.

## 5. Proofs

All for arbitrary constants that satisfy the named assumption of the module
(`RepoAccessAssumption` and its like: subsets, disjointness and naturals; the sets
of users, handlers and keys need not be finite, unless the code counts them, as the
places of `ToolChannel` and the projects of `ProjectHealth` and `Activity`). Each shows `Init => Inv`, `Inv /\ [Next]_vars => Inv'` with a lemma for each
action or group of actions, and that `Inv` implies the property. In each case the
property alone is not inductive, since it speaks of what is there and not of what
is on its way; the invariant adds what a request that is half done carries.

- `RepoAccessProofs`. `CollaboratorsJustified`: what will be written stands in snapshots,
  maps and fan-outs first; `LevelsRecorded` and `SyncsRecorded` say that each of these
  was granted. `SoloSyncConverges` rests on `CleanSyncExact`: while a sync is clean, its
  map is exact for the grants it has expanded, and after the listing only what is
  left to set or remove keeps Gitea from the map. `ProtectedUntouched` rests on
  `ProtectedSpared`: no pending write names a protected login.
  `SettledStays`: in `Calm` every convergence under way is `InTime`, that is, exact for the
  rows it has expanded whether or not others write the list meanwhile; so what it sets
  or removes is what the policy says (`ComputesSettled`), and the next reads are, too.
- `ProjectLifecycleProofs`. `ReadyIsDeployed` says nothing of runs, so it needs
  `Noted` (what a run has noted of its progress is true of an undisturbed
  project), `OneRun` (one run at most works for a project), `Numbered` (ids are given
  once) and `Undisturbed` (a purge has ended the quiet of its project from its
  first step on). `SealedFirst` and `DeleteLeavesNothing` need `TidyInv` beside it:
  while nothing raced, one handler at most works for the project of the slug
  (`OneWorker`), a delete knows what there is to drop (`PurgeKnows`), and what it has
  passed is gone (`TornDown`). `HandlerStep`, `TidyStep` and their like split the steps.
  `NoneIsForgotten`: `StillWorkedOn` is inductive by itself, for a run keeps its project
  until it has given its verdict (`RunGoesOn`). `WorkNeverCircles`: each step of a handler
  lowers `Left`, which is 10 at most (`LeftFalls`).
- `AdministrationProofs`. `RowFollowsRepo` and `SuccessIsComplete`: the row is written long
  after the move that makes it right, so that `AloneProgress` says what a submission
  that is alone has done by each stage (`Progress`). `AfterIsLocal` and `AfterProgress` show
  that its own steps keep this, `HandlerAlone` that a second submission ends it.
  `HealthIsFresh`: the pages implement `Staleness`. A snapshot's age and the rest of its
  life make up a constant (`HealthServed`), a collection has found nothing older than
  itself (`HealthFound`), and a list is allowed one `HealthDelay` more for each project it
  has been told of (`Due`, `ListGood`): what it already shows ages only while it
  waits for somebody (`SomebodyIsAwaited`), and that somebody's collection ends.
  What is in a snapshot without a reason and without a warning was found (`HealthFound`);
  a lookup that fails adds a warning, so nothing is assumed of what fails.
  `HealthIsCurrent` is `NobodyStale` of what a page calls green and leaves unwarned.
- `AccountsProofs`. `AccountsInv` knows of a deletion what it has dropped and found so far
  (`CleanCascade`), of a provisioning alone what its login is worth (`LoneProvisioning`),
  and that a companion found is that of its human (`FoundIsPaired`).
- `DoorsProofs`. The four doors implement `Staleness`: `SiteImplementsStaleness`,
  `GateImplementsStaleness`, `ToolImplementsStaleness`, `ConsentIsBounded`. An entry's age
  and the rest of its life make up a constant (`EntryOK`, `MemoryOK`); a request or a
  stream knows, at each stage, how old what it was told is at most (`VisitOK`,
  `StreamOK`, `ChanOK`, `PostOK`): the sum of what the memory allowed, the rest of its
  timer and the age of the call under way; a channel that waits for its identity has
  the age of that call on top of what the introspection's memory allowed. A step of a request maps to `Admit`, `Leave`
  or a stutter (`VisitMoves`, `StreamMoves`, `ChannelMoves`); a tick to a `Tick`, since the
  stages bound every `since` by the window. Assumed: calls of at most `Delay`, shorter
  than an interval or a life (`GatewayAssumption`, `ToolChannelAssumption`).
  `SiteIsShut`, `GateIsShut`, `ToolIsShut` and `ConsentIsShut` say `NobodyStale` of each door,
  from the refinement and a lemma for each instance (`SessionDoorShuts` and its like):
  `Staleness` cannot reach a state in which somebody inside is past the window.
  `ToolCountsPlaces`: `perUser` and `total` are the sizes of sets of channels (`Counted`),
  with the theorems about finite sets for each step that adds or removes one.
- `EvaluatorProofs`. `EvalInv` says what each row may hold at its time (`MetaRowsOK`,
  `VulnRowsOK`), what a request carries from them (`MetasOK`, `VulnsOK`), and how its
  goroutines share the lookups (`FlightsOK`). `AnswersOK` then reads the two properties
  of verdicts off what was carried (`Sound`).
- `DeliveryProofs`. `ArtifactCache`: `Exclusive` (each mutex is held by exactly the handler
  in its section), `CarriedWhole` (what is on its way to the cache is whole) and
  `StillAbove` (from the look at the total to the removal the total only grows, because
  removals need `evictMu`). `Accounted` needs two more: `Balanced`, what the total still
  lacks is what the holder of `accMu` is about to tell it, and `Pursued`, whenever the
  total is above the mark somebody is to look at it or has every cached file before
  him (a pass whose list is at its end finds an empty disk, `EndPursues`).
  `RequestsNeverCircle`: a step of a handler lowers its `Phase`, or keeps it and lowers
  `Rounds`, which is a natural because what is cached is finite. `PinImage`: `PinInv`, by which a build knows a commit that
  exists and carries what it read of the file. `TemplateSeed`: `SeedInv`, by which a run
  that is writing has written what lies behind it and knows the blobs before it, edits
  are numbered afresh, and a repository that is absent is empty and unmarked.
  `TemplateAccess`: `AccessInv`, by which an operation that is half done, alone and sure
  of its user (`Settled`) answers for the users it is about (`OpOK`).
- `RecordsProofs`. `TenantResources`: `Sound` (what a request carries from one await to the
  next is valid for the defaults it saw), `Budget`, by each stage which fields of the
  cluster are already what the row asks (`Stage`) while nobody else is at work
  (`Solitary`), and that what pages say of volumes stays true (`Truthful`). `CooldepsSettings`: `SettingsInv`,
  what a save that is alone has done by each stage. `Activity`: `LedgerInv`, by which of
  the statements that did not overlap one at most stores a row, and `BadgeInv`, by
  which all that is earned is noted first. `ClientAudiences`: `ListInv`, by which a memo
  about to be made is about an audience that is listed (`FacadeOK`, `EditOK`).
  `Capabilities`: `CapsInv`, of which `Agree` relates row, secret and volume, `Knows` says
  that a credential in hand is that of the row, `Progress` what a request that is alone
  has done, and `Sole` that it is alone. The rules between knobs, the asks and the
  kinds of rows are quantified over, not fixed.

Only model-checked, and why:

- `EventuallySettled`, `ProvisioningEnds` and `WorkEnds`: liveness; fairness and `ENABLED`
  are outside the prover. What of them is safety is proved: settled stays settled
  (`SettledStays`), a project without a verdict is still worked on (`NoneIsForgotten`), and
  runs, purges and requests of the cache come nearer to their end by every step of
  their own (`WorkNeverCircles`, `RequestsNeverCircle`). Left to TLC is that those steps
  are taken, and all of what the parts of `WorkEnds` outside the cache say.

`NoOrphans` and `PruneSafeForBadges` are false of the code.

## 6. Where code and text disagree

Two disagreements are kept as runs (`lifecycle_orphan`, `activity_prune`). The others
were met while the modules were written; the model does what the code does, and the properties are
stated so that they hold of it.

Access.
- A convergence that read the grants before a revoke puts the collaborator back
  after it, with no error noted (`repo-access.ts` 126; the comment at 140-143 says that
  stale access cannot persist silently). The sweep repairs it.
- When the lookup of a level fails, a lowered grant compares equal and is skipped
  (`gitea.ts` 624; the comment at 574-577 names this defect as fixed).
- The fan-out to a new account writes the everyone-grant's level over a higher one
  (`repo-access.ts` 185; "the highest applicable grant wins", `README.md` 57-58).
- A grant can land on another person's account of the same login
  (`gitea-identity.ts` 12-14, 34-36).

Transfer.
- Any error of the move is answered with "Nothing was changed", also when only its
  answer was lost (`ownership-transfer.ts` 248; 130-131).
- After the printed SQL, the re-submission keeps the previous owner's grant under
  the new owner's login (290; 258-260).

Accounts.
- A bot's Gitea account is never made; a failed `findBot` during a deletion leaves the
  bot (`user-delete.ts` 109), a failed `deleteUserGrants` its grants.
- The cascade of an identity that was never provisioned derives its login and may
  purge another's account; a rename before the deletion leaves the old account.
- When the roll-back of a registration fails too, the client stays, without the
  restriction asked for (`admin.ts` 424; 419-423).
- Two administrators who demote each other leave none (`admin.ts` 233, which guards
  against demoting oneself only; 231-232).

Activity.
- The retention deletes views, which count as days of activity, so that badges can be
  lost (`achievements.ts` 362; 355-358 says that pruning is safe for badges).

Doors.
- `routes/mcp.ts` 469-470 says that a revoked channel is closed within
  `REINTROSPECT_MS`; with the two memories behind the heartbeat, and the identity call
  between the token's check and the opening (426), the bound is that of
  `ChannelBounded`. A client that leaves while it is authenticated keeps its place
  for good.

Cooldeps.
- A commit that finds the eviction lock taken skips, and the holder may have looked
  at the total for the last time: it stays above the mark until the next commit
  (`artifact.go` 174; 18-20 and 173). Temporary files of interrupted streams are
  never counted.
- A version that deps.dev lists without a date is stored as found, and with the
  default `META_TTL` of 0 is not asked for again (`eval.go` 36 and 147 speak of a
  refresh of a cached "unknown age", which only a row that was not found gets).

Pins, budgets, template.
- The last push is not deployed when its pin meets a commit that it did not know.
- Lowered defaults with stored overrides make apply-all write a budget that breaks
  the rules (`tenant-defaults.ts` 174-177: "can't create an internally inconsistent
  quota either"). A slow load of the index page can put
  replaced defaults back into memory.
- A first seeding that was interrupted is adopted, so that the stub README stays
  (`template-seed.ts` 203-209 says "resume/overwrite them"); an interrupted reset keeps
  the old sentinel and is not resumed (259-261). A start that loses the race of
  creating the repository treats it as its own and overwrites (`index.ts` 214-217
  "never overwrites their edits").
- A start that overlaps a demotion, or a failed removal, leaves a demoted
  administrator with write access (`community-center.ts` 11-13).
- An administrator whose identity cannot be looked up is not in the set that a revoke
  by hand is checked against (54-61), so that the revoke, alone and successful,
  removes the access of an administrator (161-162 says "never remove [...] an admin").
  The next start of a portal adds him again.
- A save whose volume could not be grown, for the quota or any other failure, is
  answered as a success with a line about the volume (`k8s.ts` 926-936, `admin.ts`
  1062-1092); both volumes draw on one quota, and it is the second that finds it used.

Health.
- A project of which no lookup answered is green, with "lookups incomplete" beside it
  (`scoreProject`, `project-health.ts` 151-213, does not look at `warnings`; 6-9 promise
  only that the page survives). So is every ready project where Kubernetes is disabled.

## 7. Not modelled

HTML, routes that read, YAML rendering, cryptography, parsing of registry
documents, e-mail. The protocols of Kratos, Hydra and Keto beyond what the
portal's handlers ask and answer. The template application: one statement per
request. Rate limits and other guards of one request. The list of collaborators
stops at 40 pages, more than a model of a few users can show. Forwarded bytes,
Kubernetes reads and the documentation pages carry no state.
