----------------------------- MODULE RepoAccess -----------------------------
(***************************************************************************)
(* Convergence of one project's Gitea repository onto the portal's access  *)
(* state: typescript/portal/src/services/repo-access.ts and the handlers   *)
(* that trigger it.                                                        *)
(*                                                                         *)
(* The portal's database says who may do what (grants to users, to groups  *)
(* and to everyone; group membership).  Gitea enforces it, as a list of    *)
(* collaborators.  Every change of the database fires syncRepoAccess and   *)
(* does not wait for it, so several convergences of the same repository    *)
(* run at once, each on the rows it happened to read; a provisioning       *)
(* fan-out and the owner of the repository write the same list; and a      *)
(* sweep repeats the convergence for ever.  A step of this module is what  *)
(* runs between two awaits of the source.                                  *)
(***************************************************************************)
EXTENDS Integers, FiniteSets

CONSTANTS
  Users,        \* people with a Kratos identity, each with one Gitea login
  Groups,
  Everyone,     \* the virtual org-wide subject
  Owner,        \* owner of the project and of its repository
  Reserved,     \* users whose login is on the reserved list
  Provisioned,  \* users who have a Gitea account at the start
  GrantLevels,  \* the repo levels that are granted, of 1..3
  Workers,      \* request handlers with a fire-and-forget sync (a bound)
  Sweeper,      \* the timer of index.ts
  MaxEdits,     \* bound on what people do
  MaxFailures   \* bound on failed calls and on portal restarts

Subjects == Users \cup Groups \cup {Everyone}
Syncs    == Workers \cup {Sweeper}

ASSUME RepoAccessAssumption ==
  /\ Reserved \subseteq Users /\ Provisioned \subseteq Users
  /\ Owner \in Provisioned
  /\ Users \cap Groups = {} /\ Everyone \notin Users \cup Groups
  /\ GrantLevels \subseteq 1..3
  /\ Sweeper \notin Workers /\ Everyone \notin Syncs
  /\ MaxEdits \in Nat /\ MaxFailures \in Nat

VARIABLES
  grants,      \* project_grants.repo_perm of the project by subject, 0 is NULL
  members,     \* group_members
  live,        \* the rows of the groups table
  accounts,    \* users with a Gitea account
  collab,      \* Gitea: collaborator level by user, 0 is not a collaborator
  private,     \* Gitea: the repository is private
  sync,        \* the syncRepoAccess calls in flight
  fan,         \* the addMemberToDefaultAccessRepos calls in flight
  everGranted, \* history: every <<subject, level>> that was ever granted
  everMember,  \* history: everyone who was ever in the group
  byHand,      \* history: every <<user, level>> set in Gitea's own UI
  edits, failures

dbVars      == <<grants, members, live>>
giteaVars   == <<accounts, collab, private>>
historyVars == <<everGranted, everMember, byHand>>
boundVars   == <<edits, failures>>
vars == <<dbVars, giteaVars, sync, fan, historyVars, boundVars>>

\* PERM_RANK: read 1, write 2, admin 3; 0 stands for "no level".
Read   == 1
Levels == 0..3
NoLevels == [u \in Users |-> 0]
NoRows   == [sub \in Subjects |-> 0]

\* Logins that no portal step adds or removes: desired.delete(owner), the
\* refusal of reserved names in bump, and the skip in the removal loop.
Protected == Reserved \cup {Owner}

\* Where a sync stands; the label names the next call it makes.
Stages == {"idle", "upsert", "lookup", "dropGrants", "dropGroup", "visibility",
           "grants", "expand", "apply"}

IdleSync ==
  [pc |-> "idle", subject |-> Everyone, level |-> 0, affected |-> FALSE,
   rows |-> NoRows, desired |-> NoLevels, adds |-> {}, drops |-> {},
   errors |-> FALSE, clean |-> FALSE, misread |-> FALSE]
IdleFan == [pc |-> "idle", level |-> 0]

SyncRecords ==
  [pc : Stages,
   subject : Subjects, level : Levels, affected : BOOLEAN, \* of the request
   rows : [Subjects -> Levels],       \* snapshot of the grants left to expand
   desired : [Users -> Levels],
   adds : SUBSET Users,               \* rest of the loop of setCollaborator
   drops : SUBSET Users,              \* rest of the loop of removeCollaborator
   errors : BOOLEAN,                  \* result.errors is not empty
   clean : BOOLEAN,                   \* history: nobody else wrote since it read the grants
   misread : BOOLEAN]                 \* history: a level was read by the fallback

TypeOK ==
  /\ grants \in [Subjects -> Levels]
  /\ members \in [Groups -> SUBSET Users]
  /\ live \subseteq Groups
  /\ accounts \subseteq Users
  /\ collab \in [Users -> Levels]
  /\ private \in BOOLEAN
  /\ sync \in [Syncs -> SyncRecords]
  /\ fan \in [Users -> [pc : {"idle", "lookup", "put"}, level : Levels]]
  /\ everGranted \subseteq Subjects \X Levels
  /\ everMember \in [Groups -> SUBSET Users]
  /\ byHand \subseteq Users \X Levels
  /\ edits \in 0..MaxEdits /\ failures \in 0..MaxFailures

Init ==
  /\ grants = NoRows
  /\ members = [g \in Groups |-> {}]
  /\ live = Groups
  /\ accounts = Provisioned
  /\ collab = NoLevels
  /\ private = TRUE
  /\ sync = [s \in Syncs |-> IdleSync]
  /\ fan = [u \in Users |-> IdleFan]
  /\ everGranted = {}
  /\ everMember = [g \in Groups |-> {}]
  /\ byHand = {}
  /\ edits = 0 /\ failures = 0

-----------------------------------------------------------------------------
(* The policy, as it stands in the database.                               *)

\* Wrong version: a group grant is fanned out like an org-wide one.
CoversWholeOrg(sub) == IF sub \in Users THEN {sub} ELSE Users

\* The users a grant to this subject reaches.
Covers(sub) ==
  IF sub \in Users THEN {sub}
  ELSE IF sub \in Groups THEN members[sub]
  ELSE Users

\* l is the highest level any grant gives u: what access.ts calls effective.
Entitled(u, l) ==
  /\ \A sub \in Subjects : u \in Covers(sub) => grants[sub] <= l
  /\ l # 0 => \E sub \in Subjects : u \in Covers(sub) /\ grants[sub] = l

-----------------------------------------------------------------------------
(* Bookkeeping shared by the steps.                                        *)

Edit == edits < MaxEdits /\ edits' = edits + 1
Fail == failures < MaxFailures /\ failures' = failures + 1

\* Whoever writes the database or the collaborator list disturbs the syncs
\* that are under way, except its own.
Disturbed(f, by) ==
  [t \in Syncs |-> IF t = by THEN f[t] ELSE [f[t] EXCEPT !.clean = FALSE]]

\* A free handler takes up a request about a subject.  It is the bound on the
\* handlers and syncs in flight at once that a busy one takes up no other.
Free(w) == sync[w].pc = "idle"
At(pc, sub) == [IdleSync EXCEPT !.pc = pc, !.subject = sub]
Syncing == [IdleSync EXCEPT !.pc = "visibility"]

-----------------------------------------------------------------------------
(* What people do in the portal.                                           *)

\* POST /projects/:id/access with a repo level: the subject is resolved (the
\* owner is refused, a group must exist, org-wide access is capped at read) ...
GrantAllowed(sub, l) ==
  /\ sub # Owner
  /\ sub \in Groups => sub \in live
  /\ sub = Everyone => l = Read
RequestGrant(w, sub, l) ==
  /\ Edit /\ Free(w)
  /\ GrantAllowed(sub, l)
  /\ sync' = [sync EXCEPT ![w] = [At("upsert", sub) EXCEPT !.level = l]]
  /\ UNCHANGED <<dbVars, giteaVars, fan, historyVars, failures>>

\* ... then the row is written, and a sync starts.
SetGrantFacet(w) ==
  LET sub == sync[w].subject
      l == sync[w].level
  IN
  /\ sync[w].pc = "upsert"
  /\ grants' = [grants EXCEPT ![sub] = l]
  /\ everGranted' = everGranted \cup {<<sub, l>>}
  /\ sync' = Disturbed([sync EXCEPT ![w] = Syncing], w)
  /\ UNCHANGED <<members, live, giteaVars, fan, everMember, byHand, boundVars>>

\* POST /projects/:id/access/:grantId/revoke of the repo facet.
RevokeGrant(w, sub) ==
  /\ Edit /\ Free(w)
  /\ grants[sub] # 0
  /\ grants' = [grants EXCEPT ![sub] = 0]
  /\ sync' = Disturbed([sync EXCEPT ![w] = Syncing], w)
  /\ UNCHANGED <<members, live, giteaVars, fan, historyVars, failures>>

\* POST /groups/:id/members and .../remove: the membership row, then
\* syncProjectsForGroup, which looks up the projects that grant the group.
AddMember(w, g, u) ==
  /\ Edit /\ Free(w)
  /\ g \in live
  /\ members' = [members EXCEPT ![g] = @ \cup {u}]
  /\ everMember' = [everMember EXCEPT ![g] = @ \cup {u}]
  /\ sync' = Disturbed([sync EXCEPT ![w] = At("lookup", g)], w)
  /\ UNCHANGED <<grants, live, giteaVars, fan, everGranted, byHand, failures>>

RemoveMember(w, g, u) ==
  /\ Edit /\ Free(w)
  /\ g \in live
  /\ members' = [members EXCEPT ![g] = @ \ {u}]
  /\ sync' = Disturbed([sync EXCEPT ![w] = At("lookup", g)], w)
  /\ UNCHANGED <<grants, live, giteaVars, fan, historyVars, failures>>

\* listProjectsGrantedToGroup: sync the project only if it grants the group.
Lookup(w) ==
  /\ sync[w].pc = "lookup"
  /\ sync' = [sync EXCEPT ![w] = IF grants[sync[w].subject] # 0
                                 THEN Syncing ELSE IdleSync]
  /\ UNCHANGED <<dbVars, giteaVars, fan, historyVars, boundVars>>

\* POST /groups/:id/delete: note whether the project is affected (a failed
\* lookup counts as no), delete the grants, delete the group row (its members
\* go by cascade), then sync.
DeleteGroup(w, g) ==
  LET Start(affected) ==
        sync' = [sync EXCEPT ![w] = [At("dropGrants", g) EXCEPT !.affected = affected]]
  IN
  /\ Edit /\ Free(w)
  /\ g \in live
  /\ \/ Start(grants[g] # 0) /\ UNCHANGED failures
     \/ Start(FALSE) /\ Fail
  /\ UNCHANGED <<dbVars, giteaVars, fan, historyVars>>

DropGrants(w) ==
  /\ sync[w].pc = "dropGrants"
  /\ grants' = [grants EXCEPT ![sync[w].subject] = 0]
  /\ sync' = Disturbed([sync EXCEPT ![w].pc = "dropGroup"], w)
  /\ UNCHANGED <<members, live, giteaVars, fan, historyVars, boundVars>>

DropGroup(w) ==
  LET g == sync[w].subject IN
  /\ sync[w].pc = "dropGroup"
  /\ live' = live \ {g}
  /\ members' = [members EXCEPT ![g] = {}]
  /\ sync' = Disturbed([sync EXCEPT ![w] = IF sync[w].affected THEN Syncing ELSE IdleSync], w)
  /\ UNCHANGED <<grants, giteaVars, fan, historyVars, boundVars>>

-----------------------------------------------------------------------------
(* What people do around the portal.                                       *)

\* ensureProvisioned: a reserved name is refused; the Gitea account is made, or
\* that step fails and the next one is tried all the same, or the name could not
\* be resolved and there is no next one.  The bound: one such call per user.
Provision(u) ==
  /\ Edit
  /\ u \notin Reserved /\ fan[u].pc = "idle"
  /\ \/ /\ accounts' = accounts \cup {u}
        /\ fan' = [fan EXCEPT ![u].pc = "lookup"]
        /\ UNCHANGED failures
     \/ /\ Fail
        /\ u \notin accounts /\ UNCHANGED accounts
        /\ fan' = [fan EXCEPT ![u].pc = "lookup"]
     \/ /\ Fail
        /\ accounts' = accounts \cup {u} /\ UNCHANGED fan
  /\ UNCHANGED <<dbVars, collab, private, sync, historyVars>>

\* addMemberToDefaultAccessRepos: read the org-wide grant ...
FanLookup(u) ==
  /\ fan[u].pc = "lookup"
  /\ fan' = [fan EXCEPT ![u] =
               IF grants[Everyone] # 0 /\ u # Owner
               THEN [pc |-> "put", level |-> grants[Everyone]]
               ELSE IdleFan]
  /\ UNCHANGED <<dbVars, giteaVars, sync, historyVars, boundVars>>

\* ... and put the member on the repository at that level.
FanPut(u) ==
  /\ fan[u].pc = "put" /\ u \in accounts
  /\ collab' = [collab EXCEPT ![u] = fan[u].level]
  /\ fan' = [fan EXCEPT ![u] = IdleFan]
  /\ sync' = Disturbed(sync, Everyone)
  /\ UNCHANGED <<dbVars, accounts, private, historyVars, boundVars>>

FanPutFails(u) ==
  /\ fan[u].pc = "put"
  /\ (u \notin accounts /\ UNCHANGED failures) \/ Fail
  /\ fan' = [fan EXCEPT ![u] = IdleFan]
  /\ UNCHANGED <<dbVars, giteaVars, sync, historyVars, edits>>

\* The owner edits the collaborator list, or publishes the repository, in
\* Gitea's own UI.
EditByHand(u, l) ==
  /\ Edit
  /\ u \in accounts \ {Owner} /\ l # collab[u]
  /\ collab' = [collab EXCEPT ![u] = l]
  /\ byHand' = byHand \cup {<<u, l>>}
  /\ sync' = Disturbed(sync, Everyone)
  /\ UNCHANGED <<dbVars, accounts, private, fan, everGranted, everMember, failures>>

PublishByHand ==
  /\ Edit
  /\ private /\ private' = FALSE
  /\ UNCHANGED <<dbVars, accounts, collab, sync, fan, historyVars, failures>>

-----------------------------------------------------------------------------
(* syncRepoAccess, one action per call it awaits.                          *)

\* reconcileAllProjects reaches this project.
StartSweep ==
  /\ Free(Sweeper)
  /\ sync' = [sync EXCEPT ![Sweeper] = Syncing]
  /\ UNCHANGED <<dbVars, giteaVars, fan, historyVars, boundVars>>

\* setRepoVisibility: best effort.
SetVisibility(s) ==
  /\ sync[s].pc = "visibility"
  /\ \/ /\ private' = TRUE
        /\ sync' = [sync EXCEPT ![s].pc = "grants"]
        /\ UNCHANGED failures
     \/ /\ Fail
        /\ sync' = [sync EXCEPT ![s].pc = "grants", ![s].errors = TRUE]
        /\ UNCHANGED private
  /\ UNCHANGED <<dbVars, accounts, collab, fan, historyVars, edits>>

\* listProjectGrants.
ReadGrants(s) ==
  /\ sync[s].pc = "grants"
  /\ sync' = [sync EXCEPT ![s].pc = "expand", ![s].rows = grants, ![s].clean = TRUE]
  /\ UNCHANGED <<dbVars, giteaVars, fan, historyVars, boundVars>>

\* Wrong version: the levels add up.
LevelsAddUp(desired, sub, l) ==
  [u \in Users |-> IF u \in Covers(sub) \ Reserved THEN l + desired[u] ELSE desired[u]]

\* Turn of one grant: its members are read now, not when the grants were.
Bumped(desired, sub, l) ==
  [u \in Users |->
     IF /\ u \in Covers(sub) \ Reserved
        /\ sub = Everyone => u # Owner
        /\ l > desired[u]
     THEN l ELSE desired[u]]
Expand(s, sub) ==
  /\ sync[s].pc = "expand" /\ sync[s].rows[sub] # 0
  /\ sync' = [sync EXCEPT ![s].rows[sub] = 0,
                          ![s].desired = Bumped(@, sub, sync[s].rows[sub])]
  /\ UNCHANGED <<dbVars, giteaVars, fan, historyVars, boundVars>>

\* listCollaborators, after desired.delete(owner).  A level whose lookup fails
\* is taken for read (the set misread), and no error is noted.
Wanted(s) == [sync[s].desired EXCEPT ![Owner] = 0]
Listed(misread) == [u \in Users |-> IF u \in misread THEN Read ELSE collab[u]]
\* Wrong versions: a present collaborator keeps its level; the loop of removals
\* skips the owner only; there is no such loop.
SetsMissingOnly(desired, current) == {u \in Users : desired[u] # 0 /\ current[u] = 0}
RemovesReserved(desired, current) ==
  {u \in Users \ {Owner} : current[u] # 0 /\ desired[u] = 0}
RemovesNobody(desired, current) == {}

ToSet(desired, current) == {u \in Users : desired[u] # 0 /\ current[u] # desired[u]}
ToRemove(desired, current) ==
  {u \in Users \ Protected : current[u] # 0 /\ desired[u] = 0}
List(s, misread) ==
  LET desired == Wanted(s)
      current == Listed(misread)
  IN
  /\ sync[s].pc = "expand" /\ sync[s].rows = NoRows
  /\ (misread = {} /\ UNCHANGED failures) \/ (misread # {} /\ Fail)
  /\ sync' = [sync EXCEPT ![s].pc = "apply", ![s].desired = desired,
                          ![s].adds = ToSet(desired, current),
                          ![s].drops = ToRemove(desired, current),
                          ![s].misread = (misread # {})]
  /\ UNCHANGED <<dbVars, giteaVars, fan, historyVars, edits>>

\* A call that throws outside a try of its own ends the request or the sync: a
\* statement on the tables, or the listing of the collaborators.
CallThrows(s) ==
  /\ sync[s].pc \in {"upsert", "lookup", "dropGrants", "dropGroup", "grants", "expand"}
  /\ Fail
  /\ sync' = [sync EXCEPT ![s] = IdleSync]
  /\ UNCHANGED <<dbVars, giteaVars, fan, historyVars, edits>>

\* setCollaborator: it fails for a user without a Gitea account, and on a blip.
SetCollaborator(s, u) ==
  /\ sync[s].pc = "apply" /\ u \in sync[s].adds
  /\ u \in accounts
  /\ collab' = [collab EXCEPT ![u] = sync[s].desired[u]]
  /\ sync' = Disturbed([sync EXCEPT ![s].adds = @ \ {u}], s)
  /\ UNCHANGED <<dbVars, accounts, private, fan, historyVars, boundVars>>

SetFails(s, u) ==
  /\ sync[s].pc = "apply" /\ u \in sync[s].adds
  /\ (u \notin accounts /\ UNCHANGED failures) \/ Fail
  /\ sync' = [sync EXCEPT ![s].adds = @ \ {u}, ![s].errors = TRUE]
  /\ UNCHANGED <<dbVars, giteaVars, fan, historyVars, edits>>

\* removeCollaborator, once every level is set; it fails after three tries.
RemoveCollaborator(s, u) ==
  /\ sync[s].pc = "apply" /\ sync[s].adds = {} /\ u \in sync[s].drops
  /\ collab' = [collab EXCEPT ![u] = 0]
  /\ sync' = Disturbed([sync EXCEPT ![s].drops = @ \ {u}], s)
  /\ UNCHANGED <<dbVars, accounts, private, fan, historyVars, boundVars>>

RemoveFails(s, u) ==
  /\ sync[s].pc = "apply" /\ sync[s].adds = {} /\ u \in sync[s].drops
  /\ Fail
  /\ sync' = [sync EXCEPT ![s].drops = @ \ {u}, ![s].errors = TRUE]
  /\ UNCHANGED <<dbVars, giteaVars, fan, historyVars, edits>>

Finished(s) == sync[s].pc = "apply" /\ sync[s].adds = {} /\ sync[s].drops = {}
Return(s) ==
  /\ Finished(s)
  /\ sync' = [sync EXCEPT ![s] = IdleSync]
  /\ UNCHANGED <<dbVars, giteaVars, fan, historyVars, boundVars>>

\* The portal restarts: what was in flight is gone, the tables are not.
Restart ==
  /\ Fail
  /\ sync' = [s \in Syncs |-> IdleSync]
  /\ fan' = [u \in Users |-> IdleFan]
  /\ UNCHANGED <<dbVars, giteaVars, historyVars, edits>>

-----------------------------------------------------------------------------
Request ==
  \E w \in Workers :
     \/ \E sub \in Subjects, l \in GrantLevels : RequestGrant(w, sub, l)
     \/ \E sub \in Subjects : RevokeGrant(w, sub)
     \/ \E g \in Groups, u \in Users : AddMember(w, g, u) \/ RemoveMember(w, g, u)
     \/ \E g \in Groups : DeleteGroup(w, g)
Outside ==
  \/ \E u \in Users : Provision(u)
  \/ \E u \in Users, l \in GrantLevels \cup {0} : EditByHand(u, l)
  \/ PublishByHand
  \/ Restart
SyncStep(s) ==
  \/ SetVisibility(s) \/ ReadGrants(s) \/ CallThrows(s) \/ Return(s)
  \/ \E sub \in Subjects : Expand(s, sub)
  \/ \E misread \in SUBSET {u \in Users : collab[u] > Read} : List(s, misread)
  \/ \E u \in Users : \/ SetCollaborator(s, u) \/ SetFails(s, u)
                      \/ RemoveCollaborator(s, u) \/ RemoveFails(s, u)
WorkerStep(w) == SetGrantFacet(w) \/ Lookup(w) \/ DropGrants(w) \/ DropGroup(w)
FanStep(u) == FanLookup(u) \/ FanPut(u) \/ FanPutFails(u)

Next ==
  \/ Request \/ Outside \/ StartSweep
  \/ \E w \in Workers : WorkerStep(w)
  \/ \E s \in Syncs : SyncStep(s)
  \/ \E u \in Users : FanStep(u)

Spec == Init /\ [][Next]_vars

\* A call of an asynchronous function goes on until it returns, whatever it
\* awaits answers or times out, and the interval timer fires for ever.
Fairness ==
  /\ WF_vars(StartSweep)
  /\ \A w \in Workers : WF_vars(WorkerStep(w))
  /\ \A s \in Syncs : WF_vars(SyncStep(s))
  /\ \A u \in Users : WF_vars(FanStep(u))
FairSpec == Spec /\ Fairness

-----------------------------------------------------------------------------
(* Properties.                                                             *)

\* Nobody holds a level on the repository that the portal never gave: a
\* collaborator's level was granted to some subject that the user is, or was,
\* reached by, unless it was set by hand.  However the syncs interleave, a
\* write or admin collaborator had a user or group grant of that level.
Justified(u, l) ==
  \/ <<u, l>> \in byHand
  \/ \E sub \in Subjects :
       /\ <<sub, l>> \in everGranted
       /\ sub \in Users => sub = u
       /\ sub \in Groups => u \in everMember[sub]
CollaboratorsJustified ==
  \A u \in Users : collab[u] # 0 => Justified(u, collab[u])

\* A sync that nobody disturbed after it read the grants, and that met no
\* error, ends with Gitea showing exactly the policy, for every user but the
\* protected ones: this is what one run of syncRepoAccess promises.
Converged == \A u \in Users \ Protected : Entitled(u, collab[u])
SoloSyncConverges ==
  \A s \in Syncs :
    /\ Finished(s)
    /\ sync[s].clean /\ ~sync[s].errors /\ ~sync[s].misread
    => Converged

\* The portal adds, changes and removes no collaborator row of the owner or of
\* a reserved account: only a hand in Gitea's UI does.
ProtectedUntouched ==
  [][\A u \in Protected : collab'[u] # collab[u] => edits' # edits]_vars

\* Once people stop editing, the repository ends up private with the
\* collaborators the policy gives to those who have an account, and stays so.
Settled ==
  /\ private
  /\ \A u \in accounts \ Protected : Entitled(u, collab[u])
EventuallySettled == <>[]Settled

-----------------------------------------------------------------------------
(* Why the first three hold: what the steps maintain all along.            *)

\* Every level on its way to Gitea was granted: it is in a table row, in the
\* snapshot or the map of a sync, or in the hand of a fan-out.
LevelsRecorded ==
  /\ \A g \in Groups : members[g] \subseteq everMember[g]
  /\ \A sub \in Subjects : grants[sub] # 0 => <<sub, grants[sub]>> \in everGranted
  /\ \A u \in Users : fan[u].level # 0 => <<Everyone, fan[u].level>> \in everGranted
SyncsRecorded ==
  \A s \in Syncs :
    /\ \A sub \in Subjects :
         sync[s].rows[sub] # 0 => <<sub, sync[s].rows[sub]>> \in everGranted
    /\ \A u \in Users : sync[s].desired[u] # 0 => Justified(u, sync[s].desired[u])

\* The map that sync s builds is exact for the grants it has expanded.
ExactFor(s, u) ==
  /\ \A sub \in Subjects :
       u \in Covers(sub) /\ sync[s].rows[sub] = 0 => grants[sub] <= sync[s].desired[u]
  /\ sync[s].desired[u] # 0 =>
       \E sub \in Subjects : u \in Covers(sub) /\ grants[sub] = sync[s].desired[u]
\* What is left to apply is all that keeps Gitea from the map.
AppliedBut(s, u) ==
  /\ u \in sync[s].drops => sync[s].desired[u] = 0
  /\ u \notin sync[s].adds \cup sync[s].drops => collab[u] = sync[s].desired[u]
CleanSyncExact ==
  \A s \in Syncs :
    /\ sync[s].pc \in {"visibility", "grants"} => sync[s].desired = NoLevels
    /\ sync[s].clean =>
         /\ sync[s].pc \in {"expand", "apply"}
         /\ \A sub \in Subjects : sync[s].rows[sub] \in {0, grants[sub]}
         /\ \A u \in Users \ Protected : ExactFor(s, u)
    /\ sync[s].pc = "apply" =>
         /\ sync[s].rows = NoRows
         /\ sync[s].clean /\ ~sync[s].errors /\ ~sync[s].misread =>
              \A u \in Users \ Protected : AppliedBut(s, u)

\* Nothing the portal is about to write names the owner or a reserved account.
ProtectedSpared ==
  /\ \A u \in Users : /\ fan[u].pc # "idle" => u \notin Reserved
                      /\ fan[u].pc = "put" => u # Owner
  /\ \A s \in Syncs :
       /\ \A u \in Reserved : sync[s].desired[u] = 0
       /\ sync[s].adds \cap Protected = {} /\ sync[s].drops \cap Protected = {}

-----------------------------------------------------------------------------
(* What EventuallySettled promises of safety: settled stays settled.       *)

\* Sync s is about to write nothing that the policy as it stands would not have
\* it write: it has no row to write, and what it has read and merged is exact.
InTime(s) ==
  /\ sync[s].pc \notin {"upsert", "dropGrants", "dropGroup"}
  /\ sync[s].pc \in {"expand", "apply"} =>
       /\ \A sub \in Subjects : sync[s].rows[sub] \in {0, grants[sub]}
       /\ \A u \in Users \ Protected : ExactFor(s, u)
  /\ sync[s].pc = "apply" => \A u \in sync[s].drops : sync[s].desired[u] = 0

\* Settled alone is undone by a sync that read the grants too early, and by a
\* fan-out that did.  Once neither is left, any number of syncs may overlap, fail
\* or be cut off by a restart: only a person's act unsettles the repository.
Calm ==
  /\ Settled
  /\ \A u \in Users : fan[u].pc = "idle"
  /\ \A s \in Syncs : InTime(s)
StaysSettled == [][Calm /\ edits' = edits => Calm']_vars
=============================================================================
