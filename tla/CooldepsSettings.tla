-------------------------- MODULE CooldepsSettings ---------------------------
(* How an administrator's policy reaches the cooldeps proxy: POST          *)
(* /admin/cooldeps of typescript/portal/src/routes/admin.ts over           *)
(* services/cooldeps-config.ts.  The row is the source of truth, the       *)
(* ConfigMap is written from it, and cooldeps reads that when it starts,   *)
(* so that its Deployment is rolled.  A policy is a value: two forms       *)
(* differ, or are the same.  A step is one call's effect.                  *)
(***************************************************************************)
EXTENDS Naturals

CONSTANTS
  Saves,     \* submissions at once (a bound)
  Policies,  \* what parseCooldepsConfig makes of a valid form
  Default,   \* what the chart seeds the ConfigMap with, and DEFAULT_COOLDEPS_CONFIG
  Unsaved,
  MaxSaves   \* submissions in all (a bound)

ASSUME CooldepsSettingsAssumption ==
  Unsaved \notin Policies \cup {Default} /\ MaxSaves \in Nat

VARIABLES
  policyRow,      \* platform_cooldeps_config, or no row
  configMap,  \* cooldeps-config
  stamp,      \* the pod template's restartedAt: how many restarts were asked for
  pod,        \* the pod that serves: what it has read, and the template it is of
  save,
  submissions,
  told,       \* history: the policy of the last submission, if it was alone and told "Saved"
  unrolled    \* history: a ConfigMap was written and the restart for it never asked

settingsVars == <<policyRow, configMap, stamp, pod, save, submissions, told, unrolled>>

Saving == [pc : {"idle", "row", "map", "roll", "reload"}, policy : Policies \cup {Unsaved},
         alone : BOOLEAN]
NoSave == [pc |-> "idle", policy |-> Unsaved, alone |-> FALSE]

SettingsTypeOK ==
  /\ policyRow \in Policies \cup {Unsaved} /\ configMap \in Policies \cup {Default}
  /\ stamp \in Nat /\ pod \in [policy : Policies \cup {Default}, stamp : Nat]
  /\ save \in [Saves -> Saving] /\ submissions \in 0..MaxSaves
  /\ told \in Policies \cup {Unsaved} /\ unrolled \in BOOLEAN

SettingsInit ==
  /\ policyRow = Unsaved /\ configMap = Default /\ stamp = 0
  /\ pod = [policy |-> Default, stamp |-> 0]
  /\ save = [s \in Saves |-> NoSave] /\ submissions = 0
  /\ told = Unsaved /\ unrolled = FALSE

Underway == {s \in Saves : save[s].pc # "idle"}

-----------------------------------------------------------------------------
\* A form that parses; one that does not only comes back with the error.
SubmitPolicy(s, p) ==
  /\ save[s] = NoSave /\ submissions < MaxSaves
  /\ submissions' = submissions + 1
  /\ save' = [r \in Saves |->
       IF r = s THEN [pc |-> "row", policy |-> p, alone |-> Underway = {}]
       ELSE [save[r] EXCEPT !.alone = FALSE]]
  /\ told' = Unsaved
  /\ UNCHANGED <<policyRow, configMap, stamp, pod, unrolled>>

Advance(s, pc) == save' = [save EXCEPT ![s].pc = pc]
EndSave(s) == save' = [save EXCEPT ![s] = NoSave]

\* Each call does what it does, and the next one follows; or it is reported to have
\* failed, and whether it did that or not, the page says that the state may be partial.
SaveRow(s) ==
  /\ save[s].pc = "row"
  /\ \/ policyRow' = save[s].policy /\ (Advance(s, "map") \/ EndSave(s))
     \/ UNCHANGED policyRow /\ EndSave(s)
  /\ UNCHANGED <<configMap, stamp, pod, submissions, told, unrolled>>

\* reconcileCooldepsConfig
RestartsOnly(s) ==    \* a mutant: the pods are restarted, and nothing is written
  /\ save[s].pc = "map" /\ Advance(s, "roll")
  /\ UNCHANGED <<policyRow, configMap, stamp, pod, submissions, told, unrolled>>
PatchMap(s) ==
  /\ save[s].pc = "map"
  /\ \/ /\ configMap' = save[s].policy
        /\ \/ Advance(s, "roll") /\ UNCHANGED unrolled
           \/ EndSave(s) /\ unrolled' = TRUE
     \/ UNCHANGED <<configMap, unrolled>> /\ EndSave(s)
  /\ UNCHANGED <<policyRow, stamp, pod, submissions, told>>
Roll(s) ==
  /\ save[s].pc = "roll"
  /\ \/ /\ stamp' = stamp + 1 /\ unrolled' = FALSE
        /\ Advance(s, "reload") \/ EndSave(s)
     \/ UNCHANGED stamp /\ unrolled' = TRUE /\ EndSave(s)
  /\ UNCHANGED <<policyRow, configMap, pod, submissions, told>>
\* "Saved. cooldeps is restarting with the new policy.", if the row can be read.
Reload(s) ==
  /\ save[s].pc = "reload"
  /\ told' \in {IF save[s].alone THEN save[s].policy ELSE told, told}
  /\ EndSave(s)
  /\ UNCHANGED <<policyRow, configMap, stamp, pod, submissions, unrolled>>

\* The Deployment makes a pod of the newest template, which reads what there is.
RollsOut ==
  /\ pod.stamp # stamp /\ pod' = [policy |-> configMap, stamp |-> stamp]
  /\ UNCHANGED <<policyRow, configMap, stamp, save, submissions, told, unrolled>>
\* The pod's container restarts and reads what its volume holds by now.
PodRestarts ==
  /\ pod' = [pod EXCEPT !.policy = configMap]
  /\ UNCHANGED <<policyRow, configMap, stamp, save, submissions, told, unrolled>>

SettingsNext ==
  \/ \E s \in Saves :
       \/ \E p \in Policies : SubmitPolicy(s, p)
       \/ SaveRow(s) \/ PatchMap(s) \/ Roll(s) \/ Reload(s)
  \/ RollsOut \/ PodRestarts

SettingsSpec == SettingsInit /\ [][SettingsNext]_settingsVars

-----------------------------------------------------------------------------
(* Who saved alone and was told that cooldeps is restarting has his policy *)
(* in the row and in the ConfigMap, and once the pods have followed, they  *)
(* enforce it.  And whatever overlapped or failed, as long as every        *)
(* ConfigMap that was written got its restart, the pods end up with the    *)
(* ConfigMap's policy: no later write is left unread.                      *)
SettingsAgree ==
  /\ SettingsTypeOK
  /\ told # Unsaved =>
       policyRow = told /\ configMap = told /\ (pod.stamp = stamp => pod.policy = told)
  /\ ~unrolled /\ pod.stamp = stamp /\ (\A s \in Saves : save[s].pc # "roll") =>
       pod.policy = configMap
=============================================================================
