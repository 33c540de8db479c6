------------------------------ MODULE MCRecords ------------------------------
(* What the portal keeps a record of, for TLC: the memory and storage that *)
(* a project may have, with one of its containers and the size of a new    *)
(* volume; the policy of cooldeps; the audiences of OAuth clients; and the *)
(* ledger of activity.  They share nothing, so that each is used while the *)
(* others rest.                                                            *)
EXTENDS TenantResources, CooldepsSettings, ClientAudiences, MCActivity, TLC

CONSTANTS r1, r2, a1, a2, l1, l2, c1, f1, f2, e1, s1, s2

VARIABLE topic

MCKnobs == {"max", "maxPerContainer", "maxStorage", "defaultStorage"}
Plan(m, c, s, d) ==
  [k \in MCKnobs |-> CASE k = "max" -> m [] k = "maxPerContainer" -> c
                       [] k = "maxStorage" -> s [] k = "defaultStorage" -> d]
MCChart == Plan(2, 1, 2, 1)
MCQuota == {"max", "maxStorage"}
MCLimits == {"maxPerContainer"}
MCOverridable == {"max", "maxPerContainer", "maxStorage"}
MCRules == {<<"maxPerContainer", "max">>}
\* Lower, higher, inconsistent, above the cap of a volume.
MCDefaults == {MCChart, Plan(1, 1, 2, 1), Plan(3, 2, 3, 2), Plan(1, 2, 2, 1), Plan(2, 1, 2, 4)}
Bump(m, c, s) ==
  [k \in MCOverridable |-> CASE k = "max" -> m [] k = "maxPerContainer" -> c
                             [] k = "maxStorage" -> s]
\* More of everything, of one thing, too much per container, too little.
MCForms == {Bump(3, 3, 3), Bump(Inherit, 2, Inherit), Bump(Inherit, 3, Inherit),
            Bump(1, Inherit, Inherit)}

\* None, one, both, and one that is not canonical.  What the authorizations want is the
\* project that stays and the platform; what fills the list is the one that comes and goes.
MCResources == {<<>>, <<s1>>, <<s1, s2>>, <<Malformed>>}
MCBodies == {{s2}}
MCSymmetry == Permutations({f1, f2}) \cup Permutations({r1, r2})

Init ==
  /\ ResourcesInit /\ SettingsInit /\ ListInit /\ ActivityInit
  /\ topic \in {"resources", "settings", "audiences", "activity"}
  \* what the clients that rest start with does not matter
  /\ s1 \in exists
  /\ topic # "audiences" => exists = {s1} /\ \A c \in Clients : life[c] = "new"
Next ==
  \/ /\ topic = "resources" /\ ResourcesNext
     /\ UNCHANGED <<settingsVars, listVars, activityVars, topic>>
  \/ /\ topic = "settings" /\ SettingsNext
     /\ UNCHANGED <<resourceVars, listVars, activityVars, topic>>
  \/ /\ topic = "audiences" /\ ListNext /\ s1 \in exists'
     /\ UNCHANGED <<resourceVars, settingsVars, activityVars, topic>>
  \/ /\ topic = "activity" /\ ActivityNext
     /\ UNCHANGED <<resourceVars, settingsVars, listVars, topic>>
Spec == Init /\ [][Next]_<<resourceVars, settingsVars, listVars, activityVars, topic>>
=============================================================================
