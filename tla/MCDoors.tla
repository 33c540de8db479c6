------------------------------ MODULE MCDoors ------------------------------
(* Instances of SiteAccess, Gateway, ToolChannel and Consent for TLC.  The *)
(* doors share the grants and nothing else, so that each is used with the  *)
(* others shut.                                                            *)
EXTENDS SiteAccess, Gateway, ToolChannel, Consent, TLC

CONSTANTS p1, w1, w2, w3, k1

VARIABLE door

\* Nothing; the project, with and without the platform; another spelling; another server.
MCOffers == {{}, {ProjectAud}, {PlatformAud, ProjectAud}, {OddAud}, {ProjectAud, OtherAud}}

\* The doors have their handlers in common; any two are alike.
MCSymmetry == Permutations({w1, w2})

Init ==
  /\ SiteInit /\ GateInit /\ ToolInit /\ ConsentInit
  /\ door \in {"site", "mcp", "tools", "tokens"}
  \* what the doors that are shut start with does not matter
  /\ door # "site" => alive = {}
  /\ door # "mcp" => active = {}
  /\ door # "tools" => good = {}
  /\ door # "tokens" => fit = {}
  /\ door = "tools" => permitted = {}
Next ==
  \/ /\ door = "site" /\ SiteNext
     /\ UNCHANGED <<gateVars, toolVars, consentVars, door>>
  \/ /\ door = "mcp" /\ GateNext
     /\ UNCHANGED <<siteVars, toolVars, consentVars, door>>
  \/ /\ door = "tools" /\ ToolNext
     /\ UNCHANGED <<siteVars, gateVars, consentVars, door>>
  \/ /\ door = "tokens" /\ ConsentNext
     /\ UNCHANGED <<siteVars, gateVars, toolVars, door>>
Spec == Init /\ [][Next]_<<grantVars, siteVars, gateVars, toolVars, consentVars, door>>
=============================================================================
