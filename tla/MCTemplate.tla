----------------------------- MODULE MCTemplate -----------------------------
(* The template repository for TLC: its content and its writers.  A        *)
(* starting portal seeds first and then adds the administrators, and a     *)
(* collaborator can only be set on a repository that is there.             *)
EXTENDS TemplateSeed, TemplateAccess, TLC

CONSTANTS a1, a2, b1, b2, s1, o1, o2

VARIABLE topic

(* Content and writers meet only in the start of the portal; each is given *)
(* its contention with the other's held to one start.                      *)
Init ==
  /\ SeedInit /\ AccessInit /\ topic \in {"content", "writers"}
  /\ topic = "content" => admins = {a1} /\ collab = {}
  /\ topic = "writers" => files = Empty

Seeds ==
  /\ SeedNext
  /\ topic = "writers" =>
       edits' = 0 /\ \A r \in Runs \ {b1} : runs'[r].at = "idle"
  /\ UNCHANGED <<accessVars, topic>>
Writers ==
  /\ topic = "writers"
  /\ \/ Requests(repo # "absent")
     \/ Startup /\ \E r \in Boots : runs[r].at \in Over
  /\ UNCHANGED <<seedVars, topic>>

Next == Seeds \/ Writers
Spec == Init /\ [][Next]_<<seedVars, accessVars, topic>>
=============================================================================
