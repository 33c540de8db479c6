----------------------------- MODULE MCDelivery -----------------------------
(* From a push to what runs, for TLC: the cache that gives a build its     *)
(* packages, with sizes such that the second or the third file crosses the *)
(* high-water mark, and the pins that deploy what was built, with two sets *)
(* of capabilities and two tunings of the file.  The two meet in a build   *)
(* that neither models, so that each is used while the other rests.        *)
EXTENDS ArtifactCache, PinImage, TLC

CONSTANTS k1, k2, k3, h1, h2, v1, v2, u1, u2, t1, t2

VARIABLE topic

deliveryVars == <<vars, pinVars, topic>>

MCSize == k1 :> 6 @@ k2 :> 6 @@ k3 :> 3

DeliveryInit ==
  /\ Init /\ PinInit /\ topic \in {"packages", "pins"}
  \* the project that rests is one that is being made
  /\ topic = "packages" => workflow

Packages(A) == topic = "packages" /\ A /\ UNCHANGED <<pinVars, topic>>
Pins(A) == topic = "pins" /\ A /\ UNCHANGED <<vars, topic>>
DeliveryNext == Packages(Next) \/ Pins(PinNext)

(* The fairness of the two, each while it is its turn.                     *)
DeliveryFairness ==
  /\ \A h \in Handlers : WF_vars(topic = "packages" /\ Advance(h))
  /\ \A c \in Commits : WF_pinVars(topic = "pins" /\ Pin(c))
  /\ WF_pinVars(topic = "pins" /\ ComposeStep) /\ WF_pinVars(topic = "pins" /\ RollOut)
DeliverySpec == DeliveryInit /\ [][DeliveryNext]_deliveryVars /\ DeliveryFairness

(* Every request of the cache comes to its end, and what was pushed is     *)
(* deployed.                                                               *)
WorkEnds == RequestsEnd /\ EventuallyDeployed
=============================================================================
