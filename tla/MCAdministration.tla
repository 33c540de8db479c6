-------------------------- MODULE MCAdministration --------------------------
(* Two of the administrators' pages, for TLC: a project that is handed     *)
(* around between two or three people, and the health of two projects.     *)
(* They share nothing, so that each is used while the other rests.         *)
EXTENDS OwnershipTransfer, ProjectHealth, TLC

CONSTANTS a, b, c, h1, h2, q1, q2, m1, m2, g1, g2

VARIABLE topic

MCSymmetry == Permutations({a, b, c}) \cup Permutations({h1, h2})

\* What the health of a project is made of does not interact, so that one lookup of one
\* project turns, lookups fail of that project alone, and one page is the list and the
\* other that project's.
Steady ==
  /\ Things \ {<<q1, m1>>} \subseteq fine /\ q1 \in ready
  /\ run[q2].on /\ run[q2].snap.ready => run[q2].snap.warned = {}
  /\ page[g2].todo \subseteq {q1} /\ ~page[g1].detail

PagesInit ==
  /\ Init /\ HealthInit /\ topic \in {"transfer", "health"}
  \* who has the project that rests does not matter
  /\ topic = "health" => repo = a /\ collab = {}
  /\ Steady /\ q2 \in ready /\ (topic = "transfer" => fine = Things)
PagesNext ==
  \/ topic = "transfer" /\ Next /\ UNCHANGED <<healthVars, topic>>
  \/ topic = "health" /\ HealthNext /\ Steady' /\ UNCHANGED <<vars, topic>>
PagesSpec == PagesInit /\ [][PagesNext]_<<vars, healthVars, topic>>
=============================================================================
