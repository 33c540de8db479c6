------------------------- MODULE MCProjectLifecycle -------------------------
(* Instances of ProjectLifecycle for TLC: two people who take the slug one *)
(* after the other, one of them without a username.                        *)
EXTENDS ProjectLifecycle, TLC

CONSTANTS a, b, h1, h2

MCSymmetry == Permutations({h1, h2})
=============================================================================
