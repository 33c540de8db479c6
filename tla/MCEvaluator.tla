---------------------------- MODULE MCEvaluator -----------------------------
(* Instances of Evaluator for TLC: an old and a new version of a package,  *)
(* an advisory about both, of a high severity.                             *)
EXTENDS Evaluator, TLC

CONSTANTS v1, v2, a1, r1, r2, mit, gpl

MCAsks == {{v2}, {v1, v2}}
MCSymmetry == Permutations({r1, r2})
MCPublished == v1 :> 0 @@ v2 :> 0
MCLicense == v1 :> [any |-> TRUE, of |-> {mit, gpl}] @@ v2 :> [any |-> FALSE, of |-> {mit}]
MCAffects == a1 :> {v1, v2}
MCSeverity == a1 :> 3

Strict == [failOpen |-> FALSE, warnUnknown |-> TRUE, blockUnknown |-> FALSE,
           warnAge |-> FALSE, warnCVE |-> FALSE, fetchSeverity |-> TRUE]
MCDefaultPolicy == {Strict}
=============================================================================
