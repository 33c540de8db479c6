---------------------------- MODULE MCRepoAccess ----------------------------
(* Instances of RepoAccess for TLC: an owner who may be in the group, and  *)
(* one or two members.                                                     *)
EXTENDS RepoAccess, TLC

CONSTANTS o, a, b, grp, w1, w2

MCSymmetry == Permutations({w1, w2})
=============================================================================
