-------------------------- MODULE MCCapabilities ----------------------------
(* Instances of Capabilities for TLC: one project whose capabilities two   *)
(* requests may be changing at once.                                       *)
EXTENDS Capabilities, TLC

CONSTANTS h1, h2, k1, k2, s1, s2

\* The database with /mcp on, database and storage off, storage on with /mcp off.
MCAsks == {<<{"database", "mcp"}, {}>>, <<{}, {"database", "storage"}>>, <<{"storage"}, {"mcp"}>>}

MCSymmetry == Permutations({h1, h2}) \cup Permutations({k1, k2}) \cup Permutations({s1, s2})
=============================================================================
