----------------------------- MODULE MCAccounts -----------------------------
(* Two members whose emails have the same local part, and two logins.      *)
EXTENDS Accounts, TLC

CONSTANTS u, w, bob, bob1, k1, p1, p2

MCLocal == [i \in Ids |-> bob]
MCSuffixed == (bob :> <<bob, bob1>>) @@ (bob1 :> <<bob1>>)
MCSymmetry == Permutations(Ids) \cup Permutations(Workers)
=============================================================================
