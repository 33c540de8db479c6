----------------------------- MODULE MCActivity -----------------------------
(* An instance of Activity for TLC: one resident, a neighbor's project and *)
(* one of the resident's own, two days.                                    *)
EXTENDS Activity, TLC

CONSTANTS n1, q1, q2, i1, i2

MCOwner == q1 :> Stranger @@ q2 :> n1
=============================================================================
