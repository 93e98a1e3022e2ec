----------------------------- MODULE EjectionMC -----------------------------
(***************************************************************************)
(* Instances of Ejection: two vnets of which the first has two VCs.        *)
(***************************************************************************)
EXTENDS Ejection

CONSTANTS a, b, d

TwoVnets == [v \in {a, b, d} |-> IF v = d THEN 1 ELSE 0]
=============================================================================
