---------------------------- MODULE FlowControlMC ----------------------------
(***************************************************************************)
(* Instances of FlowControl: two or three VCs, two sources, packets of up  *)
(* to three flits through buffers of one or two.                           *)
(***************************************************************************)
EXTENDS FlowControl, TLC

SourceSymmetry == Permutations(Sources)
=============================================================================
