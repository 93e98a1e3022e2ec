---------------------------- MODULE ReassemblyMC ----------------------------
(***************************************************************************)
(* Instances of Reassembly: two sources with one vnet each, and one source *)
(* with two.                                                               *)
(***************************************************************************)
EXTENDS Reassembly

TwoSources == 0 .. 1
OneSource  == {0}
=============================================================================
