---------------------------- MODULE MeshRoutingMC ----------------------------
(***************************************************************************)
(* Instances of MeshRouting: one packet between any two routers, and six   *)
(* packets in a mesh of four columns and two rows, numbered                *)
(*                                                                         *)
(*    4 5 6 7                                                              *)
(*    0 1 2 3                                                              *)
(*                                                                         *)
(* that go round the square of routers 1, 5, 6 and 2: n and s by the only  *)
(* VC for packets with a turn ahead, the others by two VCs each.           *)
(***************************************************************************)
EXTENDS MeshRouting, TLC

CONSTANTS p, n, e1, e2, s, w1, w2

OnePacket == [{p} -> {t \in [src : Routers, dest : Routers] : t.src # t.dest}]

Square ==
  {[q \in {n, e1, e2, s, w1, w2} |->
      CASE q = n          -> [src |-> 1, dest |-> 6]
        [] q \in {e1, e2} -> [src |-> 5, dest |-> 3]
        [] q = s          -> [src |-> 6, dest |-> 1]
        [] q \in {w1, w2} -> [src |-> 2, dest |-> 4]]}

\* XY_, TURN_MODEL_, RANDOM_ as it is called and RANDOM_ with the input VC.
XY       == [algorithm |-> "XY_", invc |-> FALSE]
Turn     == [algorithm |-> "TURN_MODEL_", invc |-> FALSE]
Random   == [algorithm |-> "RANDOM_", invc |-> FALSE]
Escaping == [algorithm |-> "RANDOM_", invc |-> TRUE]

All      == {XY, Turn, Random, Escaping}
AsCalled == {Random}

\* Packets with the same way may be exchanged.
SameWay == Permutations({e1, e2}) \cup Permutations({w1, w2})
=============================================================================
