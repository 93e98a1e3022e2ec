------------------------- MODULE SeparableAllocatorMC -------------------------
(***************************************************************************)
(* An instance of SeparableAllocator: two input ports and two output       *)
(* ports.  Flow a (packets of two flits) comes by input port 0 and goes    *)
(* out by port 0, where flow c from input port 1 competes with it; flow b  *)
(* shares the input port with a and goes out by port 1.  Packets of c may  *)
(* not take the escape VC.  All are in one vnet, which is ordered.         *)
(***************************************************************************)
EXTENDS SeparableAllocator, TLC

CONSTANTS a1, b1, c2

In   == (a1 :> 0) @@ (b1 :> 0) @@ (c2 :> 1)
Out  == (a1 :> 0) @@ (b1 :> 1) @@ (c2 :> 0)
VNet == [f \in {a1, b1, c2} |-> 0]
Size == (a1 :> 2) @@ (b1 :> 1) @@ (c2 :> 1)
=============================================================================
