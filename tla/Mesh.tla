-------------------------------- MODULE Mesh --------------------------------
(***************************************************************************)
(* The mesh in which the routers of MeshRouting and BufferlessNet are.     *)
(* Row 0 is the southern one.                                              *)
(***************************************************************************)
EXTENDS Integers

CONSTANTS Cols, Rows  \* getNumCols, getNumRows

ASSUME MeshSize == Cols \in Nat \ {0} /\ Rows \in Nat \ {0}

Routers   == 0 .. Cols * Rows - 1
LinkDirns == {"North", "South", "East", "West"}

X(r) == r % Cols
Y(r) == r \div Cols

Dist(a, b) == IF a < b THEN b - a ELSE a - b

Distance(r, d) == Dist(X(r), X(d)) + Dist(Y(r), Y(d))

HasNeighbor(r, o) ==
  CASE o = "East"  -> X(r) < Cols - 1
    [] o = "West"  -> X(r) > 0
    [] o = "North" -> Y(r) < Rows - 1
    [] o = "South" -> Y(r) > 0

Neighbor(r, o) ==
  CASE o = "East"  -> r + 1
    [] o = "West"  -> r - 1
    [] o = "North" -> r + Cols
    [] o = "South" -> r - Cols

Opposite == [North |-> "South", South |-> "North",
             East |-> "West", West |-> "East"]
=============================================================================
