--------------------------- MODULE BufferlessNetMC ---------------------------
(***************************************************************************)
(* Instances of BufferlessNet: a mesh of four columns (for which the code  *)
(* computes m_gold_th) and three rows,                                     *)
(*                                                                         *)
(*    8 9 10 11                                                            *)
(*    4 5 6  7                                                             *)
(*    0 1 2  3                                                             *)
(*                                                                         *)
(* with DEFLECTION_ and with TDM_, whose links are driven in every other   *)
(* cycle.  Three packets meet at the destination of all or on ways that    *)
(* cross.                                                                  *)
(***************************************************************************)
EXTENDS BufferlessNet

Packet(s, d, v, n) == [src |-> s, dest |-> d, vnet |-> v, size |-> n]

SameHome == <<Packet(0, 5, 0, 1), Packet(6, 5, 0, 1), Packet(4, 5, 0, 1)>>
Crossing == <<Packet(2, 9, 0, 2), Packet(4, 0, 0, 1), Packet(1, 11, 0, 1)>>

\* Two packets of different vnets share a Local port.
SamePort == <<Packet(1, 11, 0, 2), Packet(1, 8, 1, 1), Packet(4, 6, 0, 1)>>

Meetings == {SameHome, Crossing, SamePort}

\* For Traffic <- EqualIds, FlitsArrive does not hold: three gold flits with one
\* id deflect each other for ever if the sort puts a different one first every
\* time.
EqualIds == {<<Packet(3, 10, 0, 1), Packet(4, 3, 0, 1), Packet(5, 1, 0, 1)>>}

Always(w) == [r \in Routers |-> [o \in LinkDirns |-> {w}]]

Networks == {[Tdm |-> FALSE, WaveNum |-> 1, WaveTable |-> Always(0)],
             [Tdm |-> TRUE,  WaveNum |-> 2, WaveTable |-> Always(1)]}
=============================================================================
