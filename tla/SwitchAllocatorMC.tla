-------------------------- MODULE SwitchAllocatorMC --------------------------
(***************************************************************************)
(* Instances of SwitchAllocator: a router in the middle of a row (links    *)
(* to the West and the East) with two network interfaces, and one with a   *)
(* single interface and a wave schedule.                                   *)
(***************************************************************************)
EXTENDS SwitchAllocator

\* Ports 0 and 1 belong to network interfaces, as in the code, where the
\* external links of a router are made before the internal ones.
RowIn  == 0 .. 3
RowOut == 0 .. 2
RowInDirs == [i \in RowIn |->
                CASE i = 0 -> "Local" [] i = 1 -> "Local"
                  [] i = 2 -> "West"  [] i = 3 -> "East"]
RowOutDirs == [o \in RowOut |->
                CASE o = 0 -> "Local" [] o = 1 -> "West" [] o = 2 -> "East"]
NoWaves    == [o \in RowOut |-> {}]
NoArrivals == [i \in RowIn |-> {}]

\* A row with one network interface and a schedule of three waves: at wave w
\* the links whose table holds (w + 1) % 3 may be used; the upstream routers
\* deliver at ArrivalWaves.
TdmPorts    == 0 .. 2
TdmDirs     == RowOutDirs
TdmWaves    == [o \in TdmPorts |->
                  CASE o = 0 -> {} [] o = 1 -> {0, 1} [] o = 2 -> {1, 2}]
TdmArrivals == [i \in TdmPorts |->
                  CASE i = 0 -> {} [] i = 1 -> {0, 1} [] i = 2 -> {0}]
=============================================================================
