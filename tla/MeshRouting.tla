----------------------------- MODULE MeshRouting -----------------------------
(***************************************************************************)
(* Packets in a mesh of routers of the buffered network: RoutingUnit picks *)
(* the output port of a packet when it arrives at a router, OutputUnit the *)
(* VC that it may have at the next one.  XY_ and TURN_MODEL_ are to be     *)
(* free of deadlock by the turns they take, RANDOM_ by an escape VC.       *)
(*                                                                         *)
(* A packet is one flit, and the VC it leaves is free at once; what longer *)
(* packets and the latency of credits change is the subject of FlowControl *)
(* and of the definition of Stuck below.  The VCs of the network           *)
(* interfaces are never short.                                             *)
(***************************************************************************)
EXTENDS Mesh, FiniteSets

CONSTANTS
  Routings,     \* the settings of the network, see Routing
  NumVCs,       \* m_vc_per_vnet
  EVC,          \* the escape VC, if less than NumVCs
  Packets,
  Crowded,      \* TRUE: packets not in Packets may hold any VC
  Traffic       \* the possible [Packets -> [src : Routers, dest : Routers]]

VCs  == 0 .. NumVCs - 1
NoVC == -1

\* The routing algorithm, and whether outportCompute is called with the input
\* VC.  (The code never does that.)
Routing == [algorithm : {"XY_", "TURN_MODEL_", "RANDOM_"}, invc : BOOLEAN]

ASSUME Parameters ==
  /\ Routings \subseteq Routing
  /\ Crowded \in BOOLEAN
  /\ NumVCs \in Nat \ {0}
  /\ EVC \in Nat
  /\ \A t \in Traffic : \A p \in Packets :
       t[p].src \in Routers /\ t[p].dest \in Routers

VARIABLES
  routing,  \* the setting, which does not change
  traffic,  \* where the packets come from and go to
  loc,      \* the input VC that a packet is in
  outport,  \* the direction of its m_output_port
  hops,     \* hops_traversed
  status    \* "source", "network" or "sink"

vars == <<routing, traffic, loc, outport, hops, status>>

-----------------------------------------------------------------------------
(***************************************************************************)
(* RoutingUnit: the sets of directions a packet at router r with           *)
(* destination d may be given.                                             *)
(***************************************************************************)
XDirn(r, d) == IF X(d) >= X(r) THEN "East" ELSE "West"
YDirn(r, d) == IF Y(d) >= Y(r) THEN "North" ELSE "South"

\* Mutant: Y first.
outportComputeXY_yFirst(r, d) ==
  IF Y(r) # Y(d) THEN {YDirn(r, d)} ELSE {XDirn(r, d)}

outportComputeXY(r, d) ==
  IF X(r) # X(d) THEN {XDirn(r, d)} ELSE {YDirn(r, d)}

\* The assertions of outportComputeXY on the input port i.
XYAsserts(r, i, d) ==
  IF X(r) # X(d) THEN i \in {"Local", Opposite[XDirn(r, d)]}
                 ELSE i # YDirn(r, d)

\* Mutant: from the west or the east a packet may turn north.
outportComputeTurnModel_allTurns(r, i, d) ==
  CASE X(r) = X(d) -> {YDirn(r, d)}
    [] X(r) # X(d) /\ Y(r) = Y(d) -> {XDirn(r, d)}
    [] OTHER -> {XDirn(r, d), YDirn(r, d)}

\* Mutant: a packet that comes from the west or the east goes straight on.
outportComputeTurnModel_straight(r, i, d) ==
  CASE i \in {"East", "West"} -> {Opposite[i]}
    [] i \notin {"East", "West"} /\ X(r) = X(d) -> {YDirn(r, d)}
    [] i \notin {"East", "West"} /\ X(r) # X(d) -> {XDirn(r, d)}

\* "Restricting North turn": north is taken first or not at all.
outportComputeTurnModel(r, i, d) ==
  CASE X(r) = X(d) -> {YDirn(r, d)}
    [] X(r) # X(d) /\ Y(r) = Y(d) -> {XDirn(r, d)}
    [] X(r) # X(d) /\ Y(r) # Y(d) ->
         IF i \in {"East", "West"}
           THEN IF YDirn(r, d) = "North" THEN {Opposite[i]}
                ELSE {Opposite[i], "South"}
           ELSE IF YDirn(r, d) = "South" THEN {XDirn(r, d), "South"}
                ELSE {"North"}

outportComputeRandom(r, d) ==
  CASE X(r) = X(d) -> {YDirn(r, d)}
    [] X(r) # X(d) /\ Y(r) = Y(d) -> {XDirn(r, d)}
    [] X(r) # X(d) /\ Y(r) # Y(d) -> {XDirn(r, d), YDirn(r, d)}

\* outportCompute in its two forms: with the input VC a packet in the escape
\* VC is routed XY, without it like any other.  InputUnit::wakeup calls the
\* form without.
outportCompute(g, c, d) ==
  CASE c.router = d -> {"Local"}
    [] c.router # d /\ g.algorithm = "XY_" -> outportComputeXY(c.router, d)
    [] c.router # d /\ g.algorithm = "TURN_MODEL_" ->
         outportComputeTurnModel(c.router, c.dirn, d)
    [] c.router # d /\ g.algorithm = "RANDOM_" ->
         IF g.invc /\ c.vc = EVC THEN outportComputeXY(c.router, d)
         ELSE outportComputeRandom(c.router, d)

\* restricted_turn at a North or South port.
restricted_turn(g, r, o, d) ==
  g.algorithm = "RANDOM_" /\ o \in {"North", "South"} /\ X(r) # X(d)

\* The VCs that has_free_vc and select_free_vc look at.
Scanned(g, r, o, d) ==
  IF restricted_turn(g, r, o, d) THEN {v \in VCs : v < EVC} ELSE VCs

\* The input VCs at the other end of the link in direction o.
Downstream(r, o, V) ==
  {[router |-> Neighbor(r, o), dirn |-> Opposite[o], vc |-> v] : v \in V}

LocalPort(r) == [router |-> r, dirn |-> "Local", vc |-> NoVC]

-----------------------------------------------------------------------------
Init ==
  /\ routing \in Routings
  /\ traffic \in Traffic
  /\ loc = [p \in Packets |-> LocalPort(traffic[p].src)]
  /\ outport = [p \in Packets |-> "Local"]
  /\ hops = [p \in Packets |-> -1]
  /\ status = [p \in Packets |-> "source"]

\* InputUnit::wakeup: the packet is in VC c, counts a hop and gets its output
\* port, for as long as it stays at this router.
Arrive(p, c) ==
  /\ loc' = [loc EXCEPT ![p] = c]
  /\ hops' = [hops EXCEPT ![p] = @ + 1]
  /\ \E o \in outportCompute(routing, c, traffic[p].dest) :
       outport' = [outport EXCEPT ![p] = o]

Inject(p) ==
  /\ status[p] = "source"
  /\ status' = [status EXCEPT ![p] = "network"]
  /\ Arrive(p, loc[p])
  /\ UNCHANGED <<routing, traffic>>

Free(c) == \A p \in Packets : status[p] = "network" => loc[p] # c

\* The free VCs downstream that the packet may have.
FreeVCs(p) ==
  LET r == loc[p].router
  IN {c \in Downstream(r, outport[p],
                       Scanned(routing, r, outport[p], traffic[p].dest)) : Free(c)}

\* SwitchAllocator: the packet takes the first of them, or, when packets that
\* are not modelled may hold those before it, any.
Hop(p) ==
  /\ status[p] = "network" /\ outport[p] # "Local"
  /\ \E c \in FreeVCs(p) :
       /\ Crowded \/ \A e \in FreeVCs(p) : c.vc <= e.vc
       /\ Arrive(p, c)
  /\ UNCHANGED <<routing, traffic, status>>

Eject(p) ==
  /\ status[p] = "network" /\ outport[p] = "Local"
  /\ status' = [status EXCEPT ![p] = "sink"]
  /\ UNCHANGED <<routing, traffic, loc, outport, hops>>

Next == \E p \in Packets : Inject(p) \/ Hop(p) \/ Eject(p)

Spec == Init /\ [][Next]_vars

-----------------------------------------------------------------------------
InNetwork == {p \in Packets : status[p] = "network"}

\* The assertions of outportComputeXY on the input port hold for every packet
\* that is routed XY: all routers before this one have routed it in X first.
XYAssertsHold ==
  \A p \in InNetwork :
    LET d  == traffic[p].dest
        xy == \/ routing.algorithm = "XY_"
              \/ (routing.algorithm = "RANDOM_" /\ routing.invc /\ loc[p].vc = EVC)
    IN xy /\ loc[p].router # d => XYAsserts(loc[p].router, loc[p].dirn, d)

\* Every route is a shortest one, whatever directions were picked at random,
\* and hops_traversed counts it: that is also what makes a flit gold.
RoutesAreMinimal ==
  \A p \in InNetwork :
    /\ hops[p] + Distance(loc[p].router, traffic[p].dest)
         = Distance(traffic[p].src, traffic[p].dest)
    /\ outport[p] # "Local" => HasNeighbor(loc[p].router, outport[p])

\* Packets do not all wait for each other: one of those in the network can
\* leave its VC.
NoDeadlock ==
  InNetwork # {} =>
    \E p \in InNetwork : outport[p] = "Local" \/ FreeVCs(p) # {}

-----------------------------------------------------------------------------
(***************************************************************************)
(* Deadlock with any traffic.  A pair <<c, d>> stands for a packet with    *)
(* destination d in the input VC c.                                        *)
(***************************************************************************)
Moves(g, c, d) ==
  UNION {Downstream(c.router, o, Scanned(g, c.router, o, d)) :
           o \in outportCompute(g, c, d) \ {"Local"}}

\* The pairs packets get to in k hops.
Hops(g, S) == UNION {{<<c, q[2]>> : c \in Moves(g, q[1], q[2])} : q \in S}

ReachIn(g) ==
  LET in[k \in Nat] == IF k = 0 THEN {<<LocalPort(r), d>> : r, d \in Routers}
                       ELSE Hops(g, in[k - 1])
  IN in

Reach(g) == UNION {ReachIn(g)[k] : k \in 1 .. Cols + Rows - 2}

\* With RANDOM_ packets are taken to be of one flit: one that is spread over an
\* escape VC and the next VC can wait for a turn that its first flit has ahead.
LongPackets(g) == g.algorithm # "RANDOM_"

\* What is left of S without the pairs that can move on: a packet waits if for
\* an output port it may have been given, each VC it could take is occupied by
\* a pair of S, or if it is longer than one flit and has taken one, where its
\* first flit is a pair of S.
Waiting(g, S) ==
  LET held == {q[1] : q \in S}
  IN {q \in S : \E o \in outportCompute(g, q[1], q[2]) \ {"Local"} :
        LET next == Downstream(q[1].router, o, Scanned(g, q[1].router, o, q[2]))
        IN \/ next \subseteq held
           \/ LongPackets(g) /\ \E c \in next : <<c, q[2]>> \in S}

\* The largest set of packets that wait only for each other.
Shrink(g) ==
  LET left[k \in Nat] == IF k = 0 THEN Reach(g) ELSE Waiting(g, left[k - 1])
  IN left

Stuck ==
  [g \in Routings |->
     LET last == CHOOSE k \in 0 .. Cardinality(Reach(g)) :
                   Shrink(g)[k] = Shrink(g)[k + 1]
     IN Shrink(g)[last]]

\* No packet ever is in a VC in which it might wait for ever.  RANDOM_ relies
\* on packets in escape VCs being routed XY, and is left out when they are not.
NeverStuck ==
  (routing.algorithm = "RANDOM_" => routing.invc) =>
    \A p \in InNetwork : <<loc[p], traffic[p].dest>> \notin Stuck[routing]
=============================================================================
