-------------------------- MODULE MeshRoutingProofs --------------------------
(***************************************************************************)
(* Theorems about MeshRouting, for meshes of any size, any number of VCs   *)
(* and any traffic: the assertions of XY routing, shortest routes, and     *)
(* that packets never wait for each other in a ring.                       *)
(*                                                                         *)
(* All rest on one description of where a packet may be (Legal): it has    *)
(* only come nearer to its destination, and the turns that XY_ and         *)
(* TURN_MODEL_ do not have are not behind it.                              *)
(***************************************************************************)
EXTENDS MeshRouting, FiniteSetTheorems, TLAPS

InVC == [router : Routers, dirn : LinkDirns \cup {"Local"}, vc : VCs \cup {NoVC}]

\* The packets that outportCompute routes XY.
RoutedXY(g, c) ==
  g.algorithm = "XY_" \/ (g.algorithm = "RANDOM_" /\ g.invc /\ c.vc = EVC)

\* A packet that came by direction i has not gone past its destination.
Nearer(i, r, d) ==
  /\ i = "East"  => X(d) <= X(r)
  /\ i = "West"  => X(d) >= X(r)
  /\ i = "North" => Y(d) <= Y(r)
  /\ i = "South" => Y(d) >= Y(r)

\* Input VCs in which a packet for d may be.
Legal(g, c, d) ==
  /\ c \in InVC /\ d \in Routers
  /\ Nearer(c.dirn, c.router, d)
  /\ RoutedXY(g, c) /\ c.dirn \in {"North", "South"} => X(d) = X(c.router)
  /\ g.algorithm = "TURN_MODEL_" /\ c.dirn \in {"East", "West", "North"}
       => Y(d) <= Y(c.router)

\* Direction o brings a packet nearer.
Ahead(o, r, d) ==
  /\ o \in LinkDirns
  /\ o = "East"  => X(d) > X(r)
  /\ o = "West"  => X(d) < X(r)
  /\ o = "North" => Y(d) > Y(r)
  /\ o = "South" => Y(d) < Y(r)

\* Router n is next to router r in direction o.
Moved(o, r, n) ==
  /\ o = "East"  => X(n) = X(r) + 1 /\ Y(n) = Y(r)
  /\ o = "West"  => X(n) = X(r) - 1 /\ Y(n) = Y(r)
  /\ o = "North" => X(n) = X(r) /\ Y(n) = Y(r) + 1
  /\ o = "South" => X(n) = X(r) /\ Y(n) = Y(r) - 1

\* The inductive invariant.
PacketOK(p) ==
  /\ status[p] = "source" => loc[p] = LocalPort(traffic[p].src) /\ hops[p] = -1
  /\ status[p] = "network" =>
       /\ Legal(routing, loc[p], traffic[p].dest)
       /\ outport[p] \in outportCompute(routing, loc[p], traffic[p].dest)
       /\ hops[p] + Distance(loc[p].router, traffic[p].dest)
            = Distance(traffic[p].src, traffic[p].dest)

IInv ==
  /\ routing \in Routings /\ traffic \in Traffic
  /\ loc = [p \in Packets |-> loc[p]] /\ outport = [p \in Packets |-> outport[p]]
  /\ hops \in [Packets -> Int] /\ status = [p \in Packets |-> status[p]]
  /\ \A p \in Packets : PacketOK(p)

-----------------------------------------------------------------------------
LEMMA Monotone ==
  ASSUME NEW a \in Nat, NEW b \in Nat, NEW c \in Nat, a >= b
  PROVE  a * c >= b * c
  BY SMTT(30)

\* The place of a router in the mesh.
LEMMA Coordinates ==
  ASSUME NEW r \in Routers
  PROVE  /\ X(r) \in 0 .. Cols - 1 /\ Y(r) \in 0 .. Rows - 1
         /\ r = Y(r) * Cols + X(r)
<1>1. Cols \in Nat \ {0} /\ Rows \in Nat \ {0} /\ Cols * Rows \in Nat
  BY MeshSize, SMTT(30)
<1>2. r \in Nat /\ r < Cols * Rows
  BY <1>1 DEF Routers
<1>3. r % Cols \in 0 .. Cols - 1 /\ r \div Cols \in Nat
      /\ r = (r \div Cols) * Cols + (r % Cols)
  BY <1>1, <1>2, SMTT(30)
<1>4. r \div Cols < Rows
  <2> SUFFICES ASSUME r \div Cols >= Rows PROVE FALSE
    BY <1>1, <1>3
  <2> DEFINE q == r \div Cols
             m == r % Cols
  <2>1. q \in Nat /\ m \in Nat /\ r = q * Cols + m /\ q >= Rows
    BY <1>1, <1>3
  <2> HIDE DEF q, m
  <2>2. q * Cols >= Rows * Cols
    BY <1>1, <2>1, Monotone
  <2>3. Rows * Cols = Cols * Rows /\ q * Cols \in Nat
    BY <1>1, <2>1, SMTT(30)
  <2> QED
    BY <1>1, <1>2, <2>1, <2>2, <2>3
<1> QED
  BY <1>1, <1>3, <1>4 DEF X, Y

\* The router at a place.
LEMMA RouterAt ==
  ASSUME NEW x \in 0 .. Cols - 1, NEW y \in 0 .. Rows - 1, NEW r \in Int,
         r = y * Cols + x
  PROVE  r \in Routers /\ X(r) = x /\ Y(r) = y
<1>1. Cols \in Nat \ {0} /\ Rows \in Nat \ {0} /\ Cols * Rows \in Nat
      /\ y * Cols \in Nat
  BY MeshSize, SMTT(30)
<1>2. r \in Nat
  BY <1>1
<1>3. r < Cols * Rows
  <2>1. y * Cols <= (Rows - 1) * Cols
    BY <1>1, SMTT(30)
  <2>2. (Rows - 1) * Cols = Cols * Rows - Cols
    BY <1>1, SMTT(30)
  <2> QED
    BY <1>1, <2>1, <2>2
<1>4. r \div Cols = y /\ r % Cols = x
  BY <1>1, <1>2, SMTT(30)
<1> QED
  BY <1>1, <1>2, <1>3, <1>4 DEF Routers, X, Y

\* Two routers at one place are one.
LEMMA SamePlace ==
  ASSUME NEW r \in Routers, NEW d \in Routers, X(r) = X(d), Y(r) = Y(d)
  PROVE  r = d
  BY Coordinates

\* The neighbour in a direction, which exists if the way leads there.
LEMMA Neighbors ==
  ASSUME NEW r \in Routers, NEW d \in Routers, NEW o, Ahead(o, r, d)
  PROVE  /\ HasNeighbor(r, o) /\ Neighbor(r, o) \in Routers
         /\ Moved(o, r, Neighbor(r, o))
<1>1. /\ X(r) \in 0 .. Cols - 1 /\ Y(r) \in 0 .. Rows - 1
      /\ X(d) \in 0 .. Cols - 1 /\ Y(d) \in 0 .. Rows - 1
      /\ r = Y(r) * Cols + X(r)
      /\ Cols \in Nat \ {0} /\ Rows \in Nat \ {0}
  BY Coordinates, MeshSize
<1>2. Y(r) * Cols \in Int
  BY <1>1
<1>3. (Y(r) + 1) * Cols = Y(r) * Cols + Cols /\ (Y(r) - 1) * Cols = Y(r) * Cols - Cols
  BY <1>1, SMTT(30)
<1>4. CASE o = "East"
  <2>1. X(r) + 1 \in 0 .. Cols - 1 /\ r + 1 = Y(r) * Cols + (X(r) + 1) /\ r + 1 \in Int
    BY <1>1, <1>2, <1>4 DEF Ahead
  <2>2. r + 1 \in Routers /\ X(r + 1) = X(r) + 1 /\ Y(r + 1) = Y(r)
    BY <1>1, <2>1, RouterAt
  <2> QED
    BY <1>1, <1>4, <2>1, <2>2 DEF HasNeighbor, Neighbor, Moved
<1>5. CASE o = "West"
  <2>1. X(r) - 1 \in 0 .. Cols - 1 /\ r - 1 = Y(r) * Cols + (X(r) - 1) /\ r - 1 \in Int
    BY <1>1, <1>2, <1>5 DEF Ahead
  <2>2. r - 1 \in Routers /\ X(r - 1) = X(r) - 1 /\ Y(r - 1) = Y(r)
    BY <1>1, <2>1, RouterAt
  <2> QED
    BY <1>1, <1>5, <2>1, <2>2 DEF HasNeighbor, Neighbor, Moved
<1>6. CASE o = "North"
  <2>1. Y(r) + 1 \in 0 .. Rows - 1 /\ r + Cols = (Y(r) + 1) * Cols + X(r)
        /\ r + Cols \in Int
    BY <1>1, <1>2, <1>3, <1>6 DEF Ahead
  <2>2. r + Cols \in Routers /\ X(r + Cols) = X(r) /\ Y(r + Cols) = Y(r) + 1
    BY <1>1, <2>1, RouterAt
  <2> QED
    BY <1>1, <1>6, <2>1, <2>2 DEF HasNeighbor, Neighbor, Moved
<1>7. CASE o = "South"
  <2>1. Y(r) - 1 \in 0 .. Rows - 1 /\ r - Cols = (Y(r) - 1) * Cols + X(r)
        /\ r - Cols \in Int
    BY <1>1, <1>2, <1>3, <1>7 DEF Ahead
  <2>2. r - Cols \in Routers /\ X(r - Cols) = X(r) /\ Y(r - Cols) = Y(r) - 1
    BY <1>1, <2>1, RouterAt
  <2> QED
    BY <1>1, <1>7, <2>1, <2>2 DEF HasNeighbor, Neighbor, Moved
<1> QED
  BY <1>4, <1>5, <1>6, <1>7 DEF Ahead, LinkDirns

-----------------------------------------------------------------------------
\* Every output port but the Local one brings the packet nearer.
LEMMA RoutesAhead ==
  ASSUME NEW g \in Routing, NEW c, NEW d, Legal(g, c, d),
         NEW o \in outportCompute(g, c, d), o # "Local"
  PROVE  Ahead(o, c.router, d)
<1> DEFINE r == c.router
<1>1. /\ r \in Routers /\ d \in Routers /\ c.dirn \in LinkDirns \cup {"Local"}
      /\ Nearer(c.dirn, r, d)
  BY DEF Legal, InVC
<1>2. X(r) \in Int /\ Y(r) \in Int /\ X(d) \in Int /\ Y(d) \in Int
  BY <1>1, Coordinates
<1>3. r # d
  BY DEF outportCompute
<1>4. X(r) # X(d) \/ Y(r) # Y(d)
  BY <1>1, <1>3, SamePlace
<1>5. X(r) # X(d) => Ahead(XDirn(r, d), r, d)
  BY <1>2 DEF Ahead, XDirn, LinkDirns
<1>6. Y(r) # Y(d) => Ahead(YDirn(r, d), r, d)
  BY <1>2 DEF Ahead, YDirn, LinkDirns
<1>7. X(r) # X(d) /\ c.dirn \in {"East", "West"} => Opposite[c.dirn] = XDirn(r, d)
  BY <1>1, <1>2 DEF Nearer, XDirn, Opposite
<1>8. CASE o \in outportComputeXY(r, d)
  BY <1>4, <1>5, <1>6, <1>8 DEF outportComputeXY
<1>9. CASE o \in outportComputeRandom(r, d)
  BY <1>4, <1>5, <1>6, <1>9 DEF outportComputeRandom
<1>10. CASE o \in outportComputeTurnModel(r, c.dirn, d)
  <2>1. o \in {XDirn(r, d), YDirn(r, d)}
        /\ (o = XDirn(r, d) => X(r) # X(d)) /\ (o = YDirn(r, d) => Y(r) # Y(d))
    BY <1>1, <1>2, <1>4, <1>7, <1>10 DEF outportComputeTurnModel, XDirn, YDirn
  <2> QED
    BY <1>5, <1>6, <2>1
<1> QED
  BY <1>3, <1>8, <1>9, <1>10 DEF outportCompute, Routing

\* The place the packet gets to is legal again, and one step nearer.
LEMMA NextIsLegal ==
  ASSUME NEW g \in Routing, NEW c, NEW d, Legal(g, c, d),
         NEW o \in outportCompute(g, c, d), o # "Local",
         NEW e \in Downstream(c.router, o, Scanned(g, c.router, o, d))
  PROVE  /\ Legal(g, e, d) /\ HasNeighbor(c.router, o)
         /\ e.router = Neighbor(c.router, o) /\ e.dirn = Opposite[o]
         /\ Distance(e.router, d) = Distance(c.router, d) - 1
<1> DEFINE r == c.router
           n == Neighbor(r, o)
<1>1. /\ r \in Routers /\ d \in Routers /\ c.dirn \in LinkDirns \cup {"Local"}
      /\ Ahead(o, r, d) /\ o \in LinkDirns
  BY RoutesAhead DEF Legal, InVC, Ahead
<1>2. /\ HasNeighbor(r, o) /\ n \in Routers
      /\ Moved(o, r, n)
  BY <1>1, Neighbors
<1>3. /\ X(r) \in Int /\ Y(r) \in Int /\ X(d) \in Int /\ Y(d) \in Int
  BY <1>1, Coordinates
<1>4. PICK v \in Scanned(g, r, o, d) :
        e = [router |-> n, dirn |-> Opposite[o], vc |-> v]
  BY DEF Downstream
<1>5. /\ v \in VCs
      /\ restricted_turn(g, r, o, d) => v < EVC
  BY <1>4 DEF Scanned
<1>6. e.router = n /\ e.dirn = Opposite[o] /\ e.vc = v
  BY <1>4
<1>7. e \in InVC
  BY <1>1, <1>2, <1>4, <1>5 DEF InVC, Opposite, LinkDirns
<1> HIDE DEF n
<1>8. Nearer(e.dirn, n, d)
  BY <1>1, <1>2, <1>3, <1>6 DEF Nearer, Ahead, Moved, Opposite, LinkDirns
<1>9. RoutedXY(g, e) /\ e.dirn \in {"North", "South"} => X(d) = X(n)
  <2> SUFFICES ASSUME RoutedXY(g, e), o \in {"North", "South"} PROVE X(d) = X(r)
    BY <1>1, <1>2, <1>6 DEF Opposite, LinkDirns, Moved
  <2>1. CASE g.algorithm = "XY_"
    <3>1. o \in outportComputeXY(r, d)
      BY <2>1 DEF outportCompute
    <3> QED
      BY <3>1 DEF outportComputeXY, XDirn
  <2>2. CASE g.algorithm = "RANDOM_" /\ v = EVC
    <3>1. ~ restricted_turn(g, r, o, d)
      BY <1>5, <2>2, Parameters
    <3> QED
      BY <2>2, <3>1 DEF restricted_turn
  <2> QED
    BY <1>6, <2>1, <2>2 DEF RoutedXY
<1>10. g.algorithm = "TURN_MODEL_" /\ e.dirn \in {"East", "West", "North"}
         => Y(d) <= Y(n)
  <2> SUFFICES ASSUME g.algorithm = "TURN_MODEL_", o \in {"East", "West", "South"}
               PROVE  Y(d) <= Y(n)
    BY <1>1, <1>6 DEF Opposite, LinkDirns
  <2>1. CASE o = "South"
    BY <1>2, <1>3, <1>1, <2>1 DEF Ahead, Moved
  <2>2. CASE o \in {"East", "West"}
    <3>1. o \in outportComputeTurnModel(r, c.dirn, d)
      BY DEF outportCompute
    <3>2. Y(d) <= Y(r)
      <4>1. CASE c.dirn \in {"East", "West"}
        BY <4>1 DEF Legal
      <4>2. CASE c.dirn \notin {"East", "West"}
        BY <1>3, <2>2, <3>1, <4>2 DEF outportComputeTurnModel, YDirn
      <4> QED
        BY <4>1, <4>2
    <3> QED
      BY <1>2, <2>2, <3>2 DEF Moved
  <2> QED
    BY <2>1, <2>2
<1>11. Distance(n, d) = Distance(r, d) - 1
  BY <1>1, <1>2, <1>3 DEF Distance, Dist, Ahead, Moved, LinkDirns
<1> QED
  <2>1. Legal(g, e, d)
    BY <1>1, <1>6, <1>7, <1>8, <1>9, <1>10 DEF Legal
  <2> QED
    BY <1>2, <1>6, <1>11, <2>1 DEF n

-----------------------------------------------------------------------------
LEMMA InitIInv == Init => IInv
<1> SUFFICES ASSUME Init PROVE IInv
  OBVIOUS
<1>1. \A p \in Packets : PacketOK(p)
  BY DEF Init, PacketOK
<1> QED
  BY <1>1 DEF Init, IInv

\* The settings and the packets are well formed.
LEMMA Settled ==
  ASSUME IInv
  PROVE  /\ routing \in Routing
         /\ \A p \in Packets : traffic[p].src \in Routers /\ traffic[p].dest \in Routers
  BY Parameters DEF IInv

\* What a packet does is of no concern to another.
LEMMA OthersOK ==
  ASSUME IInv, NEW p \in Packets, UNCHANGED <<routing, traffic>>,
         \A q \in Packets \ {p} :
           UNCHANGED <<loc[q], outport[q], hops[q], status[q]>>
  PROVE  \A q \in Packets \ {p} : PacketOK(q)'
  BY DEF IInv, PacketOK

LEMMA InjectIInv ==
  ASSUME IInv, NEW p \in Packets, Inject(p)
  PROVE  IInv'
<1> DEFINE s == traffic[p].src
           d == traffic[p].dest
<1>1. /\ status[p] = "source" /\ loc[p] = LocalPort(s) /\ hops[p] = -1
      /\ status' = [status EXCEPT ![p] = "network"]
      /\ loc' = [loc EXCEPT ![p] = loc[p]] /\ hops' = [hops EXCEPT ![p] = @ + 1]
      /\ UNCHANGED <<routing, traffic>>
  BY DEF Inject, Arrive, IInv, PacketOK
<1>2. PICK o \in outportCompute(routing, loc[p], d) : outport' = [outport EXCEPT ![p] = o]
  BY DEF Inject, Arrive
<1>3. routing \in Routing /\ s \in Routers /\ d \in Routers
  BY Settled
<1>4. Legal(routing, LocalPort(s), d)
  BY <1>3 DEF Legal, LocalPort, InVC, Nearer
<1>5. /\ loc'[p] = LocalPort(s) /\ hops'[p] = 0 /\ outport'[p] = o
      /\ status'[p] = "network"
  BY <1>1, <1>2 DEF IInv
<1>6. Distance(s, d) \in Int
  BY <1>3, Coordinates DEF Distance, Dist
<1>7. PacketOK(p)'
  <2>1. 0 + Distance(LocalPort(s).router, d) = Distance(s, d)
    BY <1>6 DEF LocalPort
  <2> QED
    BY <1>1, <1>2, <1>4, <1>5, <2>1 DEF PacketOK
<1>8. \A q \in Packets \ {p} : PacketOK(q)'
  BY <1>1, <1>2, OthersOK DEF IInv
<1>9. /\ loc' = [q \in Packets |-> loc'[q]] /\ outport' = [q \in Packets |-> outport'[q]]
      /\ status' = [q \in Packets |-> status'[q]]
  BY <1>1, <1>2 DEF IInv
<1>10. hops' \in [Packets -> Int]
  BY <1>1 DEF IInv
<1>11. \A q \in Packets : PacketOK(q)'
  BY <1>7, <1>8
<1> QED
  BY <1>1, <1>9, <1>10, <1>11 DEF IInv

LEMMA HopIInv ==
  ASSUME IInv, NEW p \in Packets, Hop(p)
  PROVE  IInv'
<1> DEFINE s == traffic[p].src
           d == traffic[p].dest
           r == loc[p].router
<1>1. PICK e \in FreeVCs(p) : Arrive(p, e)
  BY DEF Hop
<1>2. /\ status[p] = "network" /\ outport[p] # "Local"
      /\ UNCHANGED <<routing, traffic, status>>
  BY DEF Hop
<1>3. /\ loc' = [loc EXCEPT ![p] = e] /\ hops' = [hops EXCEPT ![p] = @ + 1]
  BY <1>1 DEF Arrive
<1>4. PICK o \in outportCompute(routing, e, d) : outport' = [outport EXCEPT ![p] = o]
  BY <1>1 DEF Arrive
<1>5. /\ Legal(routing, loc[p], d) /\ outport[p] \in outportCompute(routing, loc[p], d)
      /\ hops[p] + Distance(r, d) = Distance(s, d)
  BY <1>2 DEF IInv, PacketOK
<1>6. e \in Downstream(r, outport[p], Scanned(routing, r, outport[p], d))
  BY DEF FreeVCs
<1>7. Legal(routing, e, d) /\ Distance(e.router, d) = Distance(r, d) - 1
  BY <1>2, <1>5, <1>6, NextIsLegal, Settled
<1>8. Distance(r, d) \in Int /\ hops[p] \in Int
  BY <1>5, Coordinates DEF Distance, Dist, Legal, InVC, IInv
<1>9. loc'[p] = e /\ hops'[p] = hops[p] + 1 /\ outport'[p] = o /\ status'[p] = "network"
  BY <1>2, <1>3, <1>4 DEF IInv
<1>10. PacketOK(p)'
  <2>1. (hops[p] + 1) + Distance(e.router, d) = Distance(s, d)
    BY <1>5, <1>7, <1>8
  <2> QED
    BY <1>2, <1>4, <1>7, <1>9, <2>1 DEF PacketOK
<1>11. \A q \in Packets \ {p} : PacketOK(q)'
  BY <1>2, <1>3, <1>4, OthersOK DEF IInv
<1>12. /\ loc' = [q \in Packets |-> loc'[q]] /\ outport' = [q \in Packets |-> outport'[q]]
       /\ status' = [q \in Packets |-> status'[q]]
  BY <1>2, <1>3, <1>4 DEF IInv
<1>13. hops' \in [Packets -> Int]
  BY <1>3 DEF IInv
<1>14. \A q \in Packets : PacketOK(q)'
  BY <1>10, <1>11
<1> QED
  BY <1>2, <1>12, <1>13, <1>14 DEF IInv

LEMMA EjectIInv ==
  ASSUME IInv, NEW p \in Packets, Eject(p)
  PROVE  IInv'
<1>1. /\ status' = [status EXCEPT ![p] = "sink"]
      /\ UNCHANGED <<routing, traffic, loc, outport, hops>>
  BY DEF Eject
<1>2. status'[p] = "sink"
  BY <1>1 DEF IInv
<1>3. \A q \in Packets \ {p} : PacketOK(q)'
  BY <1>1, OthersOK DEF IInv
<1> QED
  BY <1>1, <1>2, <1>3 DEF IInv, PacketOK

LEMMA Invariance == Spec => []IInv
<1>1. IInv /\ [Next]_vars => IInv'
  <2>1. CASE UNCHANGED vars
    BY <2>1 DEF IInv, PacketOK, vars
  <2>2. ASSUME IInv, Next PROVE IInv'
    BY <2>2, InjectIInv, HopIInv, EjectIInv DEF Next
  <2> QED
    BY <2>1, <2>2
<1> QED
  BY InitIInv, <1>1, PTL DEF Spec

\* The assertions of outportComputeXY on the input port hold in every mesh: a
\* packet comes by a link in Y only when it is in its column, and by no link
\* from ahead.
THEOREM NoXYAssertionFails == Spec => []XYAssertsHold
<1>1. IInv => XYAssertsHold
  <2> SUFFICES ASSUME IInv, NEW p \in InNetwork,
                      RoutedXY(routing, loc[p]), loc[p].router # traffic[p].dest
               PROVE  XYAsserts(loc[p].router, loc[p].dirn, traffic[p].dest)
    BY DEF XYAssertsHold, RoutedXY
  <2> DEFINE r == loc[p].router
             d == traffic[p].dest
  <2>1. Legal(routing, loc[p], d)
    BY DEF IInv, PacketOK, InNetwork
  <2>2. /\ r \in Routers /\ d \in Routers /\ loc[p].dirn \in LinkDirns \cup {"Local"}
        /\ Nearer(loc[p].dirn, r, d)
        /\ loc[p].dirn \in {"North", "South"} => X(d) = X(r)
    BY <2>1 DEF Legal, InVC
  <2>3. /\ X(r) \in Int /\ Y(r) \in Int /\ X(d) \in Int /\ Y(d) \in Int
        /\ X(r) # X(d) \/ Y(r) # Y(d)
    BY <2>2, Coordinates, SamePlace
  <2> HIDE DEF r, d
  <2>4. XYAsserts(r, loc[p].dirn, d)
    BY <2>2, <2>3 DEF XYAsserts, Nearer, XDirn, YDirn, Opposite, LinkDirns
  <2> QED
    BY <2>4 DEF r, d
<1> QED
  BY <1>1, Invariance, PTL

\* Each of the algorithms takes a shortest way through every mesh, to ports
\* that are there, and hops_traversed is the number of hops.
THEOREM ShortestRoutes == Spec => []RoutesAreMinimal
<1>1. IInv => RoutesAreMinimal
  <2> SUFFICES ASSUME IInv, NEW p \in InNetwork
               PROVE  /\ hops[p] + Distance(loc[p].router, traffic[p].dest)
                           = Distance(traffic[p].src, traffic[p].dest)
                      /\ outport[p] # "Local" => HasNeighbor(loc[p].router, outport[p])
    BY DEF RoutesAreMinimal
  <2>1. PacketOK(p) /\ status[p] = "network"
    BY DEF IInv, InNetwork
  <2>2. outport[p] # "Local" => Ahead(outport[p], loc[p].router, traffic[p].dest)
    BY <2>1, RoutesAhead, Settled DEF PacketOK
  <2>3. loc[p].router \in Routers /\ traffic[p].dest \in Routers
    BY <2>1 DEF PacketOK, Legal, InVC
  <2> QED
    BY <2>1, <2>2, <2>3, Neighbors DEF PacketOK
<1> QED
  BY <1>1, Invariance, PTL

-----------------------------------------------------------------------------
(***************************************************************************)
(* No ring of waiting packets.  The input VCs are numbered such that a     *)
(* packet always waits for a VC with a lower number than its own: for XY_  *)
(* first those of the rows, then those of the columns; for TURN_MODEL_     *)
(* first those towards north, then row after row from north to south.      *)
(* RANDOM_ has such a numbering for the escape VCs and for the columns.    *)
(***************************************************************************)
\* With RANDOM_ the escape VC has to be there, has to be used (which it is not,
\* as the code calls outportCompute), and cannot be the only VC.
HasEscape(g) == g.algorithm = "RANDOM_" => g.invc /\ EVC \in 1 .. NumVCs - 1

RankXY(c) ==
  CASE c.dirn = "Local" -> Rows + Cols
    [] c.dirn = "West"  -> Rows + (Cols - 1 - X(c.router))
    [] c.dirn = "East"  -> Rows + X(c.router)
    [] c.dirn = "South" -> Rows - 1 - Y(c.router)
    [] c.dirn = "North" -> Y(c.router)

RankTurn(c) ==
  LET row == Y(c.router) * (Cols + 1)
      top == Rows * (Cols + 1)
  IN CASE c.dirn = "Local" -> top + Rows
       [] c.dirn = "South" -> top + (Rows - 1 - Y(c.router))
       [] c.dirn = "North" -> row + Cols
       [] c.dirn = "West"  -> row + (Cols - 1 - X(c.router))
       [] c.dirn = "East"  -> row + X(c.router)

LEMMA RanksAreNumbers ==
  ASSUME NEW c \in InVC
  PROVE  RankXY(c) \in Nat /\ RankTurn(c) \in Nat
<1>1. /\ X(c.router) \in 0 .. Cols - 1 /\ Y(c.router) \in 0 .. Rows - 1
      /\ Cols \in Nat \ {0} /\ Rows \in Nat \ {0}
      /\ c.dirn \in LinkDirns \cup {"Local"}
  BY Coordinates, MeshSize DEF InVC
<1>2. Y(c.router) * (Cols + 1) \in Nat /\ Rows * (Cols + 1) \in Nat
  BY <1>1, SMTT(30)
<1> QED
  BY <1>1, <1>2 DEF RankXY, RankTurn, LinkDirns

\* Where a packet is, and where it goes next.
LEMMA Step ==
  ASSUME NEW g \in Routing, NEW c, NEW d, Legal(g, c, d),
         NEW o \in outportCompute(g, c, d), o # "Local",
         NEW e \in Downstream(c.router, o, Scanned(g, c.router, o, d))
  PROVE  /\ Ahead(o, c.router, d) /\ Nearer(c.dirn, c.router, d)
         /\ c \in InVC /\ e \in InVC /\ d \in Routers /\ e.dirn = Opposite[o]
         /\ Moved(o, c.router, e.router)
<1>1. Ahead(o, c.router, d)
  BY RoutesAhead
<1>2. Legal(g, e, d) /\ e.router = Neighbor(c.router, o) /\ e.dirn = Opposite[o]
  BY NextIsLegal
<1>3. c \in InVC /\ e \in InVC /\ d \in Routers /\ c.router \in Routers
      /\ Nearer(c.dirn, c.router, d)
  BY <1>2 DEF Legal, InVC
<1> QED
  BY <1>1, <1>2, <1>3, Neighbors

LEMMA DescendsXY ==
  ASSUME NEW g \in Routing, NEW c, NEW d, Legal(g, c, d),
         NEW o \in outportCompute(g, c, d), o # "Local",
         NEW e \in Downstream(c.router, o, Scanned(g, c.router, o, d)),
         c.dirn \in {"North", "South"} => o \in {"North", "South"}
  PROVE  RankXY(e) < RankXY(c)
<1> DEFINE r == c.router
           n == e.router
<1>1. /\ Ahead(o, r, d) /\ Nearer(c.dirn, r, d) /\ e.dirn = Opposite[o]
      /\ Moved(o, r, n)
  BY Step
<1>2. r \in Routers /\ n \in Routers /\ d \in Routers /\ c.dirn \in LinkDirns \cup {"Local"}
  BY Step DEF InVC
<1>3. /\ X(r) \in 0 .. Cols - 1 /\ Y(r) \in 0 .. Rows - 1
      /\ X(n) \in 0 .. Cols - 1 /\ Y(n) \in 0 .. Rows - 1
      /\ X(d) \in Int /\ Y(d) \in Int /\ Cols \in Nat /\ Rows \in Nat
  BY <1>2, Coordinates, MeshSize
<1> HIDE DEF r, n
<1>4. RankXY(c) = CASE c.dirn = "Local" -> Rows + Cols
                    [] c.dirn = "West"  -> Rows + (Cols - 1 - X(r))
                    [] c.dirn = "East"  -> Rows + X(r)
                    [] c.dirn = "South" -> Rows - 1 - Y(r)
                    [] c.dirn = "North" -> Y(r)
  BY DEF RankXY, r
<1>5. RankXY(e) = CASE o = "East"  -> Rows + (Cols - 1 - X(n))
                    [] o = "West"  -> Rows + X(n)
                    [] o = "North" -> Rows - 1 - Y(n)
                    [] o = "South" -> Y(n)
  BY <1>1 DEF RankXY, n, Ahead, Opposite, LinkDirns
<1>6. CASE o = "East"
  BY <1>1, <1>2, <1>3, <1>4, <1>5, <1>6 DEF Ahead, Nearer, Moved, LinkDirns
<1>7. CASE o = "West"
  BY <1>1, <1>2, <1>3, <1>4, <1>5, <1>7 DEF Ahead, Nearer, Moved, LinkDirns
<1>8. CASE o = "North"
  BY <1>1, <1>2, <1>3, <1>4, <1>5, <1>8 DEF Ahead, Nearer, Moved, LinkDirns
<1>9. CASE o = "South"
  BY <1>1, <1>2, <1>3, <1>4, <1>5, <1>9 DEF Ahead, Nearer, Moved, LinkDirns
<1> QED
  BY <1>1, <1>6, <1>7, <1>8, <1>9 DEF Ahead, LinkDirns

LEMMA DescendsTurn ==
  ASSUME NEW g \in Routing, g.algorithm = "TURN_MODEL_", NEW c, NEW d, Legal(g, c, d),
         NEW o \in outportCompute(g, c, d), o # "Local",
         NEW e \in Downstream(c.router, o, Scanned(g, c.router, o, d))
  PROVE  RankTurn(e) < RankTurn(c)
<1> DEFINE r == c.router
           n == e.router
           w == Cols + 1
<1>1. /\ Ahead(o, r, d) /\ Nearer(c.dirn, r, d) /\ e.dirn = Opposite[o]
      /\ Moved(o, r, n)
  BY Step
<1>2. r \in Routers /\ n \in Routers /\ d \in Routers /\ c.dirn \in LinkDirns \cup {"Local"}
  BY Step DEF InVC
<1>3. /\ X(r) \in 0 .. Cols - 1 /\ Y(r) \in 0 .. Rows - 1
      /\ X(n) \in 0 .. Cols - 1 /\ Y(n) \in 0 .. Rows - 1
      /\ X(d) \in Int /\ Y(d) \in Int /\ Cols \in Nat /\ Rows \in Nat
  BY <1>2, Coordinates, MeshSize
<1>4. c.dirn \in {"East", "West", "North"} => Y(d) <= Y(r)
  BY DEF Legal
<1> DEFINE row == Y(r) * w
           top == Rows * w
           new == Y(n) * w
<1>5. row \in Nat /\ top \in Nat /\ new \in Nat /\ w = Cols + 1
  BY <1>3, SMTT(30)
<1>6. new + w <= top
  <2>1. (Y(n) + 1) * w <= Rows * w
    BY <1>3, Monotone
  <2>2. (Y(n) + 1) * w = new + w
    BY <1>3, SMTT(30)
  <2> QED
    BY <2>1, <2>2
<1>7. /\ o \in {"East", "West"} => new = row
      /\ o = "South" => new = row - w
  <2>1. (Y(r) - 1) * w = row - w
    BY <1>3, SMTT(30)
  <2> QED
    BY <1>1, <2>1 DEF Moved
<1>8. RankTurn(c) = CASE c.dirn = "Local" -> top + Rows
                      [] c.dirn = "South" -> top + (Rows - 1 - Y(r))
                      [] c.dirn = "North" -> row + Cols
                      [] c.dirn = "West"  -> row + (Cols - 1 - X(r))
                      [] c.dirn = "East"  -> row + X(r)
  BY DEF RankTurn
<1>9. RankTurn(e) = CASE o = "East"  -> new + (Cols - 1 - X(n))
                      [] o = "West"  -> new + X(n)
                      [] o = "North" -> top + (Rows - 1 - Y(n))
                      [] o = "South" -> new + Cols
  BY <1>1 DEF RankTurn, Ahead, Opposite, LinkDirns
<1> HIDE DEF r, n, w, row, top, new
<1>10. CASE o = "East"
  BY <1>1, <1>2, <1>3, <1>4, <1>5, <1>6, <1>7, <1>8, <1>9, <1>10 DEF Ahead, Nearer, Moved, LinkDirns
<1>11. CASE o = "West"
  BY <1>1, <1>2, <1>3, <1>4, <1>5, <1>6, <1>7, <1>8, <1>9, <1>11 DEF Ahead, Nearer, Moved, LinkDirns
<1>12. CASE o = "North"
  BY <1>1, <1>2, <1>3, <1>4, <1>5, <1>6, <1>7, <1>8, <1>9, <1>12 DEF Ahead, Nearer, Moved, LinkDirns
<1>13. CASE o = "South"
  BY <1>1, <1>2, <1>3, <1>4, <1>5, <1>6, <1>7, <1>8, <1>9, <1>13 DEF Ahead, Nearer, Moved, LinkDirns
<1> QED
  BY <1>1, <1>10, <1>11, <1>12, <1>13 DEF Ahead, LinkDirns

LEMMA LeastExists ==
  ASSUME NEW S, S \subseteq Nat, S # {}
  PROVE  \E x \in S : \A y \in S : x <= y
<1>1. \E x \in S : \A y \in S : ~ (<<y, x>> \in OpToRel(<, Nat))
  BY NatLessThanWellFounded, WFMin
<1>2. ASSUME NEW x \in S, NEW y \in S, ~ (<<y, x>> \in OpToRel(<, Nat))
      PROVE  x <= y
  BY <1>2 DEF OpToRel
<1> QED
  BY <1>1, <1>2

\* Packets in the input VCs of the pairs in S.
LegalPairs(g, S) == \A q \in S : Legal(g, q[1], q[2])

\* The packet of pair q waits for output port o: for VCs that are held, or for
\* its own first flit.
WaitsFor(g, S, q, o) ==
  LET next == Downstream(q[1].router, o, Scanned(g, q[1].router, o, q[2]))
  IN \/ next \subseteq {t[1] : t \in S}
     \/ LongPackets(g) /\ \E c \in next : <<c, q[2]>> \in S

LEMMA EachWaits ==
  ASSUME NEW g, NEW S, S \subseteq Waiting(g, S), NEW q \in S
  PROVE  \E o \in outportCompute(g, q[1], q[2]) : o # "Local" /\ WaitsFor(g, S, q, o)
  BY DEF Waiting, WaitsFor

\* If some VC that a waiting packet could take is scanned, some packet of S is
\* in one.
LEMMA SomeoneAhead ==
  ASSUME NEW g \in Routing, NEW S, NEW q \in S, NEW o, WaitsFor(g, S, q, o),
         Scanned(g, q[1].router, o, q[2]) # {}
  PROVE  \E t \in S : t[1] \in Downstream(q[1].router, o, Scanned(g, q[1].router, o, q[2]))
<1> DEFINE next == Downstream(q[1].router, o, Scanned(g, q[1].router, o, q[2]))
<1>1. next # {}
  BY DEF Downstream
<1> HIDE DEF next
<1>2. CASE next \subseteq {t[1] : t \in S}
  BY <1>1, <1>2 DEF next
<1>3. ASSUME NEW c \in next, <<c, q[2]>> \in S
      PROVE  \E t \in S : t[1] \in next
  <2>1. <<c, q[2]>>[1] = c
    OBVIOUS
  <2> QED
    BY <1>3, <2>1
<1> QED
  BY <1>2, <1>3 DEF WaitsFor, next

\* XY_ and TURN_MODEL_: the packet in the VC with the lowest number of all has
\* nobody to wait for.
LEMMA NoRingByTurns ==
  ASSUME NEW g \in Routing, g.algorithm # "RANDOM_",
         NEW S, LegalPairs(g, S), S \subseteq Waiting(g, S)
  PROVE  S = {}
<1> DEFINE rank(c) == IF g.algorithm = "XY_" THEN RankXY(c) ELSE RankTurn(c)
           R == {rank(q[1]) : q \in S}
<1> SUFFICES ASSUME S # {} PROVE FALSE
  OBVIOUS
<1>1. R \subseteq Nat /\ R # {}
  BY RanksAreNumbers DEF LegalPairs, Legal
<1>2. PICK m \in R : \A k \in R : m <= k
  BY <1>1, LeastExists
<1>3. PICK q \in S : m = rank(q[1])
  BY <1>2
<1>4. PICK o \in outportCompute(g, q[1], q[2]) : o # "Local" /\ WaitsFor(g, S, q, o)
  BY EachWaits
<1>5. Scanned(g, q[1].router, o, q[2]) # {}
  BY Parameters DEF Scanned, restricted_turn, VCs
<1>6. PICK t \in S :
        t[1] \in Downstream(q[1].router, o, Scanned(g, q[1].router, o, q[2]))
  BY <1>4, <1>5, SomeoneAhead
<1>7. Legal(g, q[1], q[2])
  BY DEF LegalPairs
<1>8. rank(t[1]) < rank(q[1])
  <2>1. CASE g.algorithm = "XY_"
    <3>1. q[1].dirn \in {"North", "South"} => X(q[2]) = X(q[1].router)
      BY <1>7, <2>1 DEF Legal, RoutedXY
    <3>2. o \in outportComputeXY(q[1].router, q[2])
      BY <1>4, <2>1 DEF outportCompute
    <3>3. q[1].dirn \in {"North", "South"} => o \in {"North", "South"}
      BY <3>1, <3>2 DEF outportComputeXY, YDirn
    <3>4. RankXY(t[1]) < RankXY(q[1])
      BY <1>4, <1>6, <1>7, <3>3, DescendsXY
    <3> QED
      BY <2>1, <3>4
  <2>2. CASE g.algorithm = "TURN_MODEL_"
    <3>1. RankTurn(t[1]) < RankTurn(q[1])
      BY <1>4, <1>6, <1>7, <2>2, DescendsTurn
    <3> QED
      BY <2>2, <3>1
  <2> QED
    BY <2>1, <2>2 DEF Routing
<1>9. rank(t[1]) \in Nat /\ rank(q[1]) \in Nat /\ rank(t[1]) \in R
  BY <1>1
<1> QED
  BY <1>2, <1>3, <1>8, <1>9

\* RANDOM_ with escape VCs: nobody in an escape VC waits for ever, so nobody
\* waits for an output port that has one, and who waits for another one waits
\* for packets in the same column that go the same way.
LEMMA NoRingByEscape ==
  ASSUME NEW g \in Routing, g.algorithm = "RANDOM_", HasEscape(g),
         NEW S, LegalPairs(g, S), S \subseteq Waiting(g, S)
  PROVE  S = {}
<1>0. g.invc /\ EVC \in 1 .. NumVCs - 1 /\ EVC \in VCs /\ 0 \in VCs
  BY Parameters DEF HasEscape, VCs
<1>1. \A q \in S : /\ Legal(g, q[1], q[2]) /\ RankXY(q[1]) \in Nat
  BY RanksAreNumbers DEF LegalPairs, Legal
<1>2. ASSUME NEW q \in S
      PROVE  \E o \in outportCompute(g, q[1], q[2]) :
               /\ o # "Local"
               /\ Downstream(q[1].router, o, Scanned(g, q[1].router, o, q[2]))
                    \subseteq {t[1] : t \in S}
  BY EachWaits DEF WaitsFor, LongPackets
<1>3. ASSUME NEW q \in S, NEW o, NEW v \in Scanned(g, q[1].router, o, q[2]),
             Downstream(q[1].router, o, Scanned(g, q[1].router, o, q[2]))
               \subseteq {t[1] : t \in S}
      PROVE  \E t \in S :
               /\ t[1] \in Downstream(q[1].router, o, Scanned(g, q[1].router, o, q[2]))
               /\ t[1].vc = v
  <2> DEFINE next == Downstream(q[1].router, o, Scanned(g, q[1].router, o, q[2]))
             e == [router |-> Neighbor(q[1].router, o), dirn |-> Opposite[o], vc |-> v]
  <2>1. e \in next /\ e.vc = v
    BY DEF Downstream
  <2> HIDE DEF next, e
  <2>2. e \in {t[1] : t \in S}
    BY <1>3, <2>1 DEF next
  <2>3. PICK t \in S : e = t[1]
    BY <2>2
  <2> QED
    BY <2>1, <2>3 DEF next
<1>4. \A q \in S : q[1].vc # EVC
  <2> DEFINE E == {q \in S : q[1].vc = EVC}
             R == {RankXY(q[1]) : q \in E}
  <2> SUFFICES ASSUME E # {} PROVE FALSE
    OBVIOUS
  <2>1. R \subseteq Nat /\ R # {}
    BY <1>1
  <2>2. PICK m \in R : \A k \in R : m <= k
    BY <2>1, LeastExists
  <2>3. PICK q \in E : m = RankXY(q[1])
    BY <2>2
  <2>4. PICK o \in outportCompute(g, q[1], q[2]) :
          /\ o # "Local"
          /\ Downstream(q[1].router, o, Scanned(g, q[1].router, o, q[2]))
               \subseteq {t[1] : t \in S}
    BY <1>2, <2>3
  <2>5. o \in outportComputeXY(q[1].router, q[2])
    BY <1>0, <2>3, <2>4 DEF outportCompute
  <2>6. q[1].dirn \in {"North", "South"} => o \in {"North", "South"}
    <3>1. q[1].dirn \in {"North", "South"} => X(q[2]) = X(q[1].router)
      BY <1>0, <1>1, <2>3 DEF Legal, RoutedXY
    <3> QED
      BY <2>5, <3>1 DEF outportComputeXY, YDirn
  <2>7. EVC \in Scanned(g, q[1].router, o, q[2])
    <3>1. ~ restricted_turn(g, q[1].router, o, q[2])
      BY <2>5 DEF restricted_turn, outportComputeXY, XDirn
    <3> QED
      BY <1>0, <3>1 DEF Scanned
  <2>8. PICK t \in S :
          /\ t[1] \in Downstream(q[1].router, o, Scanned(g, q[1].router, o, q[2]))
          /\ t[1].vc = EVC
    BY <1>3, <2>3, <2>4, <2>7
  <2>9. RankXY(t[1]) < RankXY(q[1])
    BY <1>1, <2>3, <2>4, <2>6, <2>8, DescendsXY
  <2> QED
    BY <1>1, <2>2, <2>3, <2>8, <2>9
<1>5. ASSUME NEW q \in S, NEW o \in outportCompute(g, q[1], q[2]), o # "Local",
             Downstream(q[1].router, o, Scanned(g, q[1].router, o, q[2]))
               \subseteq {t[1] : t \in S}
      PROVE  o \in {"North", "South"} /\ 0 \in Scanned(g, q[1].router, o, q[2])
  <2>1. EVC \notin Scanned(g, q[1].router, o, q[2])
    BY <1>3, <1>4, <1>5
  <2>2. restricted_turn(g, q[1].router, o, q[2])
    BY <1>0, <2>1 DEF Scanned
  <2> QED
    BY <1>0, <2>2 DEF restricted_turn, Scanned
<1> SUFFICES ASSUME S # {} PROVE FALSE
  OBVIOUS
<1> DEFINE R == {RankXY(q[1]) : q \in S}
<1>6. R \subseteq Nat /\ R # {}
  BY <1>1
<1>7. PICK m \in R : \A k \in R : m <= k
  BY <1>6, LeastExists
<1>8. PICK q \in S : m = RankXY(q[1])
  BY <1>7
<1>9. PICK o \in outportCompute(g, q[1], q[2]) :
        /\ o # "Local"
        /\ Downstream(q[1].router, o, Scanned(g, q[1].router, o, q[2]))
             \subseteq {t[1] : t \in S}
  BY <1>2
<1>10. o \in {"North", "South"} /\ 0 \in Scanned(g, q[1].router, o, q[2])
  BY <1>5, <1>9
<1>11. PICK t \in S : t[1] \in Downstream(q[1].router, o, Scanned(g, q[1].router, o, q[2]))
  BY <1>3, <1>9, <1>10
<1>12. RankXY(t[1]) < RankXY(q[1])
  BY <1>1, <1>9, <1>10, <1>11, DescendsXY
<1> QED
  BY <1>1, <1>7, <1>8, <1>12

\* In a mesh of any size no set of packets, of any length with XY_ and
\* TURN_MODEL_, can be such that each waits for others of them: what NeverStuck
\* computes for one mesh.
THEOREM NoRing ==
  ASSUME NEW g \in Routing, HasEscape(g),
         NEW S, LegalPairs(g, S), S \subseteq Waiting(g, S)
  PROVE  S = {}
  BY NoRingByTurns, NoRingByEscape

\* Of the packets in the network one can always leave its VC: with XY_ and
\* TURN_MODEL_, and with RANDOM_ if its escape VCs were used.
THEOREM DeadlockFree == Spec => [](HasEscape(routing) => NoDeadlock)
<1>1. IInv /\ HasEscape(routing) => NoDeadlock
  <2> SUFFICES ASSUME IInv, HasEscape(routing),
                      \A p \in InNetwork : outport[p] # "Local" /\ FreeVCs(p) = {}
               PROVE  InNetwork = {}
    BY DEF NoDeadlock
  <2> DEFINE S == {<<loc[p], traffic[p].dest>> : p \in InNetwork}
  <2>1. ASSUME NEW p \in InNetwork
        PROVE  /\ Legal(routing, loc[p], traffic[p].dest)
               /\ outport[p] \in outportCompute(routing, loc[p], traffic[p].dest)
    BY DEF IInv, PacketOK, InNetwork
  <2>2. LegalPairs(routing, S)
    BY <2>1 DEF LegalPairs
  <2>3. {loc[p] : p \in InNetwork} \subseteq {t[1] : t \in S}
    <3> SUFFICES ASSUME NEW p \in InNetwork PROVE loc[p] \in {t[1] : t \in S}
      OBVIOUS
    <3>1. <<loc[p], traffic[p].dest>> \in S /\ <<loc[p], traffic[p].dest>>[1] = loc[p]
      OBVIOUS
    <3> HIDE DEF S
    <3> QED
      BY <3>1
  <2>4. S \subseteq Waiting(routing, S)
    <3> SUFFICES ASSUME NEW p \in InNetwork
                 PROVE  <<loc[p], traffic[p].dest>> \in Waiting(routing, S)
      OBVIOUS
    <3> DEFINE q == <<loc[p], traffic[p].dest>>
               next == Downstream(loc[p].router, outport[p],
                                  Scanned(routing, loc[p].router, outport[p],
                                          traffic[p].dest))
    <3>1. \A c \in next : ~ Free(c)
      BY DEF FreeVCs
    <3>2. next \subseteq {loc[u] : u \in InNetwork}
      BY <3>1 DEF Free, InNetwork
    <3>3. next \subseteq {t[1] : t \in S}
      BY <2>3, <3>2
    <3>4. q \in S /\ q[1] = loc[p] /\ q[2] = traffic[p].dest
      OBVIOUS
    <3> HIDE DEF S, q
    <3> QED
      BY <2>1, <3>3, <3>4 DEF Waiting, q
  <2>5. S = {}
    BY <2>2, <2>4, NoRing, Settled
  <2> QED
    BY <2>5
<1> QED
  BY <1>1, Invariance, PTL

-----------------------------------------------------------------------------
(***************************************************************************)
(* Reach, Shrink and Stuck, which are defined by recursion, are what their *)
(* comments say: the pairs packets get to, and the largest set of pairs    *)
(* that wait only for each other.                                          *)
(***************************************************************************)
\* Induction, as a fact about sets of numbers.
LEMMA Induction ==
  ASSUME NEW S, 0 \in S, \A k \in Nat : k \in S => k + 1 \in S
  PROVE  Nat \subseteq S
<1> SUFFICES ASSUME Nat \ S # {} PROVE FALSE
  OBVIOUS
<1>1. PICK m \in Nat \ S : \A n \in Nat \ S : m <= n
  BY LeastExists
<1>2. m # 0 /\ m - 1 \in Nat /\ (m - 1) + 1 = m
  BY <1>1
<1>3. m - 1 \in S
  BY <1>1, <1>2
<1> QED
  BY <1>1, <1>2, <1>3

\* The sequence b, W[b], W[W[b]], ... exists: its beginnings do, and agree.
LEMMA Iterates ==
  ASSUME NEW D, NEW b \in D, NEW W \in [D -> D]
  PROVE  \E F \in [Nat -> D] : F[0] = b /\ \A k \in Nat : F[k + 1] = W[F[k]]
<1> DEFINE begin(n) == {f \in [0 .. n -> D] :
                          f[0] = b /\ \A k \in 0 .. n : k # n => f[k + 1] = W[f[k]]}
           F == [k \in Nat |-> (CHOOSE f \in begin(k) : TRUE)[k]]
<1>1. \A n \in Nat : begin(n) # {}
  <2> DEFINE S == {n \in Nat : begin(n) # {}}
  <2>1. 0 \in S
    <3>1. [k \in 0 .. 0 |-> b] \in begin(0)
      OBVIOUS
    <3> QED
      BY <3>1
  <2>2. ASSUME NEW m \in Nat, NEW f \in begin(m) PROVE begin(m + 1) # {}
    <3> DEFINE g == [k \in 0 .. m + 1 |-> IF k = m + 1 THEN W[f[m]] ELSE f[k]]
    <3>1. f \in [0 .. m -> D] /\ f[0] = b /\ \A k \in 0 .. m : k # m => f[k + 1] = W[f[k]]
      OBVIOUS
    <3> HIDE DEF begin, S
    <3>2. g \in [0 .. m + 1 -> D] /\ g[0] = b
      BY <3>1
    <3>3. ASSUME NEW k \in 0 .. m + 1, k # m + 1 PROVE g[k + 1] = W[g[k]]
      BY <3>1, <3>3
    <3>4. g \in begin(m + 1)
      BY <3>2, <3>3 DEF begin
    <3> QED
      BY <3>4
  <2>3. \A m \in Nat : m \in S => m + 1 \in S
    <3> HIDE DEF begin
    <3> QED
      BY <2>2
  <2> HIDE DEF S
  <2>4. Nat \subseteq S
    BY <2>1, <2>3, Induction
  <2> QED
    BY <2>4 DEF S
<1>2. ASSUME NEW n \in Nat, NEW f \in begin(n), NEW m \in Nat, NEW g \in begin(m), m <= n
      PROVE  f[m] = g[m]
  <2> DEFINE S == {k \in Nat : k <= m => f[k] = g[k]}
  <2>1. 0 \in S
    OBVIOUS
  <2>2. ASSUME NEW k \in Nat, k \in S PROVE k + 1 \in S
    <3> SUFFICES ASSUME k + 1 <= m PROVE f[k + 1] = g[k + 1]
      OBVIOUS
    <3>1. f[k] = g[k]
      BY <2>2
    <3>2. f[k + 1] = W[f[k]] /\ g[k + 1] = W[g[k]]
      BY <1>2
    <3> QED
      BY <3>1, <3>2
  <2> HIDE DEF S
  <2>3. Nat \subseteq S
    BY <2>1, <2>2, Induction
  <2> QED
    BY <2>3 DEF S
<1>3. \A n \in Nat : (CHOOSE f \in begin(n) : TRUE) \in begin(n)
  <2> HIDE DEF begin
  <2> QED
    BY <1>1
<1>4. ASSUME NEW n \in Nat PROVE \E f \in begin(n) : F[n] = f[n]
  BY <1>3
<1> HIDE DEF F
<1>5. F \in [Nat -> D]
  <2>1. \A k \in Nat : F[k] \in D
    BY <1>4
  <2> QED
    BY <2>1 DEF F
<1>6. F[0] = b
  BY <1>4
<1>7. ASSUME NEW k \in Nat PROVE F[k + 1] = W[F[k]]
  <2>1. PICK f \in begin(k) : F[k] = f[k]
    BY <1>4
  <2>2. k + 1 \in Nat
    OBVIOUS
  <2>3. PICK g \in begin(k + 1) : F[k + 1] = g[k + 1]
    BY <1>4, <2>2
  <2>4. g[k] = f[k]
    <3> HIDE DEF begin
    <3> QED
      BY <1>2, <2>2
  <2> QED
    BY <2>1, <2>3, <2>4
<1> QED
  BY <1>5, <1>6, <1>7

Pairs(g) == {q \in InVC \X Routers : Legal(g, q[1], q[2])}

Starts == {<<LocalPort(r), d>> : r, d \in Routers}

LEMMA StartsLegal ==
  ASSUME NEW g \in Routing
  PROVE  Starts \in SUBSET Pairs(g)
<1> SUFFICES ASSUME NEW r \in Routers, NEW d \in Routers
             PROVE  <<LocalPort(r), d>> \in Pairs(g)
  BY DEF Starts
<1>1. Legal(g, LocalPort(r), d) /\ LocalPort(r) \in InVC
  BY DEF Legal, LocalPort, InVC, Nearer
<1> QED
  BY <1>1 DEF Pairs

LEMMA HopsLegal ==
  ASSUME NEW g \in Routing, NEW S \in SUBSET Pairs(g)
  PROVE  Hops(g, S) \in SUBSET Pairs(g)
<1> SUFFICES ASSUME NEW q \in S, NEW e \in Moves(g, q[1], q[2])
             PROVE  <<e, q[2]>> \in Pairs(g)
  BY DEF Hops
<1>1. Legal(g, q[1], q[2]) /\ q[2] \in Routers
  BY DEF Pairs
<1>2. PICK o \in outportCompute(g, q[1], q[2]) :
        /\ o # "Local"
        /\ e \in Downstream(q[1].router, o, Scanned(g, q[1].router, o, q[2]))
  BY DEF Moves
<1>3. Legal(g, e, q[2])
  BY <1>1, <1>2, NextIsLegal
<1>4. e \in InVC
  BY <1>3 DEF Legal
<1> QED
  BY <1>1, <1>3, <1>4 DEF Pairs

\* ReachIn, by its recursion.
LEMMA ReachInSteps ==
  ASSUME NEW g \in Routing
  PROVE  /\ ReachIn(g) \in [Nat -> SUBSET Pairs(g)]
         /\ ReachIn(g)[0] = Starts
         /\ \A k \in Nat : ReachIn(g)[k + 1] = Hops(g, ReachIn(g)[k])
<1> DEFINE D == SUBSET Pairs(g)
           W == [S \in D |-> Hops(g, S)]
           P(f) == f = [k \in Nat |-> IF k = 0 THEN Starts ELSE Hops(g, f[k - 1])]
<1>1. Starts \in D /\ W \in [D -> D]
  BY StartsLegal, HopsLegal
<1> HIDE DEF D
<1>2. PICK G \in [Nat -> D] : G[0] = Starts /\ \A k \in Nat : G[k + 1] = W[G[k]]
  <2> HIDE DEF W
  <2>1. W \in [D -> D]
    BY <1>1
  <2>2. \A b \in D : \A V \in [D -> D] :
          \E F \in [Nat -> D] : F[0] = b /\ \A k \in Nat : F[k + 1] = V[F[k]]
    BY Iterates
  <2>3. \A V \in [D -> D] :
          \E F \in [Nat -> D] : F[0] = Starts /\ \A k \in Nat : F[k + 1] = V[F[k]]
    BY <1>1, <2>2
  <2> QED
    BY <2>1, <2>3
<1>3. P(G)
  <2>1. ASSUME NEW k \in Nat
        PROVE  G[k] = IF k = 0 THEN Starts ELSE Hops(g, G[k - 1])
    <3>1. CASE k = 0
      BY <1>2, <3>1
    <3>2. CASE k # 0
      <4>1. k - 1 \in Nat /\ (k - 1) + 1 = k
        BY <3>2
      <4>2. G[k] = W[G[k - 1]] /\ G[k - 1] \in D
        BY <1>2, <4>1
      <4> QED
        BY <3>2, <4>2
    <3> QED
      BY <3>1, <3>2
  <2> QED
    BY <2>1
<1>4. P(ReachIn(g))
  <2>1. ReachIn(g) = CHOOSE f : P(f)
    BY DEF ReachIn, Starts
  <2> HIDE DEF P
  <2> QED
    BY <1>3, <2>1
<1> DEFINE F == ReachIn(g)
<1> HIDE DEF F
<1>5. F = [k \in Nat |-> IF k = 0 THEN Starts ELSE Hops(g, F[k - 1])]
  BY <1>4 DEF F
<1>6. F[0] = Starts /\ \A k \in Nat : F[k + 1] = Hops(g, F[k])
  <2>1. F[0] = Starts
    BY <1>5
  <2>2. ASSUME NEW k \in Nat PROVE F[k + 1] = Hops(g, F[k])
    <3>1. k + 1 \in Nat /\ k + 1 # 0 /\ (k + 1) - 1 = k
      OBVIOUS
    <3>2. F[k + 1] = IF k + 1 = 0 THEN Starts ELSE Hops(g, F[(k + 1) - 1])
      BY <1>5, <3>1
    <3> QED
      BY <3>1, <3>2
  <2> QED
    BY <2>1, <2>2
<1>7. \A k \in Nat : F[k] \in D
  <2> DEFINE S == {k \in Nat : F[k] \in D}
  <2>1. 0 \in S
    BY <1>1, <1>6
  <2>2. \A k \in Nat : k \in S => k + 1 \in S
    BY <1>6, HopsLegal DEF D
  <2> HIDE DEF S
  <2>3. Nat \subseteq S
    BY <2>1, <2>2, Induction
  <2> QED
    BY <2>3 DEF S
<1> QED
  BY <1>5, <1>6, <1>7 DEF F, D

LEMMA ReachLegal ==
  ASSUME NEW g \in Routing
  PROVE  Reach(g) \in SUBSET Pairs(g)
<1>1. \A k \in 1 .. Cols + Rows - 2 : ReachIn(g)[k] \in SUBSET Pairs(g)
  BY ReachInSteps, MeshSize
<1> QED
  BY <1>1 DEF Reach

LEMMA ReachFinite ==
  ASSUME NEW g \in Routing
  PROVE  IsFiniteSet(Reach(g))
<1>1. IsFiniteSet(Routers)
  <2>1. Cols * Rows - 1 \in Int
    BY MeshSize, SMTT(30)
  <2> QED
    BY <2>1, FS_Interval DEF Routers
<1> DEFINE dirns == LinkDirns \cup {"Local"}
           all == VCs \cup {NoVC}
           tuples == (Routers \X dirns) \X all
           f == [t \in tuples |-> [router |-> t[1][1], dirn |-> t[1][2], vc |-> t[2]]]
<1>2. IsFiniteSet(dirns)
  <2>1. IsFiniteSet({"North"})
    BY FS_Singleton
  <2>2. IsFiniteSet({"North"} \cup {"South"})
    BY <2>1, FS_AddElement
  <2>3. IsFiniteSet({"North"} \cup {"South"} \cup {"East"})
    BY <2>2, FS_AddElement
  <2>4. IsFiniteSet({"North"} \cup {"South"} \cup {"East"} \cup {"West"})
    BY <2>3, FS_AddElement
  <2>5. LinkDirns = {"North"} \cup {"South"} \cup {"East"} \cup {"West"}
    BY DEF LinkDirns
  <2> QED
    BY <2>4, <2>5, FS_AddElement
<1>3. IsFiniteSet(all)
  <2>1. IsFiniteSet(VCs)
    BY Parameters, FS_Interval DEF VCs
  <2> QED
    BY <2>1, FS_AddElement
<1>4. IsFiniteSet(tuples)
  <2> HIDE DEF dirns, all
  <2> QED
    BY <1>1, <1>2, <1>3, FS_Product
<1>5. f \in Surjection(tuples, InVC)
  <2> HIDE DEF all
  <2>1. f \in [tuples -> InVC]
    BY DEF InVC, all
  <2>2. ASSUME NEW c \in InVC PROVE \E t \in tuples : f[t] = c
    <3> DEFINE t == <<<<c.router, c.dirn>>, c.vc>>
    <3>1. t \in tuples
      BY DEF InVC, all
    <3>2. f[t] = [router |-> c.router, dirn |-> c.dirn, vc |-> c.vc]
      BY <3>1
    <3>3. c = [router |-> c.router, dirn |-> c.dirn, vc |-> c.vc]
      BY DEF InVC
    <3> QED
      BY <3>1, <3>2, <3>3
  <2> QED
    BY <2>1, <2>2 DEF Surjection
<1>6. IsFiniteSet(InVC)
  <2> HIDE DEF f, tuples
  <2> QED
    BY <1>4, <1>5, FS_Surjection
<1>7. IsFiniteSet(InVC \X Routers)
  BY <1>1, <1>6, FS_Product
<1>8. Reach(g) \in SUBSET (InVC \X Routers)
  BY ReachLegal DEF Pairs
<1> QED
  BY <1>7, <1>8, FS_Subset

\* Shrink, by its recursion.
LEMMA ShrinkSteps ==
  ASSUME NEW g \in Routing
  PROVE  /\ Shrink(g) \in [Nat -> SUBSET Reach(g)]
         /\ Shrink(g)[0] = Reach(g)
         /\ \A k \in Nat : Shrink(g)[k + 1] = Waiting(g, Shrink(g)[k])
<1> DEFINE D == SUBSET Reach(g)
           W == [S \in D |-> Waiting(g, S)]
           P(f) == f = [k \in Nat |-> IF k = 0 THEN Reach(g) ELSE Waiting(g, f[k - 1])]
<1>0. \A S : Waiting(g, S) \subseteq S
  BY DEF Waiting
<1>1. Reach(g) \in D /\ W \in [D -> D]
  BY <1>0
<1> HIDE DEF D
<1>2. PICK G \in [Nat -> D] : G[0] = Reach(g) /\ \A k \in Nat : G[k + 1] = W[G[k]]
  <2> HIDE DEF W
  <2>1. W \in [D -> D]
    BY <1>1
  <2>2. \A b \in D : \A V \in [D -> D] :
          \E F \in [Nat -> D] : F[0] = b /\ \A k \in Nat : F[k + 1] = V[F[k]]
    BY Iterates
  <2>3. \A V \in [D -> D] :
          \E F \in [Nat -> D] : F[0] = Reach(g) /\ \A k \in Nat : F[k + 1] = V[F[k]]
    BY <1>1, <2>2
  <2> QED
    BY <2>1, <2>3
<1>3. P(G)
  <2>1. ASSUME NEW k \in Nat
        PROVE  G[k] = IF k = 0 THEN Reach(g) ELSE Waiting(g, G[k - 1])
    <3>1. CASE k = 0
      BY <1>2, <3>1
    <3>2. CASE k # 0
      <4>1. k - 1 \in Nat /\ (k - 1) + 1 = k
        BY <3>2
      <4>2. G[k] = W[G[k - 1]] /\ G[k - 1] \in D
        BY <1>2, <4>1
      <4> QED
        BY <3>2, <4>2
    <3> QED
      BY <3>1, <3>2
  <2> QED
    BY <2>1
<1>4. P(Shrink(g))
  <2>1. Shrink(g) = CHOOSE f : P(f)
    BY DEF Shrink
  <2> HIDE DEF P
  <2> QED
    BY <1>3, <2>1
<1> DEFINE F == Shrink(g)
<1> HIDE DEF F
<1>5. F = [k \in Nat |-> IF k = 0 THEN Reach(g) ELSE Waiting(g, F[k - 1])]
  BY <1>4 DEF F
<1>6. F[0] = Reach(g) /\ \A k \in Nat : F[k + 1] = Waiting(g, F[k])
  <2>1. F[0] = Reach(g)
    BY <1>5
  <2>2. ASSUME NEW k \in Nat PROVE F[k + 1] = Waiting(g, F[k])
    <3>1. k + 1 \in Nat /\ k + 1 # 0 /\ (k + 1) - 1 = k
      OBVIOUS
    <3>2. F[k + 1] = IF k + 1 = 0 THEN Reach(g) ELSE Waiting(g, F[(k + 1) - 1])
      BY <1>5, <3>1
    <3> QED
      BY <3>1, <3>2
  <2> QED
    BY <2>1, <2>2
<1>7. \A k \in Nat : F[k] \in D
  <2> DEFINE S == {k \in Nat : F[k] \in D}
  <2>1. 0 \in S
    BY <1>1, <1>6
  <2>2. \A k \in Nat : k \in S => k + 1 \in S
    BY <1>0, <1>6 DEF D
  <2> HIDE DEF S
  <2>3. Nat \subseteq S
    BY <2>1, <2>2, Induction
  <2> QED
    BY <2>3 DEF S
<1> QED
  BY <1>5, <1>6, <1>7 DEF F, D

\* Shrink comes to an end within the steps that Stuck looks at, or it would
\* have lost more pairs than there are.
LEMMA ShrinkEnds ==
  ASSUME NEW g \in Routing
  PROVE  \E k \in 0 .. Cardinality(Reach(g)) : Shrink(g)[k] = Shrink(g)[k + 1]
<1> DEFINE n == Cardinality(Reach(g))
           F == Shrink(g)
           size(k) == Cardinality(F[k])
<1>1. IsFiniteSet(Reach(g)) /\ n \in Nat
  BY ReachFinite, FS_CardinalityType
<1>2. \A k \in Nat : F[k] \in SUBSET Reach(g) /\ F[k + 1] = Waiting(g, F[k])
  BY ShrinkSteps
<1>3. F[0] = Reach(g)
  BY ShrinkSteps
<1> HIDE DEF n, F
<1>4. ASSUME NEW k \in Nat
      PROVE  /\ IsFiniteSet(F[k]) /\ size(k) \in Nat /\ size(k + 1) \in Nat
             /\ F[k + 1] # F[k] => size(k + 1) < size(k)
  <2>1. IsFiniteSet(F[k]) /\ size(k) \in Nat
    BY <1>1, <1>2, FS_Subset, FS_CardinalityType
  <2>2. F[k + 1] \in SUBSET F[k]
    BY <1>2 DEF Waiting
  <2>3. IsFiniteSet(F[k + 1]) /\ size(k + 1) \in Nat
    BY <2>1, <2>2, FS_Subset, FS_CardinalityType
  <2>4. size(k + 1) <= size(k) /\ (size(k) = size(k + 1) => F[k] = F[k + 1])
    BY <2>1, <2>2, FS_Subset
  <2> QED
    BY <2>1, <2>3, <2>4
<1> SUFFICES ASSUME \A k \in 0 .. n : F[k] # F[k + 1] PROVE FALSE
  BY DEF n, F
<1> DEFINE S == {k \in Nat : k <= n + 1 => size(k) <= n - k}
<1>5. 0 \in S
  BY <1>1, <1>3 DEF n
<1>6. ASSUME NEW k \in Nat, k \in S PROVE k + 1 \in S
  <2> SUFFICES ASSUME k + 1 <= n + 1 PROVE size(k + 1) <= n - (k + 1)
    OBVIOUS
  <2> HIDE DEF size
  <2>1. size(k) <= n - k /\ k \in 0 .. n
    BY <1>1, <1>6
  <2>2. size(k + 1) < size(k) /\ size(k) \in Nat /\ size(k + 1) \in Nat
    BY <1>4, <2>1
  <2> QED
    BY <1>1, <2>1, <2>2
<1> HIDE DEF S
<1>7. Nat \subseteq S
  BY <1>5, <1>6, Induction
<1>8. n + 1 \in S /\ n + 1 \in Nat
  BY <1>1, <1>7
<1>9. size(n + 1) \in Nat
  BY <1>4, <1>8
<1> HIDE DEF size
<1> QED
  BY <1>1, <1>8, <1>9 DEF S

LEMMA WaitingGrows ==
  ASSUME NEW g, NEW S, NEW T, S \subseteq T
  PROVE  Waiting(g, S) \subseteq Waiting(g, T)
<1> SUFFICES ASSUME NEW q \in Waiting(g, S) PROVE q \in Waiting(g, T)
  OBVIOUS
<1>1. PICK o \in outportCompute(g, q[1], q[2]) \ {"Local"} : WaitsFor(g, S, q, o)
  BY DEF Waiting, WaitsFor
<1>2. WaitsFor(g, T, q, o)
  BY <1>1 DEF WaitsFor
<1> QED
  BY <1>2 DEF Waiting, WaitsFor

\* What Stuck computes is the largest set of packets that wait only for each
\* other, in every mesh and with every setting: such a set itself, and one that
\* has all others in it.
THEOREM StuckIsLargest ==
  ASSUME NEW g \in Routings
  PROVE  /\ Stuck[g] \subseteq Reach(g) /\ Stuck[g] \subseteq Waiting(g, Stuck[g])
         /\ \A S \in SUBSET Reach(g) : S \subseteq Waiting(g, S) => S \subseteq Stuck[g]
<1> DEFINE all == 0 .. Cardinality(Reach(g))
           last == CHOOSE k \in all : Shrink(g)[k] = Shrink(g)[k + 1]
<1>1. g \in Routing /\ \E k \in all : Shrink(g)[k] = Shrink(g)[k + 1]
  BY Parameters, ShrinkEnds
<1>2. Stuck[g] = Shrink(g)[last]
  BY DEF Stuck
<1>3. last \in all /\ Shrink(g)[last] = Shrink(g)[last + 1]
  <2> HIDE DEF all
  <2> QED
    BY <1>1
<1>4. last \in Nat
  BY <1>3
<1>5. PICK k \in Nat : Stuck[g] = Shrink(g)[k] /\ Shrink(g)[k] = Shrink(g)[k + 1]
  BY <1>2, <1>3, <1>4
<1>6. Stuck[g] \subseteq Reach(g) /\ Stuck[g] \subseteq Waiting(g, Stuck[g])
  BY <1>1, <1>5, ShrinkSteps
<1>7. ASSUME NEW S \in SUBSET Reach(g), S \subseteq Waiting(g, S)
      PROVE  S \subseteq Stuck[g]
  <2> DEFINE N == {j \in Nat : S \subseteq Shrink(g)[j]}
  <2>1. 0 \in N
    BY <1>1, ShrinkSteps
  <2>2. ASSUME NEW j \in Nat, j \in N PROVE j + 1 \in N
    <3>1. Waiting(g, S) \subseteq Waiting(g, Shrink(g)[j])
      BY <2>2, WaitingGrows
    <3> QED
      BY <1>1, <1>7, <3>1, ShrinkSteps
  <2> HIDE DEF N
  <2>3. Nat \subseteq N
    BY <2>1, <2>2, Induction
  <2> QED
    BY <1>5, <2>3 DEF N
<1> QED
  BY <1>6, <1>7

\* Which is empty if RANDOM_ has its escape VC, and always with XY_ and
\* TURN_MODEL_.
THEOREM NobodyStuck ==
  ASSUME NEW g \in Routings, HasEscape(g)
  PROVE  Stuck[g] = {}
<1>1. g \in Routing
  BY Parameters
<1>2. Stuck[g] \subseteq Pairs(g)
  BY <1>1, StuckIsLargest, ReachLegal
<1>3. LegalPairs(g, Stuck[g])
  BY <1>2 DEF LegalPairs, Pairs
<1> QED
  BY <1>1, <1>3, StuckIsLargest, NoRing

\* No packet is ever in a VC in which it might wait for ever: the invariant of
\* the runs, for every mesh and any traffic.
THEOREM NoEndlessWait == Spec => [](HasEscape(routing) => NeverStuck)
<1>1. IInv /\ HasEscape(routing) => NeverStuck
  BY NobodyStuck DEF IInv, NeverStuck
<1> QED
  BY <1>1, Invariance, PTL

-----------------------------------------------------------------------------
\* The pairs that Stuck starts from leave out no packet.
ReachedOK(p) ==
  status[p] = "network" =>
    hops[p] \in Nat /\ <<loc[p], traffic[p].dest>> \in ReachIn(routing)[hops[p]]

\* A packet behind its first link is one of the pairs in Reach.
Covered ==
  \A p \in InNetwork :
    loc[p].dirn # "Local" => <<loc[p], traffic[p].dest>> \in Reach(routing)

LEMMA InjectReached ==
  ASSUME IInv, NEW p \in Packets, Inject(p), \A q \in Packets : ReachedOK(q)
  PROVE  \A q \in Packets : ReachedOK(q)'
<1>1. /\ loc[p] = LocalPort(traffic[p].src) /\ hops[p] = -1
      /\ status' = [status EXCEPT ![p] = "network"]
      /\ loc' = [loc EXCEPT ![p] = loc[p]] /\ hops' = [hops EXCEPT ![p] = @ + 1]
      /\ UNCHANGED <<routing, traffic>>
  BY DEF Inject, Arrive, IInv, PacketOK
<1>2. loc'[p] = LocalPort(traffic[p].src) /\ hops'[p] = 0
  BY <1>1 DEF IInv
<1>3. <<LocalPort(traffic[p].src), traffic[p].dest>> \in ReachIn(routing)[0]
  BY Settled, ReachInSteps DEF Starts
<1>4. ReachedOK(p)'
  BY <1>1, <1>2, <1>3 DEF ReachedOK
<1>5. ASSUME NEW q \in Packets \ {p} PROVE ReachedOK(q)'
  BY <1>1 DEF ReachedOK, IInv
<1> QED
  BY <1>4, <1>5

LEMMA HopReached ==
  ASSUME IInv, NEW p \in Packets, Hop(p), \A q \in Packets : ReachedOK(q)
  PROVE  \A q \in Packets : ReachedOK(q)'
<1> DEFINE d == traffic[p].dest
           k == hops[p]
<1>1. PICK e \in FreeVCs(p) : Arrive(p, e)
  BY DEF Hop
<1>2. /\ status[p] = "network" /\ outport[p] # "Local"
      /\ UNCHANGED <<routing, traffic, status>>
      /\ loc' = [loc EXCEPT ![p] = e] /\ hops' = [hops EXCEPT ![p] = @ + 1]
  BY <1>1 DEF Hop, Arrive
<1>3. loc'[p] = e /\ hops'[p] = k + 1
  BY <1>2 DEF IInv
<1>4. k \in Nat /\ <<loc[p], d>> \in ReachIn(routing)[k]
  BY <1>2 DEF ReachedOK
<1>5. outport[p] \in outportCompute(routing, loc[p], d)
  BY <1>2 DEF IInv, PacketOK
<1>6. e \in Downstream(loc[p].router, outport[p], Scanned(routing, loc[p].router, outport[p], d))
  BY DEF FreeVCs
<1>7. e \in Moves(routing, loc[p], d)
  BY <1>2, <1>5, <1>6 DEF Moves
<1>8. <<e, d>> \in Hops(routing, ReachIn(routing)[k])
  BY <1>4, <1>7 DEF Hops
<1>9. <<e, d>> \in ReachIn(routing)[k + 1]
  BY <1>4, <1>8, Settled, ReachInSteps
<1>10. ReachedOK(p)'
  BY <1>2, <1>3, <1>4, <1>9 DEF ReachedOK
<1>11. ASSUME NEW q \in Packets \ {p} PROVE ReachedOK(q)'
  BY <1>2 DEF ReachedOK, IInv
<1> QED
  BY <1>10, <1>11

\* So Reach has every place a packet with its destination ever gets to by a
\* link, and NeverStuck is about all of them.
THEOREM ReachIsComplete == Spec => []Covered
<1> DEFINE Inv == IInv /\ \A p \in Packets : ReachedOK(p)
<1>1. Init => Inv
  BY InitIInv DEF Init, ReachedOK
<1>2. Inv /\ [Next]_vars => Inv'
  <2>1. ASSUME Inv, UNCHANGED vars PROVE Inv'
    BY <2>1 DEF IInv, PacketOK, ReachedOK, vars
  <2>2. ASSUME Inv, NEW p \in Packets, Inject(p) PROVE Inv'
    BY <2>2, InjectIInv, InjectReached
  <2>3. ASSUME Inv, NEW p \in Packets, Hop(p) PROVE Inv'
    BY <2>3, HopIInv, HopReached
  <2>4. ASSUME Inv, NEW p \in Packets, Eject(p) PROVE Inv'
    <3>1. /\ UNCHANGED <<routing, traffic, loc, hops>>
          /\ \A q \in Packets : status'[q] = "network" => status[q] = "network"
      BY <2>4 DEF Eject, IInv
    <3>2. \A q \in Packets : ReachedOK(q)'
      BY <2>4, <3>1 DEF ReachedOK
    <3> QED
      BY <2>4, <3>2, EjectIInv
  <2> QED
    BY <2>1, <2>2, <2>3, <2>4 DEF Next
<1>3. Inv => Covered
  <2> SUFFICES ASSUME Inv, NEW p \in InNetwork, loc[p].dirn # "Local"
               PROVE  <<loc[p], traffic[p].dest>> \in Reach(routing)
    BY DEF Covered
  <2> DEFINE s == traffic[p].src
             d == traffic[p].dest
             r == loc[p].router
  <2>1. /\ hops[p] \in Nat /\ <<loc[p], d>> \in ReachIn(routing)[hops[p]]
        /\ hops[p] + Distance(r, d) = Distance(s, d)
        /\ Legal(routing, loc[p], d)
    BY DEF InNetwork, ReachedOK, IInv, PacketOK
  <2>2. r \in Routers /\ s \in Routers /\ d \in Routers
    BY <2>1, Settled DEF Legal, InVC, InNetwork
  <2>3. Distance(r, d) \in Nat /\ Distance(s, d) \in 0 .. Cols + Rows - 2
    BY <2>2, Coordinates, MeshSize DEF Distance, Dist
  <2>4. hops[p] # 0
    <3> SUFFICES ASSUME hops[p] = 0 PROVE FALSE
      OBVIOUS
    <3>1. PICK r0 \in Routers, d0 \in Routers : <<loc[p], d>> = <<LocalPort(r0), d0>>
      BY <2>1, ReachInSteps, Settled DEF Starts
    <3>2. loc[p] = LocalPort(r0)
      BY <3>1
    <3> QED
      BY <3>2 DEF LocalPort
  <2>5. hops[p] \in 1 .. Cols + Rows - 2
    BY <2>1, <2>3, <2>4, MeshSize
  <2> QED
    BY <2>1, <2>5 DEF Reach
<1> QED
  BY <1>1, <1>2, <1>3, PTL DEF Spec
=============================================================================
