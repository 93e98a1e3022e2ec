------------------------- MODULE BufferlessNetProofs -------------------------
(***************************************************************************)
(* Theorems about BufferlessNet, for any traffic and any wave schedule: in *)
(* every mesh no two flits are put on one link in one cycle, every flit    *)
(* that comes by a link has a link to leave by, and a first gold flit on   *)
(* course goes home; and in the mesh m_gold_th is computed for, every flit *)
(* is gold when it gets to its destination.                                *)
(***************************************************************************)
EXTENDS BufferlessNet, FiniteSetTheorems, TLAPS

\* The variables have the domains that the actions take for granted.
Shapes ==
  /\ traffic \in Traffic
  /\ status \in [Flits -> {"interface", "local", "network", "sink"}]
  /\ router \in [Flits -> Int]
  /\ inDirn = [f \in Flits |-> inDirn[f]]
  /\ delay \in [Flits -> 0 .. HopCycles - 1]
  /\ toGold \in [Flits -> Nat]
  /\ port \in [Flits -> Ports \cup {None, Wait}]

\* Only a flit that a router has picked has a port, only a Local one waits.
PortsOK ==
  \A f \in Flits :
    /\ port[f] # None => status[f] = "local" \/ (status[f] = "network" /\ delay[f] = 0)
    /\ port[f] = Wait => status[f] = "local"
    /\ port[f] \in LinkDirns => HasNeighbor(router[f], port[f])
    /\ status[f] # "network" => delay[f] = 0

\* A link is given away once.
LinksOnce ==
  \A f, g \in Flits :
    f # g /\ router[f] = router[g] /\ port[f] = port[g] => port[f] \notin LinkDirns

IInv == Shapes /\ PortsOK /\ LinksOnce /\ OneFlitPerLink

-----------------------------------------------------------------------------
LEMMA InitIInv == Init => IInv
<1> SUFFICES ASSUME Init PROVE IInv
  OBVIOUS
<1>1. 0 \in 0 .. HopCycles - 1
  BY Parameters
<1>2. \A f \in Flits : Sent(f) => /\ src(f) \in Routers /\ dest(f) \in Routers
  BY Parameters DEF Init, Flits, src, dest
<1>3. \A f \in Flits : dest(f) \in Routers /\ src(f) \in Routers
  BY Parameters DEF Init, Flits, src, dest
<1>4. \A f \in Flits : GoldTh(src(f), dest(f)) \in Nat
  <2> SUFFICES ASSUME NEW s \in Routers, NEW d \in Routers PROVE GoldTh(s, d) \in Nat
    BY <1>3
  <2>1. s \in Int /\ d \in Int
    BY DEF Routers
  <2>2. s \div 4 \in Int /\ d \div 4 \in Int /\ s % 4 \in Int /\ d % 4 \in Int
    BY <2>1
  <2> QED
    BY <2>2 DEF GoldTh, Dist
<1>5. Routers \subseteq Int
  BY DEF Routers
<1>6. Shapes
  BY <1>1, <1>3, <1>4, <1>5 DEF Init, Shapes, Ports
<1>7. PortsOK /\ LinksOnce /\ OneFlitPerLink
  BY DEF Init, PortsOK, LinksOnce, OneFlitPerLink, OnTheWay, None, Wait, LinkDirns
<1> QED
  BY <1>6, <1>7 DEF IInv

\* Where permutation_CHIPPER may send a flit: a port that is available, which
\* no other flit of the router has, or nowhere.
LEMMA PortGranted ==
  ASSUME IInv, permutation_CHIPPER
  PROVE  \E f \in Flits :
           /\ port[f] = None /\ f \in Picked /\ f \in Turn
           /\ AllocateNonLocal(f) \/ AllocateLocal(f)
           /\ UNCHANGED <<setting, traffic, wave, status, router, inDirn, delay, toGold, invc>>
           /\ \E o \in ava(router[f]) \cup {Wait} :
                /\ port' = [port EXCEPT ![f] = o]
                /\ o = Wait => status[f] = "local"
<1>1. PICK f \in Turn :
        /\ AllocateNonLocal(f) \/ AllocateLocal(f)
        /\ UNCHANGED <<setting, traffic, wave, status, router, inDirn, delay, toGold, invc>>
  BY DEF permutation_CHIPPER
<1>2. f \in Flits /\ f \in Picked /\ port[f] = None
  BY DEF Turn, Pending, Picked
<1>3. getANonLocalOutport(router[f], inDirn[f]) \subseteq ava(router[f])
      /\ getANonLocalOutport(router[f], "Local") \subseteq ava(router[f])
  BY DEF getANonLocalOutport
<1>4. CASE AllocateNonLocal(f)
  <2>1. \E o \in ava(router[f]) : Granted(f, o)
    BY <1>3, <1>4 DEF AllocateNonLocal
  <2>2. Wait \notin ava(router[f])
    BY DEF ava, Driven, Links, Wait, LinkDirns
  <2> QED
    BY <1>1, <1>2, <2>1, <2>2 DEF Granted
<1>5. CASE AllocateLocal(f)
  BY <1>1, <1>2, <1>3, <1>5 DEF AllocateLocal, Granted
<1> QED
  BY <1>1, <1>4, <1>5

LEMMA AllocateIInv ==
  ASSUME IInv, permutation_CHIPPER
  PROVE  IInv'
<1>1. PICK f \in Flits :
           /\ port[f] = None /\ f \in Picked
           /\ UNCHANGED <<setting, traffic, wave, status, router, inDirn, delay, toGold>>
           /\ \E o \in ava(router[f]) \cup {Wait} :
                /\ port' = [port EXCEPT ![f] = o]
                /\ o = Wait => status[f] = "local"
  BY PortGranted
<1>2. PICK o \in ava(router[f]) \cup {Wait} :
                /\ port' = [port EXCEPT ![f] = o]
                /\ o = Wait => status[f] = "local"
  BY <1>1
<1>3. ava(router[f]) \subseteq Ports
  BY DEF ava, Driven, Links, Ports
<1>4. o \in LinkDirns => /\ HasNeighbor(router[f], o)
                         /\ \A g \in Flits : router[g] = router[f] => port[g] # o
  BY DEF ava, Driven, Links, Wait, LinkDirns
<1>5. status[f] = "local" \/ (status[f] = "network" /\ delay[f] = 0)
  BY <1>1 DEF Picked
<1>6. Shapes'
  BY <1>1, <1>2, <1>3 DEF IInv, Shapes
<1>7. PortsOK'
  <2>1. \A g \in Flits : port'[g] = IF g = f THEN o ELSE port[g]
    BY <1>2 DEF IInv, Shapes
  <2> QED
    BY <1>1, <1>2, <1>4, <1>5, <2>1 DEF IInv, PortsOK
<1>8. LinksOnce'
  <2>1. \A g \in Flits : port'[g] = IF g = f THEN o ELSE port[g]
    BY <1>2 DEF IInv, Shapes
  <2> QED
    BY <1>1, <1>4, <2>1 DEF IInv, LinksOnce
<1>9. OneFlitPerLink'
  BY <1>1 DEF IInv, OneFlitPerLink, OnTheWay
<1> QED
  BY <1>6, <1>7, <1>8, <1>9 DEF IInv

-----------------------------------------------------------------------------
\* What the end of a cycle does to each flit.
LEMMA FlitMoves ==
  ASSUME IInv, NEW E \in Sendings, NextCycle(E),
         NEW f \in Flits
  PROVE  /\ status'[f] = "network" <=>
               Leaves(f) \/ (status[f] = "network" /\ ~Leaves(f) /\ delay[f] > 0)
         /\ Leaves(f) => /\ router'[f] = Neighbor(router[f], port[f])
                         /\ inDirn'[f] = Opposite[port[f]]
                         /\ delay'[f] = HopCycles - 1
                         /\ delay[f] = 0 /\ status[f] \in {"local", "network"}
         /\ status[f] = "network" /\ ~Leaves(f) /\ delay[f] > 0 =>
               /\ router'[f] = router[f] /\ inDirn'[f] = inDirn[f]
               /\ delay'[f] = delay[f] - 1
         /\ ~Leaves(f) => router'[f] = router[f]
         /\ status'[f] # "network" => delay'[f] = 0
<1>1. /\ f \in E => status[f] = "interface"
      /\ port[f] # None => status[f] = "local" \/ (status[f] = "network" /\ delay[f] = 0)
      /\ port[f] = Wait => status[f] = "local"
      /\ status[f] # "network" => delay[f] = 0
  BY DEF MayEnter, Sendings, IInv, PortsOK
<1>2. delay[f] \in 0 .. HopCycles - 1 /\ HopCycles \in Nat \ {0}
      /\ port[f] \in LinkDirns \cup {"Local", None, Wait}
      /\ status[f] \in {"interface", "local", "network", "sink"}
  BY Parameters DEF IInv, Shapes, Ports
<1>3. status[f] = "network" /\ delay[f] = 0 => port[f] # None
  BY DEF NextCycle, Pending, Picked
<1>4. "Local" \notin LinkDirns /\ None \notin LinkDirns /\ Wait \notin LinkDirns
      /\ None # "Local" /\ Wait # "Local" /\ None # Wait
  BY DEF LinkDirns, None, Wait
<1>5. /\ status'[f] = CASE f \in E -> "local" [] Leaves(f) -> "network"
                         [] Ejects(f) -> "sink" [] OTHER -> status[f]
      /\ router'[f] = IF Leaves(f) THEN Neighbor(router[f], port[f]) ELSE router[f]
      /\ inDirn'[f] = CASE Leaves(f) -> Opposite[port[f]] [] Ejects(f) -> "Local"
                         [] OTHER -> inDirn[f]
      /\ delay'[f] = CASE Leaves(f) -> HopCycles - 1 [] delay[f] > 0 -> delay[f] - 1
                        [] OTHER -> 0
  BY DEF NextCycle
<1>6. Leaves(f) => delay[f] = 0 /\ status[f] \in {"local", "network"} /\ f \notin E
  BY <1>1, <1>4 DEF Leaves
<1>7. Ejects(f) => delay[f] = 0 /\ ~Leaves(f) /\ f \notin E
  BY <1>1, <1>4 DEF Leaves, Ejects
<1>8. status'[f] = "network" <=>
        Leaves(f) \/ (status[f] = "network" /\ ~Leaves(f) /\ delay[f] > 0)
  <2>1. CASE Leaves(f)
    BY <1>5, <1>6, <1>7, <2>1
  <2>2. CASE Ejects(f)
    BY <1>5, <1>7, <2>2
  <2>3. CASE ~Leaves(f) /\ ~Ejects(f)
    <3>1. status[f] = "network" => delay[f] > 0
      BY <1>1, <1>2, <1>3, <1>4, <2>3 DEF Leaves, Ejects
    <3> QED
      BY <1>1, <1>5, <2>3, <3>1
  <2> QED
    BY <2>1, <2>2, <2>3
<1>9. status'[f] # "network" => delay'[f] = 0
  BY <1>1, <1>2, <1>5, <1>6, <1>8
<1>10. delay[f] > 0 => ~Ejects(f) /\ ~Leaves(f)
  BY <1>6, <1>7
<1> QED
  BY <1>2, <1>5, <1>6, <1>8, <1>9, <1>10

\* Flits that leave by different links get to different input ports.
LEMMA LinksApart ==
  ASSUME NEW r \in Int, NEW s \in Int, NEW o \in LinkDirns, NEW e \in LinkDirns,
         Opposite[o] = Opposite[e], Neighbor(r, o) = Neighbor(s, e)
  PROVE  o = e /\ r = s
<1>1. o = e
  BY DEF Opposite, LinkDirns
<1>2. Cols \in Int
  BY MeshSize
<1> QED
  BY <1>1, <1>2 DEF Neighbor, LinkDirns

LEMMA CycleIInv ==
  ASSUME IInv, NEW E \in Sendings, NextCycle(E)
  PROVE  IInv'
<1>0. HopCycles \in Nat \ {0} /\ \A r \in Int, o \in LinkDirns : Neighbor(r, o) \in Int
  BY Parameters, MeshSize DEF Neighbor, LinkDirns
<1>1. \A f \in Flits : delay[f] \in 0 .. HopCycles - 1 /\ router[f] \in Int
  BY DEF IInv, Shapes
<1>2. Shapes'
  <2>1. traffic' \in Traffic /\ port' \in [Flits -> Ports \cup {None, Wait}]
        /\ inDirn' = [f \in Flits |-> inDirn'[f]]
    BY DEF NextCycle, IInv, Shapes
  <2>2. status' \in [Flits -> {"interface", "local", "network", "sink"}]
    BY DEF NextCycle, IInv, Shapes
  <2>3. router' \in [Flits -> Int]
    BY <1>0, <1>1 DEF NextCycle, Leaves
  <2>4. delay' \in [Flits -> 0 .. HopCycles - 1]
    BY <1>0, <1>1 DEF NextCycle
  <2>5. toGold' \in [Flits -> Nat]
    BY DEF NextCycle, IInv, Shapes
  <2> QED
    BY <2>1, <2>2, <2>3, <2>4, <2>5 DEF Shapes
<1>3. \A f \in Flits : port'[f] = None
  BY DEF NextCycle
<1>4. PortsOK'
  BY <1>3, FlitMoves DEF PortsOK, None, Wait, LinkDirns
<1>5. LinksOnce'
  BY <1>3 DEF LinksOnce, None, LinkDirns
<1>6. ASSUME NEW f \in Flits, NEW g \in Flits, f # g,
             status'[f] = "network", status'[g] = "network",
             router'[f] = router'[g], inDirn'[f] = inDirn'[g], delay'[f] = delay'[g]
      PROVE  FALSE
  <2>1. ASSUME NEW h \in Flits, NEW k \in Flits, Leaves(h), ~Leaves(k), status'[k] = "network"
        PROVE  delay'[h] # delay'[k]
    <3>1. delay'[h] = HopCycles - 1 /\ delay'[k] = delay[k] - 1
      BY <2>1, FlitMoves
    <3> QED
      BY <1>0, <1>1, <3>1
  <2>2. CASE Leaves(f) /\ Leaves(g)
    <3>1. /\ router'[f] = Neighbor(router[f], port[f]) /\ inDirn'[f] = Opposite[port[f]]
          /\ router'[g] = Neighbor(router[g], port[g]) /\ inDirn'[g] = Opposite[port[g]]
      BY <2>2, FlitMoves
    <3>2. port[f] \in LinkDirns /\ port[g] \in LinkDirns
      BY <2>2 DEF Leaves
    <3>3. port[f] = port[g] /\ router[f] = router[g]
      <4>1. /\ Opposite[port[f]] = Opposite[port[g]]
            /\ Neighbor(router[f], port[f]) = Neighbor(router[g], port[g])
        BY <1>6, <3>1
      <4>2. router[f] \in Int /\ router[g] \in Int
        BY <1>1
      <4> QED
        BY <3>2, <4>1, <4>2, LinksApart
    <3> QED
      BY <1>6, <3>2, <3>3 DEF IInv, LinksOnce
  <2>3. CASE ~Leaves(f) /\ ~Leaves(g)
    <3>1. /\ status[f] = "network" /\ status[g] = "network"
          /\ router'[f] = router[f] /\ inDirn'[f] = inDirn[f] /\ delay'[f] = delay[f] - 1
          /\ router'[g] = router[g] /\ inDirn'[g] = inDirn[g] /\ delay'[g] = delay[g] - 1
      BY <1>6, <2>3, FlitMoves
    <3>2. delay[f] = delay[g]
      <4>1. delay[f] - 1 = delay[g] - 1
        BY <1>6, <3>1
      <4>2. delay[f] \in Int /\ delay[g] \in Int
        BY <1>0, <1>1
      <4> QED
        BY <4>1, <4>2
    <3> QED
      BY <1>6, <3>1, <3>2 DEF IInv, OneFlitPerLink, OnTheWay
  <2> QED
    BY <1>6, <2>1, <2>2, <2>3
<1>7. OneFlitPerLink'
  BY <1>6 DEF OneFlitPerLink, OnTheWay
<1> QED
  BY <1>2, <1>4, <1>5, <1>7 DEF IInv

LEMMA Invariance == Spec => []IInv
<1>1. IInv /\ [Next]_vars => IInv'
  <2>1. CASE UNCHANGED vars
    BY <2>1 DEF IInv, Shapes, PortsOK, LinksOnce, OneFlitPerLink, OnTheWay, vars
  <2>2. ASSUME IInv, Next PROVE IInv'
    BY <2>2, AllocateIInv, CycleIInv DEF Next
  <2> QED
    BY <2>1, <2>2
<1> QED
  BY InitIInv, <1>1, PTL DEF Spec

\* In a network of any size, with any schedule and any choices of the routers,
\* two flits are never on one link in the same cycle.
THEOREM NoFlitIsLost == Spec => []OneFlitPerLink
<1>1. IInv => OneFlitPerLink
  BY DEF IInv
<1> QED
  BY <1>1, Invariance, PTL

-----------------------------------------------------------------------------
\* What a flit lacks to be gold is not more than its way home; a flit between
\* two routers has not counted the hop.
GoldOK ==
  \A f \in Flits :
    /\ status[f] \in {"interface", "local"} =>
         router[f] = src(f) /\ toGold[f] <= Distance(src(f), dest(f))
    /\ status[f] = "network" =>
         toGold[f] <= Distance(router[f], dest(f)) + (IF delay[f] > 0 THEN 1 ELSE 0)

\* No hop brings a flit nearer by more than one.
LEMMA HopDistance ==
  ASSUME Cols = 4, NEW r \in Int, NEW d \in Int, NEW o \in LinkDirns, HasNeighbor(r, o)
  PROVE  /\ Distance(r, d) \in Nat /\ Distance(Neighbor(r, o), d) \in Nat
         /\ Distance(r, d) <= Distance(Neighbor(r, o), d) + 1
<1>1. /\ X(r) \in Int /\ Y(r) \in Int /\ X(d) \in Int /\ Y(d) \in Int
  BY DEF X, Y
<1>2. CASE o = "East"
  <2>1. X(r) < 3
    BY <1>2 DEF HasNeighbor
  <2>2. X(r + 1) = X(r) + 1 /\ Y(r + 1) = Y(r)
    BY <2>1 DEF X, Y
  <2> QED
    BY <1>1, <1>2, <2>2 DEF Neighbor, Distance, Dist
<1>3. CASE o = "West"
  <2>1. X(r) > 0
    BY <1>3 DEF HasNeighbor
  <2>2. X(r - 1) = X(r) - 1 /\ Y(r - 1) = Y(r)
    BY <2>1 DEF X, Y
  <2> QED
    BY <1>1, <1>3, <2>2 DEF Neighbor, Distance, Dist
<1>4. CASE o = "North"
  <2>1. X(r + 4) = X(r) /\ Y(r + 4) = Y(r) + 1
    BY DEF X, Y
  <2> QED
    BY <1>1, <1>4, <2>1 DEF Neighbor, Distance, Dist
<1>5. CASE o = "South"
  <2>1. X(r - 4) = X(r) /\ Y(r - 4) = Y(r) - 1
    BY DEF X, Y
  <2> QED
    BY <1>1, <1>5, <2>1 DEF Neighbor, Distance, Dist
<1> QED
  BY <1>2, <1>3, <1>4, <1>5 DEF LinkDirns

\* Sources and destinations are routers.
LEMMA EndsOfTheWay ==
  ASSUME traffic \in Traffic, NEW f \in Flits
  PROVE  src(f) \in Int /\ dest(f) \in Int
  BY Parameters DEF Flits, src, dest, Routers

LEMMA InitGoldOK ==
  ASSUME Cols = 4, Init
  PROVE  GoldOK
<1>1. \A f \in Flits : GoldTh(src(f), dest(f)) = Distance(src(f), dest(f))
  <2> SUFFICES ASSUME NEW s \in Int, NEW d \in Int PROVE GoldTh(s, d) = Distance(s, d)
    BY EndsOfTheWay DEF Init
  <2>1. /\ Dist(s \div 4, d \div 4) \in Int /\ Dist(s % 4, d % 4) \in Int
        /\ X(s) = s % 4 /\ X(d) = d % 4 /\ Y(s) = s \div 4 /\ Y(d) = d \div 4
    BY DEF Dist, X, Y
  <2> QED
    BY <2>1 DEF GoldTh, Distance
<1>2. \A f \in Flits : Distance(src(f), dest(f)) \in Nat
  <2> SUFFICES ASSUME NEW f \in Flits PROVE Distance(src(f), dest(f)) \in Nat
    OBVIOUS
  <2>1. src(f) \in Int /\ dest(f) \in Int
    BY EndsOfTheWay DEF Init
  <2> QED
    BY <2>1 DEF Distance, Dist, X, Y
<1> QED
  BY <1>1, <1>2 DEF Init, GoldOK

LEMMA CycleGoldOK ==
  ASSUME Cols = 4, IInv, GoldOK, NEW E \in Sendings, NextCycle(E)
  PROVE  GoldOK'
<1> SUFFICES ASSUME NEW f \in Flits
             PROVE  /\ status'[f] \in {"interface", "local"} =>
                         /\ router'[f] = src(f)
                         /\ toGold'[f] <= Distance(src(f), dest(f))
                    /\ status'[f] = "network" =>
                         toGold'[f] <= Distance(router'[f], dest(f))
                                        + (IF delay'[f] > 0 THEN 1 ELSE 0)
  BY DEF GoldOK, NextCycle, src, dest
<1>1. /\ src(f) \in Int /\ dest(f) \in Int /\ router[f] \in Int
      /\ toGold[f] \in Nat /\ delay[f] \in 0 .. HopCycles - 1 /\ HopCycles \in Nat \ {0}
  BY EndsOfTheWay, Parameters DEF IInv, Shapes
<1>2. toGold'[f] = IF Lands(f) /\ toGold[f] > 0 THEN toGold[f] - 1 ELSE toGold[f]
  BY DEF NextCycle, IInv, Shapes
<1>3. CASE Leaves(f)
  <2>1. /\ router'[f] = Neighbor(router[f], port[f]) /\ delay'[f] = HopCycles - 1
        /\ delay[f] = 0 /\ status[f] \in {"local", "network"} /\ status'[f] = "network"
    BY <1>3, FlitMoves
  <2>2. port[f] \in LinkDirns /\ HasNeighbor(router[f], port[f])
    BY <1>3 DEF Leaves, IInv, PortsOK
  <2>3. /\ Distance(router[f], dest(f)) \in Nat /\ Distance(router'[f], dest(f)) \in Nat
        /\ Distance(router[f], dest(f)) <= Distance(router'[f], dest(f)) + 1
    BY <1>1, <2>1, <2>2, HopDistance
  <2>4. toGold[f] <= Distance(router[f], dest(f))
    BY <1>1, <2>1, <2>3 DEF GoldOK
  <2>5. Lands(f) <=> HopCycles = 1
    BY <1>3 DEF Lands
  <2> QED
    BY <1>1, <1>2, <2>1, <2>3, <2>4, <2>5
<1>4. CASE ~Leaves(f) /\ status[f] = "network"
  <2>1. Lands(f) <=> delay[f] = 1
    BY <1>4 DEF Lands
  <2>2. CASE status'[f] = "network"
    <3>1. router'[f] = router[f] /\ delay'[f] = delay[f] - 1 /\ delay[f] > 0
      BY <1>4, <2>2, FlitMoves
    <3>2. toGold[f] <= Distance(router[f], dest(f)) + 1
      BY <1>4, <3>1 DEF GoldOK
    <3>3. Distance(router[f], dest(f)) \in Nat
      BY <1>1 DEF Distance, Dist, X, Y
    <3> QED
      BY <1>1, <1>2, <2>1, <2>2, <3>1, <3>2, <3>3
  <2>3. CASE status'[f] # "network"
    <3>1. status'[f] = "sink"
      BY <1>4, <2>3 DEF NextCycle, MayEnter, Sendings, IInv, Shapes
    <3> QED
      BY <3>1
  <2> QED
    BY <2>2, <2>3
<1>5. CASE ~Leaves(f) /\ status[f] # "network"
  <2>1. status'[f] # "network" /\ router'[f] = router[f] /\ delay[f] = 0
    BY <1>5, FlitMoves DEF IInv, PortsOK
  <2>2. toGold'[f] = toGold[f]
    BY <1>2, <1>5, <2>1 DEF Lands
  <2>3. status'[f] \in {"interface", "local"} => status[f] \in {"interface", "local"}
    BY <1>5 DEF NextCycle, MayEnter, Sendings, IInv, Shapes
  <2> QED
    BY <2>1, <2>2, <2>3 DEF GoldOK
<1> QED
  BY <1>3, <1>4, <1>5

\* In a mesh of four columns, with any number of rows, a flit that gets home is
\* gold there, however often it was deflected.
THEOREM HomeIsGold ==
  ASSUME Cols = 4
  PROVE  Spec => []GoldAtHome
<1>1. IInv /\ GoldOK /\ [Next]_vars => GoldOK'
  <2>1. CASE UNCHANGED vars
    BY <2>1 DEF GoldOK, vars, src, dest
  <2>2. ASSUME IInv, GoldOK, permutation_CHIPPER PROVE GoldOK'
    BY <2>2 DEF permutation_CHIPPER, GoldOK, src, dest
  <2>3. ASSUME IInv, GoldOK, NEW E \in Sendings, NextCycle(E)
        PROVE  GoldOK'
    BY <2>3, CycleGoldOK
  <2> QED
    BY <2>1, <2>2, <2>3 DEF Next
<1>2. IInv /\ GoldOK => GoldAtHome
  <2> SUFFICES ASSUME IInv, GoldOK, NEW f \in OnTheWay, router[f] = dest(f), delay[f] = 0
               PROVE  toGold[f] = 0
    BY DEF GoldAtHome, gold
  <2>1. dest(f) \in Int /\ toGold[f] \in Nat
    BY EndsOfTheWay DEF IInv, Shapes, OnTheWay
  <2>2. Distance(dest(f), dest(f)) = 0
    BY <2>1 DEF Distance, Dist, X, Y
  <2> QED
    BY <2>1, <2>2 DEF GoldOK, OnTheWay
<1>3. Init => GoldOK
  BY InitGoldOK
<1> QED
  BY <1>1, <1>2, <1>3, Invariance, PTL DEF Spec

-----------------------------------------------------------------------------
(***************************************************************************)
(* Every flit that has come by a link has a link to leave by.  At most one *)
(* flit comes by a link of the wave, no flit of the Local port gets a link *)
(* before them, and each of them takes one link away.                      *)
(***************************************************************************)
\* Where a flit may be at which wave.
WavesOK ==
  /\ setting \in Settings /\ wave \in 0 .. setting.WaveNum - 1
  /\ \A f \in Flits : router[f] \in Routers
  /\ \A f \in OnTheWay :
       /\ inDirn[f] \in Links(router[f])
       /\ Opposite[inDirn[f]] \in
            Driven(setting, Neighbor(router[f], inDirn[f]),
                   (wave - (HopCycles - delay[f])) % setting.WaveNum)
  /\ \A f \in Flits :
       port[f] \in LinkDirns => port[f] \in Driven(setting, router[f], wave)

\* Who has a port has it before those that are still without.
InTurn ==
  \A f \in Pending, g \in Flits :
    port[g] # None /\ router[g] = router[f] => NoLater(g, f)

\* No flit is gold before its first hop.
NoneBornGold ==
  \A f \in Flits : status[f] \in {"interface", "local"} => toGold[f] > 0

\* The flits that have come to router r by a link.
Arrived(r) == {f \in OnTheWay : router[f] = r /\ delay[f] = 0}

WInv == IInv /\ WavesOK /\ InTurn /\ NoneBornGold

LEMMA Product ==
  ASSUME NEW a \in Int, NEW b \in Int, NEW c \in Nat, a <= b
  PROVE  a * c <= b * c /\ a * c \in Int /\ (a + 1) * c = a * c + c
         /\ (a - 1) * c = a * c - c
  BY SMTT(30)

\* Row and column of a number.
LEMMA Column ==
  ASSUME NEW c \in Nat \ {0}, NEW q \in Int, NEW m \in 0 .. c - 1,
         NEW r \in Int, r = q * c + m
  PROVE  r % c = m /\ r \div c = q
  BY SMTT(30)

LEMMA Place ==
  ASSUME NEW x \in 0 .. Cols - 1, NEW y \in Int, NEW r \in Int, r = y * Cols + x
  PROVE  X(r) = x /\ Y(r) = y
<1>1. Cols \in Nat \ {0}
  BY MeshSize
<1>2. r % Cols = x /\ r \div Cols = y
  BY <1>1, Column
<1> QED
  BY <1>2 DEF X, Y

\* A link leads to a router of the mesh, and there is one back.
LEMMA AcrossLink ==
  ASSUME NEW r \in Routers, NEW o \in Links(r)
  PROVE  /\ Neighbor(r, o) \in Routers
         /\ Opposite[o] \in Links(Neighbor(r, o))
         /\ Neighbor(Neighbor(r, o), Opposite[o]) = r
<1> DEFINE q == r \div Cols
           m == r % Cols
           size == Cols * Rows
<1>1. Cols \in Nat \ {0} /\ Rows \in Nat \ {0} /\ size \in Nat /\ size = Rows * Cols
  BY MeshSize, SMTT(30)
<1>2. r \in Nat /\ r < size /\ Routers = 0 .. size - 1
  BY <1>1 DEF Routers
<1>3. q \in Nat /\ m \in 0 .. Cols - 1 /\ r = q * Cols + m
  BY <1>1, <1>2, SMTT(30)
<1>4. X(r) = m /\ Y(r) = q
  BY DEF X, Y
<1> HIDE DEF q, m, size
<1>5. q * Cols \in Nat /\ (q + 1) * Cols = q * Cols + Cols /\ (q - 1) * Cols = q * Cols - Cols
  BY <1>1, <1>3, SMTT(30)
<1>6. q < Rows
  <2> SUFFICES ASSUME Rows <= q PROVE FALSE
    BY <1>1, <1>3
  <2>1. Rows * Cols <= q * Cols
    BY <1>1, <1>3, Product
  <2> QED
    BY <1>1, <1>2, <1>3, <1>5, <2>1
<1>7. (q + 1) * Cols <= size
  BY <1>1, <1>3, <1>6, Product
<1>8. o \in LinkDirns /\ HasNeighbor(r, o)
  BY DEF Links
<1>9. CASE o = "East"
  <2>1. m < Cols - 1
    BY <1>4, <1>9, <1>8 DEF HasNeighbor
  <2>2. r + 1 = q * Cols + (m + 1) /\ m + 1 \in 0 .. Cols - 1 /\ r + 1 \in Routers /\ r + 1 \in Int
    BY <1>1, <1>2, <1>3, <1>5, <1>7, <2>1
  <2>3. X(r + 1) = m + 1
    <3> DEFINE n == r + 1
               x == m + 1
    <3>1. n \in Int /\ x \in 0 .. Cols - 1 /\ n = q * Cols + x /\ q \in Int
      BY <1>1, <1>3, <2>2
    <3> HIDE DEF n, x
    <3>2. X(n) = x
      BY <3>1, Place
    <3> QED
      BY <3>2 DEF n, x
  <2> QED
    BY <1>1, <1>2, <1>3, <1>9, <2>2, <2>3 DEF Links, HasNeighbor, Neighbor, Opposite, LinkDirns
<1>10. CASE o = "West"
  <2>1. m > 0
    BY <1>4, <1>8, <1>10 DEF HasNeighbor
  <2>2. r - 1 = q * Cols + (m - 1) /\ m - 1 \in 0 .. Cols - 1 /\ r - 1 \in Routers /\ r - 1 \in Int
    BY <1>1, <1>2, <1>3, <1>5, <2>1
  <2>3. X(r - 1) = m - 1
    <3> DEFINE n == r - 1
               x == m - 1
    <3>1. n \in Int /\ x \in 0 .. Cols - 1 /\ n = q * Cols + x /\ q \in Int
      BY <1>1, <1>3, <2>2
    <3> HIDE DEF n, x
    <3>2. X(n) = x
      BY <3>1, Place
    <3> QED
      BY <3>2 DEF n, x
  <2> QED
    BY <1>1, <1>2, <1>3, <1>10, <2>2, <2>3 DEF Links, HasNeighbor, Neighbor, Opposite, LinkDirns
<1>11. CASE o = "North"
  <2>1. q + 1 < Rows
    BY <1>1, <1>3, <1>4, <1>8, <1>11 DEF HasNeighbor
  <2>2. ((q + 1) + 1) * Cols <= size /\ ((q + 1) + 1) * Cols = (q + 1) * Cols + Cols
    BY <1>1, <1>3, <2>1, Product
  <2>3. r + Cols = (q + 1) * Cols + m /\ r + Cols \in Routers /\ r + Cols \in Int
        /\ q + 1 \in Int
    BY <1>1, <1>2, <1>3, <1>5, <2>2
  <2>4. Y(r + Cols) = q + 1
    BY <1>1, <1>2, <1>3, <2>3, Place
  <2> QED
    BY <1>1, <1>2, <1>3, <1>11, <2>3, <2>4 DEF Links, HasNeighbor, Neighbor, Opposite, LinkDirns
<1>12. CASE o = "South"
  <2>1. q > 0
    BY <1>4, <1>8, <1>12 DEF HasNeighbor
  <2>2. (q - 1) * Cols >= 0
    BY <1>1, <1>3, <2>1, SMTT(30)
  <2>3. r - Cols = (q - 1) * Cols + m /\ r - Cols \in Routers /\ r - Cols \in Int
        /\ q - 1 \in Int
    BY <1>1, <1>2, <1>3, <1>5, <2>2
  <2>4. Y(r - Cols) = q - 1
    BY <1>1, <1>2, <1>3, <2>3, Place
  <2>5. Neighbor(r, o) = r - Cols /\ Opposite[o] = "North"
        /\ Neighbor(r - Cols, "North") = (r - Cols) + Cols
    BY <1>12 DEF Neighbor, Opposite
  <2>6. (r - Cols) + Cols = r
    BY <1>1, <1>2
  <2>7. HasNeighbor(r - Cols, "North")
    BY <1>1, <1>3, <1>6, <2>4 DEF HasNeighbor
  <2> QED
    BY <2>3, <2>5, <2>6, <2>7 DEF Links, LinkDirns
<1> QED
  BY <1>8, <1>9, <1>10, <1>11, <1>12 DEF LinkDirns

\* The wave a flit has left in, seen a cycle later.
LEMMA WaveBefore ==
  ASSUME NEW n \in Nat \ {0}, NEW w \in 0 .. n - 1, NEW k \in Nat
  PROVE  (((w + 1) % n) - (k + 1)) % n = (w - k) % n
<1>1. CASE w + 1 < n
  <2>1. (w + 1) % n = w + 1
    BY <1>1
  <2> QED
    BY <2>1
<1>2. CASE w + 1 = n
  <2>1. (w + 1) % n = 0
    BY <1>2, SMTT(30)
  <2> DEFINE x == w - k
             q == x \div n
             m == x % n
  <2>2. x \in Int /\ q \in Int /\ m \in 0 .. n - 1 /\ x = q * n + m
    BY SMTT(30)
  <2>3. 0 - (k + 1) = x - n
    BY <1>2
  <2> HIDE DEF x, q, m
  <2>4. (q - 1) * n = q * n - n /\ q * n \in Int
    BY <2>2, SMTT(30)
  <2>5. x - n = (q - 1) * n + m
    BY <2>2, <2>4
  <2>6. (x - n) % n = m
    BY <2>2, <2>5, Column
  <2> QED
    BY <2>1, <2>3, <2>6 DEF m, x
<1> QED
  BY <1>1, <1>2

LEMMA InitWInv ==
  ASSUME Init
  PROVE  WInv
<1>1. setting \in Settings /\ setting.WaveNum \in Nat \ {0}
  BY Parameters DEF Init, Setting
<1>2. \A f \in Flits : src(f) \in Routers /\ dest(f) \in Routers /\ src(f) # dest(f)
  BY Parameters DEF Init, Flits, src, dest
<1>3. \A f \in Flits : port[f] = None /\ f \notin OnTheWay
  BY DEF Init, OnTheWay
<1>4. WavesOK
  <2>1. None \notin LinkDirns /\ 0 \in 0 .. setting.WaveNum - 1 /\ wave = 0
    BY <1>1 DEF Init, None, LinkDirns
  <2>2. \A f \in Flits : router[f] \in Routers
    BY <1>2 DEF Init
  <2>3. OnTheWay = {}
    BY <1>3 DEF OnTheWay
  <2> QED
    BY <1>1, <1>3, <2>1, <2>2, <2>3 DEF WavesOK
<1>5. InTurn
  BY <1>3 DEF InTurn
<1>6. NoneBornGold
  <2> SUFFICES ASSUME NEW s \in Int, NEW d \in Int, s # d PROVE GoldTh(s, d) > 0
    BY <1>2 DEF Init, NoneBornGold, Routers
  <2>1. s = 4 * (s \div 4) + (s % 4) /\ d = 4 * (d \div 4) + (d % 4)
    BY SMTT(30)
  <2> QED
    BY <2>1 DEF GoldTh, Dist
<1> QED
  BY <1>4, <1>5, <1>6, InitIInv DEF WInv

LEMMA AllocateWInv ==
  ASSUME WInv, permutation_CHIPPER
  PROVE  WInv'
<1>1. IInv'
  BY AllocateIInv DEF WInv
<1>2. PICK f \in Flits :
        /\ port[f] = None /\ f \in Turn
        /\ UNCHANGED <<setting, traffic, wave, status, router, inDirn, delay, toGold, invc>>
        /\ \E o \in ava(router[f]) \cup {Wait} : port' = [port EXCEPT ![f] = o]
  BY PortGranted DEF WInv
<1>3. PICK o \in ava(router[f]) \cup {Wait} : port' = [port EXCEPT ![f] = o]
  BY <1>2
<1>4. /\ o \in LinkDirns => o \in Driven(setting, router[f], wave)
      /\ \A g \in Flits : port'[g] = IF g = f THEN o ELSE port[g]
      /\ o # None
  BY <1>3 DEF ava, WInv, IInv, Shapes, Wait, None, LinkDirns, Driven, Links
<1>5. WavesOK'
  BY <1>2, <1>4 DEF WInv, WavesOK, OnTheWay, Driven, Links
<1>6. NoneBornGold'
  BY <1>2 DEF WInv, NoneBornGold
<1>7. InTurn'
  <2> SUFFICES ASSUME NEW h \in Pending', NEW g \in Flits, port'[g] # None,
                      router[g] = router[h]
               PROVE  NoLater(g, h)
    BY <1>2 DEF InTurn, NoLater, gold
  <2>1. Picked' = Picked
    BY <1>2 DEF Picked, Local, Turns, vnet
  <2>2. h \in Pending /\ h # f
    BY <1>4, <2>1 DEF Pending, Picked
  <2>3. CASE g = f
    <3>1. h \in Flits /\ \A k \in Pending : router[f] <= router[k]
      BY <1>2, <2>2 DEF Turn, Pending, Picked
    <3>2. \A k \in Pending : router[h] <= router[k]
      BY <2>3, <3>1
    <3> QED
      BY <1>2, <2>2, <2>3, <3>2 DEF Turn
  <2>4. CASE g # f
    BY <1>4, <2>2, <2>4 DEF WInv, InTurn
  <2> QED
    BY <2>3, <2>4
<1> QED
  BY <1>1, <1>5, <1>6, <1>7 DEF WInv

LEMMA CycleWInv ==
  ASSUME WInv, NEW E \in Sendings, NextCycle(E)
  PROVE  WInv'
<1> DEFINE n == setting.WaveNum
<1>0. /\ n \in Nat \ {0} /\ HopCycles \in Nat \ {0} /\ wave \in 0 .. n - 1
      /\ \A f \in Flits : delay[f] \in 0 .. HopCycles - 1
      /\ setting' = setting /\ wave' = (wave + 1) % n
  BY Parameters DEF WInv, WavesOK, Setting, NextCycle, IInv, Shapes
<1> HIDE DEF n
<1>1. IInv'
  BY CycleIInv DEF WInv
<1>2. ASSUME NEW f \in Flits, Leaves(f)
      PROVE  LET u == router[f]
             IN /\ u \in Routers /\ port[f] \in Driven(setting, u, wave)
                /\ router'[f] \in Routers /\ inDirn'[f] \in Links(router'[f])
                /\ Neighbor(router'[f], inDirn'[f]) = u /\ Opposite[inDirn'[f]] = port[f]
                /\ delay'[f] = HopCycles - 1
  <2>1. router[f] \in Routers /\ port[f] \in LinkDirns /\ port[f] \in Driven(setting, router[f], wave)
    BY <1>2 DEF WInv, WavesOK, Leaves
  <2>2. port[f] \in Links(router[f])
    BY <2>1 DEF Driven
  <2>3. /\ router'[f] = Neighbor(router[f], port[f]) /\ inDirn'[f] = Opposite[port[f]]
        /\ delay'[f] = HopCycles - 1
    BY <1>2, FlitMoves DEF WInv
  <2>4. Opposite[Opposite[port[f]]] = port[f]
    BY <2>1 DEF Opposite, LinkDirns
  <2> QED
    BY <2>1, <2>2, <2>3, <2>4, AcrossLink
<1>3. ASSUME NEW f \in Flits, status'[f] = "network"
      PROVE  /\ inDirn'[f] \in Links(router'[f])
             /\ Opposite[inDirn'[f]] \in
                  Driven(setting, Neighbor(router'[f], inDirn'[f]),
                         (wave' - (HopCycles - delay'[f])) % n)
  <2>1. CASE Leaves(f)
    <3>1. HopCycles - delay'[f] = 0 + 1
      BY <1>0, <1>2, <2>1
    <3>2. (wave' - (0 + 1)) % n = (wave - 0) % n
      BY <1>0, WaveBefore
    <3>3. (wave - 0) % n = wave
      BY <1>0
    <3> QED
      BY <1>2, <2>1, <3>1, <3>2, <3>3
  <2>2. CASE ~Leaves(f)
    <3>1. /\ status[f] = "network" /\ delay[f] > 0
          /\ router'[f] = router[f] /\ inDirn'[f] = inDirn[f] /\ delay'[f] = delay[f] - 1
      BY <1>3, <2>2, FlitMoves DEF WInv
    <3> DEFINE k == HopCycles - delay[f]
    <3>2. k \in Nat /\ HopCycles - delay'[f] = k + 1
      BY <1>0, <3>1
    <3> HIDE DEF k
    <3>3. (wave' - (k + 1)) % n = (wave - k) % n
      BY <1>0, <3>2, WaveBefore
    <3>4. /\ inDirn[f] \in Links(router[f])
          /\ Opposite[inDirn[f]] \in
               Driven(setting, Neighbor(router[f], inDirn[f]), (wave - k) % n)
      BY <3>1 DEF WInv, WavesOK, OnTheWay, k, n
    <3> QED
      BY <3>1, <3>2, <3>3, <3>4
  <2> QED
    BY <2>1, <2>2
<1>4. \A f \in Flits : router'[f] \in Routers
  BY <1>2, FlitMoves DEF WInv, WavesOK
<1>5. \A f \in Flits : port'[f] = None
  BY DEF NextCycle
<1>6. wave' \in 0 .. n - 1
  BY <1>0
<1>7. WavesOK'
  <2>1. setting' \in Settings
    BY <1>0 DEF WInv, WavesOK
  <2>2. \A f \in OnTheWay' : f \in Flits /\ status'[f] = "network"
    BY DEF OnTheWay
  <2>3. None \notin LinkDirns
    BY DEF None, LinkDirns
  <2> QED
    BY <1>0, <1>3, <1>4, <1>5, <1>6, <2>1, <2>2, <2>3 DEF WavesOK, n
<1>8. InTurn'
  BY <1>5 DEF InTurn
<1>9. NoneBornGold'
  <2> SUFFICES ASSUME NEW f \in Flits, status'[f] \in {"interface", "local"}
               PROVE  toGold'[f] > 0
    BY DEF NoneBornGold
  <2>1. (~Leaves(f) /\ ~Ejects(f)) \/ f \in E
    BY DEF NextCycle, Leaves, Ejects
  <2>2. f \in E => status[f] = "interface"
    BY DEF Sendings, MayEnter
  <2>3. status[f] \in {"interface", "local"}
    BY <2>1, <2>2 DEF NextCycle
  <2>4. ~Lands(f)
    <3>1. ~Leaves(f)
      BY <2>1, <2>2 DEF WInv, IInv, PortsOK, Leaves, None, LinkDirns
    <3>2. delay[f] = 0
      BY <2>3 DEF WInv, IInv, PortsOK
    <3> QED
      BY <3>1, <3>2 DEF Lands
  <2>5. toGold'[f] = toGold[f] /\ toGold[f] > 0
    BY <2>3, <2>4 DEF NextCycle, WInv, NoneBornGold
  <2> QED
    BY <2>5
<1> QED
  BY <1>1, <1>7, <1>8, <1>9 DEF WInv

LEMMA WavesInvariance == Spec => []WInv
<1>1. Init => WInv
  BY InitWInv
<1>2. WInv /\ [Next]_vars => WInv'
  <2>1. CASE UNCHANGED vars
    BY <2>1 DEF WInv, IInv, Shapes, PortsOK, LinksOnce, OneFlitPerLink, OnTheWay, WavesOK,
                InTurn, NoneBornGold, Pending, Picked, Local, Turns, vnet, NoLater, gold, vars
  <2>2. ASSUME WInv, Next PROVE WInv'
    BY <2>2, AllocateWInv, CycleWInv DEF Next
  <2> QED
    BY <2>1, <2>2
<1> QED
  BY <1>1, <1>2, PTL DEF Spec

\* Flits that have come by links are not more than the links of this wave.
LEMMA ArrivalsFit ==
  ASSUME WInv, NEW r \in Routers
  PROVE  /\ IsFiniteSet(Arrived(r)) /\ IsFiniteSet(Driven(setting, r, wave))
         /\ Cardinality(Arrived(r)) <= Cardinality(Driven(setting, r, wave))
<1> DEFINE A == Arrived(r)
           D == Delivering(setting, r, wave)
           h == [f \in A |-> inDirn[f]]
<1>1. h \in Injection(A, D)
  <2>1. ASSUME NEW f \in A PROVE inDirn[f] \in D
    <3>1. f \in OnTheWay /\ router[f] = r /\ delay[f] = 0
      BY DEF Arrived
    <3>2. HopCycles - 0 = HopCycles
      BY Parameters
    <3> QED
      BY <3>1, <3>2 DEF WInv, WavesOK, Delivering
  <2>2. ASSUME NEW f \in A, NEW g \in A, inDirn[f] = inDirn[g] PROVE f = g
    BY <2>2 DEF Arrived, WInv, IInv, OneFlitPerLink
  <2> HIDE DEF A, D
  <2> QED
    BY <2>1, <2>2 DEF Injection, IsInjective
<1>2. IsFiniteSet(LinkDirns)
  <2>1. IsFiniteSet({"North"})
    BY FS_Singleton
  <2>2. IsFiniteSet({"North"} \cup {"South"})
    BY <2>1, FS_AddElement
  <2>3. IsFiniteSet({"North"} \cup {"South"} \cup {"East"})
    BY <2>2, FS_AddElement
  <2>4. IsFiniteSet({"North"} \cup {"South"} \cup {"East"} \cup {"West"})
    BY <2>3, FS_AddElement
  <2>5. LinkDirns = {"North"} \cup {"South"} \cup {"East"} \cup {"West"}
    BY DEF LinkDirns
  <2> QED
    BY <2>4, <2>5
<1>3. D \in SUBSET LinkDirns /\ Driven(setting, r, wave) \in SUBSET LinkDirns
  BY DEF Delivering, Driven, Links
<1>4. IsFiniteSet(D) /\ IsFiniteSet(Driven(setting, r, wave))
  BY <1>2, <1>3, FS_Subset
<1>5. Cardinality(D) <= Cardinality(Driven(setting, r, wave))
  BY NoOverload DEF WInv, WavesOK
<1>6. IsFiniteSet(A) /\ Cardinality(A) <= Cardinality(D)
  <2> HIDE DEF A, D, h
  <2> QED
    BY <1>1, <1>4, FS_Injection
<1>7. Cardinality(A) \in Nat /\ Cardinality(D) \in Nat
      /\ Cardinality(Driven(setting, r, wave)) \in Nat
  BY <1>4, <1>6, FS_CardinalityType
<1> QED
  BY <1>4, <1>5, <1>6, <1>7

\* In a bufferless network of any size and any traffic, with any schedule under
\* which a router is sent no more flits than it may send on, the allocation
\* never comes to a flit for which no link is left.
THEOREM AlwaysALink == Spec => []NobodyWithoutALink
<1>1. WInv => NobodyWithoutALink
  <2> SUFFICES ASSUME WInv, NEW f \in Pending \cap OnTheWay,
                      getANonLocalOutport(router[f], inDirn[f]) = {}
               PROVE  FALSE
    BY DEF NobodyWithoutALink
  <2> DEFINE r == router[f]
             A == Arrived(r)
             B == A \ {f}
             D == Driven(setting, r, wave)
             k == [o \in D |-> CHOOSE g \in B : port[g] = o]
  <2>1. f \in A /\ f \in Flits /\ r \in Routers
    BY DEF Pending, Picked, OnTheWay, Arrived, WInv, WavesOK
  <2>2. ASSUME NEW o \in D PROVE \E g \in B : port[g] = o
    <3>1. o \in LinkDirns /\ o # "Local" /\ o # None
      BY DEF Driven, Links, LinkDirns, None
    <3>2. o \notin ava(r)
      BY <3>1 DEF getANonLocalOutport
    <3>3. PICK g \in Flits : router[g] = r /\ port[g] = o
      BY <3>2 DEF ava
    <3>4. NoLater(g, f) /\ g # f
      BY <3>1, <3>3 DEF WInv, InTurn, Pending
    <3>5. status[g] # "local"
      <4> SUFFICES ASSUME status[g] = "local" PROVE FALSE
        OBVIOUS
      <4>1. ~gold(g)
        BY DEF WInv, NoneBornGold, gold, IInv, Shapes
      <4>2. status[f] = "network"
        BY DEF OnTheWay
      <4> QED
        BY <3>4, <4>1, <4>2 DEF NoLater
    <3>6. status[g] = "network" /\ delay[g] = 0
      BY <3>1, <3>3, <3>5 DEF WInv, IInv, PortsOK
    <3>7. g \in B
      BY <3>3, <3>4, <3>6 DEF Arrived, OnTheWay
    <3> QED
      BY <3>3, <3>7
  <2>3. k \in Injection(D, B)
    <3> HIDE DEF D, B
    <3>1. \A o \in D : k[o] \in B /\ port[k[o]] = o
      BY <2>2
    <3> HIDE DEF k
    <3>2. \A o, e \in D : k[o] = k[e] => o = e
      BY <3>1
    <3>3. k \in [D -> B]
      BY <3>1 DEF k
    <3> QED
      BY <3>2, <3>3 DEF Injection, IsInjective
  <2>4. /\ IsFiniteSet(A) /\ IsFiniteSet(D) /\ Cardinality(A) <= Cardinality(D)
    BY <2>1, ArrivalsFit
  <2> HIDE DEF A, D, k
  <2>5. IsFiniteSet(B) /\ Cardinality(B) = Cardinality(A) - 1
    BY <2>1, <2>4, FS_RemoveElement
  <2> HIDE DEF B
  <2>6. Cardinality(D) <= Cardinality(B)
    BY <2>3, <2>5, FS_Injection
  <2>7. Cardinality(A) \in Nat /\ Cardinality(B) \in Nat /\ Cardinality(D) \in Nat
    BY <2>4, <2>5, FS_CardinalityType
  <2> QED
    BY <2>4, <2>5, <2>6, <2>7
<1> QED
  BY <1>1, WavesInvariance, PTL

-----------------------------------------------------------------------------
(***************************************************************************)
(* Gold flits keep their course.  A flit that is gold before all others at *)
(* its router is the first to choose, and among all links with DEFLECTION_ *)
(* those of the shortest ways are there to be chosen.                      *)
(***************************************************************************)
\* It has a port it prefers, unless that is back where it came from.
GoldPorts ==
  \A f \in Flits :
    ~setting.Tdm /\ First(f) /\ port[f] # None =>
      \E o \in Preferred(router[f], inDirn[f], dest(f)) :
        o # inDirn[f] => port[f] = o

\* Whatever has a port at the router of a first gold flit has one that the flit
\* does not get later.
LEMMA FirstHasAll ==
  ASSUME WInv, NEW f \in Pending, First(f), ~setting.Tdm,
         NEW o \in Preferred(router[f], inDirn[f], dest(f))
  PROVE  o \in ava(router[f])
<1>1. o \in Links(router[f]) \cup {"Local"}
  BY DEF Preferred, lookupRoutingTable
<1>2. Driven(setting, router[f], wave) = Links(router[f])
  BY DEF Driven
<1>3. ASSUME NEW g \in Flits, router[g] = router[f], port[g] = o
      PROVE  FALSE
  <2>1. o # None /\ o # Wait
    BY <1>1 DEF Links, LinkDirns, None, Wait
  <2>2. NoLater(g, f) /\ gold(f) /\ port[f] = None
    BY <1>3, <2>1 DEF WInv, InTurn, First, Pending
  <2>3. gold(g) /\ g.id <= f.id
    BY <2>2 DEF NoLater
  <2>4. status[g] # "local"
    BY <2>3 DEF WInv, NoneBornGold, gold, IInv, Shapes
  <2>5. g \in Picked /\ g # f
    BY <1>3, <2>1, <2>2, <2>4 DEF WInv, IInv, PortsOK, Picked
  <2>6. f.id < g.id
    BY <1>3, <2>3, <2>5 DEF First
  <2>7. f.id \in Nat /\ g.id \in Nat
    BY Parameters DEF First, Picked, Flits
  <2> QED
    BY <2>3, <2>6, <2>7
<1> QED
  BY <1>1, <1>2, <1>3 DEF ava

LEMMA AllocateGoldPorts ==
  ASSUME WInv, GoldPorts, permutation_CHIPPER
  PROVE  GoldPorts'
<1>1. PICK f \in Flits :
        /\ f \in Pending /\ port[f] = None
        /\ AllocateNonLocal(f) \/ AllocateLocal(f)
        /\ UNCHANGED <<setting, traffic, wave, status, router, inDirn, delay, toGold, invc>>
        /\ \E o \in ava(router[f]) \cup {Wait} : port' = [port EXCEPT ![f] = o]
  BY PortGranted DEF WInv, Pending
<1>2. \A g \in Flits \ {f} : port'[g] = port[g]
  BY <1>1 DEF WInv, IInv, Shapes
<1>3. Picked' = Picked /\ OnTheWay' = OnTheWay
  BY <1>1 DEF Picked, Local, Turns, vnet, OnTheWay
<1>4. \A h \in Flits : First(h)' <=> First(h)
  BY <1>1, <1>3 DEF First, gold
<1>5. \A h \in Flits :
        Preferred(router[h], inDirn[h], dest(h))' = Preferred(router[h], inDirn[h], dest(h))
  BY <1>1 DEF Preferred, dest
<1>6. ASSUME ~setting.Tdm, First(f)
      PROVE  \E o \in Preferred(router[f], inDirn[f], dest(f)) :
               o # inDirn[f] => port'[f] = o
  <2>1. AllocateNonLocal(f)
    BY <1>1, <1>6 DEF First, OnTheWay, AllocateLocal
  <2>2. PICK o \in Preferred(router[f], inDirn[f], dest(f)) :
          o \in ava(router[f]) /\ o # inDirn[f] => Granted(f, o)
    BY <2>1 DEF AllocateNonLocal
  <2>3. o \in ava(router[f])
    BY <1>1, <1>6, FirstHasAll
  <2>4. o # inDirn[f] => port'[f] = o
    BY <2>2, <2>3 DEF Granted, WInv, IInv, Shapes
  <2> QED
    BY <2>4
<1> QED
  <2> SUFFICES ASSUME NEW h \in Flits, ~setting'.Tdm, First(h)', port'[h] # None
               PROVE  \E o \in Preferred(router[h], inDirn[h], dest(h))' :
                        o # inDirn'[h] => port'[h] = o
    BY DEF GoldPorts
  <2>1. ~setting.Tdm /\ First(h) /\ inDirn' = inDirn
    BY <1>1, <1>4
  <2>2. CASE h = f
    BY <1>5, <1>6, <2>1, <2>2
  <2>3. CASE h # f
    BY <1>2, <1>5, <2>1, <2>3 DEF GoldPorts
  <2> QED
    BY <2>2, <2>3

LEMMA GoldPortsInvariance == Spec => []GoldPorts
<1>1. Init => GoldPorts
  BY DEF Init, GoldPorts
<1>2. WInv /\ GoldPorts /\ [Next]_vars => GoldPorts'
  <2>1. CASE UNCHANGED vars
    BY <2>1 DEF GoldPorts, First, Picked, OnTheWay, gold, Local, Turns, vnet, Preferred, dest, vars
  <2>2. ASSUME NEW E \in Sendings, NextCycle(E) PROVE GoldPorts'
    BY <2>2 DEF NextCycle, GoldPorts
  <2> QED
    BY <2>1, <2>2, AllocateGoldPorts DEF Next
<1> QED
  BY <1>1, <1>2, WavesInvariance, PTL DEF Spec

\* The cycle of a flit that is first among the gold ones at its router.
LEMMA CycleKeepsCourse ==
  ASSUME WInv, GoldPorts, NEW E \in Sendings, NextCycle(E), NEW f \in Flits,
         ~setting.Tdm, First(f), OnCourse(f)
  PROVE  IF router[f] = dest(f) THEN status'[f] = "sink"
         ELSE status'[f] = "network" /\ OnCourse(f)'
<1> DEFINE r == router[f]
           d == dest(f)
<1>1. status[f] = "network" /\ delay[f] = 0 /\ f \in Picked /\ f \in OnTheWay
  BY DEF First, OnTheWay, Picked
<1>2. port[f] # None
  BY <1>1 DEF NextCycle, Pending
<1>3. PICK o \in Preferred(r, inDirn[f], d) : o # inDirn[f] => port[f] = o
  BY <1>2 DEF GoldPorts
<1>4. o \in lookupRoutingTable(r, d)
  BY <1>3 DEF Preferred
<1>5. r \in Routers /\ inDirn[f] \in LinkDirns
  BY <1>1 DEF WInv, WavesOK, Links
<1>6. CASE r = d
  <2>1. o = "Local" /\ o # inDirn[f]
    BY <1>4, <1>5, <1>6 DEF lookupRoutingTable, LinkDirns
  <2>2. Ejects(f) /\ ~Leaves(f) /\ f \notin E
    BY <1>1, <1>3, <2>1 DEF Ejects, Leaves, LinkDirns, Sendings, MayEnter
  <2>3. status'[f] = "sink"
    BY <2>2 DEF NextCycle
  <2> QED
    BY <1>6, <2>3
<1>7. CASE r # d
  <2>1. o \in Links(r) /\ Distance(Neighbor(r, o), d) < Distance(r, d)
    BY <1>4, <1>7 DEF lookupRoutingTable
  <2>2. Distance(r, d) < Distance(Neighbor(r, inDirn[f]), d)
    BY DEF OnCourse
  <2>3. d \in Int /\ \A s \in Int : Distance(s, d) \in Int
    <3>1. d \in Int
      BY EndsOfTheWay DEF WInv, IInv, Shapes
    <3>2. ASSUME NEW s \in Int PROVE Distance(s, d) \in Int
      <4>1. X(s) \in Int /\ Y(s) \in Int /\ X(d) \in Int /\ Y(d) \in Int
        BY <3>1, MeshSize DEF X, Y
      <4> QED
        BY <4>1 DEF Distance, Dist
    <3> QED
      BY <3>1, <3>2
  <2>4. \A e \in LinkDirns : r \in Int /\ Neighbor(r, e) \in Int
    BY <1>5, MeshSize DEF Routers, Neighbor, LinkDirns
  <2>5. o # inDirn[f]
    <3>1. Distance(r, d) \in Int /\ Distance(Neighbor(r, inDirn[f]), d) \in Int
      BY <1>5, <2>3, <2>4
    <3> QED
      BY <2>1, <2>2, <3>1
  <2>6. Leaves(f) /\ port[f] = o
    BY <1>3, <2>1, <2>5 DEF Leaves, Links
  <2>7. router'[f] = Neighbor(r, o) /\ inDirn'[f] = Opposite[o] /\ status'[f] = "network"
    BY <2>6, FlitMoves DEF WInv
  <2>8. Neighbor(router'[f], inDirn'[f]) = r
    BY <1>5, <2>1, <2>7, AcrossLink
  <2>9. dest(f)' = d
    BY DEF NextCycle, dest
  <2>10. OnCourse(f)'
    BY <2>1, <2>7, <2>8, <2>9 DEF OnCourse
  <2> QED
    BY <1>7, <2>7, <2>10
<1> QED
  BY <1>6, <1>7

\* In a bufferless network of any size that runs DEFLECTION_, with any traffic,
\* a flit that is first among the gold ones at its router, and came nearer by
\* its last hop, comes nearer by the next one, or is ejected when it is home.
THEOREM GoldGoesHome == Spec => GoldStaysOnCourse
<1> DEFINE Step == \A f \in Flits : ~setting.Tdm /\ First(f) /\ OnCourse(f) /\ Pending = {} =>
                     IF router[f] = dest(f) THEN status'[f] = "sink"
                     ELSE status'[f] = "network" /\ OnCourse(f)'
<1>1. ASSUME WInv, GoldPorts, Next PROVE Step
  <2>1. CASE permutation_CHIPPER
    <3>1. \E f \in Picked : port[f] = None
      BY <1>1, <2>1, PortGranted DEF WInv
    <3>2. Pending # {}
      BY <3>1 DEF Pending
    <3> QED
      BY <3>2
  <2>2. ASSUME NEW E \in Sendings, NextCycle(E) PROVE Step
    BY <1>1, <2>2, CycleKeepsCourse
  <2> QED
    BY <1>1, <2>1, <2>2 DEF Next
<1>2. WInv /\ GoldPorts /\ [Next]_vars => [Step]_vars
  BY <1>1
<1> QED
  BY <1>2, WavesInvariance, GoldPortsInvariance, PTL DEF Spec, GoldStaysOnCourse
==============================================================================
