---------------------------- MODULE BufferlessNet ----------------------------
(***************************************************************************)
(* The bufferless network as a whole: a mesh of routers that run           *)
(* DEFLECTION_ or TDM_, and what their interfaces send.  SwitchAllocator   *)
(* is about one of these routers and any flits that may come; here the     *)
(* flits that come are those that the other routers sent, and what a flit  *)
(* has met on its way (its hops, its being gold, the port it came by)      *)
(* decides where it goes next.                                             *)
(*                                                                         *)
(* In a cycle every router gives each of its flits an output port, in the  *)
(* order of permutation_CHIPPER; then all flits move on.  The routers do   *)
(* not see each other within a cycle and are taken in ascending order.     *)
(*                                                                         *)
(* There is one interface per router, and one VC per vnet, as in the code  *)
(* of these regimes.  A flit that its own router ejects is gone: what the  *)
(* interface does with it is the subject of Reassembly.                    *)
(***************************************************************************)
EXTENDS Mesh, FiniteSets

CONSTANTS
  NumVNets,     \* number of vnets
  NumPackets,   \* number of packets
  MaxSize,      \* the largest number of flits in a packet
  Settings,     \* the possible networks, see Setting
  Traffic,      \* the possible packets: from, to, vnet, how many flits
  HopCycles,    \* cycles from one router to the next: router and link
  MaxCredit     \* flits that a VC of a Local port may hold

VARIABLES
  setting,  \* the network, which does not change
  traffic,  \* the packets, which do not change
  wave,     \* curWave()
  status,   \* where a flit is: its "interface", its VC of the "local" input
            \* port, the "network" or the "sink"
  router,   \* the router it is at or on its way to
  inDirn,   \* the direction of the input port there
  delay,    \* cycles until it gets there
  toGold,   \* m_gold_th - hops_traversed, or 0 once the flit is gold
  port,     \* the output port it was granted in this cycle
  vcPort,   \* m_output_port of each VC of each Local input port
  invc      \* m_round_robin_invc of each Local input port

vars == <<setting, traffic, wave, status, router, inDirn, delay, toGold,
          port, vcPort, invc>>

\* WaveTable[r][o] are the waves of the link that leaves router r in direction
\* o.  With DEFLECTION_ nobody looks at them.
Setting == [Tdm : BOOLEAN, WaveNum : Nat \ {0},
            WaveTable : [Routers -> [LinkDirns -> SUBSET Nat]]]

VNets   == 0 .. NumVNets - 1
Packets == 1 .. NumPackets
Flits   == [pkt : Packets, id : 0 .. MaxSize - 1]
Ports   == LinkDirns \cup {"Local"}
None    == "None"
Wait    == "Wait"

src(f)  == traffic[f.pkt].src
dest(f) == traffic[f.pkt].dest
vnet(f) == traffic[f.pkt].vnet
Sent(f) == f.id < traffic[f.pkt].size

\* The links of router r, and those a flit may be given at wave w.
Links(r) == {o \in LinkDirns : HasNeighbor(r, o)}

Driven(s, r, w) ==
  {o \in Links(r) : s.Tdm => (w + 1) % s.WaveNum \in s.WaveTable[r][o]}

\* The links by which a flit may come to router r at wave w.
Delivering(s, r, w) ==
  {o \in Links(r) :
     Opposite[o] \in Driven(s, Neighbor(r, o), (w - HopCycles) % s.WaveNum)}

ASSUME Parameters ==
  /\ NumVNets \in Nat \ {0} /\ NumPackets \in Nat /\ MaxSize \in Nat \ {0}
  /\ HopCycles \in Nat \ {0} /\ MaxCredit \in Nat \ {0}
  /\ Settings \subseteq Setting
  /\ \A t \in Traffic : \A p \in Packets :
       /\ t[p].src \in Routers /\ t[p].dest \in Routers \ {t[p].src}
       /\ t[p].vnet \in VNets /\ t[p].size \in 1 .. MaxSize

\* WavesAssumption of SwitchAllocator, for every link of the network.
ASSUME WavesAssumption ==
  \A s \in Settings : s.Tdm =>
    \A r \in Routers : \A o \in Links(r) : s.WaveTable[r][o] # {}

\* NoOverload of SwitchAllocator, for every router of the network.
ASSUME NoOverload ==
  \A s \in Settings, r \in Routers : \A w \in 0 .. s.WaveNum - 1 :
    Cardinality(Delivering(s, r, w)) <= Cardinality(Driven(s, r, w))

-----------------------------------------------------------------------------
\* Mutant: the way in cycles, which are two per hop.
GoldTh_cycles(s, d) == HopCycles * (Dist(s \div 4, d \div 4) + Dist(s % 4, d % 4))

\* m_gold_th, computed for a mesh of four columns whatever the mesh is.
GoldTh(s, d) == Dist(s \div 4, d \div 4) + Dist(s % 4, d % 4)

\* lookupRoutingTable with equal weights on all links: any first link of a
\* shortest way, the Local port at the destination.  (In an ordered vnet always
\* the first one.)
lookupRoutingTable(r, d) ==
  IF r = d THEN {"Local"}
  ELSE {o \in Links(r) : Distance(Neighbor(r, o), d) < Distance(r, d)}

\* outportCompute of a flit that came by direction i.  TDM_ has a U-turn only
\* if there is no other shortest way.
Preferred(r, i, d) ==
  LET best == lookupRoutingTable(r, d)
  IN IF setting.Tdm /\ best # {i} THEN best \ {i} ELSE best

Init ==
  /\ setting \in Settings
  /\ traffic \in Traffic
  /\ wave = 0
  /\ status = [f \in Flits |-> IF Sent(f) THEN "interface" ELSE "sink"]
  /\ router = [f \in Flits |-> IF Sent(f) THEN src(f) ELSE dest(f)]
  /\ inDirn = [f \in Flits |-> "Local"]
  /\ delay = [f \in Flits |-> 0]
  /\ toGold = [f \in Flits |-> IF Sent(f) THEN GoldTh(src(f), dest(f)) ELSE 0]
  /\ port = [f \in Flits |-> None]
  /\ vcPort = [q \in Routers \X VNets |-> None]
  /\ invc = [r \in Routers |-> 0]

-----------------------------------------------------------------------------
\* The flits in the VCs of the Local port, and in one of them.
Local(r)    == {f \in Flits : status[f] = "local" /\ router[f] = r}
Queue(r, v) == {f \in Local(r) : vnet(f) = v}

\* What comes first from the round-robin pointer of router r on.
Turns(r, v) == (v - invc[r]) % NumVNets

\* The flits the routers have to do with in this cycle (m_permu_buf): those
\* that have arrived by a link, and at every Local port the first one in the
\* first VC that has one.
Picked ==
  {f \in Flits : \/ status[f] = "network" /\ delay[f] = 0
                 \/ /\ status[f] = "local"
                    /\ \A g \in Local(router[f]) :
                         \/ Turns(router[f], vnet(f)) < Turns(router[f], vnet(g))
                         \/ vnet(f) = vnet(g) /\ f.id <= g.id}

gold(f) == toGold[f] = 0

\* The order in which the topology makes the links of a router.
InportNo == [North |-> 0, East |-> 1, South |-> 2, West |-> 3]

\* Mutant: gold flits first, in any order.
NoLater_unsorted(f, g) ==
  \/ gold(f)
  \/ /\ ~gold(f) /\ ~gold(g)
     /\ \/ status[g] = "local"
        \/ /\ status[f] = "network" /\ status[g] = "network"
           /\ InportNo[inDirn[f]] <= InportNo[inDirn[g]]

\* permutation_CHIPPER: gold flits first, by id; then the flits of the links by
\* input port; then the flit of the Local port.
NoLater(f, g) ==
  \/ gold(f) /\ (gold(g) => f.id <= g.id)
  \/ /\ ~gold(f) /\ ~gold(g)
     /\ \/ status[g] = "local"
        \/ /\ status[f] = "network" /\ status[g] = "network"
           /\ InportNo[inDirn[f]] <= InportNo[inDirn[g]]

Pending == {f \in Picked : port[f] = None}

\* The flits that may be the next to get a port.
Turn ==
  LET all  == Pending
      here == {f \in all : \A g \in all : router[f] <= router[g]}
  IN {f \in here : \A g \in here : NoLater(f, g)}

\* Mutant: a port that is given away stays available.
ava_all(r) == Driven(setting, r, wave) \cup {"Local"}

\* outport_ava: the Local port, the links of this wave, without those that are
\* given away.
ava(r) ==
  (Driven(setting, r, wave) \cup {"Local"})
    \ {port[f] : f \in {g \in Flits : router[g] = r}}

\* Mutant: no U-turn.
getANonLocalOutport_noUTurn(r, i) == ava(r) \ {"Local", i}

getANonLocalOutport(r, i) ==
  LET free == ava(r) \ {"Local"}
  IN IF free \ {i} # {} THEN free \ {i} ELSE free

Granted(f, o) == port' = [port EXCEPT ![f] = o]

\* A flit of a link takes its preferred port unless that is taken or a U-turn,
\* and otherwise any other link.
AllocateNonLocal(f) ==
  LET r == router[f]
  IN /\ status[f] = "network"
     /\ \E o \in Preferred(r, inDirn[f], dest(f)) :
          IF o \in ava(r) /\ o # inDirn[f] THEN Granted(f, o)
          ELSE \E e \in getANonLocalOutport(r, inDirn[f]) : Granted(f, e)
     /\ UNCHANGED vcPort

\* The flit of the Local port takes the port of its VC, another link if that is
\* taken, or waits.  The link is written to the VC and is the preferred port of
\* the next flit in the VC, if no later one arrives in between.
AllocateLocal(f) ==
  LET r    == router[f]
      best == vcPort[<<r, vnet(f)>>]
  IN /\ status[f] = "local"
     /\ \E o \in IF best \in ava(r) THEN {best} ELSE getANonLocalOutport(r, "Local") :
          Granted(f, o) /\ vcPort' = [vcPort EXCEPT ![<<r, vnet(f)>>] = o]
     \/ /\ status[f] = "local"
        /\ best \notin ava(r) /\ ava(r) \subseteq {"Local"}
        /\ Granted(f, Wait) /\ UNCHANGED vcPort

permutation_CHIPPER ==
  \E f \in Turn :
    /\ AllocateNonLocal(f) \/ AllocateLocal(f)
    /\ UNCHANGED <<setting, traffic, wave, status, router, inDirn, delay, toGold, invc>>

-----------------------------------------------------------------------------
\* A flit that its interface may send: the next one of the oldest packet of its
\* vnet, when the VC of the Local port is free or has the packet, and has a
\* credit.
MayEnter(f) ==
  /\ status[f] = "interface"
  /\ \A g \in Flits :
       status[g] = "interface" /\ src(g) = src(f) /\ vnet(g) = vnet(f) =>
         f.pkt < g.pkt \/ (f.pkt = g.pkt /\ f.id <= g.id)
  /\ \A g \in Queue(src(f), vnet(f)) : g.pkt = f.pkt
  /\ Cardinality(Queue(src(f), vnet(f))) < MaxCredit

\* What the interfaces may send in a cycle: one flit each, of any vnet that has
\* one, since messages come when they like.
Sendings ==
  {E \in SUBSET {f \in Flits : MayEnter(f)} : \A f, g \in E : src(f) = src(g) => f = g}

Leaves(f) == port[f] \in LinkDirns
Ejects(f) == port[f] = "Local"

\* The flit of a Local port makes a request, and the next VC has its turn; with
\* TDM_ it does not if it has to wait.
Requests(f) == port[f] # None /\ (setting.Tdm => port[f] # Wait)

Lands(f)  == IF Leaves(f) THEN HopCycles = 1 ELSE delay[f] = 1

\* The end of a cycle: SA-II lets the flits with a port leave, which become gold
\* when they have made as many hops as their way is long, and the interfaces
\* send the flits of E.  A flit that enters writes its route to the VC.
NextCycle(E) ==
  /\ Pending = {}
  /\ wave' = (wave + 1) % setting.WaveNum
  /\ status' = [f \in Flits |-> CASE f \in E   -> "local"
                                  [] Leaves(f) -> "network"
                                  [] Ejects(f) -> "sink"
                                  [] OTHER     -> status[f]]
  /\ router' = [f \in Flits |-> IF Leaves(f) THEN Neighbor(router[f], port[f])
                                ELSE router[f]]
  /\ inDirn' = [f \in Flits |-> CASE Leaves(f) -> Opposite[port[f]]
                                  [] Ejects(f) -> "Local"
                                  [] OTHER     -> inDirn[f]]
  /\ delay' = [f \in Flits |-> CASE Leaves(f)    -> HopCycles - 1
                                 [] delay[f] > 0 -> delay[f] - 1
                                 [] OTHER        -> 0]
  /\ toGold' = [f \in Flits |-> IF Lands(f) /\ toGold[f] > 0 THEN toGold[f] - 1
                                ELSE toGold[f]]
  /\ port' = [f \in Flits |-> None]
  /\ \E o \in [E -> Ports] :
       /\ \A f \in E : o[f] \in Preferred(src(f), "Local", dest(f))
       /\ vcPort' = [q \in Routers \X VNets |->
                       IF \E f \in E : <<src(f), vnet(f)>> = q
                       THEN o[CHOOSE f \in E : src(f) = q[1]] ELSE vcPort[q]]
  /\ invc' = [r \in Routers |->
                IF \E f \in Local(r) : Requests(f)
                THEN (vnet(CHOOSE f \in Local(r) : Requests(f)) + 1) % NumVNets
                ELSE invc[r]]
  /\ UNCHANGED <<setting, traffic>>

Next ==
  \/ permutation_CHIPPER
  \/ \E E \in Sendings : NextCycle(E)

Enter == \E E \in Sendings : E # {} /\ NextCycle(E)

\* Cycles follow one another, and an interface that may send again and again
\* does so.  Nothing is assumed of the random choices.
Spec == Init /\ [][Next]_vars /\ WF_vars(Next) /\ SF_vars(Enter)

-----------------------------------------------------------------------------
OnTheWay == {f \in Flits : status[f] = "network"}

\* No two flits are ever on a link, or come by the same input port, in the same
\* cycle: a router without buffers would lose one of them.
OneFlitPerLink ==
  \A f, g \in OnTheWay : f # g =>
    <<router[f], inDirn[f], delay[f]>> # <<router[g], inDirn[g], delay[g]>>

\* A flit that gets to its destination is gold there, with or without having
\* been deflected: m_gold_th, which is computed without a look at the mesh, is
\* never more than the hops that were needed.
GoldAtHome ==
  \A f \in OnTheWay : router[f] = dest(f) /\ delay[f] = 0 => gold(f)

\* Nobody is left without a link to be sent by, whatever the flits that were
\* before it have taken: a router without buffers would lose it.
NobodyWithoutALink ==
  \A f \in Pending \cap OnTheWay : getANonLocalOutport(router[f], inDirn[f]) # {}

\* The hop that a flit has behind it has brought it nearer.
OnCourse(f) ==
  Distance(router[f], dest(f)) < Distance(Neighbor(router[f], inDirn[f]), dest(f))

\* A flit that is gold before all others that are at its router.
First(f) ==
  /\ f \in Picked \cap OnTheWay /\ gold(f)
  /\ \A g \in Picked \ {f} : router[g] = router[f] /\ gold(g) => f.id < g.id

\* With DEFLECTION_ such a flit, once on course, stays on course and is ejected
\* when it is home.  What it meets on its way cannot turn it back, so nothing
\* but a flit with an id as low as its own keeps it in the network.
GoldStaysOnCourse ==
  [][\A f \in Flits : ~setting.Tdm /\ First(f) /\ OnCourse(f) /\ Pending = {} =>
       IF router[f] = dest(f) THEN status'[f] = "sink"
       ELSE status'[f] = "network" /\ OnCourse(f)']_vars

\* No livelock in this traffic: however the random choices fall, flits that
\* deflect each other all arrive, and those that wait at a Local port get into
\* the network.  It rests on the order of gold flits: of those that meet, the
\* same one has to go ahead each time.
FlitsArrive == <>[](\A f \in Flits : status[f] = "sink")
=============================================================================
