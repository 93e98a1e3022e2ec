# Verification of the scheduled bufferless NoC

The repository is a variant of gem5's Garnet 2.0 network-on-chip simulator with
two bufferless routing regimes added to the buffered ones. This directory holds
TLA+ models of its control, the TLC configurations that check them on small
instances and proofs for every size checked by TLAPS. Paths are relative to the
root of the repository; `X.cc:n` is line n of `src/X.cc`.

## 1. The system

A cycle-based simulator. Every component is a `Consumer` that the event queue
wakes up in a cycle for which it, or a link, scheduled an event. What is put on
a link in cycle t can be read in t + latency, so the order in which components
wake up within a cycle does not matter, except for a network interface, its
credit link and the protocol, which meet in one cycle.

The routing algorithm (`CommonTypes.hh`) decides between two networks:

- **buffered**, wormhole switching with virtual channels (VCs) and credits:
  `TABLE_`, `XY_`, `TURN_MODEL_`, `RANDOM_` (with escape VC `EVC` = 3);
- **bufferless**: `DEFLECTION_`, where a flit that cannot have its output port
  takes another one, and `TDM_`, where in addition each link may be driven in
  certain waves (time slots) only. Every flit of a packet finds its own way.

### Inventory

| component | state | operations | interacts with |
|---|---|---|---|
| `NetworkInterface` | output VCs, `m_out_vc_state`, `m_vc_allocator`, two round robins, stall queue, `m_rob`, credit queue | `wakeup` = messages to flits, one flit out, unstall, one flit in, one credit in | protocol (`MessageBuffer` and its dequeue callback), router by four links |
| `Router` | ports, wave table | `wakeup` = inputs, outputs, switch allocation, crossbar | the parts below, called in order |
| `InputUnit`, `VirtualChannel` | VC state, output port and VC, input buffer, send flag | flit arrival, credits back | link, `RoutingUnit`, allocator |
| `OutputUnit`, `OutVcState` | VC idle or active, credit count | credit arrival, `has_free_vc`, `select_free_vc` | credit link, allocator |
| `SwitchAllocator` | requests, winners, round robins, `outport_ava` | SA-I, `permutation_CHIPPER`, SA-II, `vc_allocate` | input and output units |
| `CrossbarSwitch` | switch buffers | a granted flit goes to its output queue | output units |
| `RoutingUnit` | routing, weight and wave tables | `outportCompute` of each algorithm, wave look-up | input units, allocator |
| `NetworkLink`, `CreditLink` | a queue | one item per cycle, after the latency | both ends |
| `GarnetNetwork`, link parameters | topology, statistics | construction | all |

### What is hard, and what should hold

Switch allocation without buffers (the last flit must still find a port), TDM
waves, credits and VC exclusivity over links with latency, deadlock of routes,
ids by which scattered flits are put together, stalled ejection with callbacks,
wake-ups that nobody schedules, round robins that are reset or that move too
early. `PROJECT.json` lists these hazards with the line where each one bites and
the properties that cover it. The properties by component:

- bufferless router: every flit of a link leaves in its cycle, by the port it
  was promised; gold flits go first; local flits use what is left over, all of
  it; waves are respected;
- buffered link: credits are conserved, a VC holds one packet at a time, used
  VCs come back; the link is a bounded ordered channel;
- buffered router: the VC that the first arbitration stage has seen is there in the
  second, no port loses for ever, packets of a flow stay in order though they are in
  several VCs, no flit waits for a wake-up that nobody schedules;
- routing: shortest routes, assertions on input ports, no cyclic waiting;
- bufferless network: one flit per link and cycle, every flit gold when it gets home,
  all flits arrive although they deflect each other;
- network interface, out: one packet per destination, order in ordered vnets,
  no reuse of a VC that is not paid back, no lost wake-up;
- network interface, in: order, slots and credits accounted for, callbacks
  exactly while something is stalled, nothing stalled for ever;
- reassembly: a message is handed over once, when all its flits have arrived.

## 2. Modules

| module | models | extends / uses |
|---|---|---|
| `SwitchAllocator` | a cycle of a bufferless router: `Router::wakeup`, `InputUnit::wakeup`, `SwitchAllocator` | |
| `SeparableAllocator` | cycles of a buffered router: SA-I, SA-II and `vc_allocate` of all ports | an instance of `VcPort` for each output port |
| `FlowControl` | one output port, link, input port and credit link of the buffered network | instances of `VcPort` and `VcPipe` |
| `VcPipe` | abstract: a VC is a bounded queue opened by one sender at a time | |
| `VcPort` | abstract: what an output port promises to the link behind it | |
| `Mesh` | the routers of a mesh, their neighbours and distances | |
| `MeshRouting` | packets in a mesh with the three mesh algorithms and escape VCs | `Mesh` |
| `BufferlessNet` | a mesh of bufferless routers with the sending side of their interfaces | `Mesh` |
| `Injection` | the sending half of `NetworkInterface::wakeup`, buffered | instance of `VcPort` |
| `Ejection` | the receiving half: stall queue, callback, credit queue and credit link | |
| `Reassembly` | `areAllFlitsHere`, `m_rob`, `m_clk_id` of the bufferless regimes | |
| `*MC` | instances for TLC | the module they are named after |
| `*Proofs` | theorems | the module they are named after |

### SwitchAllocator

One state is a point within `Router::wakeup`. `pc` is the phase, `todo` the
input ports the current loop has not visited. `InputUnitWakeup(i)` reads the
link of port i; `arbitrate_inports` is SA-I (the first occupied VC from
`m_round_robin_invc` on); `AllocateGold`, `AllocateNonGold` and `AllocateLocal`
are the three loops of `permutation_CHIPPER`, one flit per step, since each flit
sees what its predecessors left in `outport_ava` and may choose at random among
it; `PlaceRequests` is `send_allowed` and the requests; `arbitrate_outports` is
SA-II; `NextCycle` clears. A failed assertion is the phase `"assert"`. Equal flit
ids may come in any order, because `compareFlitID` (`<=`) is not a strict order
and the result of sorting with it is undefined.

A flit is: gold or not, its id in the packet, the port it prefers. The route
computation lets any port be preferred (routing tables come from the topology,
which is not in the repository); a Local flit is gold exactly if it stays at the
router (`flit.cc:88-108`: threshold 0). Credits are not modelled: in these
regimes `has_free_vc` returns true at once. Ports, directions, VCs and wave
tables are constants. `NoOverload` is what the topology and the schedule owe to
the router: at no wave more flits arrive than links may leave; `WavesAssumption` that
every link has a wave, as `Router.cc:420` asserts.

### BufferlessNet

Where `SwitchAllocator` is one router and any flits that may come, `BufferlessNet` is
all routers of a mesh with the flits of given packets. What a flit has met on its
way decides where it goes next: the port it came by (`inDirn`), the hops it has
made (`toGold` = `m_gold_th - hops_traversed`, 0 once it is gold), the flits it
meets. `permutation_CHIPPER` gives one flit its port, in the order of the code
(gold ones by id, then links by input port, then the Local port), router after
router, since routers do not see each other within a cycle; `NextCycle(E)` moves
every flit by one cycle, counts hops, advances the wave and lets the interfaces send
the flits of `E`. A Local port has one VC per vnet, of which one has its turn in a
cycle (`invc`). `vcPort` is `m_output_port` of such a VC: a Local flit
that takes another link writes it there (`SwitchAllocator.cc:417`), and the next flit
of the VC prefers it. Routing tables are those of a mesh with equal weights.

### SeparableAllocator

A cycle of a router with all its input and output ports: `InputUnits` (every link
brings at most one flit), `OutputUnits` (every credit link at most one credit),
`arbitrate_inports` (SA-I for every input port) and `arbitrate_outports` (SA-II for
every output port, with `vc_allocate`, the credits, the released input VCs and
`check_for_wakeup`). Ports of one stage do not see each other's decisions except
through what the stage before left, so a stage is one step. `Scanned` are the output VCs
that `has_free_vc` and `select_free_vc` look at, in SA-I and again in SA-II: those of the
packet's vnet, up to the escape VC if it is in `Turning`. Enqueue times are
compared only: `older` keeps for each VC which VCs have an earlier time. `lost` is not
in the code: it counts how often in a row an input port requested an output port in
vain. `Quieten` is the moment from which no new packet comes. What links bring
and pay back is external, within what `FlowControl` shows of a link.

### FlowControl, VcPipe and VcPort

For each downstream VC: `outState` and `credit` (`OutVcState`), the flits on the
link, `vcState` and `buf` (`VirtualChannel`), and the credits under way. The
link and the credit link are queues shared by the VCs in the code; as flits of
different VCs do not affect each other they are kept per VC. Any interleaving of
arrivals, departures and sends stands for any latency and any allocator.
`SendHead` is `send_allowed` + `vc_allocate` + SA-II for a head, `SendBody` for
the rest; `Depart` is the downstream allocator removing a flit and returning a
credit; the free signal is on the credit of the tail. With `EscapeRouting` the
scan of `has_free_vc` ends at the escape VC for a packet that still has to turn.

`ImplementsPortAndPipe` is the refinement: with `queue = buf \o link`, `open` = the
VC is active upstream and `senders` = input VCs that hold it, every step is a step
of `VcPipe` or a stutter.

The choice of the allocator is open in `FlowControl` and made in `SeparableAllocator`
for a router, in `Injection` for an interface. What they must have in common
is `VcPort`: who has a VC (`taken`), who goes on sending to it (`sender`), and how
many of its buffers are not paid back (`used`). A VC is given away only when nothing of the
last packet is owed (`Free`), only its sender goes on, and no buffer is used twice.
`FlowControl` and `Injection` are a `VcPort` each, and so is every output port of
`SeparableAllocator` (`PortStep(o)`: its arbitration stage sends at most one flit by
port o). The sending side of `FlowControl` is thus not made up for it: it is the contract
that both users of links are shown to keep. An interface takes a VC when it makes the
packet (`Take`), a router with the head that it sends (`Send`).

### MeshRouting

Packets move from input VC to input VC. `outportCompute` gives the set of ports
a packet may be given; `Scanned` the VCs that `has_free_vc` looks at. `routing`
is fixed at the start. `NeverStuck` quantifies over all traffic although the run
moves one packet: `Reach` is computed as the set of all pairs (input VC,
destination) any packet can get to, and `Stuck` is the largest subset of it in
which each packet waits for VCs held by the others. No reachable pair may be in it. With
`XY_` and `TURN_MODEL_` packets may be long and hold several VCs at once; with
`RANDOM_` they are of one flit (`LongPackets`).

### Injection, Ejection, Reassembly

`Injection`: a wake-up is a sequence of steps: `Inject` (a packet of the current
vnet, or the next vnet), `Output` (one flit by round robin, `checkReschedule`),
`CreditLink`. Messages arrive between wake-ups, or become the head of their
buffer when the message before them is dequeued. Enqueue times are compared only,
so `older` keeps for each VC the VCs of its vnet with an earlier time.
`NetworkInterface.cc:658` asserts that a packet gets the VC with the number of its vnet;
it is reached in all regimes, as `sim_type` is always 1 (`GarnetNetwork.cc:82`). Of the
VCs of `Injection` that is one of the first vnet at most, so a build with assertions ends
at the second packet of a vnet (`AssertFails`, then `Aborted`), and one without them
(`ndebug`) goes on. A behaviour is one of either build. `FlowControl` and
`SeparableAllocator` are of several VCs per vnet, and so of the build that goes on;
their safety properties hold of the other one too, which only does less.

`Ejection`: within a cycle the interface runs `checkStallQueue`, then reads its
link, and the credit link and the protocol run before, between or after; `Cycle`
ends the cycle. The `MessageBuffer` is external: a slot that is emptied counts
as free from the next cycle on (`popped`), an entered message is ready in the
next cycle, and the callback runs with the dequeue.

`Reassembly`: flits of the packets to one destination arrive in any order; ids
are `src * FLIT_ID_ + time % FLIT_ID_`.

## 3. Runs

| run | question | result |
|---|---|---|
| `SwitchAllocatorRow` | `DEFLECTION_`: four input and three output ports, two of the inputs Local, flit ids 0 and 1 | holds |
| `SwitchAllocatorTdm` | `TDM_`: two links, one Local port with two VCs, three waves with two, one and no arrivals | holds |
| `BufferlessNet` | three packets that meet at one destination, on ways that cross or in one Local port, `DEFLECTION_` and `TDM_`, mesh of 4 x 3 | holds |
| `SeparableAllocator` | two input and two output ports, two VCs, an ordered vnet with three flows | holds |
| `FlowControl` | two sources, two VCs (one an escape VC) with two buffers, packets of up to three flits | holds |
| `Mesh` | four settings of the routing in a mesh of 4 x 3, every source and destination | holds |
| `MeshSquareRandom` | `RANDOM_` as it is called, six packets in a mesh of 4 x 2 | deadlock |
| `Injection` | an ordered vnet with three VCs, messages to one or two destinations | holds |
| `Ejection` | two vnets, three VCs, `MessageBuffer`s with one slot | holds |
| `EjectionWakeups` | does an interface with a message that fits, and a queued credit, go on with one of them? | violated |
| `Reassembly` | two sources, one data vnet | holds |
| `ReassemblyVnets` | one source, two data vnets | violated |

### Bounds

- `SwitchAllocatorRow`: two Local ports are needed for Local requests to compete,
  two links for deflection, ids 0 and 1 for the order of gold flits. What depends
  on more ports, more VCs or `TDM_` is proved for all.
- `SwitchAllocatorTdm`: three waves so that a wave has arrivals on all links, on
  one, and on none; two VCs for starvation between VCs.
- `BufferlessNet`: four columns, since `m_gold_th` is computed for four columns
  (`flit.cc:92`); three rows give routers with two, three and four links. Every
  traffic needs a run of its own; `Crossing` is one in which flits would deflect each
  other for ever if gold flits were not taken in the order of their ids (the mutant
  of `FlitsArrive`), in `SameHome` three flits compete for the way home,
  in `SamePort` two packets of different vnets for the links of their router. Two cycles per hop
  (router and link), so that wave and hop count differ.
- `SeparableAllocator`: two VCs hold two packets of one flow, or of two flows that
  share an input port and not an output port; the third flow competes from the
  other input port, and may not take the escape VC. With one credit a VC waits after
  every flit. All flows are in one vnet; what the safety properties say of several vnets
  and for more of everything is proved.
- `FlowControl`: packets longer than the buffers (three flits, two credits), so
  that a packet is spread over buffer, link and source; two sources compete for
  VCs. Latencies are unbounded.
- `Mesh`: four columns, since the ring of `MeshSquareRandom` needs the columns to
  the left and to the right of its square; three rows give rings of all shapes
  up to 4 x 3.
- `Injection`: three VCs and two destinations let packets of three messages wait
  at once; two flits and two credits let a packet be half sent. With assertions the
  second packet ends the program, so all that needs more than one packet at a time is
  checked of the build without them.
- `Ejection`: one slot makes every second message stall; two vnets for callbacks
  at the same time; three flits so that a packet has flits that are neither first
  nor last. `EjectionWakeups` has one credit, so that a packet waits for the credit of
  its first flit.
- `Reassembly`: `FLIT_ID_` is 3 and a packet lives at most two cycles; in the code
  10,000,000 and the time a packet is under way. The constant matters only in
  being larger than the lifetime. Two sources, packets of five flits.
- Nothing is bounded by state constraints; all counters are bounded by guards
  that are in the code (credits, slots, packet length).

### Fairness

- `SwitchAllocator`: `WF(Next)`, the event queue goes on. `LocalFlitLeaves` assumes
  that the other routers become quiet. With their traffic a VC may starve: the
  round robin `m_round_robin_invc` moves when a request is placed
  (`SwitchAllocator.cc:240`), not when it wins, so two VCs may take turns such
  that one is never at its turn in a cycle it could win.
- `BufferlessNet`: `WF(Next)`; strong fairness of the interfaces, which schedule
  themselves while they have flits and whose turn is in every cycle. The random choices
  of output ports are left to an adversary.
- `SeparableAllocator`: `WF(Next)`; strong fairness of arrivals and of credits,
  which come in certain phases of a cycle only: the other routers go on, as this
  one does. `RouterDrains` asks only for what is in the router when new packets end;
  with endless traffic a VC may starve, for the reason given above (it is at
  `SwitchAllocator.cc:192` here), although `BoundedLosses` holds for its port.
- `FlowControl`: weak fairness of arrivals, of departures downstream and of
  credits; none of the sources.
- `Injection`: weak fairness of the wake-up steps (a scheduled event runs), strong
  fairness of the credits, which arrive between wake-ups. `PacketsAreSent` is of builds
  without assertions, or of programs that have not aborted.
- `Ejection`: time passes, scheduled wake-ups run, the protocol consumes messages
  of every vnet (strong, as it acts between two steps of the interface). The
  passing run adds that other traffic wakes the interface up again and again, which
  nothing in the code sees to: `StalledMessagesLeave` is claimed under it only, and
  `EjectionWakeups` shows what happens without. That a queued credit returns is claimed
  of no run.

## 4. What the violated runs show

- `InputUnit.cc:145` computes routes without the input VC, so packets in escape
  VCs are routed at random and a ring of six packets may wait for ever.
- `NetworkInterface.cc:529` and `:456`, in one behaviour of `EjectionWakeups`: two
  `MessageBuffer`s with a stalled message each are dequeued in one cycle. The wake-up
  that follows unstalls one message, and nothing schedules another for the other one
  that has room as well. The flit of the same wake-up, not a tail, adds a second
  credit, but the credit link is scheduled once: this credit stays queued. The rest of
  its packet waits for it in the router, the buffers are empty and call back no more,
  and nothing wakes the interface up again.
- `flit.cc:84`: two packets of different vnets, made in one cycle by one interface
  for one destination, share an id, and are taken for one packet.

Seen while modelling, without a run of its own:

- `SwitchAllocator.cc:138` resets `m_round_robin_inport` in every cycle: among
  Local requests the input port with the lowest id wins every time.
- `RANDOM_` with the input VC is free of deadlock for packets of one flit. For longer
  ones `Stuck` is not empty from five columns on: a packet spread over an escape VC
  and an ordinary VC behind it waits, in the escape VC, for a turn that it may make in
  no other. Nothing calls that form (`RoutingUnit.cc:217`), so no run is about it.
- Three gold flits of equal ids may deflect each other for ever if the order in which
  they are sorted changes from cycle to cycle, which sorting with `<=` allows
  (traffic `EqualIds` of `BufferlessNetMC`).
- `NetworkInterface.cc:658` asserts `vc == vnet` in all regimes, which is false with
  the default of four VCs per vnet (`Injection` has both builds, see above; with one VC
  per vnet it holds, `AssertionHolds`); `NetworkInterface.cc:514` has a condition that is
  always true; the callback of `NetworkInterface.cc:421` may be registered after a
  dequeue of the same cycle, whose slot does not yet count as free.
- Once credits come back `check_for_wakeup` matters for latency only, in a router of one
  stage: a flit that was not granted waits for one that was, whose credit wakes the router. So `RouterDrains`
  does not depend on it; that it forgets nothing is `NoFlitForgotten`.

## 5. Proofs

TLAPS checks, for all values of the constants that satisfy the named assumptions:

`SwitchAllocatorProofs` (assumptions `PortAssumption`, `DirectionAssumption`,
`NoOverload`): `TypeCorrect`, `NoAssertionEverFails`, `NoDoubleRequest`,
`NothingIsBuffered`, `ReservationsAreHonoured`. The heart is a counting argument,
`EnoughPorts`: during `permutation_CHIPPER` there are at least as many available
links as flits of links still without a port. A grant takes one of each away;
Local flits come after all others, and gold Local flits take a Local port
without a look at `outport_ava`. `EnoughPorts` alone is not inductive: it needs that
at most one flit per link is in the router (`ArrivalsOK`) and that what was picked
is what is in the VCs (`PickedOK`). That reserved ports are honoured in SA-II needs
`Exclusive` (no port reserved twice) and `LocalOrder` (a stalled Local flit that
still asks for a reserved port has a higher port id, so the scan from 0 finds the
reserved one first).

Its second part proves `WavesAreRespected`, `LinksAreNotIdle` and
`GoldIsNotDeflected` under the same assumptions. The invariant `GInv` says that until SA-II nothing has been
sent, that every port missing from `outport_ava` is reserved by some flit, that
a Local flit is stalled only when no link was left (`StalledLast`), and that the gold
flit with the smallest id finds all ports available when it is its turn
(`GoldenFirst`).

`FlowControlProofs` (assumption `Parameters`): `TypeCorrect`, `CreditConservation`,
`NoAssertionEverFails`, `NoMixing`, `FreeVCHasCredits`. The invariant says
for each VC how flits are laid out along link and buffer (heads only where the VC
is idle, tails only at the end: `HeadsOK`, `TailsOK`), that credits, flits and
credits under way balance (`Balanced`), and that an idle `OutVcState` has all its
credits (`IdleOK`). The last one makes `send_allowed` right in not looking at the
credits of a free VC; it follows since the free signal is on the last credit.

Its second part proves `Implementation`: each behaviour of `FlowControl` is one of
`VcPipe` and of `VcPort`. Initial states map to initial states, and under the invariant above each
action maps to an action of `VcPipe` or a stutter: a head sent to `Open`, another flit
to `Push`, a departure to `Pop`, the credit with the free signal to `Close`, arrivals
and other credits to stutters. The same steps are shown to be those of `VcPort`
(`StepKeepsPort`): that the free signal comes with the last credit is the part that
rests on the invariant (`CreditPays`). `UsedVCsComeBack` is the safety half of `VCsAreFreed`: when the
packet of an active VC has been sent, its tail is on the link or in the buffer, or the
free signal is among the credits (`EndUnderWay`); fairness of arrivals, departures and credits does the
rest.

`SeparableAllocatorProofs` (assumption `Parameters`): `TypeCorrect`, `VcAllocateFindsAVC`,
`WaitingIsBounded`, and for the ordered ones of any number of vnets `OrderIsKept`. `IInv` says that a winner of
SA-I could still send in SA-II (`WinnersOK`: only one input port per output port uses
up what all have seen), that idle output VCs have all their credits (`IdleOK`), and
that the vain requests of a port plus its distance from the round-robin pointer
are less than the number of input ports (`TurnsOK`). `OInv` says that a packet
has come in completely when the next one of its flow begins (`FlowsOK`) and that a
winner has no older packet ready for its port (`OldestWins`).

Its last part proves `KeepsItsPorts`, that every output port is a `VcPort`; this needs that
no two input VCs hold one output VC and that a held VC is active (`SendersOK`),
and that SA-II grants at most one flit per output port. Two invariants are the safety halves of
`RouterDrains`: `NothingIsForgotten`, a router with a flit in a buffer wakes up in
the next cycle (the invariant `NoFlitForgotten`), and `SomePacketMayGo`, among the packets of an ordered vnet that are ready for one
port one is held back by no other. The latter follows since enqueue times are an order
(`Nested`) and VCs are finitely many, so the one with the fewest older ones has
none among its rivals (`OldestExists`).

`InjectionProofs` (assumption `Parameters`): `TypeCorrect`, `EachDestinationOnce`,
`ReusedVCsArePaid`, `OrderedOneByOne`, `NoWakeupIsLost`. The invariant relates for
each VC flits, credits and free signal (`PaidOK`, `FreeSignalOK`), for each message the
destinations still asked for and the packets made (`MessagesOK`); that a begun packet
has no older one in an ordered vnet (`BegunFirst`) is what the comparison of enqueue
times has to keep up, and needs that what is older has flits left (`OlderOK`).
`KeepsThePort` shows that the interface is a `VcPort` to its router: making a packet is
`Take`, `scheduleOutputLink` is `Send`, a credit `Pay` or `PayLast`.
`AssertionHolds` says that the assertion of `NetworkInterface.cc:658` is right with one VC
per vnet. `PacketsDoNotBlock` is the safety half of `PacketsAreSent`: a vnet with flits has a packet
that may be sent or waits for a credit only. For that `older` has to be an order
in which packets of one wakeup do not hold back each other (`WaitsOK`); the mutant
`Packetise_sameTime` breaks it.

`EjectionProofs` (assumption `Parameters`): `TypeCorrect`, `CallbacksAreKept`,
`NoSlotIsLost`, `IdleIsEmpty`, `OrderIsKept`. The invariant counts positions of the
two queues: a VC is stalled at most once (`StalledOnce`), the free signal is on the
last credit of its VC (`FreeIsLast`), no `MessageBuffer` holds more than it has slots
(`RoomOK`), and the slots of a VC are accounted for phase by
phase (`SlotsOK`, `PhasesOK`). The order of messages rests on `NothingFits`: when the
interface has checked its stall queue and enqueued nothing, no stalled message has
room, so a new message of that vnet must stall as well; a dequeue in between does
not help it, since its slot counts only from the next cycle on.

`ReassemblyProofs` (assumption `Parameters`): `EachMessageOnce`, `NothingIsLeftBehind`,
assuming one vnet (`OneVnet`) and `Lifetime < FLIT_ID_`. That ids of packets under
way differ (lemma `Distinct`) is arithmetic modulo the period of the clock: equal ids
mean times that differ by a multiple of `FLIT_ID_`, and only times less than
`FLIT_ID_` apart occur (`Recent`). `ReassemblyVnets` shows that the assumption of
one vnet is needed.

`MeshRoutingProofs` (assumptions `MeshSize`, `Parameters`): `NoXYAssertionFails`,
`ShortestRoutes`, `NoRing`, `DeadlockFree`, `NoEndlessWait`. The invariant says where a packet may be
(`Legal`): it has not gone past its destination, a packet routed XY is in its column
once it came by a link in Y, and with `TURN_MODEL_` the turns that are left out are not
behind it. `NoRing`: there is no set of legal pairs in which each waits for others of
the set, whatever the size of the mesh. For `XY_`
and `TURN_MODEL_` the input VCs are numbered such that the number falls with every hop
(`DescendsXY`, `DescendsTurn`), so the pair with the smallest number waits for none of
the set. For `RANDOM_` the same holds of the escape VCs alone, and every packet may
take one of them (`NoRingByEscape`); the assumption `HasEscape` is that routes know the
input VC, and `MeshSquareRandom` shows what happens without. `DeadlockFree` concludes
that some packet of the network can go on.

Its second part is about what `NeverStuck` computes. `Reach` and `Stuck` are ends of
iterations, given as functions on `Nat`; what holds of every step is a set of numbers
that has 0 and with each number the next one, so it is `Nat` (`Induction`), and
`Iterates` derives from that what the functions are. Every pair
of an iteration of `Reach` is legal (`ReachLegal`), of which there are finitely many,
so an iteration of `Stuck` that takes pairs away ends within as many steps as there
are pairs (`ShrinkEnds`). `StuckIsLargest` says that the end is the largest set of
pairs that wait for each other, `NobodyStuck` that it is empty where `NoRing` holds,
`NoEndlessWait` that the invariant `NeverStuck` follows, and `ReachIsComplete` that
all packets of all behaviours are covered by the pairs it looks at.

`BufferlessNetProofs` (assumptions `MeshSize`, `Parameters`, and `NoOverload` for the
third): `NoFlitIsLost`, `HomeIsGold` (for four columns), `AlwaysALink`, `GoldGoesHome`. The first follows from a link being given to one flit of its router at most
(`LinksOnce`), which is what `ava` keeps up grant by grant, and from links being there
(`PortsOK`). The second
is the triangle inequality of `Distance`, kept by every hop (`GoldOK`): the
hops that are missing until a flit is gold are never more than those to its home. It
needs four columns, since `flit.cc:92` computes the threshold for them.

`AlwaysALink` is a counting argument across routers and cycles. Each flit remembers, by
its port and by the cycles it still needs, the link and the wave it has left by (`WavesOK`,
with modular arithmetic in `WaveBefore`), so the flits that have come to a router are
not more than the links that deliver at this wave (`ArrivalsFit`), nor, by `NoOverload`,
than those that may be driven. A flit with a port got it before those without
(`InTurn`), and no Local flit is gold (`NoneBornGold`), so a flit of a link competes
with the other arrivals only, each of which has one link. `SwitchAllocatorProofs` shows
the same of one router whose neighbours are an assumption; here they are other routers.

`GoldGoesHome` says what being gold is good for: the first gold flit of a router finds
every link of its shortest ways available (`FirstHasAll`), so it has one of them
(`GoldPorts`) unless that is back where it came from, which it is not if the last hop
brought it nearer. With `TDM_` it does not hold: the links of the shortest ways may not
be those of the wave.

Only model-checked: liveness (`LocalFlitLeaves`, `VCsAreFreed`, `StalledMessagesLeave`,
`PacketsAreSent`, `RouterDrains`, `FlitsArrive`), which is out of
the prover's reach. Of some of them the safety part is proved: `GoldGoesHome` of
`FlitsArrive`, `UsedVCsComeBack` of `VCsAreFreed`, `NothingIsForgotten` and
`SomePacketMayGo` of `RouterDrains`, `PacketsDoNotBlock` and `NoWakeupIsLost` of
`PacketsAreSent`. What is left to TLC is that fair steps get to the end of what these leave.
The type invariants of `FlowControl`, `SeparableAllocator`, `Injection` and `Ejection` are
theorems (`TypeCorrect`) and in no run.

## 6. Not modelled

- `GarnetNetwork` (construction from the topology), parameters, statistics, the
  fault model, functional accesses, printing.
- Payloads and formats of messages; the number of flits is a parameter.
- Wave schedules and routing tables: external, taken as constants or as any choice.
- `calculateVC` and the credit link of an interface in the bufferless regimes: those of
  `Injection`, not repeated. In `BufferlessNet` an interface sends a flit of any vnet
  that may send, whatever its round robin says.
- `nextWaveChecker`, `getWaveDirection`, `getAllocatedDirection` (`Router.cc:394-575`):
  called by nobody.
- The panic of `calculateVC` after `m_deadlock_threshold` wake-ups.
- Overflow of `m_clk_id` with more than 214 interfaces.

## 7. Plan

Done: all modules above with their runs, and proofs of the safety properties of all of
them. Left:

1. Composition of `BufferlessNet` with `Reassembly`.
2. A larger instance of `SeparableAllocator`: two vnets of two VCs have too many states
   for an exhaustive run of its liveness.
