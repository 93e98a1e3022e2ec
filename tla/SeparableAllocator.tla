-------------------------- MODULE SeparableAllocator --------------------------
(***************************************************************************)
(* A router of the buffered network: SA-I picks one VC of every input port *)
(* (arbitrate_inports), SA-II one input port for every output port         *)
(* (arbitrate_outports), each by a round robin of its own.  FlowControl    *)
(* leaves both choices open; here they are made as the code makes them,    *)
(* for all ports and vnets at once, with a router of one stage.            *)
(*                                                                         *)
(* The neighbours are external.  Upstream, a packet is sent to a VC that   *)
(* is free here, and its flits arrive in order; packets of one flow (same  *)
(* source and destination) are not mixed on a link if their vnet is        *)
(* ordered, which this router has to keep up for the next one.             *)
(* Downstream, every flit is paid back by a credit, that of the tail with  *)
(* the free signal: FlowControl shows that.                                *)
(***************************************************************************)
EXTENDS Integers, FiniteSets

CONSTANTS
  NumIn,      \* m_num_inports
  OutPorts,   \* ids of the output ports
  NumVCs,     \* m_num_vcs, those of all vnets
  PerVNet,    \* m_vc_per_vnet
  MaxCredit,  \* m_max_credit_count of the output VCs
  Ordered,    \* the vnets of which isVNetOrdered is true
  Flows,      \* the flows that pass the router
  VNetOf,     \* the vnet of each flow
  InOf,       \* the input port of each flow
  OutOf,      \* its output port: one way per flow, as in an ordered vnet
  SizeOf,     \* the number of flits of its packets
  EVC,        \* the escape VC
  Turning     \* the flows of RANDOM_ that leave in Y with a way in X ahead

VARIABLES
  pc,        \* phase of Router::wakeup
  awake,     \* the router has an event in this cycle
  quiet,     \* no packet is sent to the router any more
  vc,        \* the input VCs, see VC
  older,     \* the VCs of an input port whose m_enqueue_time is less than that
             \* of VC v
  out,       \* the output VCs, see OutVC
  rrInvc,    \* m_round_robin_invc
  rrInport,  \* m_round_robin_inport
  winner,    \* m_vc_winners: the VC that places a request at each input port
  lost       \* how often in a row an input port requested a port in vain

vars == <<pc, awake, quiet, vc, older, out, rrInvc, rrInport, winner, lost>>

InPorts == 0 .. NumIn - 1
VCs     == 0 .. NumVCs - 1
NoVC    == -1
NoFlow  == "NoFlow"

\* The VCs of a vnet.
get_vnet(v) == v \div PerVNet
VCsOf(n)    == {v \in VCs : get_vnet(v) = n}

ASSUME Parameters ==
  /\ NumIn \in Nat \ {0} /\ MaxCredit \in Nat \ {0}
  /\ NumVCs \in Nat \ {0} /\ PerVNet \in Nat \ {0}
  /\ NoFlow \notin Flows
  /\ InOf \in [Flows -> InPorts] /\ OutOf \in [Flows -> OutPorts]
  /\ SizeOf \in [Flows -> Nat \ {0}]
  /\ EVC \in Nat /\ Turning \subseteq Flows

\* An input VC: the flow of its packet, the flits in its buffer, those that are
\* still to come, and the output VC.
VC == [flow : Flows, flits : Nat, toCome : Nat, outvc : VCs \cup {NoVC}]

IdleVC == [flow |-> NoFlow, flits |-> 0, toCome |-> 0, outvc |-> NoVC]

\* An output VC: m_vc_state and m_credit_count, and whether the tail of its
\* packet is under way downstream.
OutVC == [idle : BOOLEAN, credit : 0 .. MaxCredit, ended : BOOLEAN]

Init ==
  /\ pc = "input" /\ awake = FALSE /\ quiet = FALSE
  /\ vc = [i \in InPorts |-> [v \in VCs |-> IdleVC]]
  /\ older = [i \in InPorts |-> [v \in VCs |-> {}]]
  /\ out = [o \in OutPorts |-> [w \in VCs |->
              [idle |-> TRUE, credit |-> MaxCredit, ended |-> FALSE]]]
  /\ rrInvc = [i \in InPorts |-> 0]
  /\ rrInport = [o \in OutPorts |-> 0]
  /\ winner = [i \in InPorts |-> NoVC]
  /\ lost = [i \in InPorts |-> [o \in OutPorts |-> 0]]

-----------------------------------------------------------------------------
(***************************************************************************)
(* What the links bring: nothing, the next flit of the packet in a VC, or  *)
(* the head of a packet.                                                   *)
(***************************************************************************)
Nothing == [vc |-> NoVC, flow |-> NoFlow]

Bodies(i) ==
  {[vc |-> v, flow |-> NoFlow] : v \in {u \in VCs : vc[i][u].toCome > 0}}

Heads(i) ==
  UNION {{[vc |-> v, flow |-> f] : v \in {u \in VCsOf(VNetOf[f]) : vc[i][u] = IdleVC}} :
           f \in {g \in Flows :
                    /\ InOf[g] = i
                    /\ VNetOf[g] \in Ordered =>
                         \A u \in VCs : vc[i][u].flow = g => vc[i][u].toCome = 0}}

Arrivals(i) == {Nothing} \cup Bodies(i) \cup IF quiet THEN {} ELSE Heads(i)

AllArrivals ==
  {a \in [InPorts -> UNION {Arrivals(i) : i \in InPorts}] :
     \A i \in InPorts : a[i] \in Arrivals(i)}

\* insertFlit, and for a head set_vc_active and grant_outport.
Insert(c, flow) ==
  IF flow = NoFlow
  THEN [flow |-> c.flow, flits |-> c.flits + 1, toCome |-> c.toCome - 1,
        outvc |-> c.outvc]
  ELSE [flow |-> flow, flits |-> 1, toCome |-> SizeOf[flow] - 1, outvc |-> NoVC]

\* InputUnit::wakeup of every input port.
InputUnits(a) ==
  /\ pc = "input" /\ pc' = "output"
  /\ awake' = (awake \/ \E i \in InPorts : a[i] # Nothing)
  /\ vc' = [i \in InPorts |-> [v \in VCs |->
              IF a[i].vc = v THEN Insert(vc[i][v], a[i].flow) ELSE vc[i][v]]]
  /\ older' = [i \in InPorts |-> [v \in VCs |->
                 IF a[i].vc = v /\ a[i].flow # NoFlow
                 THEN {u \in VCs : vc[i][u] # IdleVC} ELSE older[i][v]]]
  /\ UNCHANGED <<quiet, out, rrInvc, rrInport, winner, lost>>

\* The VCs of which a credit may come back to output port o in this cycle.
AllCredits ==
  {c \in [OutPorts -> VCs \cup {NoVC}] :
     \A o \in OutPorts : c[o] # NoVC => out[o][c[o]].credit < MaxCredit}

\* The credit of the tail is the last one of its packet: it frees the VC.
increment_credit(w) ==
  LET free == w.ended /\ w.credit = MaxCredit - 1
  IN [idle |-> w.idle \/ free, credit |-> w.credit + 1, ended |-> w.ended /\ ~free]

\* OutputUnit::wakeup of every output port.  The router goes on if a link, a
\* credit link or its last switch allocation has scheduled it for this cycle.
OutputUnits(c) ==
  /\ pc = "output"
  /\ awake' = (awake \/ \E o \in OutPorts : c[o] # NoVC)
  /\ pc' = IF awake' THEN "SA-I" ELSE "input"
  /\ out' = [o \in OutPorts |-> [w \in VCs |->
               IF c[o] = w THEN increment_credit(out[o][w]) ELSE out[o][w]]]
  /\ UNCHANGED <<quiet, vc, older, rrInvc, rrInport, winner, lost>>

\* From now on the environment only finishes what it has begun to send.
Quieten ==
  /\ pc = "input" /\ ~quiet
  /\ quiet' = TRUE
  /\ UNCHANGED <<pc, awake, vc, older, out, rrInvc, rrInport, winner, lost>>

-----------------------------------------------------------------------------
need_stage(i, v) == vc[i][v].flits > 0

OutPort(i, v) == OutOf[vc[i][v].flow]

\* The scan of output VCs ends at the escape VC for a packet with a restricted
\* turn ahead.
Scanned(f) == {w \in VCsOf(VNetOf[f]) : f \in Turning => w % PerVNet < EVC}

\* Mutant: SA-I looks at the escape VC too.
has_free_vc_any(o, f) == \E w \in VCsOf(VNetOf[f]) : out[o][w].idle

has_free_vc(o, f) == \E w \in Scanned(f) : out[o][w].idle

has_credit(o, w) == out[o][w].credit > 0

\* Mutant: enqueue times compared with <=, so that a VC holds itself back.
send_allowed_orEqual(i, v) ==
  /\ IF vc[i][v].outvc = NoVC THEN has_free_vc(OutPort(i, v), vc[i][v].flow)
     ELSE has_credit(OutPort(i, v), vc[i][v].outvc)
  /\ get_vnet(v) \in Ordered =>
       ~\E u \in VCsOf(get_vnet(v)) : /\ need_stage(i, u)
                                      /\ OutPort(i, u) = OutPort(i, v)
                                      /\ u = v \/ u \in older[i][v]

\* Mutant: no look at the other VCs of an ordered vnet.
send_allowed_anyOrder(i, v) ==
  IF vc[i][v].outvc = NoVC THEN has_free_vc(OutPort(i, v), vc[i][v].flow)
  ELSE has_credit(OutPort(i, v), vc[i][v].outvc)

\* A head needs a free output VC, any other flit a credit; and in an ordered
\* vnet no older packet is ready for the same output port.
send_allowed(i, v) ==
  /\ IF vc[i][v].outvc = NoVC THEN has_free_vc(OutPort(i, v), vc[i][v].flow)
     ELSE has_credit(OutPort(i, v), vc[i][v].outvc)
  /\ get_vnet(v) \in Ordered =>
       ~\E u \in VCsOf(get_vnet(v)) : /\ need_stage(i, u)
                                      /\ OutPort(i, u) = OutPort(i, v)
                                      /\ u \in older[i][v]

MaySend(i) == {v \in VCs : need_stage(i, v) /\ send_allowed(i, v)}

\* The first member of S at or after the pointer r, modulo n.
FirstFrom(r, n, S) ==
  CHOOSE x \in S : \A y \in S : (x - r) % n <= (y - r) % n

\* SA-I: the first VC from the pointer on that may send places a request, and
\* the pointer moves past it, whether or not SA-II will grant it.
arbitrate_inports ==
  /\ pc = "SA-I" /\ pc' = "SA-II"
  /\ winner' = [i \in InPorts |->
                  IF MaySend(i) = {} THEN NoVC
                  ELSE FirstFrom(rrInvc[i], NumVCs, MaySend(i))]
  /\ rrInvc' = [i \in InPorts |->
                  IF MaySend(i) = {} THEN rrInvc[i] ELSE (winner'[i] + 1) % NumVCs]
  /\ UNCHANGED <<awake, quiet, vc, older, out, rrInport, lost>>

-----------------------------------------------------------------------------
\* m_port_requests.
Requesters(o) ==
  {i \in InPorts : winner[i] # NoVC /\ OutPort(i, winner[i]) = o}

Requested == {o \in OutPorts : Requesters(o) # {}}

\* Mutant: the scan of input ports starts at port 0, as with DEFLECTION_.
Grants_reset == [o \in Requested |-> FirstFrom(0, NumIn, Requesters(o))]

\* SA-II: the first input port from the pointer on, of every output port that
\* is requested.
Grants == [o \in Requested |-> FirstFrom(rrInport[o], NumIn, Requesters(o))]

\* select_free_vc: the first idle VC of a scan that ends where that of SA-I did.
select_free_vc(o, f) ==
  LET idle == {w \in Scanned(f) : out[o][w].idle}
  IN IF idle = {} THEN NoVC ELSE CHOOSE w \in idle : \A x \in idle : w <= x

\* The output VC of a flit that leaves by o; vc_allocate for a head.
OutVCOf(i, o) ==
  LET c == vc[i][winner[i]]
  IN IF c.outvc = NoVC THEN select_free_vc(o, c.flow) ELSE c.outvc

IsTail(i) == vc[i][winner[i]].flits = 1 /\ vc[i][winner[i]].toCome = 0

\* getTopFlit and, after a tail, set_vc_idle.
RemoveFlit(i, w) ==
  LET c == vc[i][winner[i]]
  IN IF IsTail(i) THEN IdleVC
     ELSE [flow |-> c.flow, flits |-> c.flits - 1, toCome |-> c.toCome, outvc |-> w]

\* Mutant: vc_allocate does not mark the VC ACTIVE_.
decrement_credit_noActive(w, tail) ==
  [idle |-> w.idle, credit |-> w.credit - 1, ended |-> tail]

decrement_credit(w, tail) ==
  [idle |-> FALSE, credit |-> w.credit - 1, ended |-> tail]

\* Mutant: only the VCs that placed a request are looked at.
check_for_wakeup_winners ==
  \E i \in InPorts : winner[i] # NoVC /\ vc'[i][winner[i]].flits > 0

check_for_wakeup == \E i \in InPorts, v \in VCs : vc'[i][v].flits > 0

\* SA-II: every requested output port lets one flit leave, which takes a credit,
\* and its pointer moves past the winner.  The assertion is that of vc_allocate.
arbitrate_outports ==
  LET grant  == Grants
      by     == [o \in Requested |-> OutVCOf(grant[o], o)]
      leaves == {grant[o] : o \in Requested}
      tails  == {i \in leaves : IsTail(i)}
  IN
  /\ pc = "SA-II"
  /\ pc' = IF \E o \in Requested : by[o] = NoVC THEN "assert" ELSE "input"
  /\ vc' = [i \in InPorts |-> [v \in VCs |->
              IF i \in leaves /\ v = winner[i]
              THEN RemoveFlit(i, by[OutPort(i, v)]) ELSE vc[i][v]]]
  /\ older' = [i \in InPorts |-> [v \in VCs |->
                 IF i \notin tails THEN older[i][v]
                 ELSE IF v = winner[i] THEN {} ELSE older[i][v] \ {winner[i]}]]
  /\ out' = [o \in OutPorts |-> [w \in VCs |->
               IF o \in Requested /\ w = by[o]
               THEN decrement_credit(out[o][w], grant[o] \in tails)
               ELSE out[o][w]]]
  /\ rrInport' = [o \in OutPorts |->
                    IF o \in Requested THEN (grant[o] + 1) % NumIn ELSE rrInport[o]]
  /\ lost' = [i \in InPorts |-> [o \in OutPorts |->
                IF i \in Requesters(o) \ leaves THEN lost[i][o] + 1 ELSE 0]]
  /\ winner' = [i \in InPorts |-> NoVC]
  /\ awake' = check_for_wakeup
  /\ UNCHANGED <<quiet, rrInvc>>

Next ==
  \/ \E a \in AllArrivals : InputUnits(a)
  \/ \E c \in AllCredits : OutputUnits(c)
  \/ Quieten
  \/ arbitrate_inports
  \/ arbitrate_outports

\* A flit, or a credit, comes back.
SomeArrival == \E a \in AllArrivals :
  (\E i \in InPorts : a[i] # Nothing) /\ InputUnits(a)

SomeCredit == \E c \in AllCredits :
  (\E o \in OutPorts : c[o] # NoVC) /\ OutputUnits(c)

\* Cycles follow one another; upstream and downstream are not stuck.
Spec ==
  Init /\ [][Next]_vars /\ WF_vars(Next) /\ SF_vars(SomeArrival) /\ SF_vars(SomeCredit)

-----------------------------------------------------------------------------
\* Credits stay within the buffers of the next router, and nothing is in a VC
\* that no packet has.
TypeOK ==
  /\ pc \in {"input", "output", "SA-I", "SA-II", "assert"}
  /\ awake \in BOOLEAN /\ quiet \in BOOLEAN
  /\ vc \in [InPorts -> [VCs -> VC \cup {IdleVC}]]
  /\ older \in [InPorts -> [VCs -> SUBSET VCs]]
  /\ out \in [OutPorts -> [VCs -> OutVC]]
  /\ rrInvc \in [InPorts -> VCs]
  /\ rrInport \in [OutPorts -> InPorts]
  /\ winner \in [InPorts -> VCs \cup {NoVC}]
  /\ lost \in [InPorts -> [OutPorts -> Nat]]

\* vc_allocate finds the free VC that send_allowed has seen in SA-I, although
\* input ports decide on their own and the port goes to one of them only in
\* SA-II.
AssertionsHold == pc # "assert"

\* No input port requests an output port in vain in as many cycles in a row as
\* there are input ports, however the VCs behind the requests change.
BoundedLosses == \A i \in InPorts, o \in OutPorts : lost[i][o] < NumIn

\* Every output port keeps the promises of VcPort, though SA-I and SA-II look at
\* its VCs at different times and input ports decide on their own: no two input
\* VCs send to one output VC at a time, and no buffer is used twice.
Port(o) == INSTANCE VcPort WITH
             Senders <- InPorts \X VCs, Capacity <- MaxCredit,
             taken <- [w \in VCs |-> ~out[o][w].idle],
             sender <- [w \in VCs |->
                          {q \in InPorts \X VCs : /\ vc[q[1]][q[2]].outvc = w
                                                 /\ OutPort(q[1], q[2]) = o}],
             used <- [w \in VCs |-> MaxCredit - out[o][w].credit]

PortStep(o) == Port(o)!Next \/ UNCHANGED Port(o)!vars

ImplementsPorts ==
  /\ \A o \in OutPorts : Port(o)!Init
  /\ [][\A o \in OutPorts : PortStep(o)]_vars

\* In an ordered vnet no flit leaves while a packet of its flow that came
\* before it is still in the router.
PacketsLeaveInOrder ==
  [][\A i \in InPorts, v \in VCs :
       vc'[i][v].flits < vc[i][v].flits =>
         ~\E u \in older[i][v] : /\ vc[i][u].flow = vc[i][v].flow
                                 /\ VNetOf[vc[i][v].flow] \in Ordered]_vars

\* A router with a flit in a buffer has an event in the next cycle, also if the
\* flit may not be sent, lost SA-I or SA-II, or is behind the one that leaves:
\* it does not depend on a link or a credit to be looked at again.
NoFlitForgotten ==
  pc \in {"input", "output"} /\ ~awake =>
    \A i \in InPorts, v \in VCs : ~need_stage(i, v)

\* When no more packets come every packet in the router leaves: no flit waits
\* for a wakeup that is not scheduled or for another that waits for it.
RouterDrains ==
  quiet ~> \A i \in InPorts, v \in VCs : vc[i][v] = IdleVC
=============================================================================
