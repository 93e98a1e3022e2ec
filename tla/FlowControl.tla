----------------------------- MODULE FlowControl -----------------------------
(***************************************************************************)
(* The buffered network (wormhole switching with virtual channels): an     *)
(* output port of a router or network interface, its link, the input port  *)
(* at the other end and the credit link back.  The upstream side knows the *)
(* buffers of the downstream VCs only through its OutVcStates: a credit    *)
(* count and whether the VC is idle.                                       *)
(*                                                                         *)
(* A link is one queue ordered by time and so is its credit link; flits    *)
(* and credits of different VCs do not affect each other, and are kept     *)
(* apart here.  A wakeup of a unit handles what has arrived, whenever the  *)
(* latencies let it: any order of arrivals and departures may happen.      *)
(***************************************************************************)
EXTENDS Integers, Sequences

CONSTANTS
  NumVCs,         \* m_vc_per_vnet: the VCs of one vnet
  Sources,        \* input VCs upstream that send packets to this port
  MaxCredit,      \* m_max_credit_count: getBuffersPerDataVC / CtrlVC
  MaxFlits,       \* bound on the length of a packet
  EscapeRouting,  \* TRUE: RANDOM_ at a North or South port
  EVC             \* the escape VC

VARIABLES
  left,        \* flits of its packet that a source has not sent yet
  restricted,  \* the packet has to turn (restricted_turn)
  outvc,       \* m_output_vc of the source's VirtualChannel
  outState,    \* m_vc_state of every OutVcState
  credit,      \* m_credit_count of every OutVcState
  link,        \* flits under way to every downstream VC
  vcState,     \* m_vc_state of every downstream VirtualChannel
  buf,         \* m_input_buffer of every downstream VirtualChannel
  credits      \* credits under way upstream

vars == <<left, restricted, outvc, outState, credit, link, vcState, buf,
          credits>>

VCs     == 0 .. NumVCs - 1
NoVC    == -1
IDLE_   == "IDLE_"
ACTIVE_ == "ACTIVE_"

\* type is HEAD_TAIL_ when both flags are set, BODY_ when none is.
Flit == [src : Sources, head : BOOLEAN, tail : BOOLEAN]

Credit == [is_free_signal : BOOLEAN]

ASSUME Parameters ==
  /\ NumVCs \in Nat \ {0}
  /\ MaxCredit \in Nat \ {0}       \* assert(m_credit_count >= 1)
  /\ MaxFlits \in Nat \ {0}
  /\ EscapeRouting \in BOOLEAN
  /\ EVC \in Nat

-----------------------------------------------------------------------------
Init ==
  /\ left = [s \in Sources |-> 0]
  /\ restricted = [s \in Sources |-> FALSE]
  /\ outvc = [s \in Sources |-> NoVC]
  /\ outState = [v \in VCs |-> IDLE_]
  /\ credit = [v \in VCs |-> MaxCredit]
  /\ link = [v \in VCs |-> <<>>]
  /\ vcState = [v \in VCs |-> IDLE_]
  /\ buf = [v \in VCs |-> <<>>]
  /\ credits = [v \in VCs |-> <<>>]

\* A packet reaches the source: its VC had none.
NewPacket(s) ==
  /\ left[s] = 0
  /\ \E n \in 1 .. MaxFlits, turns \in BOOLEAN :
       /\ left' = [left EXCEPT ![s] = n]
       /\ restricted' = [restricted EXCEPT ![s] = turns]
  /\ UNCHANGED <<outvc, outState, credit, link, vcState, buf, credits>>

\* The VCs has_free_vc and select_free_vc look at, in ascending order: with
\* escape VCs the scan of a packet that has to turn ends at the escape VC.
Scanned(s) ==
  IF EscapeRouting /\ restricted[s] THEN {v \in VCs : v < EVC} ELSE VCs

\* The free VC with the lowest id among them.
FreeVCs(s) == {v \in Scanned(s) : outState[v] = IDLE_}

select_free_vc(s, v) == v \in FreeVCs(s) /\ \A u \in FreeVCs(s) : v <= u

\* The flit at the head of a source's VC: the first one of a packet has no
\* output VC yet, the last one is the tail.
NextFlit(s) == [src |-> s, head |-> outvc[s] = NoVC, tail |-> left[s] = 1]

\* CrossbarSwitch::wakeup and NetworkLink::wakeup: a granted flit moves to the
\* output queue and from there to the link.
SwitchTraversal(v, f) == link' = [link EXCEPT ![v] = Append(@, f)]

decrement_credit(v) == credit' = [credit EXCEPT ![v] = @ - 1]

increment_credit(v) == credit' = [credit EXCEPT ![v] = @ + 1]

\* arbitrate_outports for a flit of source s that goes to VC v: the OutVcState
\* pays a credit, the flit crosses the switch, and after the tail the source's
\* VC forgets its output VC (set_vc_idle).
Send(s, v) ==
  /\ SwitchTraversal(v, NextFlit(s))
  /\ decrement_credit(v)
  /\ left' = [left EXCEPT ![s] = @ - 1]
  /\ outvc' = [outvc EXCEPT ![s] = IF left[s] = 1 THEN NoVC ELSE v]
  /\ UNCHANGED <<restricted, vcState, buf, credits>>

\* Mutant: vc_allocate finds a free VC and does not mark it ACTIVE_.
SendHead_noActive(s) ==
  /\ left[s] > 0 /\ outvc[s] = NoVC
  /\ \E v \in VCs : select_free_vc(s, v) /\ Send(s, v)
  /\ UNCHANGED outState

\* Mutant: every free VC that is looked at becomes ACTIVE_.
SendHead_allActive(s) ==
  /\ left[s] > 0 /\ outvc[s] = NoVC
  /\ \E v \in VCs : select_free_vc(s, v) /\ Send(s, v)
  /\ outState' = [v \in VCs |-> IF v \in FreeVCs(s) THEN ACTIVE_
                                ELSE outState[v]]

\* send_allowed and vc_allocate for a HEAD_ or HEAD_TAIL_ flit: it takes a
\* free VC, without a look at its credits.
SendHead(s) ==
  /\ left[s] > 0 /\ outvc[s] = NoVC
  /\ \E v \in VCs :
       /\ select_free_vc(s, v)
       /\ outState' = [outState EXCEPT ![v] = ACTIVE_]
       /\ Send(s, v)

\* OutputUnit::has_credit asserts that the VC is ACTIVE_.
has_credit(v) == credit[v] > 0

\* send_allowed for a BODY_ or TAIL_ flit.
SendBody(s) ==
  /\ left[s] > 0 /\ outvc[s] # NoVC
  /\ outState[outvc[s]] = ACTIVE_
  /\ has_credit(outvc[s])
  /\ Send(s, outvc[s])
  /\ UNCHANGED outState

\* Mutant: a flit is put before those that arrived earlier.
InputUnitWakeup_lifo(v) ==
  /\ link[v] # <<>>
  /\ vcState[v] = IF Head(link[v]).head THEN IDLE_ ELSE ACTIVE_
  /\ vcState' = [vcState EXCEPT ![v] = ACTIVE_]
  /\ buf' = [buf EXCEPT ![v] = <<Head(link[v])>> \o @]
  /\ link' = [link EXCEPT ![v] = Tail(@)]
  /\ UNCHANGED <<left, restricted, outvc, outState, credit, credits>>

\* InputUnit::wakeup of the downstream router: a head activates its VC (which
\* is asserted to be IDLE_), another flit finds it ACTIVE_ (asserted).
InputUnitWakeup(v) ==
  /\ link[v] # <<>>
  /\ vcState[v] = IF Head(link[v]).head THEN IDLE_ ELSE ACTIVE_
  /\ vcState' = [vcState EXCEPT ![v] = ACTIVE_]
  /\ buf' = [buf EXCEPT ![v] = Append(@, Head(link[v]))]
  /\ link' = [link EXCEPT ![v] = Tail(@)]
  /\ UNCHANGED <<left, restricted, outvc, outState, credit, credits>>

\* InputUnit::increment_credit: a credit goes to the credit link.
ReturnCredit(v, free) ==
  credits' = [credits EXCEPT ![v] = Append(@, [is_free_signal |-> free])]

\* Mutant: a packet gives its VC back with its first credit.
Depart_freeAtHead(v) ==
  /\ buf[v] # <<>>
  /\ buf' = [buf EXCEPT ![v] = Tail(@)]
  /\ vcState' = [vcState EXCEPT ![v] = IF Head(buf[v]).tail THEN IDLE_ ELSE @]
  /\ ReturnCredit(v, Head(buf[v]).head)
  /\ UNCHANGED <<left, restricted, outvc, outState, credit, link>>

\* Mutant: the VC of a packet that has left stays ACTIVE_.
Depart_noIdle(v) ==
  /\ buf[v] # <<>>
  /\ buf' = [buf EXCEPT ![v] = Tail(@)]
  /\ ReturnCredit(v, Head(buf[v]).tail)
  /\ UNCHANGED <<left, restricted, outvc, outState, credit, link, vcState>>

\* arbitrate_outports of the downstream router: the flit leaves and a credit
\* goes back; with the tail, which leaves its VC empty (asserted), the VC
\* becomes IDLE_ and the credit says so.
Depart(v) ==
  /\ buf[v] # <<>>
  /\ Head(buf[v]).tail => Tail(buf[v]) = <<>>
  /\ buf' = [buf EXCEPT ![v] = Tail(@)]
  /\ vcState' = [vcState EXCEPT ![v] = IF Head(buf[v]).tail THEN IDLE_ ELSE @]
  /\ ReturnCredit(v, Head(buf[v]).tail)
  /\ UNCHANGED <<left, restricted, outvc, outState, credit, link>>

\* Mutant: the credit of a tail frees the VC and is not counted.
OutputUnitWakeup_noCount(v) ==
  /\ credits[v] # <<>>
  /\ credit' = [credit EXCEPT ![v] =
                IF Head(credits[v]).is_free_signal THEN @ ELSE @ + 1]
  /\ outState' = [outState EXCEPT ![v] =
                  IF Head(credits[v]).is_free_signal THEN IDLE_ ELSE @]
  /\ credits' = [credits EXCEPT ![v] = Tail(@)]
  /\ UNCHANGED <<left, restricted, outvc, link, vcState, buf>>

\* OutputUnit::wakeup (and the end of NetworkInterface::wakeup): the OutVcState
\* counts a credit and becomes IDLE_ with the free signal.
OutputUnitWakeup(v) ==
  /\ credits[v] # <<>>
  /\ increment_credit(v)
  /\ outState' = [outState EXCEPT ![v] =
                  IF Head(credits[v]).is_free_signal THEN IDLE_ ELSE @]
  /\ credits' = [credits EXCEPT ![v] = Tail(@)]
  /\ UNCHANGED <<left, restricted, outvc, link, vcState, buf>>

Next ==
  \/ \E s \in Sources : NewPacket(s) \/ SendHead(s) \/ SendBody(s)
  \/ \E v \in VCs : InputUnitWakeup(v) \/ Depart(v) \/ OutputUnitWakeup(v)

Spec == Init /\ [][Next]_vars

(***************************************************************************)
(* Every insertion into a link schedules the wakeup of its consumer, so    *)
(* what is on a link is received.  That the downstream router keeps        *)
(* releasing flits is the assumption on the rest of the network.  Nothing  *)
(* is assumed of the sources: their requests may be passed over.           *)
(***************************************************************************)
FairSpec ==
  /\ Spec
  /\ \A v \in VCs : /\ WF_vars(InputUnitWakeup(v))
                    /\ WF_vars(Depart(v))
                    /\ WF_vars(OutputUnitWakeup(v))

-----------------------------------------------------------------------------
TypeOK ==
  /\ left \in [Sources -> 0 .. MaxFlits]
  /\ restricted \in [Sources -> BOOLEAN]
  /\ outvc \in [Sources -> VCs \cup {NoVC}]
  /\ outState \in [VCs -> {IDLE_, ACTIVE_}]
  /\ credit \in [VCs -> 0 .. MaxCredit]
  /\ link \in [VCs -> Seq(Flit)]
  /\ vcState \in [VCs -> {IDLE_, ACTIVE_}]
  /\ buf \in [VCs -> Seq(Flit)]
  /\ credits \in [VCs -> Seq(Credit)]

\* Every buffer slot of a VC is accounted for: it is a credit upstream, a flit
\* on its way, a flit in the buffer or a credit on its way back, and no flit is
\* sent on credit that is not there.
CreditsConserved ==
  \A v \in VCs :
    /\ credit[v] >= 0
    /\ credit[v] + Len(link[v]) + Len(buf[v]) + Len(credits[v]) = MaxCredit

\* The assertions of InputUnit::wakeup: a head never meets a VC in use, the
\* rest of a packet never an idle one.
ArrivalsMeetTheirVC ==
  \A v \in VCs : link[v] # <<>> =>
    vcState[v] = IF Head(link[v]).head THEN IDLE_ ELSE ACTIVE_

\* The assertion of arbitrate_outports: a tail leaves its VC empty.
TailLeavesVCEmpty ==
  \A v \in VCs : buf[v] # <<>> /\ Head(buf[v]).tail => Len(buf[v]) = 1

\* Neither fails, although the VC is given back downstream, announced by the
\* last credit, and taken again upstream at different times.
AssertionsHold == ArrivalsMeetTheirVC /\ TailLeavesVCEmpty

\* send_allowed, "each VC has at least one buffer, so no need for additional
\* credit check": an idle VC has all its credits, and nothing of the packet
\* before is left on the links or downstream.
IdleVCIsEmpty ==
  \A v \in VCs : outState[v] = IDLE_ =>
    /\ credit[v] = MaxCredit
    /\ vcState[v] = IDLE_

\* The flits between the upstream switch and the downstream one, oldest first.
UnderWay(v) == buf[v] \o link[v]

\* Flits of different packets never mix in a VC, and no two sources send to
\* the same VC.
OnePacketPerVC ==
  /\ \A v \in VCs : \A j, k \in 1 .. Len(UnderWay(v)) :
       UnderWay(v)[j].src = UnderWay(v)[k].src
  /\ \A s, t \in Sources : outvc[s] # NoVC /\ outvc[s] = outvc[t] => s = t
  /\ \A s \in Sources, v \in VCs : outvc[s] = v =>
       \A k \in 1 .. Len(UnderWay(v)) :
         UnderWay(v)[k].src = s /\ ~UnderWay(v)[k].tail

\* Once all of a packet has been sent, its output VC becomes free again.
AllSent(v) ==
  /\ outState[v] = ACTIVE_
  /\ \A s \in Sources : outvc[s] # v

VCsAreFreed == \A v \in VCs : AllSent(v) ~> outState[v] = IDLE_

\* The upstream side is an output port, see VcPort; what is used is what is not
\* a credit.
Port == INSTANCE VcPort WITH
          Senders <- Sources, Capacity <- MaxCredit,
          taken <- [v \in VCs |-> outState[v] = ACTIVE_],
          sender <- [v \in VCs |-> {s \in Sources : outvc[s] = v}],
          used <- [v \in VCs |-> MaxCredit - credit[v]]

\* The link implements the packet channel of VcPipe: what is under way is a
\* queue, open from vc_allocate until the free signal has come back.
Pipe == INSTANCE VcPipe WITH
          Flits <- Flit, Capacity <- MaxCredit,
          open <- [v \in VCs |-> outState[v] = ACTIVE_],
          senders <- [v \in VCs |-> {s \in Sources : outvc[s] = v}],
          queue <- [v \in VCs |-> UnderWay(v)]

\* Whoever keeps the promises of VcPort gets a VcPipe from the link: the port
\* goes by its credits alone, and the queues never overflow or mix packets.
ImplementsPortAndPipe == Port!Spec /\ Pipe!Spec
=============================================================================
