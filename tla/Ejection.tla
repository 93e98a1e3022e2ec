------------------------------ MODULE Ejection ------------------------------
(***************************************************************************)
(* How a network interface of the buffered network hands packets to the    *)
(* protocol: the flits that its router sends it, the queue of tails whose  *)
(* message did not fit into its MessageBuffer, the callback that wakes the *)
(* interface when a MessageBuffer is dequeued, and the queue of credits    *)
(* that its credit link drains one per wakeup.                             *)
(*                                                                         *)
(* In a cycle the interface, the credit link and the protocol run in any   *)
(* order, the first two only if they were scheduled.  A wakeup of the      *)
(* interface takes two steps (m_stall_queue, then the link and the         *)
(* credits) that nothing else comes between.  The router is the upstream   *)
(* side of FlowControl with links of no latency.                           *)
(***************************************************************************)
EXTENDS Integers, Sequences, FiniteSets, SequencesExt, FiniteSetsExt

CONSTANTS
  Vnets,      \* virtual networks
  VCs,        \* the VCs of all vnets
  VnetOf,     \* the vnet of every VC
  MaxCredit,  \* credits of a VC
  MaxFlits,   \* bound on the length of a packet
  Slots       \* capacity of the MessageBuffer of a vnet

ASSUME Parameters ==
  /\ IsFiniteSet(VCs) /\ "none" \notin VCs
  /\ VnetOf \in [VCs -> Vnets]
  /\ MaxCredit \in Nat \ {0}
  /\ MaxFlits \in Nat \ {0}
  /\ Slots \in Nat \ {0}

VARIABLES
  left,      \* upstream: flits of its packet that a VC has not sent yet
  idle,      \* upstream: the VC is IDLE_
  credit,    \* upstream: m_credit_count
  inLink,    \* the flit that arrives in this cycle
  m_stall_queue,           \* the VCs of the stalled tails
  m_stall_count,           \* stalled tails of every vnet
  messageEnqueuedThisCycle,
  outCreditQueue,          \* credits that the credit link has to take
  ready,     \* messages of a MessageBuffer that the protocol may dequeue
  entered,   \* messages that entered the MessageBuffer in this cycle
  popped,    \* messages that left it in this cycle
  callback,  \* the MessageBuffer has a dequeue callback
  ni,        \* what the interface still has to do in this cycle
  niNext,    \* the interface is scheduled for the next cycle
  link,      \* the credit link has to run in this cycle
  linkNext   \* the credit link is scheduled for the next cycle

upstream  == <<left, idle, credit>>
stall     == <<m_stall_queue, m_stall_count, messageEnqueuedThisCycle>>
buffers   == <<ready, entered, popped, callback>>
schedule  == <<ni, niNext, link, linkNext>>
vars == <<upstream, inLink, stall, outCreditQueue, buffers, schedule>>

NoFlit == [vc |-> "none", tail |-> FALSE]
Flit   == [vc : VCs, tail : BOOLEAN]
Credit == [vc : VCs, is_free_signal : BOOLEAN]

-----------------------------------------------------------------------------
Init ==
  /\ left = [v \in VCs |-> 0]
  /\ idle = [v \in VCs |-> TRUE]
  /\ credit = [v \in VCs |-> MaxCredit]
  /\ inLink = NoFlit
  /\ m_stall_queue = <<>>
  /\ m_stall_count = [n \in Vnets |-> 0]
  /\ messageEnqueuedThisCycle = FALSE
  /\ outCreditQueue = <<>>
  /\ ready = [n \in Vnets |-> 0]
  /\ entered = [n \in Vnets |-> 0]
  /\ popped = [n \in Vnets |-> 0]
  /\ callback = [n \in Vnets |-> FALSE]
  /\ ni = "done" /\ niNext = FALSE
  /\ link = FALSE /\ linkNext = FALSE

\* MessageBuffer::areNSlotsAvailable(1): what is dequeued in a cycle makes
\* room in the next one.
SlotAvailable(n) == ready[n] + entered[n] + popped[n] < Slots

\* MessageBuffer::enqueue with a delay of one cycle.
Enqueue(n) == entered' = [entered EXCEPT ![n] = @ + 1]

sendCredit(v, is_free) ==
  outCreditQueue' = Append(outCreditQueue,
                           [vc |-> v, is_free_signal |-> is_free])

\* The positions in the stall queue whose message fits now.
Unstallable ==
  {k \in DOMAIN m_stall_queue : SlotAvailable(VnetOf[m_stall_queue[k]])}

\* Mutant: the last message that fits leaves the stall queue.
Unstall_last ==
  LET k == Max(Unstallable)
      v == m_stall_queue[k]
      n == VnetOf[v]
  IN /\ Enqueue(n)
     /\ sendCredit(v, TRUE)
     /\ m_stall_queue' = RemoveAt(m_stall_queue, k)
     /\ m_stall_count' = [m_stall_count EXCEPT ![n] = @ - 1]
     /\ callback' = [callback EXCEPT ![n] = @ /\ m_stall_count[n] > 1]

\* Mutant: the callback goes with the first message that is unstalled.
Unstall_unregister ==
  LET k == Min(Unstallable)
      v == m_stall_queue[k]
      n == VnetOf[v]
  IN /\ Enqueue(n)
     /\ sendCredit(v, TRUE)
     /\ m_stall_queue' = RemoveAt(m_stall_queue, k)
     /\ m_stall_count' = [m_stall_count EXCEPT ![n] = @ - 1]
     /\ callback' = [callback EXCEPT ![n] = FALSE]

\* checkStallQueue for the first message that fits: it enters its
\* MessageBuffer and its VC is given back; the callback goes with the last
\* stalled message of the vnet.
Unstall ==
  LET k == Min(Unstallable)
      v == m_stall_queue[k]
      n == VnetOf[v]
  IN /\ Enqueue(n)
     /\ sendCredit(v, TRUE)
     /\ m_stall_queue' = RemoveAt(m_stall_queue, k)
     /\ m_stall_count' = [m_stall_count EXCEPT ![n] = @ - 1]
     /\ callback' = [callback EXCEPT ![n] = @ /\ m_stall_count[n] > 1]

\* Mutant: nothing is unstalled.
checkStallQueue_never ==
  /\ ni = "stalled"
  /\ ni' = "link"
  /\ messageEnqueuedThisCycle' = FALSE
  /\ UNCHANGED <<upstream, inLink, m_stall_queue, m_stall_count, buffers,
                 outCreditQueue, niNext, link, linkNext>>

checkStallQueue ==
  /\ ni = "stalled"
  /\ ni' = "link"
  /\ messageEnqueuedThisCycle' = (Unstallable # {})
  /\ IF Unstallable # {}
       THEN Unstall
       ELSE UNCHANGED <<m_stall_queue, m_stall_count, entered, callback,
                        outCreditQueue>>
  /\ UNCHANGED <<upstream, inLink, ready, popped, niNext, link, linkNext>>

\* A tail whose message fits enters the MessageBuffer and gives its VC back.
EjectTail ==
  /\ inLink.tail
  /\ ~messageEnqueuedThisCycle /\ SlotAvailable(VnetOf[inLink.vc])
  /\ Enqueue(VnetOf[inLink.vc])
  /\ sendCredit(inLink.vc, TRUE)
  /\ UNCHANGED <<m_stall_queue, m_stall_count, callback>>

\* Mutant: a tail that stalls gives its VC back at once.
StallTail_credit ==
  /\ inLink.tail
  /\ messageEnqueuedThisCycle \/ ~SlotAvailable(VnetOf[inLink.vc])
  /\ m_stall_queue' = Append(m_stall_queue, inLink.vc)
  /\ m_stall_count' = [m_stall_count EXCEPT ![VnetOf[inLink.vc]] = @ + 1]
  /\ callback' = [callback EXCEPT ![VnetOf[inLink.vc]] = TRUE]
  /\ sendCredit(inLink.vc, TRUE)
  /\ UNCHANGED entered

\* Another one stalls and keeps its VC until the MessageBuffer calls back.
StallTail ==
  /\ inLink.tail
  /\ messageEnqueuedThisCycle \/ ~SlotAvailable(VnetOf[inLink.vc])
  /\ m_stall_queue' = Append(m_stall_queue, inLink.vc)
  /\ m_stall_count' = [m_stall_count EXCEPT ![VnetOf[inLink.vc]] = @ + 1]
  /\ callback' = [callback EXCEPT ![VnetOf[inLink.vc]] = TRUE]
  /\ UNCHANGED <<entered, outCreditQueue>>

\* Mutant: every flit gives its VC back.
EatFlit_free ==
  /\ ~inLink.tail
  /\ sendCredit(inLink.vc, TRUE)
  /\ UNCHANGED <<m_stall_queue, m_stall_count, entered, callback>>

\* Any other flit is exchanged for a credit.
EatFlit ==
  /\ ~inLink.tail
  /\ sendCredit(inLink.vc, FALSE)
  /\ UNCHANGED <<m_stall_queue, m_stall_count, entered, callback>>

\* The rest of NetworkInterface::wakeup: the flit on the link, if any, and the
\* wakeup of the credit link in the next cycle if a credit is queued.
ConsumeLink ==
  /\ ni = "link"
  /\ ni' = "done"
  /\ IF inLink = NoFlit
       THEN UNCHANGED <<m_stall_queue, m_stall_count, entered, callback,
                        outCreditQueue>>
       ELSE EjectTail \/ StallTail \/ EatFlit
  /\ inLink' = NoFlit
  /\ linkNext' = (linkNext \/ outCreditQueue' # <<>>)
  /\ UNCHANGED <<upstream, messageEnqueuedThisCycle, ready, popped, niNext,
                 link>>

\* NetworkLink::wakeup of the credit link takes one credit to the router,
\* whose OutputUnit::wakeup handles it.
CreditLinkWakeup ==
  /\ link /\ ni # "link"
  /\ link' = FALSE
  /\ IF outCreditQueue # <<>>
       THEN LET c == Head(outCreditQueue)
            IN /\ credit' = [credit EXCEPT ![c.vc] = @ + 1]
               /\ idle' = [idle EXCEPT ![c.vc] = @ \/ c.is_free_signal]
               /\ outCreditQueue' = Tail(outCreditQueue)
       ELSE UNCHANGED <<credit, idle, outCreditQueue>>
  /\ UNCHANGED <<left, inLink, stall, buffers, ni, niNext, linkNext>>

\* The protocol dequeues a message, and the MessageBuffer calls
\* dequeueCallback, which schedules the interface for the next cycle.
Dequeue(n) ==
  /\ ni # "link"
  /\ ready[n] > 0
  /\ ready' = [ready EXCEPT ![n] = @ - 1]
  /\ popped' = [popped EXCEPT ![n] = @ + 1]
  /\ niNext' = (niNext \/ callback[n])
  /\ UNCHANGED <<upstream, inLink, stall, entered, callback, outCreditQueue,
                 ni, link, linkNext>>

\* What the router sends in a cycle: nothing, the first flit of a packet to an
\* idle VC, or another flit of a packet whose VC has a credit.
NoArrival == inLink' = NoFlit /\ UNCHANGED upstream

Arrival(v, rest) ==
  /\ inLink' = [vc |-> v, tail |-> rest = 0]
  /\ left' = [left EXCEPT ![v] = rest]
  /\ idle' = [idle EXCEPT ![v] = FALSE]
  /\ credit' = [credit EXCEPT ![v] = @ - 1]

HeadArrives(v) == idle[v] /\ \E n \in 1 .. MaxFlits : Arrival(v, n - 1)

BodyArrives(v) == left[v] > 0 /\ credit[v] > 0 /\ Arrival(v, left[v] - 1)

\* A cycle begins when all that was scheduled has run.  The interface is
\* woken up by a flit, by its own schedule or for another reason: a message to
\* inject, a credit.
Cycle(other) ==
  /\ ni = "done" /\ ~link
  /\ NoArrival \/ \E v \in VCs : HeadArrives(v) \/ BodyArrives(v)
  /\ ni' = IF niNext \/ inLink' # NoFlit \/ other THEN "stalled" ELSE "done"
  /\ niNext' = FALSE
  /\ link' = linkNext
  /\ linkNext' = FALSE
  /\ ready' = [n \in Vnets |-> ready[n] + entered[n]]
  /\ entered' = [n \in Vnets |-> 0]
  /\ popped' = [n \in Vnets |-> 0]
  /\ UNCHANGED <<stall, outCreditQueue, callback>>

NetworkInterfaceWakeup == checkStallQueue \/ ConsumeLink

Next ==
  \/ NetworkInterfaceWakeup
  \/ CreditLinkWakeup
  \/ \E n \in Vnets : Dequeue(n)
  \/ \E other \in BOOLEAN : Cycle(other)

Spec == Init /\ [][Next]_vars

(***************************************************************************)
(* Time goes on, what is scheduled runs, and the protocol consumes the     *)
(* messages of every vnet.  Nothing is assumed of the router: a cycle in   *)
(* which it sends nothing is enough for time to go on.  (Dequeue waits     *)
(* while the interface is between its two steps, hence strong fairness.)   *)
(***************************************************************************)
FairSpec ==
  /\ Spec
  /\ WF_vars(NetworkInterfaceWakeup)
  /\ WF_vars(CreditLinkWakeup)
  /\ WF_vars(Cycle(FALSE) /\ NoArrival)
  /\ \A n \in Vnets : SF_vars(Dequeue(n))

\* The interface is moreover woken up again and again for other reasons, a
\* message to inject or a credit: the code does not see to it, see WorkGoesOn.
BusySpec == FairSpec /\ []<><<Cycle(TRUE)>>_vars

-----------------------------------------------------------------------------
TypeOK ==
  /\ left \in [VCs -> 0 .. MaxFlits - 1]
  /\ idle \in [VCs -> BOOLEAN]
  /\ credit \in [VCs -> 0 .. MaxCredit]
  /\ inLink \in Flit \cup {NoFlit}
  /\ m_stall_queue \in Seq(VCs)
  /\ m_stall_count \in [Vnets -> 0 .. Cardinality(VCs)]
  /\ messageEnqueuedThisCycle \in BOOLEAN
  /\ outCreditQueue \in Seq(Credit)
  /\ ready \in [Vnets -> 0 .. Slots]
  /\ entered \in [Vnets -> 0 .. Slots]
  /\ popped \in [Vnets -> 0 .. Slots]
  /\ callback \in [Vnets -> BOOLEAN]
  /\ ni \in {"stalled", "link", "done"}
  /\ niNext \in BOOLEAN
  /\ link \in BOOLEAN /\ linkNext \in BOOLEAN

Stalled(v) == v \in Range(m_stall_queue)

\* The credits of a VC that are queued for the credit link.
Queued(v) == Cardinality({k \in DOMAIN outCreditQueue :
                            outCreditQueue[k].vc = v})

\* A MessageBuffer calls back exactly while a tail of its vnet is stalled,
\* however registrations and unregistrations interleave.
CallbackWhileStalled ==
  \A n \in Vnets :
    /\ m_stall_count[n] =
         Cardinality({k \in DOMAIN m_stall_queue : VnetOf[m_stall_queue[k]] = n})
    /\ callback[n] <=> m_stall_count[n] > 0

\* A buffer slot is a credit upstream, the flit on the link, a stalled tail or
\* a queued credit; and the messages of a vnet, those that enter or leave in
\* this cycle included, fit into its MessageBuffer.
SlotsAccountedFor ==
  /\ \A v \in VCs :
       MaxCredit = credit[v] + Queued(v)
                   + (IF inLink.vc = v THEN 1 ELSE 0)
                   + (IF Stalled(v) THEN 1 ELSE 0)
  /\ \A n \in Vnets : ready[n] + entered[n] + popped[n] <= Slots

\* The router takes a VC for idle only when nothing of its last packet is left
\* here: no stalled tail, and no credit that would count for the next packet.
IdleVCsAreEmpty ==
  \A v \in VCs : idle[v] => ~Stalled(v) /\ Queued(v) = 0 /\ left[v] = 0

\* The first stalled message of a vnet.
FirstStalled(n) ==
  CHOOSE k \in DOMAIN m_stall_queue :
    /\ VnetOf[m_stall_queue[k]] = n
    /\ \A j \in 1 .. k - 1 : VnetOf[m_stall_queue[j]] # n

\* If messages of a vnet are stalled, it is the first of them that enters.
FirstEnters(n) ==
  entered'[n] > entered[n] /\ m_stall_count[n] > 0 =>
    m_stall_queue[FirstStalled(n)] \notin Range(m_stall_queue')

\* Messages of a vnet enter its MessageBuffer in the order of their tails: one
\* that arrives never overtakes one that is stalled.
NoOvertaking == [][\A n \in Vnets : FirstEnters(n)]_vars

\* A stalled message leaves the interface as long as the protocol goes on.
StalledMessagesLeave == \A v \in VCs : Stalled(v) ~> ~Stalled(v)

\* An interface with a stalled message that fits and a queued credit goes on with
\* one of the two: it is woken up for room in a MessageBuffer, and sends a credit
\* for a message that has entered.
WorkGoesOn ==
  \A v, w \in VCs :
    Stalled(v) /\ SlotAvailable(VnetOf[v]) /\ Queued(w) > 0
      ~> ~Stalled(v) \/ Queued(w) = 0
=============================================================================
