------------------------------ MODULE Injection ------------------------------
(***************************************************************************)
(* How a network interface of the buffered network sends messages: every   *)
(* wakeup makes packets of the messages at the heads of inNode_ptr, one    *)
(* packet for each destination, as far as there are idle VCs, sends one    *)
(* flit to the router, and takes one credit back.                          *)
(*                                                                         *)
(* A wakeup is a sequence of steps: the loop over the vnets, one packet or *)
(* one vnet a step, then scheduleOutputLink with checkReschedule, then the *)
(* credit link.  Of the router only the flits that have not been paid back *)
(* are kept.                                                               *)
(*                                                                         *)
(* flitisizeMessage asserts that a packet gets the VC with the number of   *)
(* its vnet: a build with assertions stops at any other VC, one without    *)
(* them (NDEBUG) goes on.  Both builds are modelled.                       *)
(***************************************************************************)
EXTENDS Integers, FiniteSets, FiniteSetsExt

CONSTANTS
  Vnets,      \* number of vnets
  VcPerVnet,  \* m_vc_per_vnet
  Ordered,    \* vnets with isVNetOrdered
  Dests,      \* destinations, as numbers
  MaxFlits,   \* num_flits of a message is one of 1 .. MaxFlits
  MaxCredit   \* credits of a VC

ASSUME Parameters ==
  /\ Vnets \in Nat \ {0}
  /\ VcPerVnet \in Nat \ {0}
  /\ Ordered \subseteq 0 .. Vnets - 1
  /\ Dests \subseteq Nat
  /\ MaxFlits \in Nat \ {0}
  /\ MaxCredit \in Nat \ {0}

VARIABLES
  message,   \* the head of inNode_ptr[vnet]: num_flits, destinations left
  asked,     \* the destinations that message came with
  made,      \* packets made of it for every destination
  flits,     \* flits in m_ni_out_vcs[vc]
  begun,     \* the first of them is not the first of its packet
  older,     \* VCs whose m_ni_out_vcs_enqueue_time is less than that of vc
  fresh,     \* VCs whose packet was made in this wakeup
  outState,  \* m_out_vc_state[vc] is ACTIVE_
  credit,    \* m_credit_count
  unpaid,    \* flits of vc that the router has not paid back
  m_vc_allocator,
  m_vc_round_robin,
  inCredit,  \* the credit on the credit link
  ni,        \* the step the wakeup is at: a vnet of the loop, or one of
             \* the four numbers below
  scheduled, \* the interface is scheduled to wake up
  ndebug     \* the build has no assertions

queue == <<message, asked, made>>
outVcs == <<flits, begun, older>>
vars == <<queue, outVcs, fresh, outState, credit, unpaid, m_vc_allocator,
          m_vc_round_robin, inCredit, ni, scheduled, ndebug>>

VnetIds == 0 .. Vnets - 1
VCs     == 0 .. Vnets * VcPerVnet - 1

get_vnet(v) == v \div VcPerVnet
VCsOf(n) == {v \in VCs : get_vnet(v) = n}

\* The steps of a wakeup that are not in the loop over the vnets, and the end
\* of a program whose assertion failed.
Aborted    == -2
Asleep     == -1
OutputStep == Vnets
CreditStep == Vnets + 1

NoMessage == [size |-> 0, dests |-> {}]
NoCredit  == [vc |-> -1, is_free_signal |-> FALSE]

-----------------------------------------------------------------------------
Init ==
  /\ message = [n \in VnetIds |-> NoMessage]
  /\ asked = [n \in VnetIds |-> {}]
  /\ made = [n \in VnetIds |-> [d \in Dests |-> 0]]
  /\ flits = [v \in VCs |-> 0]
  /\ begun = [v \in VCs |-> FALSE]
  /\ older = [v \in VCs |-> {}]
  /\ fresh = {}
  /\ outState = [v \in VCs |-> FALSE]
  /\ credit = [v \in VCs |-> MaxCredit]
  /\ unpaid = [v \in VCs |-> 0]
  /\ m_vc_allocator = [n \in VnetIds |-> 0]
  /\ m_vc_round_robin = 0
  /\ inCredit = NoCredit
  /\ ni = Asleep
  /\ scheduled = FALSE
  /\ ndebug \in BOOLEAN

\* A message, to one destination or more, becomes the head of its buffer: the
\* protocol enqueues it between two wakeups, or it was in the buffer when the
\* one before it was dequeued.
MessageArrives(n) ==
  /\ message[n] = NoMessage
  /\ ni = Asleep \/ (n < ni /\ ni <= OutputStep)
  /\ \E D \in (SUBSET Dests) \ {{}}, k \in 1 .. MaxFlits :
       /\ message' = [message EXCEPT ![n] = [size |-> k, dests |-> D]]
       /\ asked' = [asked EXCEPT ![n] = D]
  /\ made' = [made EXCEPT ![n] = [d \in Dests |-> 0]]
  /\ scheduled' = (scheduled \/ ni = Asleep)
  /\ UNCHANGED <<outVcs, fresh, outState, credit, unpaid, m_vc_allocator,
                 m_vc_round_robin, inCredit, ni, ndebug>>

\* The router pays for a flit, and gives the VC back with its last one.
CreditArrives(v) ==
  /\ ni = Asleep
  /\ inCredit = NoCredit
  /\ unpaid[v] > 0
  /\ unpaid' = [unpaid EXCEPT ![v] = @ - 1]
  /\ inCredit' = [vc |-> v, is_free_signal |-> flits[v] = 0 /\ unpaid[v] = 1]
  /\ scheduled' = TRUE
  /\ UNCHANGED <<queue, outVcs, fresh, outState, credit, m_vc_allocator,
                 m_vc_round_robin, ni, ndebug>>

Wake ==
  /\ ni = Asleep /\ scheduled
  /\ ni' = 0
  /\ scheduled' = FALSE
  /\ fresh' = {}
  /\ UNCHANGED <<queue, outVcs, outState, credit, unpaid, m_vc_allocator,
                 m_vc_round_robin, inCredit, ndebug>>

\* calculateVC finds the first idle VC of the vnet from m_vc_allocator on.
calculateVC(n, v) ==
  LET turn(u) == (u - n * VcPerVnet - m_vc_allocator[n]) % VcPerVnet
      idle    == {u \in VCsOf(n) : ~outState[u]}
  IN v \in idle /\ \A u \in idle : turn(v) <= turn(u)

\* Mutant: packets of one wakeup count as older than each other (<=).
Packetise_sameTime(n, v, d) ==
  /\ ndebug \/ v = n
  /\ flits' = [flits EXCEPT ![v] = message[n].size]
  /\ begun' = [begun EXCEPT ![v] = FALSE]
  /\ older' = [u \in VCs |->
                 CASE u = v -> {w \in VCsOf(n) \ {v} : flits[w] > 0}
                   [] u # v /\ u \in fresh \cap VCsOf(n) -> older[u] \cup {v}
                   [] OTHER -> older[u]]
  /\ fresh' = fresh \cup {v}
  /\ outState' = [outState EXCEPT ![v] = TRUE]
  /\ m_vc_allocator' = [m_vc_allocator EXCEPT ![n] =
                          (v - n * VcPerVnet + 1) % VcPerVnet]
  /\ made' = [made EXCEPT ![n][d] = @ + 1]

\* A packet is put into VC v and its destination taken off the message; with
\* the last one the message is dequeued.
Packetise(n, v, d) ==
  /\ ndebug \/ v = n
  /\ flits' = [flits EXCEPT ![v] = message[n].size]
  /\ begun' = [begun EXCEPT ![v] = FALSE]
  /\ older' = [older EXCEPT ![v] = {u \in VCsOf(n) \ (fresh \cup {v}) :
                                     flits[u] > 0}]
  /\ fresh' = fresh \cup {v}
  /\ outState' = [outState EXCEPT ![v] = TRUE]
  /\ m_vc_allocator' = [m_vc_allocator EXCEPT ![n] =
                          (v - n * VcPerVnet + 1) % VcPerVnet]
  /\ made' = [made EXCEPT ![n][d] = @ + 1]

\* Mutant: destinations stay on the message until all have a packet.
flitisizeMessage_retryAll(n) ==
  LET d == Min(message[n].dests)
      last == Cardinality(message[n].dests) = 1
      full == Cardinality({v \in VCsOf(n) : ~outState[v]}) = 1
  IN /\ \E v \in VCs : calculateVC(n, v) /\ Packetise(n, v, d)
     /\ message' = [message EXCEPT ![n] =
                     IF last THEN NoMessage
                     ELSE IF full THEN [@ EXCEPT !.dests = asked[n]]
                     ELSE [@ EXCEPT !.dests = @ \ {d}]]

\* flitisizeMessage for the next destination.
flitisizeMessage(n) ==
  LET d == Min(message[n].dests)
  IN /\ \E v \in VCs : calculateVC(n, v) /\ Packetise(n, v, d)
     /\ message' = [message EXCEPT ![n] =
                     IF message[n].dests = {d} THEN NoMessage
                     ELSE [size |-> message[n].size,
                           dests |-> message[n].dests \ {d}]]

\* A step of the loop over the vnets: the next packet of the message, or the
\* next vnet when the message is finished or finds no idle VC.
Inject ==
  /\ ni \in VnetIds
  /\ IF message[ni].dests # {} /\ \E v \in VCsOf(ni) : ~outState[v]
       THEN /\ flitisizeMessage(ni)
            /\ ni' = IF message'[ni] = NoMessage THEN ni + 1 ELSE ni
       ELSE /\ ni' = ni + 1
            /\ UNCHANGED <<message, made, outVcs, fresh, outState,
                           m_vc_allocator>>
  /\ UNCHANGED <<asked, credit, unpaid, m_vc_round_robin, inCredit, scheduled,
                 ndebug>>

\* The first flit of a packet has the wrong VC.
AssertFails ==
  /\ ni \in VnetIds
  /\ ~ndebug /\ message[ni].dests # {}
  /\ \E v \in VCs \ {ni} : calculateVC(ni, v)
  /\ ni' = Aborted
  /\ UNCHANGED <<queue, outVcs, fresh, outState, credit, unpaid, m_vc_allocator,
                 m_vc_round_robin, inCredit, scheduled, ndebug>>

\* Mutant: the order of the packets is not looked at.
Candidate_any(v) == flits[v] > 0 /\ credit[v] > 0

\* A VC with a flit and a credit and, if its vnet is ordered, without an older
\* packet in another VC.
Candidate(v) ==
  /\ flits[v] > 0 /\ credit[v] > 0
  /\ get_vnet(v) \in Ordered => \A u \in older[v] : flits[u] = 0

\* The first candidate after m_vc_round_robin.
Winner(v) ==
  LET turn(u) == (u - m_vc_round_robin - 1) % (Vnets * VcPerVnet)
  IN Candidate(v) /\ \A u \in VCs : Candidate(u) => turn(v) <= turn(u)

\* Mutant: no credit is taken off.
SendFlit_free(v) ==
  /\ m_vc_round_robin' = v
  /\ UNCHANGED credit
  /\ flits' = [flits EXCEPT ![v] = @ - 1]
  /\ begun' = [begun EXCEPT ![v] = flits[v] > 1]
  /\ unpaid' = [unpaid EXCEPT ![v] = @ + 1]
  /\ older' = IF flits[v] = 1
              THEN [u \in VCs |-> IF u = v THEN {} ELSE older[u] \ {v}]
              ELSE older

\* With the tail m_ni_out_vcs_enqueue_time becomes INFINITE_.
SendFlit(v) ==
  /\ m_vc_round_robin' = v
  /\ credit' = [credit EXCEPT ![v] = @ - 1]
  /\ flits' = [flits EXCEPT ![v] = @ - 1]
  /\ begun' = [begun EXCEPT ![v] = flits[v] > 1]
  /\ unpaid' = [unpaid EXCEPT ![v] = @ + 1]
  /\ older' = IF flits[v] = 1
              THEN [u \in VCs |-> IF u = v THEN {} ELSE older[u] \ {v}]
              ELSE older

scheduleOutputLink ==
  IF \E v \in VCs : Candidate(v)
    THEN \E v \in VCs : Winner(v) /\ SendFlit(v)
    ELSE UNCHANGED <<m_vc_round_robin, credit, outVcs, unpaid>>

\* Mutant: flits that wait in the VCs are forgotten.
checkReschedule_messages ==
  scheduled' = (scheduled \/ \E n \in VnetIds : message[n] # NoMessage)

\* The interface wakes up again while a message or a flit waits.
checkReschedule ==
  scheduled' = (scheduled \/ (\E n \in VnetIds : message[n] # NoMessage)
                          \/ (\E v \in VCs : flits'[v] > 0))

Output ==
  /\ ni = OutputStep
  /\ ni' = CreditStep
  /\ scheduleOutputLink
  /\ checkReschedule
  /\ UNCHANGED <<queue, fresh, outState, m_vc_allocator, inCredit, ndebug>>

\* Mutant: every credit frees its VC.
ReceiveCredit_free ==
  /\ credit' = [credit EXCEPT ![inCredit.vc] = @ + 1]
  /\ outState' = [outState EXCEPT ![inCredit.vc] = FALSE]
  /\ inCredit' = NoCredit

ReceiveCredit ==
  /\ credit' = [credit EXCEPT ![inCredit.vc] = @ + 1]
  /\ outState' = [outState EXCEPT ![inCredit.vc] =
                    @ /\ ~inCredit.is_free_signal]
  /\ inCredit' = NoCredit

\* The end of the wakeup.
CreditLink ==
  /\ ni = CreditStep
  /\ ni' = Asleep
  /\ IF inCredit = NoCredit THEN UNCHANGED <<credit, outState, inCredit>>
                            ELSE ReceiveCredit
  /\ UNCHANGED <<queue, outVcs, fresh, unpaid, m_vc_allocator,
                 m_vc_round_robin, scheduled, ndebug>>

Wakeup == Wake \/ Inject \/ AssertFails \/ Output \/ CreditLink

\* An aborted program does nothing more.
Stopped == ni = Aborted /\ UNCHANGED vars

Next ==
  \/ \E n \in VnetIds : MessageArrives(n)
  \/ \E v \in VCs : CreditArrives(v)
  \/ Wakeup
  \/ Stopped

Spec == Init /\ [][Next]_vars

\* What is scheduled runs until the program aborts, and the router pays for
\* every flit.
FairSpec ==
  /\ Spec
  /\ WF_vars(Wakeup)
  /\ \A v \in VCs : SF_vars(CreditArrives(v))

-----------------------------------------------------------------------------
TypeOK ==
  /\ message \in [VnetIds -> [size : 0 .. MaxFlits, dests : SUBSET Dests]]
  /\ asked \in [VnetIds -> SUBSET Dests]
  /\ made \in [VnetIds -> [Dests -> Nat]]
  /\ flits \in [VCs -> 0 .. MaxFlits]
  /\ begun \in [VCs -> BOOLEAN]
  /\ older \in [VCs -> SUBSET VCs]
  /\ fresh \subseteq VCs
  /\ outState \in [VCs -> BOOLEAN]
  /\ credit \in [VCs -> 0 .. MaxCredit]
  /\ unpaid \in [VCs -> 0 .. MaxCredit]
  /\ m_vc_allocator \in [VnetIds -> 0 .. VcPerVnet - 1]
  /\ m_vc_round_robin \in VCs
  /\ inCredit \in [vc : VCs, is_free_signal : BOOLEAN] \cup {NoCredit}
  /\ ni \in Aborted .. CreditStep
  /\ scheduled \in BOOLEAN
  /\ ndebug \in BOOLEAN

\* To its router the interface is an output port like those of a router: VcPort,
\* with packets that have their VC before they are sent.
Port == INSTANCE VcPort WITH
          Senders <- {"interface"}, Capacity <- MaxCredit,
          taken <- outState,
          sender <- [v \in VCs |-> IF flits[v] > 0 THEN {"interface"} ELSE {}],
          used <- [v \in VCs |-> MaxCredit - credit[v]]

ImplementsPort == Port!Spec

\* Every destination of a message gets one packet, also when the VCs ran out
\* in between and the message had to wait for other wakeups.
OnePacketPerDestination ==
  \A n \in VnetIds : \A d \in Dests :
    made[n][d] = IF d \in asked[n] \ message[n].dests THEN 1 ELSE 0

\* A packet is only put into a VC that has sent its last one and got all the
\* credits for it.
IdleVCsAreEmpty ==
  \A v \in VCs : ~outState[v] =>
    flits[v] = 0 /\ unpaid[v] = 0 /\ credit[v] = MaxCredit

\* In an ordered vnet two packets are sent at a time only if they were made in
\* the same wakeup, of one message.
OrderedPacketsNotMixed ==
  \A v, u \in VCs :
    /\ get_vnet(v) \in Ordered /\ get_vnet(u) = get_vnet(v)
    /\ begun[v] /\ begun[u]
    => u \notin older[v]

\* Work never waits for an interface that nothing will wake up.
NoLostWakeup ==
  ni = Asleep /\ ~scheduled =>
    /\ \A n \in VnetIds : message[n] = NoMessage
    /\ \A v \in VCs : flits[v] = 0
    /\ inCredit = NoCredit

\* Every packet is sent, whatever the other VCs have to send and in whatever
\* order the packets of the vnet have to go: they never wait for each other.  A
\* build with assertions ends instead when a packet gets another VC than the
\* one with the number of its vnet.
PacketsAreSent ==
  \A v \in VCs : flits[v] > 0 ~> flits[v] = 0 \/ (~ndebug /\ ni = Aborted)
=============================================================================
