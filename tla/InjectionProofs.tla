--------------------------- MODULE InjectionProofs ---------------------------
(***************************************************************************)
(* What Injection promises, for any number of vnets, VCs, destinations and *)
(* credits: every destination of a message gets one packet, VCs are reused *)
(* only when they are paid for, packets of an ordered vnet are sent one    *)
(* after the other without blocking each other, and the interface never    *)
(* sleeps with work to do; and Injection implements VcPort.                *)
(***************************************************************************)
EXTENDS Injection, FiniteSetTheorems, WellFoundedInduction, TLAPS

\* A buffer slot is a credit, a flit the router has, or the credit for it.
PaidOK ==
  \A v \in VCs :
    credit[v] + unpaid[v] + (IF inCredit.vc = v THEN 1 ELSE 0) = MaxCredit

\* The free signal is on the last credit of a packet.
FreeSignalOK ==
  inCredit # NoCredit =>
    /\ outState[inCredit.vc]
    /\ inCredit.is_free_signal =>
         flits[inCredit.vc] = 0 /\ unpaid[inCredit.vc] = 0

\* A message has flits and destinations, of those it came with.
MessagesOK ==
  \A n \in VnetIds :
    /\ message[n].dests \subseteq asked[n]
    /\ message[n].dests # {} => message[n].size > 0
    /\ message[n].dests = {} => message[n] = NoMessage

\* What is older waits in another VC.
OlderOK ==
  \A v \in VCs : \A u \in older[v] : flits[u] > 0 /\ u # v

\* A packet whose sending has begun has nothing older before it.
BegunFirst ==
  \A v \in VCs : begun[v] =>
    flits[v] > 0 /\ (get_vnet(v) \in Ordered => older[v] = {})

\* checkReschedule has seen all that is left.
NothingForgotten ==
  ni \in {CreditStep, Asleep} /\ ~scheduled =>
    /\ \A n \in VnetIds : message[n] = NoMessage
    /\ \A v \in VCs : flits[v] = 0
    /\ ni = Asleep => inCredit = NoCredit

\* What waits longer than a packet is of its vnet and of an earlier wakeup, and so
\* is what waits longer still.
WaitsOK ==
  \A v \in VCs :
    /\ older[v] \subseteq VCsOf(get_vnet(v)) \ fresh
    /\ \A u \in older[v] : older[u] \subseteq older[v]

\* A vnet with flits to send has one that goes next or that the router owes a
\* credit for.
SomeoneIsNext ==
  \A v \in VCs : flits[v] > 0 =>
    \E u \in VCsOf(get_vnet(v)) :
      /\ flits[u] > 0
      /\ Candidate(u) \/ unpaid[u] > 0 \/ inCredit.vc = u

IInv ==
  /\ TypeOK /\ PaidOK /\ FreeSignalOK /\ IdleVCsAreEmpty /\ MessagesOK
  /\ OnePacketPerDestination /\ OlderOK /\ BegunFirst /\ NothingForgotten

-----------------------------------------------------------------------------
\* Every non-empty set of numbers has a least one.
LEMMA LeastExists ==
  ASSUME NEW S, S \subseteq Nat, S # {}
  PROVE  \E x \in S : \A y \in S : x =< y
<1>1. \E x \in S : \A y \in S : ~ (<<y, x>> \in OpToRel(<, Nat))
  BY NatLessThanWellFounded, WFMin
<1>2. ASSUME NEW x \in S, NEW y \in S, ~ (<<y, x>> \in OpToRel(<, Nat))
      PROVE  x =< y
  BY <1>2 DEF OpToRel
<1> QED
  BY <1>1, <1>2

\* Min is that number.
LEMMA MinIsMember ==
  ASSUME NEW S, S \subseteq Nat, S # {}
  PROVE  Min(S) \in S
<1>1. \E x \in S : \A y \in S : x =< y
  BY LeastExists
<1> QED
  BY <1>1, Zenon DEF Min

\* A remainder is less than what was divided by.
LEMMA Remainder ==
  ASSUME NEW n \in Nat \ {0}, NEW x \in Int
  PROVE  x % n \in 0 .. n - 1
  BY SMTT(30)

\* The numbers of VCs and of steps.
LEMMA Numbers ==
  /\ 0 \in VCs /\ 0 \in VnetIds /\ -1 \notin VCs
  /\ VCs \subseteq Nat /\ VnetIds \subseteq Nat
  /\ Asleep \notin VnetIds /\ OutputStep \notin VnetIds /\ CreditStep \notin VnetIds
  /\ Asleep # OutputStep /\ Asleep # CreditStep /\ OutputStep # CreditStep
  /\ Aborted \notin VnetIds \cup {Asleep, OutputStep, CreditStep}
  /\ {Aborted, Asleep, OutputStep, CreditStep} \cup VnetIds \subseteq Aborted .. CreditStep
  /\ \A n \in VnetIds : n + 1 \in VnetIds \cup {OutputStep}
<1>1. Vnets * VcPerVnet >= 1
  BY Parameters, SMTT(30)
<1>2. 0 \in VCs
  BY <1>1, Parameters DEF VCs
<1> QED
  BY <1>2, Parameters DEF VCs, VnetIds, Aborted, Asleep, OutputStep, CreditStep

\* There is no credit exactly if its VC is none.
LEMMA CreditFields ==
  ASSUME TypeOK
  PROVE  /\ inCredit = NoCredit => inCredit.vc = -1
         /\ inCredit # NoCredit => inCredit.vc \in VCs
  BY DEF TypeOK, NoCredit

\* An idle interface.
LEMMA InitIInv == Init => IInv
<1> SUFFICES ASSUME Init PROVE IInv
  OBVIOUS
<1> USE DEF Init
<1>1. TypeOK
  <2>1. NoMessage \in [size : 0 .. MaxFlits, dests : SUBSET Dests]
    BY Parameters DEF NoMessage
  <2>2. 0 \in 0 .. MaxFlits /\ MaxCredit \in 0 .. MaxCredit
        /\ 0 \in 0 .. MaxCredit /\ 0 \in 0 .. VcPerVnet - 1
    BY Parameters
  <2> QED
    BY <2>1, <2>2, Numbers DEF TypeOK
<1>2. PaidOK /\ FreeSignalOK /\ IdleVCsAreEmpty
  BY Numbers, Parameters DEF PaidOK, FreeSignalOK, IdleVCsAreEmpty, NoCredit
<1>3. MessagesOK /\ OnePacketPerDestination
  BY DEF MessagesOK, OnePacketPerDestination, NoMessage
<1>4. OlderOK /\ BegunFirst /\ NothingForgotten
  BY DEF OlderOK, BegunFirst, NothingForgotten
<1> QED
  BY <1>1, <1>2, <1>3, <1>4 DEF IInv

\* A message arrives where there was none.
LEMMA MessageStep ==
  ASSUME IInv, NEW n \in VnetIds, MessageArrives(n)
  PROVE  IInv'
<1> USE DEF MessageArrives
<1>1. PICK D \in (SUBSET Dests) \ {{}}, k \in 1 .. MaxFlits :
        /\ message' = [message EXCEPT ![n] = [size |-> k, dests |-> D]]
        /\ asked' = [asked EXCEPT ![n] = D]
  OBVIOUS
<1>2. /\ made' = [made EXCEPT ![n] = [d \in Dests |-> 0]]
      /\ scheduled' = (scheduled \/ ni = Asleep)
      /\ UNCHANGED <<flits, begun, older, fresh, outState, credit, unpaid,
                     m_vc_allocator, m_vc_round_robin, inCredit, ni, ndebug>>
  BY DEF outVcs
<1>3. TypeOK /\ MessagesOK /\ OnePacketPerDestination
  BY DEF IInv
<1>4. TypeOK'
  <2>1. [size |-> k, dests |-> D] \in [size : 0 .. MaxFlits, dests : SUBSET Dests]
    BY Parameters
  <2>2. /\ message' \in [VnetIds -> [size : 0 .. MaxFlits, dests : SUBSET Dests]]
        /\ asked' \in [VnetIds -> SUBSET Dests]
        /\ made' \in [VnetIds -> [Dests -> Nat]]
        /\ scheduled' \in BOOLEAN
    BY <1>1, <1>2, <1>3, <2>1 DEF TypeOK
  <2> QED
    BY <1>2, <1>3, <2>2 DEF TypeOK
<1>5. /\ \A m \in VnetIds \ {n} : /\ message'[m] = message[m]
                                  /\ asked'[m] = asked[m] /\ made'[m] = made[m]
      /\ message'[n] = [size |-> k, dests |-> D] /\ asked'[n] = D
      /\ made'[n] = [d \in Dests |-> 0]
  BY <1>1, <1>2, <1>3 DEF TypeOK
<1>6. MessagesOK'
  <2>1. ASSUME NEW m \in VnetIds, m # n
        PROVE  /\ message'[m].dests \subseteq asked'[m]
               /\ message'[m].dests # {} => message'[m].size > 0
               /\ message'[m].dests = {} => message'[m] = NoMessage
    BY <1>3, <1>5, <2>1 DEF MessagesOK
  <2>2. /\ message'[n].dests = D /\ message'[n].size = k /\ asked'[n] = D
        /\ D # {} /\ k > 0
    BY <1>5
  <2>3. /\ message'[n].dests \subseteq asked'[n]
        /\ message'[n].dests # {} => message'[n].size > 0
        /\ message'[n].dests = {} => message'[n] = NoMessage
    BY <2>2
  <2> QED
    BY <2>1, <2>3, Zenon DEF MessagesOK
<1>7. OnePacketPerDestination'
  <2>1. \A d \in Dests : made'[n][d] = 0 /\ d \notin asked'[n] \ message'[n].dests
    BY <1>5
  <2> QED
    BY <1>3, <1>5, <2>1 DEF OnePacketPerDestination
<1>8. NothingForgotten'
  <2>1. ni # CreditStep
    BY Parameters DEF OutputStep, CreditStep, Asleep
  <2> QED
    BY <1>2, <2>1 DEF NothingForgotten
<1>9. PaidOK' /\ FreeSignalOK' /\ IdleVCsAreEmpty' /\ OlderOK' /\ BegunFirst'
  BY <1>2 DEF IInv, PaidOK, FreeSignalOK, IdleVCsAreEmpty, OlderOK, BegunFirst
<1> QED
  BY <1>4, <1>6, <1>7, <1>8, <1>9 DEF IInv

\* The router pays for a flit.
LEMMA PayStep ==
  ASSUME IInv, NEW v \in VCs, CreditArrives(v)
  PROVE  IInv'
<1> USE DEF CreditArrives
<1>1. /\ inCredit = NoCredit /\ unpaid[v] > 0 /\ ni = Asleep
      /\ unpaid' = [unpaid EXCEPT ![v] = @ - 1]
      /\ inCredit' = [vc |-> v, is_free_signal |-> flits[v] = 0 /\ unpaid[v] = 1]
      /\ scheduled' = TRUE
      /\ UNCHANGED <<message, asked, made, flits, begun, older, fresh, outState,
                     credit, m_vc_allocator, m_vc_round_robin, ni, ndebug>>
  BY DEF queue, outVcs
<1>2. TypeOK /\ PaidOK /\ IdleVCsAreEmpty
  BY DEF IInv
<1>3. /\ \A u \in VCs : unpaid[u] \in 0 .. MaxCredit /\ credit[u] \in 0 .. MaxCredit
      /\ \A u \in VCs : unpaid'[u] = IF u = v THEN unpaid[v] - 1 ELSE unpaid[u]
  BY <1>1, <1>2 DEF TypeOK
<1>4. inCredit'.vc = v /\ inCredit'.is_free_signal = (flits[v] = 0 /\ unpaid[v] = 1)
  BY <1>1
<1>5. outState[v]
  BY <1>1, <1>2 DEF IdleVCsAreEmpty
<1>6. TypeOK'
  <2>1. unpaid' \in [VCs -> 0 .. MaxCredit]
    BY <1>1, <1>2, <1>3, Parameters DEF TypeOK
  <2>2. inCredit' \in [vc : VCs, is_free_signal : BOOLEAN]
    BY <1>1
  <2> QED
    BY <1>1, <1>2, <2>1, <2>2 DEF TypeOK
<1>7. PaidOK'
  <2> SUFFICES ASSUME NEW u \in VCs
               PROVE  credit[u] + unpaid'[u] + (IF v = u THEN 1 ELSE 0) = MaxCredit
    BY <1>1, <1>4 DEF PaidOK
  <2>1. inCredit.vc # u
    BY <1>1, Numbers DEF NoCredit
  <2>2. credit[u] + unpaid[u] + 0 = MaxCredit
    BY <1>2, <2>1 DEF PaidOK
  <2> QED
    BY <1>3, <2>2, Parameters
<1>8. FreeSignalOK'
  <2>1. flits[v] = 0 /\ unpaid[v] = 1 => unpaid'[v] = 0
    BY <1>3
  <2> QED
    BY <1>1, <1>4, <1>5, <2>1 DEF FreeSignalOK
<1>9. IdleVCsAreEmpty'
  BY <1>1, <1>2, <1>3, <1>5 DEF IdleVCsAreEmpty
<1>10. /\ MessagesOK' /\ OnePacketPerDestination' /\ OlderOK' /\ BegunFirst'
       /\ NothingForgotten'
  BY <1>1 DEF IInv, MessagesOK, OnePacketPerDestination, OlderOK, BegunFirst,
              NothingForgotten
<1> QED
  BY <1>6, <1>7, <1>8, <1>9, <1>10 DEF IInv

\* The wakeup begins.
LEMMA WakeStep ==
  ASSUME IInv, Wake
  PROVE  IInv'
<1> USE DEF Wake
<1>1. /\ ni' = 0 /\ scheduled' = FALSE /\ fresh' = {}
      /\ UNCHANGED <<message, asked, made, flits, begun, older, outState, credit,
                     unpaid, m_vc_allocator, m_vc_round_robin, inCredit, ndebug>>
  BY DEF queue, outVcs
<1>2. TypeOK'
  BY <1>1, Numbers DEF IInv, TypeOK
<1>3. NothingForgotten'
  BY <1>1, Numbers DEF NothingForgotten
<1>4. PaidOK' /\ FreeSignalOK' /\ IdleVCsAreEmpty' /\ OlderOK' /\ BegunFirst'
  BY <1>1 DEF IInv, PaidOK, FreeSignalOK, IdleVCsAreEmpty, OlderOK, BegunFirst
<1>5. MessagesOK' /\ OnePacketPerDestination'
  BY <1>1 DEF IInv, MessagesOK, OnePacketPerDestination
<1> QED
  BY <1>2, <1>3, <1>4, <1>5 DEF IInv

\* The next packet of a message goes into an idle VC, and its destination off
\* the message.
LEMMA PacketStep ==
  ASSUME IInv, ni \in VnetIds, message[ni].dests # {}, flitisizeMessage(ni),
         ni' = IF message'[ni] = NoMessage THEN ni + 1 ELSE ni,
         UNCHANGED <<asked, credit, unpaid, m_vc_round_robin, inCredit, scheduled,
                     ndebug>>
  PROVE  IInv'
<1> DEFINE n == ni
           d == Min(message[n].dests)
<1>1. TypeOK /\ IdleVCsAreEmpty /\ MessagesOK /\ OlderOK
  BY DEF IInv
<1>2. PICK v \in VCs : calculateVC(n, v) /\ Packetise(n, v, d)
  BY DEF flitisizeMessage
<1>3. /\ v \in VCsOf(n) /\ ~outState[v]
      /\ flits[v] = 0 /\ unpaid[v] = 0 /\ credit[v] = MaxCredit
  BY <1>1, <1>2 DEF calculateVC, IdleVCsAreEmpty
<1>4. /\ message[n].dests \subseteq Dests /\ message[n].dests \subseteq asked[n]
      /\ message[n].size \in 1 .. MaxFlits
  BY <1>1 DEF TypeOK, MessagesOK
<1>5. d \in message[n].dests /\ d \in Dests
  BY <1>4, MinIsMember, Parameters
<1>6. message'[n] = IF message[n].dests = {d} THEN NoMessage
                    ELSE [size |-> message[n].size, dests |-> message[n].dests \ {d}]
  BY <1>1 DEF flitisizeMessage, TypeOK
<1>7. /\ message'[n].dests = message[n].dests \ {d}
      /\ message[n].dests # {d} => message'[n].size = message[n].size
      /\ message[n].dests = {d} => message'[n] = NoMessage
  BY <1>6 DEF NoMessage
<1>8. \A m \in VnetIds \ {n} : message'[m] = message[m]
  BY <1>1 DEF flitisizeMessage, TypeOK
<1>9. /\ flits' = [flits EXCEPT ![v] = message[n].size]
      /\ begun' = [begun EXCEPT ![v] = FALSE]
      /\ older' = [older EXCEPT ![v] = {u \in VCsOf(n) \ (fresh \cup {v}) :
                                         flits[u] > 0}]
      /\ fresh' = fresh \cup {v}
      /\ outState' = [outState EXCEPT ![v] = TRUE]
      /\ m_vc_allocator' = [m_vc_allocator EXCEPT ![n] =
                              (v - n * VcPerVnet + 1) % VcPerVnet]
      /\ made' = [made EXCEPT ![n][d] = @ + 1]
  BY <1>2 DEF Packetise
<1>10. ni' \in VnetIds \cup {OutputStep}
  BY Numbers
<1>11. TypeOK'
  <2>1. message' \in [VnetIds -> [size : 0 .. MaxFlits, dests : SUBSET Dests]]
    <3>1. NoMessage \in [size : 0 .. MaxFlits, dests : SUBSET Dests]
      BY Parameters DEF NoMessage
    <3>2. message[n] \in [size : 0 .. MaxFlits, dests : SUBSET Dests]
      BY <1>1 DEF TypeOK
    <3>3. message'[n] \in [size : 0 .. MaxFlits, dests : SUBSET Dests]
      <4> HIDE DEF n, d
      <4> QED
        BY <1>6, <3>1, <3>2
    <3>4. message' = [m \in VnetIds |-> message'[m]]
      BY <1>1 DEF flitisizeMessage, TypeOK
    <3>5. \A m \in VnetIds :
            message'[m] \in [size : 0 .. MaxFlits, dests : SUBSET Dests]
      BY <1>1, <1>8, <3>3 DEF TypeOK
    <3> QED
      BY <3>4, <3>5
  <2>2. (v - n * VcPerVnet + 1) % VcPerVnet \in 0 .. VcPerVnet - 1
    <3>1. v - n * VcPerVnet + 1 \in Int
      BY Numbers, Parameters
    <3> QED
      BY <3>1, Remainder, Parameters
  <2>3. /\ flits' \in [VCs -> 0 .. MaxFlits] /\ begun' \in [VCs -> BOOLEAN]
        /\ outState' \in [VCs -> BOOLEAN] /\ fresh' \subseteq VCs
        /\ m_vc_allocator' \in [VnetIds -> 0 .. VcPerVnet - 1]
    <3> HIDE DEF d
    <3> QED
      BY <1>1, <1>4, <1>9, <2>2 DEF TypeOK
  <2>4. older' \in [VCs -> SUBSET VCs]
    BY <1>1, <1>9 DEF TypeOK, VCsOf
  <2>5. made' \in [VnetIds -> [Dests -> Nat]]
    <3> HIDE DEF d
    <3> QED
      BY <1>1, <1>5, <1>9 DEF TypeOK
  <2>6. ni' \in Aborted .. CreditStep
    BY <1>10, Numbers
  <2> QED
    BY <1>1, <2>1, <2>3, <2>4, <2>5, <2>6 DEF TypeOK
<1>12. /\ flits'[v] = message[n].size /\ flits'[v] > 0 /\ ~begun'[v] /\ outState'[v]
       /\ older'[v] = {u \in VCsOf(n) \ (fresh \cup {v}) : flits[u] > 0}
       /\ \A u \in VCs \ {v} :
            /\ flits'[u] = flits[u] /\ begun'[u] = begun[u]
            /\ older'[u] = older[u] /\ outState'[u] = outState[u]
  <2> HIDE DEF d
  <2> QED
    BY <1>1, <1>4, <1>9 DEF TypeOK
<1>13. PaidOK'
  BY DEF IInv, PaidOK
<1>14. FreeSignalOK'
  <2>1. inCredit # NoCredit => inCredit.vc \in VCs \ {v}
    BY <1>1, <1>3, CreditFields DEF IInv, FreeSignalOK
  <2> QED
    BY <1>12, <2>1 DEF IInv, FreeSignalOK
<1>15. IdleVCsAreEmpty'
  BY <1>1, <1>12 DEF IdleVCsAreEmpty
<1>16. MessagesOK'
  <2> HIDE DEF d, n
  <2>1. /\ message'[n].dests \subseteq asked'[n]
        /\ message'[n].dests # {} => message'[n].size > 0
        /\ message'[n].dests = {} => message'[n] = NoMessage
    BY <1>4, <1>5, <1>7
  <2> QED
    BY <1>1, <1>8, <2>1 DEF MessagesOK
<1>17. OnePacketPerDestination'
  <2> SUFFICES ASSUME NEW m \in VnetIds, NEW e \in Dests
               PROVE  made'[m][e] = IF e \in asked[m] \ message'[m].dests
                                    THEN 1 ELSE 0
    BY DEF OnePacketPerDestination
  <2>1. made[m][e] = IF e \in asked[m] \ message[m].dests THEN 1 ELSE 0
    BY DEF IInv, OnePacketPerDestination
  <2>2. made'[m][e] = IF m = n /\ e = d THEN made[m][e] + 1 ELSE made[m][e]
    <3> HIDE DEF d
    <3> QED
      BY <1>1, <1>5, <1>9 DEF TypeOK
  <2> HIDE DEF d, n
  <2>3. CASE m = n
    BY <1>4, <1>5, <1>7, <2>1, <2>2, <2>3
  <2>4. CASE m # n
    BY <1>8, <2>1, <2>2, <2>4
  <2> QED
    BY <2>3, <2>4
<1>18. OlderOK'
  <2>1. ASSUME NEW w \in VCs, NEW u \in older'[w]
        PROVE  flits'[u] > 0 /\ u # w
    <3>1. CASE w = v
      BY <1>12, <2>1, <3>1 DEF VCsOf
    <3>2. CASE w # v
      <4>1. u \in older[w] /\ u \in VCs
        BY <1>1, <1>12, <2>1, <3>2 DEF TypeOK
      <4>2. flits[u] > 0 /\ u # w
        BY <1>1, <4>1 DEF OlderOK
      <4> QED
        BY <1>3, <1>12, <4>1, <4>2
    <3> QED
      BY <3>1, <3>2
  <2> QED
    BY <2>1 DEF OlderOK
<1>19. BegunFirst'
  BY <1>12 DEF IInv, BegunFirst
<1>20. NothingForgotten'
  BY <1>10, Numbers DEF NothingForgotten
<1> QED
  BY <1>11, <1>13, <1>14, <1>15, <1>16, <1>17, <1>18, <1>19, <1>20 DEF IInv

\* A step of the loop over the vnets.
LEMMA InjectStep ==
  ASSUME IInv, Inject
  PROVE  IInv'
<1>1. /\ ni \in VnetIds
      /\ UNCHANGED <<asked, credit, unpaid, m_vc_round_robin, inCredit, scheduled,
                     ndebug>>
  BY DEF Inject
<1>2. CASE message[ni].dests # {} /\ \E v \in VCsOf(ni) : ~outState[v]
  <2>1. flitisizeMessage(ni) /\ ni' = IF message'[ni] = NoMessage THEN ni + 1 ELSE ni
    BY <1>2 DEF Inject
  <2> QED
    BY <1>1, <1>2, <2>1, PacketStep
<1>3. CASE ~(message[ni].dests # {} /\ \E v \in VCsOf(ni) : ~outState[v])
  <2>1. /\ ni' = ni + 1
        /\ UNCHANGED <<message, made, flits, begun, older, fresh, outState,
                       m_vc_allocator>>
    BY <1>3 DEF Inject, outVcs
  <2>2. ni' \in VnetIds \cup {OutputStep} /\ ni' \in Aborted .. CreditStep
    BY <1>1, <2>1, Numbers
  <2>3. TypeOK'
    BY <1>1, <2>1, <2>2 DEF IInv, TypeOK
  <2>4. PaidOK' /\ FreeSignalOK' /\ IdleVCsAreEmpty' /\ OlderOK' /\ BegunFirst'
    BY <1>1, <2>1 DEF IInv, PaidOK, FreeSignalOK, IdleVCsAreEmpty, OlderOK,
                      BegunFirst
  <2>5. MessagesOK' /\ OnePacketPerDestination'
    BY <1>1, <2>1 DEF IInv, MessagesOK, OnePacketPerDestination
  <2>6. NothingForgotten'
    BY <2>2, Numbers DEF NothingForgotten
  <2> QED
    BY <2>3, <2>4, <2>5, <2>6 DEF IInv
<1> QED
  BY <1>2, <1>3

-----------------------------------------------------------------------------
\* The winner sends a flit, for which nothing older waits in an ordered vnet.
LEMMA SendStep ==
  ASSUME IInv, NEW v \in VCs, Candidate(v), SendFlit(v),
         ni = OutputStep, ni' = CreditStep, checkReschedule,
         UNCHANGED <<message, asked, made, fresh, outState, m_vc_allocator, inCredit,
                     ndebug>>
  PROVE  IInv'
<1>1. TypeOK /\ PaidOK /\ IdleVCsAreEmpty /\ OlderOK /\ BegunFirst
  BY DEF IInv
<1>2. /\ flits[v] > 0 /\ credit[v] > 0
      /\ get_vnet(v) \in Ordered => \A u \in older[v] : flits[u] = 0
  BY DEF Candidate
<1>3. \A u \in VCs : /\ flits[u] \in 0 .. MaxFlits /\ credit[u] \in 0 .. MaxCredit
                     /\ unpaid[u] \in 0 .. MaxCredit
  BY <1>1 DEF TypeOK
<1>4. /\ flits'[v] = flits[v] - 1 /\ credit'[v] = credit[v] - 1
      /\ unpaid'[v] = unpaid[v] + 1 /\ begun'[v] = (flits[v] > 1)
      /\ \A u \in VCs \ {v} :
           /\ flits'[u] = flits[u] /\ credit'[u] = credit[u]
           /\ unpaid'[u] = unpaid[u] /\ begun'[u] = begun[u]
  BY <1>1 DEF SendFlit, TypeOK
<1>5. \A u \in VCs : older'[u] = IF flits[v] # 1 THEN older[u]
                                 ELSE IF u = v THEN {} ELSE older[u] \ {v}
  BY <1>1 DEF SendFlit, TypeOK
<1>6. credit[v] + unpaid[v] <= MaxCredit
  <2>1. credit[v] + unpaid[v] + (IF inCredit.vc = v THEN 1 ELSE 0) = MaxCredit
    BY <1>1 DEF PaidOK
  <2> QED
    BY <1>3, <2>1, Parameters
<1>7. TypeOK'
  <2>1. /\ flits[v] - 1 \in 0 .. MaxFlits /\ credit[v] - 1 \in 0 .. MaxCredit
        /\ unpaid[v] + 1 \in 0 .. MaxCredit /\ (flits[v] > 1) \in BOOLEAN
    BY <1>2, <1>3, <1>6, Parameters
  <2>2. /\ flits' \in [VCs -> 0 .. MaxFlits] /\ credit' \in [VCs -> 0 .. MaxCredit]
        /\ unpaid' \in [VCs -> 0 .. MaxCredit] /\ begun' \in [VCs -> BOOLEAN]
        /\ m_vc_round_robin' \in VCs
    BY <1>1, <2>1 DEF SendFlit, TypeOK
  <2>3. older' \in [VCs -> SUBSET VCs]
    BY <1>1 DEF SendFlit, TypeOK
  <2>4. ni' \in Aborted .. CreditStep /\ scheduled' \in BOOLEAN
    BY <1>1, Numbers DEF checkReschedule, TypeOK
  <2> QED
    BY <1>1, <2>2, <2>3, <2>4 DEF TypeOK
<1>8. PaidOK'
  <2> SUFFICES ASSUME NEW u \in VCs
               PROVE  credit'[u] + unpaid'[u]
                        + (IF inCredit.vc = u THEN 1 ELSE 0) = MaxCredit
    BY DEF PaidOK
  <2>1. credit[u] + unpaid[u] + (IF inCredit.vc = u THEN 1 ELSE 0) = MaxCredit
    BY <1>1 DEF PaidOK
  <2>2. credit'[u] + unpaid'[u] = credit[u] + unpaid[u]
    BY <1>3, <1>4
  <2> QED
    BY <2>1, <2>2
<1>9. FreeSignalOK'
  <2>1. inCredit # NoCredit /\ inCredit.is_free_signal => inCredit.vc # v
    BY <1>2 DEF IInv, FreeSignalOK
  <2>2. inCredit # NoCredit => inCredit.vc \in VCs
    BY <1>1, CreditFields
  <2> QED
    BY <1>4, <2>1, <2>2 DEF IInv, FreeSignalOK
<1>10. IdleVCsAreEmpty'
  <2>1. outState[v]
    BY <1>1, <1>2 DEF IdleVCsAreEmpty
  <2> QED
    BY <1>1, <1>4, <2>1 DEF IdleVCsAreEmpty
<1>11. MessagesOK' /\ OnePacketPerDestination'
  BY DEF IInv, MessagesOK, OnePacketPerDestination
<1>12. OlderOK'
  <2>1. ASSUME NEW w \in VCs, NEW u \in older'[w]
        PROVE  flits'[u] > 0 /\ u # w
    <3>1. u \in older[w] /\ (flits[v] = 1 => u # v)
      BY <1>5, <2>1
    <3>2. flits[u] > 0 /\ u # w /\ u \in VCs
      BY <1>1, <3>1 DEF OlderOK, TypeOK
    <3>3. CASE u = v
      BY <1>3, <1>4, <3>1, <3>2, <3>3
    <3>4. CASE u # v
      BY <1>4, <3>2, <3>4
    <3> QED
      BY <3>3, <3>4
  <2> QED
    BY <2>1 DEF OlderOK
<1>13. BegunFirst'
  <2>1. get_vnet(v) \in Ordered => older[v] = {}
    BY <1>1, <1>2 DEF OlderOK
  <2>2. ASSUME NEW u \in VCs, begun'[u]
        PROVE  flits'[u] > 0 /\ (get_vnet(u) \in Ordered => older'[u] = {})
    <3>1. CASE u = v
      <4>1. flits'[v] > 0
        <5>1. flits[v] > 1
          BY <1>4, <2>2, <3>1, Zenon
        <5>2. flits'[v] = flits[v] - 1 /\ flits[v] \in Int
          BY <1>3, <1>4
        <5> QED
          BY <5>1, <5>2
      <4>2. get_vnet(v) \in Ordered => older'[v] = {}
        BY <1>5, <2>1
      <4> QED
        BY <3>1, <4>1, <4>2
    <3>2. CASE u # v
      BY <1>1, <1>4, <1>5, <2>2, <3>2 DEF BegunFirst
    <3> QED
      BY <3>1, <3>2
  <2> QED
    BY <2>2 DEF BegunFirst
<1>14. NothingForgotten'
  <2>1. ~scheduled' => /\ \A n \in VnetIds : message[n] = NoMessage
                       /\ \A u \in VCs : ~(flits'[u] > 0)
    BY DEF checkReschedule
  <2>2. \A u \in VCs : flits'[u] \in 0 .. MaxFlits
    BY <1>7 DEF TypeOK
  <2>3. ni' # Asleep
    BY Numbers
  <2> QED
    BY <2>1, <2>2, <2>3 DEF NothingForgotten
<1> QED
  BY <1>7, <1>8, <1>9, <1>10, <1>11, <1>12, <1>13, <1>14 DEF IInv

\* scheduleOutputLink and checkReschedule.
LEMMA OutputStepOK ==
  ASSUME IInv, Output
  PROVE  IInv'
<1>1. /\ ni = OutputStep /\ ni' = CreditStep /\ checkReschedule
      /\ UNCHANGED <<message, asked, made, fresh, outState, m_vc_allocator, inCredit,
                     ndebug>>
  BY DEF Output, queue
<1>2. CASE \E v \in VCs : Candidate(v)
  <2>1. PICK v \in VCs : Winner(v) /\ SendFlit(v)
    BY <1>2 DEF Output, scheduleOutputLink
  <2>2. Candidate(v)
    BY <2>1 DEF Winner
  <2> QED
    BY <1>1, <2>1, <2>2, SendStep
<1>3. CASE ~ \E v \in VCs : Candidate(v)
  <2>1. UNCHANGED <<m_vc_round_robin, credit, flits, begun, older, unpaid>>
    BY <1>3 DEF Output, scheduleOutputLink, outVcs
  <2>2. TypeOK'
    <3>1. ni' \in Aborted .. CreditStep /\ scheduled' \in BOOLEAN
      BY <1>1, Numbers DEF IInv, TypeOK, checkReschedule
    <3> QED
      BY <1>1, <2>1, <3>1 DEF IInv, TypeOK
  <2>3. PaidOK' /\ FreeSignalOK' /\ IdleVCsAreEmpty' /\ OlderOK' /\ BegunFirst'
    BY <1>1, <2>1 DEF IInv, PaidOK, FreeSignalOK, IdleVCsAreEmpty, OlderOK,
                      BegunFirst
  <2>4. MessagesOK' /\ OnePacketPerDestination'
    BY <1>1 DEF IInv, MessagesOK, OnePacketPerDestination
  <2>5. NothingForgotten'
    <3>1. ~scheduled' => /\ \A n \in VnetIds : message[n] = NoMessage
                         /\ \A u \in VCs : ~(flits[u] > 0)
      BY <1>1, <2>1 DEF checkReschedule
    <3>2. \A u \in VCs : flits[u] \in 0 .. MaxFlits
      BY DEF IInv, TypeOK
    <3>3. ni' # Asleep
      BY <1>1, Numbers
    <3> QED
      BY <1>1, <2>1, <3>1, <3>2, <3>3 DEF NothingForgotten
  <2> QED
    BY <2>2, <2>3, <2>4, <2>5 DEF IInv
<1> QED
  BY <1>2, <1>3

\* The credit on the link is taken, and the last one of a packet frees its VC.
LEMMA CreditLinkStep ==
  ASSUME IInv, CreditLink
  PROVE  IInv'
<1>1. /\ ni = CreditStep /\ ni' = Asleep
      /\ UNCHANGED <<message, asked, made, flits, begun, older, fresh, unpaid,
                     m_vc_allocator, m_vc_round_robin, scheduled, ndebug>>
  BY DEF CreditLink, queue, outVcs
<1>2. TypeOK /\ PaidOK /\ FreeSignalOK /\ IdleVCsAreEmpty /\ NothingForgotten
  BY DEF IInv
<1>3. MessagesOK' /\ OnePacketPerDestination' /\ OlderOK' /\ BegunFirst'
  BY <1>1 DEF IInv, MessagesOK, OnePacketPerDestination, OlderOK, BegunFirst
<1>4. Asleep \in Aborted .. CreditStep
  BY Numbers
<1>5. CASE inCredit = NoCredit
  <2>1. UNCHANGED <<credit, outState, inCredit>>
    BY <1>5 DEF CreditLink
  <2>2. TypeOK'
    BY <1>1, <1>2, <1>4, <2>1 DEF TypeOK
  <2>3. PaidOK' /\ FreeSignalOK' /\ IdleVCsAreEmpty'
    BY <1>1, <1>2, <2>1 DEF PaidOK, FreeSignalOK, IdleVCsAreEmpty
  <2>4. NothingForgotten'
    BY <1>1, <1>2, <1>5, <2>1 DEF NothingForgotten
  <2> QED
    BY <1>3, <2>2, <2>3, <2>4 DEF IInv
<1>6. CASE inCredit # NoCredit
  <2> DEFINE v == inCredit.vc
  <2>1. /\ credit' = [credit EXCEPT ![v] = @ + 1]
        /\ outState' = [outState EXCEPT ![v] = @ /\ ~inCredit.is_free_signal]
        /\ inCredit' = NoCredit
    BY <1>6 DEF CreditLink, ReceiveCredit
  <2>2. v \in VCs /\ inCredit.is_free_signal \in BOOLEAN
    BY <1>2, <1>6 DEF TypeOK
  <2>3. \A u \in VCs : /\ credit[u] \in 0 .. MaxCredit /\ unpaid[u] \in 0 .. MaxCredit
                       /\ outState[u] \in BOOLEAN
    BY <1>2 DEF TypeOK
  <2>4. credit[v] + unpaid[v] + 1 = MaxCredit
    BY <1>2, <2>2 DEF PaidOK
  <2>5. /\ credit'[v] = credit[v] + 1
        /\ outState'[v] = (outState[v] /\ ~inCredit.is_free_signal)
        /\ \A u \in VCs \ {v} : credit'[u] = credit[u] /\ outState'[u] = outState[u]
    BY <1>2, <2>1, <2>2 DEF TypeOK
  <2>6. TypeOK'
    <3>1. credit[v] + 1 \in 0 .. MaxCredit
      BY <2>2, <2>3, <2>4, Parameters
    <3>2. credit' \in [VCs -> 0 .. MaxCredit]
      BY <1>2, <2>1, <2>2, <3>1 DEF TypeOK
    <3>3. outState' \in [VCs -> BOOLEAN]
      BY <1>2, <2>1, <2>2 DEF TypeOK
    <3> QED
      BY <1>1, <1>2, <1>4, <2>1, <3>2, <3>3 DEF TypeOK
  <2>7. PaidOK'
    <3> SUFFICES ASSUME NEW u \in VCs
                 PROVE  credit'[u] + unpaid[u] + 0 = MaxCredit
      BY <1>1, <2>1, Numbers DEF PaidOK, NoCredit
    <3>1. credit[u] + unpaid[u] + (IF v = u THEN 1 ELSE 0) = MaxCredit
      BY <1>2 DEF PaidOK
    <3> QED
      BY <2>2, <2>3, <2>5, <3>1, Parameters
  <2>8. IdleVCsAreEmpty'
    <3> SUFFICES ASSUME NEW u \in VCs, ~outState'[u]
                 PROVE  flits[u] = 0 /\ unpaid[u] = 0 /\ credit'[u] = MaxCredit
      BY <1>1 DEF IdleVCsAreEmpty
    <3>1. CASE u = v
      <4>1. flits[u] = 0 /\ unpaid[u] = 0
        BY <1>2, <1>6, <2>5, <3>1 DEF FreeSignalOK
      <4> QED
        BY <2>3, <2>4, <2>5, <3>1, <4>1
    <3>2. CASE u # v
      BY <1>2, <2>5, <3>2 DEF IdleVCsAreEmpty
    <3> QED
      BY <3>1, <3>2
  <2>9. FreeSignalOK' /\ NothingForgotten'
    BY <1>1, <1>2, <2>1 DEF FreeSignalOK, NothingForgotten
  <2> QED
    BY <1>3, <2>6, <2>7, <2>8, <2>9 DEF IInv
<1> QED
  BY <1>5, <1>6

\* The program stops at a failed assertion and leaves all else as it was.
LEMMA AbortStep ==
  ASSUME IInv, AssertFails
  PROVE  IInv'
<1>1. /\ ni' = Aborted
      /\ UNCHANGED <<message, asked, made, flits, begun, older, fresh, outState,
                     credit, unpaid, m_vc_allocator, m_vc_round_robin, inCredit,
                     scheduled, ndebug>>
  BY DEF AssertFails, queue, outVcs
<1>2. TypeOK'
  BY <1>1, Numbers DEF IInv, TypeOK
<1>3. NothingForgotten'
  BY <1>1, Numbers DEF NothingForgotten
<1>4. PaidOK' /\ FreeSignalOK' /\ IdleVCsAreEmpty' /\ OlderOK' /\ BegunFirst'
  BY <1>1 DEF IInv, PaidOK, FreeSignalOK, IdleVCsAreEmpty, OlderOK, BegunFirst
<1>5. MessagesOK' /\ OnePacketPerDestination'
  BY <1>1 DEF IInv, MessagesOK, OnePacketPerDestination
<1> QED
  BY <1>2, <1>3, <1>4, <1>5 DEF IInv

\* The invariant holds in every state.
LEMMA Invariance == Spec => []IInv
<1>1. IInv /\ [Next]_vars => IInv'
  <2> SUFFICES ASSUME IInv, [Next]_vars PROVE IInv'
    OBVIOUS
  <2>1. CASE UNCHANGED vars
    <3> USE <2>1 DEF vars, queue, outVcs
    <3>1. TypeOK' /\ NothingForgotten'
      BY DEF IInv, TypeOK, NothingForgotten
    <3>2. PaidOK' /\ FreeSignalOK' /\ IdleVCsAreEmpty'
      BY DEF IInv, PaidOK, FreeSignalOK, IdleVCsAreEmpty
    <3>3. MessagesOK' /\ OnePacketPerDestination' /\ OlderOK' /\ BegunFirst'
      BY DEF IInv, MessagesOK, OnePacketPerDestination, OlderOK, BegunFirst
    <3> QED
      BY <3>1, <3>2, <3>3 DEF IInv
  <2>2. CASE \E n \in VnetIds : MessageArrives(n)
    BY <2>2, MessageStep
  <2>3. CASE \E v \in VCs : CreditArrives(v)
    BY <2>3, PayStep
  <2>4. CASE Wakeup
    BY <2>4, WakeStep, InjectStep, AbortStep, OutputStepOK,
       CreditLinkStep DEF Wakeup
  <2> QED
    BY <2>1, <2>2, <2>3, <2>4 DEF Next, Stopped
<1> QED
  BY <1>1, InitIInv, PTL DEF Spec

-----------------------------------------------------------------------------
\* All numbers stay in their ranges; a VC is never paid more than it owes.
THEOREM TypeCorrect == Spec => []TypeOK
  BY Invariance, PTL DEF IInv

\* Each destination of a message gets one packet, however often the VCs run out
\* while packets are made of it.
THEOREM EachDestinationOnce == Spec => []OnePacketPerDestination
  BY Invariance, PTL DEF IInv

\* The VC that calculateVC finds owes nothing to its last packet.
THEOREM ReusedVCsArePaid == Spec => []IdleVCsAreEmpty
  BY Invariance, PTL DEF IInv

\* In an ordered vnet a packet is not begun while one that was made in an
\* earlier wakeup is being sent.
THEOREM OrderedOneByOne == Spec => []OrderedPacketsNotMixed
<1>1. IInv => OrderedPacketsNotMixed
  BY DEF IInv, BegunFirst, OrderedPacketsNotMixed
<1> QED
  BY <1>1, Invariance, PTL

\* An interface with work to do has a wakeup scheduled.
THEOREM NoWakeupIsLost == Spec => []NoLostWakeup
<1>1. IInv => NoLostWakeup
  BY DEF IInv, NothingForgotten, NoLostWakeup
<1> QED
  BY <1>1, Invariance, PTL

-----------------------------------------------------------------------------
(***************************************************************************)
(* Injection implements VcPort: making a packet takes a VC, the output     *)
(* link sends to it, the credit link pays for it, and every other step of  *)
(* a wakeup leaves the port alone.  What VcPort asks for before such a     *)
(* step is in the invariant.                                               *)
(***************************************************************************)

\* A VC is taken by making a packet for it.
LEMMA TakeRefines ==
  ASSUME IInv, NEW v \in VCs, ~outState[v],
         outState' = [outState EXCEPT ![v] = TRUE], flits'[v] > 0,
         \A u \in VCs \ {v} : flits'[u] = flits[u],
         UNCHANGED credit
  PROVE  Port!Next
<1>1. flits[v] = 0 /\ credit[v] = MaxCredit /\ outState \in [VCs -> BOOLEAN]
  BY DEF IInv, IdleVCsAreEmpty, TypeOK
<1>2. MaxCredit - credit[v] = 0
  BY <1>1, Parameters
<1> DEFINE S == [u \in VCs |-> IF flits[u] > 0 THEN {"interface"} ELSE {}]
           T == [u \in VCs |-> IF flits'[u] > 0 THEN {"interface"} ELSE {}]
<1>3. T = [S EXCEPT ![v] = {"interface"}]
  OBVIOUS
<1>4. Port!Take(v, "interface")
  BY <1>1, <1>2, <1>3 DEF Port!Take, Port!Free
<1> QED
  BY <1>4 DEF Port!Next

\* A flit is sent to a VC with a credit.
LEMMA SendRefines ==
  ASSUME IInv, NEW v \in VCs, Candidate(v), SendFlit(v), UNCHANGED outState
  PROVE  Port!Next
<1>1. /\ flits \in [VCs -> 0 .. MaxFlits] /\ credit \in [VCs -> 0 .. MaxCredit]
      /\ outState \in [VCs -> BOOLEAN]
  BY DEF IInv, TypeOK
<1>2. flits[v] > 0 /\ credit[v] > 0 /\ outState[v]
  BY <1>1 DEF Candidate, IInv, IdleVCsAreEmpty
<1>3. flits' = [flits EXCEPT ![v] = @ - 1] /\ credit' = [credit EXCEPT ![v] = @ - 1]
  BY DEF SendFlit
<1> DEFINE S == [u \in VCs |-> IF flits[u] > 0 THEN {"interface"} ELSE {}]
           T == [u \in VCs |-> IF flits'[u] > 0 THEN {"interface"} ELSE {}]
           U == [u \in VCs |-> MaxCredit - credit[u]]
           W == [u \in VCs |-> MaxCredit - credit'[u]]
<1>4. \E rest \in {{}, {"interface"}} : T = [S EXCEPT ![v] = rest]
  <2>1. T = [S EXCEPT ![v] = T[v]]
    BY <1>1, <1>3
  <2>2. T[v] \in {{}, {"interface"}}
    OBVIOUS
  <2> QED
    BY <2>1, <2>2
<1>5. W = [U EXCEPT ![v] = U[v] + 1] /\ U[v] < MaxCredit
  <2>1. \A u \in VCs : credit'[u] = IF u = v THEN credit[v] - 1 ELSE credit[u]
    BY <1>1, <1>3
  <2>2. /\ MaxCredit - (credit[v] - 1) = MaxCredit - credit[v] + 1
        /\ MaxCredit - credit[v] < MaxCredit
    BY <1>1, <1>2, Parameters
  <2> QED
    BY <2>1, <2>2
<1>6. outState' = [outState EXCEPT ![v] = TRUE]
  BY <1>1, <1>2
<1>7. S[v] = {"interface"}
  BY <1>2
<1>8. Port!Send(v, "interface")
  BY <1>4, <1>5, <1>6, <1>7 DEF Port!Send
<1> QED
  BY <1>8 DEF Port!Next

\* A credit pays for a flit; if it comes with the free signal, for the last one.
LEMMA PayRefines ==
  ASSUME IInv, inCredit # NoCredit, ReceiveCredit, UNCHANGED flits
  PROVE  Port!Next
<1>1. PICK v \in VCs : v = inCredit.vc
  BY DEF IInv, TypeOK
<1>2. /\ credit \in [VCs -> 0 .. MaxCredit] /\ unpaid \in [VCs -> 0 .. MaxCredit]
      /\ outState \in [VCs -> BOOLEAN]
      /\ inCredit.is_free_signal \in BOOLEAN
  BY DEF IInv, TypeOK
<1>3. credit[v] + unpaid[v] + 1 = MaxCredit
  BY <1>1 DEF IInv, PaidOK
<1>4. /\ credit' = [credit EXCEPT ![v] = @ + 1]
      /\ outState' = [outState EXCEPT ![v] = @ /\ ~inCredit.is_free_signal]
  BY <1>1 DEF ReceiveCredit
<1> DEFINE U == [u \in VCs |-> MaxCredit - credit[u]]
           W == [u \in VCs |-> MaxCredit - credit'[u]]
<1>5. \A u \in VCs : W[u] = IF u = v THEN MaxCredit - (credit[v] + 1) ELSE U[u]
  BY <1>2, <1>4
<1>6. CASE inCredit.is_free_signal
  <2>1. flits[v] = 0 /\ unpaid[v] = 0 /\ outState[v]
    BY <1>1, <1>6 DEF IInv, FreeSignalOK
  <2>2. U[v] = 1 /\ MaxCredit - (credit[v] + 1) = 0
    BY <1>2, <1>3, <2>1, Parameters
  <2>3. W = [U EXCEPT ![v] = 0]
    BY <1>5, <2>2
  <2>4. outState' = [outState EXCEPT ![v] = FALSE]
    BY <1>4, <1>6
  <2>5. Port!PayLast(v)
    BY <1>2, <2>1, <2>2, <2>3, <2>4 DEF Port!PayLast
  <2> QED
    BY <2>5 DEF Port!Next
<1>7. CASE ~inCredit.is_free_signal
  <2>1. outState' = outState
    <3>1. (outState[v] /\ ~inCredit.is_free_signal) = outState[v]
      BY <1>2, <1>7
    <3> QED
      BY <1>2, <1>4, <3>1
  <2>2. U[v] > 0 /\ MaxCredit - (credit[v] + 1) = U[v] - 1
    BY <1>2, <1>3, Parameters
  <2>3. W = [U EXCEPT ![v] = U[v] - 1]
    BY <1>5, <2>2
  <2>4. Port!Pay(v)
    BY <1>2, <2>1, <2>2, <2>3 DEF Port!Pay
  <2> QED
    BY <2>4 DEF Port!Next
<1> QED
  BY <1>2, <1>6, <1>7

\* An interface that has sent nothing has a free port.
LEMMA InitRefines == Init => Port!Init
<1>1. MaxCredit - MaxCredit = 0
  BY Parameters
<1> QED
  BY <1>1 DEF Init, Port!Init

\* Every step of the interface is a step of VcPort or leaves the port alone.
LEMMA StepRefines == IInv /\ [Next]_vars => [Port!Next]_(Port!vars)
<1> DEFINE Same == UNCHANGED <<flits, outState, credit>>
<1> SUFFICES ASSUME IInv, [Next]_vars
             PROVE  Port!Next \/ UNCHANGED Port!vars
  OBVIOUS
<1>1. Same => UNCHANGED Port!vars
  BY DEF Port!vars
<1>2. CASE UNCHANGED vars
  BY <1>1, <1>2 DEF vars, outVcs
<1>3. CASE \/ \E n \in VnetIds : MessageArrives(n)
           \/ \E v \in VCs : CreditArrives(v)
           \/ Wake \/ AssertFails
  BY <1>1, <1>3 DEF MessageArrives, CreditArrives, Wake, AssertFails, outVcs
<1>4. CASE Inject
  <2>1. UNCHANGED credit /\ ni \in VnetIds
    BY <1>4 DEF Inject
  <2>2. CASE message[ni].dests # {} /\ \E v \in VCsOf(ni) : ~outState[v]
    <3>1. PICK v \in VCs : /\ calculateVC(ni, v)
                           /\ Packetise(ni, v, Min(message[ni].dests))
      BY <1>4, <2>2 DEF Inject, flitisizeMessage
    <3>2. /\ ~outState[v] /\ outState' = [outState EXCEPT ![v] = TRUE]
          /\ flits' = [flits EXCEPT ![v] = message[ni].size]
      BY <3>1 DEF calculateVC, Packetise
    <3>3. message[ni].size > 0 /\ flits \in [VCs -> 0 .. MaxFlits]
      BY <2>1, <2>2 DEF IInv, MessagesOK, TypeOK
    <3>4. flits'[v] > 0 /\ \A u \in VCs \ {v} : flits'[u] = flits[u]
      BY <3>2, <3>3
    <3> QED
      BY <2>1, <3>2, <3>4, TakeRefines
  <2>3. CASE ~(message[ni].dests # {} /\ \E v \in VCsOf(ni) : ~outState[v])
    BY <1>1, <1>4, <2>1, <2>3 DEF Inject, outVcs
  <2> QED
    BY <2>2, <2>3
<1>5. CASE Output
  <2>1. UNCHANGED outState
    BY <1>5 DEF Output
  <2>2. CASE \E v \in VCs : Candidate(v)
    <3>1. PICK v \in VCs : Candidate(v) /\ SendFlit(v)
      BY <1>5, <2>2 DEF Output, scheduleOutputLink, Winner
    <3> QED
      BY <2>1, <3>1, SendRefines
  <2>3. CASE ~\E v \in VCs : Candidate(v)
    BY <1>1, <1>5, <2>1, <2>3 DEF Output, scheduleOutputLink, outVcs
  <2> QED
    BY <2>2, <2>3
<1>6. CASE CreditLink
  BY <1>1, <1>6, PayRefines DEF CreditLink, outVcs
<1> QED
  BY <1>2, <1>3, <1>4, <1>5, <1>6 DEF Next, Wakeup, Stopped

\* To its router the interface is an output port that keeps the promises of
\* VcPort: no VC is shared, no buffer is used twice, and no VC is given to a
\* packet before the last one is paid for.
THEOREM KeepsThePort == Spec => ImplementsPort
<1>1. Init /\ [][Next]_vars /\ []IInv => Port!Init /\ [][Port!Next]_(Port!vars)
  BY InitRefines, StepRefines, PTL
<1> QED
  BY <1>1, Invariance, PTL DEF Spec, ImplementsPort, Port!Spec

\* With one VC for each vnet the assertion that a packet has the VC with the
\* number of its vnet never fails.
THEOREM AssertionHolds == Spec => [](VcPerVnet = 1 => ni # Aborted)
<1> DEFINE Holds == VcPerVnet = 1 => ni # Aborted
<1>1. Init => Holds
  BY Numbers DEF Init
<1>2. ASSUME VcPerVnet = 1, NEW n \in VnetIds, NEW v \in VCs, calculateVC(n, v)
      PROVE  v = n
  <2>1. v \div 1 = n /\ v \in Int
    BY <1>2, Numbers DEF calculateVC, VCsOf, get_vnet
  <2> QED
    BY <2>1
<1>3. Holds /\ [Next]_vars => Holds'
  <2> SUFFICES ASSUME VcPerVnet = 1, ni # Aborted, [Next]_vars
               PROVE  ni' # Aborted
    OBVIOUS
  <2>1. CASE \/ UNCHANGED vars
             \/ \E n \in VnetIds : MessageArrives(n)
             \/ \E v \in VCs : CreditArrives(v)
    BY <2>1 DEF vars, MessageArrives, CreditArrives
  <2>2. CASE Wake \/ Output \/ CreditLink
    BY <2>2, Numbers DEF Wake, Output, CreditLink
  <2>3. CASE Inject
    BY <2>3, Numbers DEF Inject
  <2>4. ~AssertFails
    BY <1>2 DEF AssertFails
  <2> QED
    BY <2>1, <2>2, <2>3, <2>4 DEF Next, Wakeup, Stopped
<1> QED
  BY <1>1, <1>3, PTL DEF Spec

-----------------------------------------------------------------------------
\* The order in which packets of a vnet wait stays an order of its vnet.
LEMMA WaitsStep ==
  ASSUME IInv, WaitsOK, [Next]_vars
  PROVE  WaitsOK'
<1>1. TypeOK /\ OlderOK /\ IdleVCsAreEmpty
  BY DEF IInv
<1>2. /\ \A v \in VCs : older[v] \subseteq VCs
      /\ \A v \in VCs : older[v] \subseteq VCsOf(get_vnet(v)) \ fresh
      /\ \A v \in VCs : \A u \in older[v] :
           flits[u] > 0 /\ u # v /\ older[u] \subseteq older[v]
  BY <1>1 DEF TypeOK, OlderOK, WaitsOK
<1>3. ASSUME UNCHANGED older, fresh' = {} \/ fresh' = fresh PROVE WaitsOK'
  BY <1>2, <1>3 DEF WaitsOK
<1>4. CASE \/ UNCHANGED vars
           \/ \E n \in VnetIds : MessageArrives(n)
           \/ \E v \in VCs : CreditArrives(v)
           \/ Wake \/ AssertFails \/ CreditLink
  BY <1>3, <1>4 DEF vars, outVcs, MessageArrives, CreditArrives, Wake,
                    AssertFails, CreditLink
<1>5. CASE Inject
  <2>1. CASE message[ni].dests # {} /\ \E v \in VCsOf(ni) : ~outState[v]
    <3>1. PICK v \in VCs : /\ calculateVC(ni, v)
                           /\ Packetise(ni, v, Min(message[ni].dests))
      BY <1>5, <2>1 DEF Inject, flitisizeMessage
    <3>2. /\ v \in VCsOf(ni) /\ get_vnet(v) = ni /\ flits[v] = 0
          /\ fresh' = fresh \cup {v}
          /\ \A u \in VCs \ {v} : older'[u] = older[u]
          /\ older'[v] = {u \in VCsOf(ni) \ (fresh \cup {v}) : flits[u] > 0}
      BY <1>1, <3>1 DEF calculateVC, Packetise, VCsOf, IdleVCsAreEmpty, TypeOK
    <3>3. \A u \in VCs : v \notin older[u]
      BY <1>1, <3>2 DEF OlderOK, TypeOK
    <3>4. \A u \in older'[v] : u \in VCs /\ u # v /\ get_vnet(u) = ni
      BY <3>2 DEF VCsOf
    <3>5. \A u \in older'[v] : older'[u] \subseteq older'[v]
      BY <1>2, <3>2, <3>3, <3>4
    <3>6. older'[v] \subseteq VCsOf(get_vnet(v)) \ fresh'
      BY <3>2
    <3> QED
      BY <1>2, <3>2, <3>3, <3>5, <3>6 DEF WaitsOK
  <2>2. CASE ~(message[ni].dests # {} /\ \E v \in VCsOf(ni) : ~outState[v])
    BY <1>3, <1>5, <2>2 DEF Inject, outVcs
  <2> QED
    BY <2>1, <2>2
<1>6. CASE Output
  <2>1. UNCHANGED fresh
    BY <1>6 DEF Output
  <2>2. CASE \E v \in VCs : Candidate(v)
    <3>1. PICK v \in VCs : SendFlit(v)
      BY <1>6, <2>2 DEF Output, scheduleOutputLink
    <3>2. \A u \in VCs : older'[u] = IF flits[v] # 1 THEN older[u]
                                     ELSE IF u = v THEN {} ELSE older[u] \ {v}
      BY <1>1, <3>1 DEF SendFlit, TypeOK
    <3> QED
      BY <1>2, <2>1, <3>2 DEF WaitsOK
  <2>3. CASE ~\E v \in VCs : Candidate(v)
    BY <1>3, <1>6, <2>1, <2>3 DEF Output, scheduleOutputLink, outVcs
  <2> QED
    BY <2>2, <2>3
<1> QED
  BY <1>4, <1>5, <1>6 DEF Next, Wakeup, Stopped

\* The packet of a vnet with the fewest older ones has none; if it is no candidate
\* its VC has no credit, so all its buffers are still to be paid for.
LEMMA FirstOfVnet ==
  ASSUME IInv, WaitsOK
  PROVE  SomeoneIsNext
<1> SUFFICES ASSUME NEW v \in VCs, flits[v] > 0
             PROVE  \E u \in VCsOf(get_vnet(v)) :
                      /\ flits[u] > 0
                      /\ Candidate(u) \/ unpaid[u] > 0 \/ inCredit.vc = u
  BY DEF SomeoneIsNext
<1> DEFINE R == {u \in VCsOf(get_vnet(v)) : flits[u] > 0}
           Count(u) == Cardinality(older[u])
           N == {Count(u) : u \in R}
<1>1. v \in R /\ R \subseteq VCs
  BY DEF VCsOf
<1>2. \A u \in VCs : /\ older[u] \in SUBSET VCs
                     /\ IsFiniteSet(older[u]) /\ Count(u) \in Nat
  <2>1. IsFiniteSet(VCs)
    BY FS_Interval, Parameters DEF VCs
  <2>2. \A u \in VCs : older[u] \in SUBSET VCs
    BY DEF IInv, TypeOK
  <2> QED
    BY <2>1, <2>2, FS_Subset, FS_CardinalityType
<1>3. N \subseteq Nat /\ N # {}
  BY <1>1, <1>2
<1>4. PICK u \in R : \A x \in R : Count(u) <= Count(x)
  <2>1. PICK n \in N : \A m \in N : n <= m
    <3> HIDE DEF N
    <3> QED
      BY <1>3, LeastExists
  <2> QED
    BY <2>1
<1>5. ASSUME NEW x \in older[u] PROVE FALSE
  <2>1. u \in VCs /\ get_vnet(u) = get_vnet(v)
    BY DEF VCsOf
  <2>2. x \in R
    BY <1>5, <2>1 DEF WaitsOK, IInv, OlderOK
  <2>3. older[x] \subseteq older[u] /\ x \notin older[x]
    BY <1>1, <1>5, <2>1, <2>2 DEF WaitsOK, IInv, OlderOK
  <2>4. Count(x) < Count(u)
    BY <1>1, <1>2, <1>5, <2>2, <2>3, FS_Subset
  <2> QED
    BY <1>1, <1>2, <1>4, <2>2, <2>4
<1>6. CASE credit[u] > 0
  BY <1>5, <1>6 DEF Candidate
<1>7. CASE ~ credit[u] > 0
  <2>1. /\ credit[u] + unpaid[u] + (IF inCredit.vc = u THEN 1 ELSE 0) = MaxCredit
        /\ credit[u] \in Nat /\ unpaid[u] \in Nat
    BY <1>1 DEF IInv, PaidOK, TypeOK
  <2> QED
    BY <1>7, <2>1, Parameters
<1> QED
  BY <1>6, <1>7

\* However packets of an ordered vnet wait for each other, one of them may go or
\* waits for a credit only: the comparison of enqueue times is no deadlock.
THEOREM PacketsDoNotBlock == Spec => []SomeoneIsNext
<1>1. Init => WaitsOK
  BY DEF Init, WaitsOK
<1>2. IInv /\ WaitsOK /\ [Next]_vars => WaitsOK'
  BY WaitsStep
<1>3. IInv /\ WaitsOK => SomeoneIsNext
  BY FirstOfVnet
<1> QED
  BY <1>1, <1>2, <1>3, Invariance, PTL DEF Spec
=============================================================================
