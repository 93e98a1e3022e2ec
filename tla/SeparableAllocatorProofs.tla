----------------------- MODULE SeparableAllocatorProofs -----------------------
(***************************************************************************)
(* What SeparableAllocator promises, for any number of ports, VCs and      *)
(* credits and any flows: vc_allocate finds the output VC that SA-I has    *)
(* seen, an input port waits for an output port no longer than all others  *)
(* take their turn, and an ordered vnet stays ordered; no flit is          *)
(* forgotten, packets do not block each other, and every output port       *)
(* implements VcPort.                                                      *)
(***************************************************************************)
EXTENDS SeparableAllocator, FiniteSetTheorems, WellFoundedInduction, TLAPS

\* Between SA-I and SA-II the winner of an input port keeps what it was sent for.
WinnersOK ==
  \A i \in InPorts :
    LET v == winner[i] IN
    /\ pc # "SA-II" => v = NoVC
    /\ v # NoVC => /\ need_stage(i, v)
                   /\ IF vc[i][v].outvc = NoVC THEN has_free_vc(OutPort(i, v), vc[i][v].flow)
                      ELSE has_credit(OutPort(i, v), vc[i][v].outvc)

\* A free output VC has all its credits.
IdleOK ==
  \A o \in OutPorts, w \in VCs : out[o][w].idle => out[o][w].credit = MaxCredit

\* What an input port has lost in a row and what it still may lose.
TurnsOK ==
  \A i \in InPorts, o \in OutPorts :
    lost[i][o] + ((i - rrInport[o]) % NumIn) < NumIn

\* A VC is given up with the last flit, and enqueue times are of packets.
PacketsOK ==
  \A i \in InPorts, v \in VCs :
    /\ vc[i][v] # IdleVC => vc[i][v].flits + vc[i][v].toCome > 0
    /\ \A u \in older[i][v] :
         u # v /\ vc[i][u] # IdleVC /\ vc[i][v] # IdleVC

\* Packets are in VCs of their vnet.
VNetsOK ==
  \A i \in InPorts, v \in VCs :
    vc[i][v] # IdleVC => VNetOf[vc[i][v].flow] = get_vnet(v)

\* In an ordered vnet a packet has come in completely when the next one of its
\* flow comes.
FlowsOK ==
  \A i \in InPorts, v \in VCs : \A u \in older[i][v] :
    vc[i][u].flow = vc[i][v].flow /\ VNetOf[vc[i][v].flow] \in Ordered =>
      vc[i][u].toCome = 0

\* In an ordered vnet the winner is the oldest that is ready for its output port.
OldestWins ==
  \A i \in InPorts : winner[i] # NoVC /\ get_vnet(winner[i]) \in Ordered =>
    \A u \in older[i][winner[i]] :
      ~ (/\ get_vnet(u) = get_vnet(winner[i])
         /\ need_stage(i, u) /\ OutPort(i, u) = OutPort(i, winner[i]))

\* The input VCs with a packet that goes on to output VC w of port o: none if the
\* VC is free or its packet has been sent, one otherwise.
Holders(o, w) ==
  {q \in InPorts \X VCs : vc[q[1]][q[2]].outvc = w /\ OutPort(q[1], q[2]) = o}

SendersOK ==
  \A o \in OutPorts, w \in VCs :
    IF out[o][w].idle \/ out[o][w].ended THEN Holders(o, w) = {}
    ELSE \E q \in InPorts \X VCs : Holders(o, w) = {q}

\* Enqueue times are an order.
Nested ==
  \A i \in InPorts, v \in VCs : \A u \in older[i][v] : older[i][u] \subseteq older[i][v]

\* Packets do not wait for each other: among those of an input port and a vnet
\* that are ready for one output port there is one that no other holds back.
Rivals(i, v) ==
  {u \in VCsOf(get_vnet(v)) : need_stage(i, u) /\ OutPort(i, u) = OutPort(i, v)}

OldestMayGo ==
  \A i \in InPorts, v \in VCs : need_stage(i, v) =>
    \E u \in Rivals(i, v) : Rivals(i, v) \cap older[i][u] = {}

IInv == TypeOK /\ AssertionsHold /\ WinnersOK /\ IdleOK /\ TurnsOK

\* What holds of the order of packets in addition.
OInv == PacketsOK /\ VNetsOK /\ FlowsOK /\ OldestWins

-----------------------------------------------------------------------------
\* Every non-empty set of numbers has a least one.
LEMMA LeastExists ==
  ASSUME NEW S, S \subseteq Nat, S # {}
  PROVE  \E x \in S : \A y \in S : x <= y
<1>1. \E x \in S : \A y \in S : ~ (<<y, x>> \in OpToRel(<, Nat))
  BY NatLessThanWellFounded, WFMin
<1>2. ASSUME NEW x \in S, NEW y \in S, ~ (<<y, x>> \in OpToRel(<, Nat))
      PROVE  x <= y
  BY <1>2 DEF OpToRel
<1> QED
  BY <1>1, <1>2

\* The distance from the pointer of a round robin, without the modulus.
LEMMA TurnOf ==
  ASSUME NEW n \in Nat \ {0}, NEW x \in 0 .. n - 1, NEW r \in 0 .. n - 1
  PROVE  (x - r) % n = IF r <= x THEN x - r ELSE x - r + n
<1>1. CASE r <= x
  BY <1>1, x - r \in 0 .. n - 1, SMTT(30)
<1>2. CASE ~ (r <= x)
  BY <1>2, SMTT(30)
<1> QED
  BY <1>1, <1>2

\* The pointer that moves past a winner.
LEMMA PointerAfter ==
  ASSUME NEW n \in Nat \ {0}, NEW x \in 0 .. n - 1
  PROVE  (x + 1) % n = IF x = n - 1 THEN 0 ELSE x + 1
  BY SMTT(30)

\* The scan of a round robin finds the member that is next.
LEMMA FirstFromIsNext ==
  ASSUME NEW n \in Nat \ {0}, NEW r \in 0 .. n - 1,
         NEW S, S \subseteq 0 .. n - 1, S # {}
  PROVE  /\ FirstFrom(r, n, S) \in S
         /\ \A y \in S : (FirstFrom(r, n, S) - r) % n <= (y - r) % n
<1> DEFINE D == {(y - r) % n : y \in S}
<1>1. \A y \in S : (y - r) % n \in Nat
  BY TurnOf
<1>2. PICK m \in D : \A d \in D : m <= d
  <2> HIDE DEF D
  <2>1. D \subseteq Nat /\ D # {}
    BY <1>1 DEF D
  <2> QED
    BY <2>1, LeastExists
<1>3. \E x \in S : \A y \in S : (x - r) % n <= (y - r) % n
  BY <1>2
<1> QED
  BY <1>3 DEF FirstFrom

\* A VC of a packet is not an idle one.
LEMMA VCFields ==
  /\ IdleVC \notin VC
  /\ IdleVC.flow = NoFlow /\ IdleVC.flits = 0 /\ IdleVC.toCome = 0
  /\ IdleVC.outvc = NoVC
  /\ NoVC \notin VCs
  /\ \A c \in VC : /\ c.flow \in Flows /\ c.flits \in Nat /\ c.toCome \in Nat
                   /\ c.outvc \in VCs \cup {NoVC}
<1>1. NoFlow \notin Flows
  BY Parameters
<1> QED
  BY <1>1 DEF VC, IdleVC, VCs, NoVC

\* A VC with a flit has a packet, which has an output port.
LEMMA ReadyVC ==
  ASSUME TypeOK, NEW i \in InPorts, NEW v \in VCs, need_stage(i, v)
  PROVE  vc[i][v] \in VC /\ OutPort(i, v) \in OutPorts
<1>1. vc[i][v] \in VC
  BY VCFields DEF TypeOK, need_stage
<1> QED
  BY <1>1, VCFields, Parameters DEF OutPort

-----------------------------------------------------------------------------
\* An empty router.
LEMMA InitIInv == Init => IInv /\ OInv
<1> SUFFICES ASSUME Init PROVE IInv /\ OInv
  OBVIOUS
<1> USE DEF Init
<1>1. 0 \in VCs /\ 0 \in InPorts /\ NumIn \in Nat \ {0}
  BY Parameters DEF VCs, InPorts
<1>2. TypeOK
  <2>1. [idle |-> TRUE, credit |-> MaxCredit, ended |-> FALSE] \in OutVC
    BY Parameters DEF OutVC
  <2>2. out \in [OutPorts -> [VCs -> OutVC]]
    BY <2>1
  <2>3. NoVC \in VCs \cup {NoVC} /\ lost \in [InPorts -> [OutPorts -> Nat]]
    OBVIOUS
  <2>4. /\ rrInvc \in [InPorts -> VCs] /\ rrInport \in [OutPorts -> InPorts]
        /\ winner \in [InPorts -> VCs \cup {NoVC}]
        /\ older \in [InPorts -> [VCs -> SUBSET VCs]]
    BY <1>1
  <2>5. vc \in [InPorts -> [VCs -> VC \cup {IdleVC}]]
    OBVIOUS
  <2> QED
    BY <2>2, <2>3, <2>4, <2>5 DEF TypeOK
<1>3. AssertionsHold /\ WinnersOK /\ IdleOK
  BY DEF AssertionsHold, WinnersOK, IdleOK
<1>4. TurnsOK
  <2> SUFFICES ASSUME NEW i \in InPorts, NEW o \in OutPorts
               PROVE  lost[i][o] + ((i - rrInport[o]) % NumIn) < NumIn
    BY DEF TurnsOK
  <2>1. lost[i][o] = 0 /\ rrInport[o] = 0
    OBVIOUS
  <2>2. (i - 0) % NumIn = i
    <3>1. (i - 0) % NumIn = IF 0 <= i THEN i - 0 ELSE i - 0 + NumIn
      BY <1>1, TurnOf, Zenon DEF InPorts
    <3> QED
      BY <3>1 DEF InPorts
  <2> QED
    BY <1>1, <2>1, <2>2 DEF InPorts
<1>5. OInv
  BY DEF OInv, PacketsOK, VNetsOK, FlowsOK, OldestWins
<1> QED
  BY <1>2, <1>3, <1>4, <1>5 DEF IInv

\* The two kinds of flits that may come in.
BodyComes(a, i) ==
  a[i].vc \in VCs /\ a[i].flow = NoFlow /\ vc[i][a[i].vc].toCome > 0

HeadComes(a, i) ==
  /\ a[i].vc \in VCs /\ a[i].flow \in Flows /\ vc[i][a[i].vc] = IdleVC
  /\ VNetOf[a[i].flow] = get_vnet(a[i].vc)
  /\ VNetOf[a[i].flow] \in Ordered =>
       \A u \in VCs : vc[i][u].flow = a[i].flow => vc[i][u].toCome = 0

\* Nothing else comes.
LEMMA ArrivalKinds ==
  ASSUME NEW a \in AllArrivals, NEW i \in InPorts
  PROVE  a[i] = Nothing \/ BodyComes(a, i) \/ HeadComes(a, i)
<1>1. a[i] \in Arrivals(i)
  BY DEF AllArrivals
<1>2. CASE a[i] \in Bodies(i)
  BY <1>2 DEF Bodies, BodyComes
<1>3. CASE a[i] \in Heads(i)
  BY <1>3 DEF Heads, HeadComes, VCsOf
<1> QED
  BY <1>1, <1>2, <1>3 DEF Arrivals

\* What InputUnits does to one VC.
Untouched(i, v) ==
  vc'[i][v] = vc[i][v] /\ older'[i][v] = older[i][v]

GotBody(i, v) ==
  /\ vc[i][v] \in VC /\ vc'[i][v] \in VC
  /\ vc'[i][v].flow = vc[i][v].flow /\ vc'[i][v].outvc = vc[i][v].outvc
  /\ vc'[i][v].flits = vc[i][v].flits + 1
  /\ vc[i][v].toCome > 0 /\ vc'[i][v].toCome = vc[i][v].toCome - 1
  /\ older'[i][v] = older[i][v]

GotHead(i, v) ==
  /\ vc[i][v] = IdleVC /\ vc'[i][v] \in VC
  /\ vc'[i][v].outvc = NoVC /\ vc'[i][v].flits = 1
  /\ older'[i][v] = {u \in VCs : vc[i][u] # IdleVC}
  /\ VNetOf[vc'[i][v].flow] = get_vnet(v)
  /\ VNetOf[vc'[i][v].flow] \in Ordered =>
       \A u \in VCs : vc[i][u].flow = vc'[i][v].flow => vc[i][u].toCome = 0

\* One VC of an input port changes at most.
LEMMA OneArrival ==
  ASSUME TypeOK, NEW a \in AllArrivals, InputUnits(a), NEW i \in InPorts
  PROVE  /\ \A v \in VCs : Untouched(i, v) \/ GotBody(i, v) \/ GotHead(i, v)
         /\ \A v, u \in VCs : ~Untouched(i, v) /\ ~Untouched(i, u) => u = v
<1>1. \A v \in VCs :
        /\ vc'[i][v] = IF a[i].vc = v THEN Insert(vc[i][v], a[i].flow)
                       ELSE vc[i][v]
        /\ older'[i][v] = IF a[i].vc = v /\ a[i].flow # NoFlow
                          THEN {u \in VCs : vc[i][u] # IdleVC}
                          ELSE older[i][v]
  BY DEF InputUnits
<1>2. \A v \in VCs : a[i].vc # v => Untouched(i, v)
  BY <1>1 DEF Untouched
<1>3. NoVC \notin VCs /\ NoFlow \notin Flows
  BY VCFields, Parameters
<1>4. CASE a[i] = Nothing
  BY <1>2, <1>3, <1>4 DEF Nothing
<1>5. CASE BodyComes(a, i)
  <2> DEFINE v == a[i].vc
             c == vc[i][v]
  <2>1. v \in VCs /\ c \in VC /\ c.toCome > 0
    BY <1>5, VCFields DEF BodyComes, TypeOK
  <2>2. vc'[i][v] = [flow |-> c.flow, flits |-> c.flits + 1,
                     toCome |-> c.toCome - 1, outvc |-> c.outvc]
        /\ older'[i][v] = older[i][v]
    BY <1>1, <1>5, <2>1 DEF BodyComes, Insert
  <2>3. GotBody(i, v)
    <3>1. /\ c.flow \in Flows /\ c.flits \in Nat /\ c.toCome \in Nat
          /\ c.outvc \in VCs \cup {NoVC}
      BY <2>1, VCFields
    <3>2. vc'[i][v] \in VC
      BY <2>1, <2>2, <3>1 DEF VC
    <3> QED
      BY <2>1, <2>2, <3>2 DEF GotBody
  <2> QED
    BY <1>2, <2>3, Zenon
<1>6. CASE HeadComes(a, i)
  <2> DEFINE v == a[i].vc
             f == a[i].flow
  <2>1. v \in VCs /\ f \in Flows /\ vc[i][v] = IdleVC /\ f # NoFlow
    BY <1>3, <1>6 DEF HeadComes
  <2>2. older'[i][v] = {u \in VCs : vc[i][u] # IdleVC}
    BY <1>1, <2>1
  <2>3. vc'[i][v] = [flow |-> f, flits |-> 1, toCome |-> SizeOf[f] - 1,
                     outvc |-> NoVC]
    BY <1>1, <2>1 DEF Insert
  <2>4. SizeOf[f] - 1 \in Nat
    BY <2>1, Parameters
  <2>5. vc'[i][v] \in VC
    BY <2>1, <2>3, <2>4 DEF VC
  <2>6. /\ vc'[i][v].flow = f /\ vc'[i][v].outvc = NoVC
        /\ vc'[i][v].flits = 1
    BY <2>3
  <2>7. GotHead(i, v)
    <3> HIDE DEF v, f
    <3> QED
      BY <1>6, <2>1, <2>2, <2>5, <2>6 DEF GotHead, HeadComes, v, f
  <2>8. \A u \in VCs : u # v => Untouched(i, u)
    BY <1>2
  <2> QED
    BY <2>7, <2>8
<1> QED
  BY <1>4, <1>5, <1>6, ArrivalKinds

\* Flits come in: what the winners and the output VCs say is not touched.
LEMMA InputStep ==
  ASSUME IInv, OInv, NEW a \in AllArrivals, InputUnits(a)
  PROVE  IInv' /\ OInv'
<1>1. TypeOK /\ PacketsOK /\ VNetsOK /\ FlowsOK
  BY DEF IInv, OInv
<1>2. /\ pc = "input" /\ pc' = "output" /\ awake' \in BOOLEAN
      /\ UNCHANGED <<quiet, out, rrInvc, rrInport, winner, lost>>
  <2>1. awake \in BOOLEAN
    BY <1>1 DEF TypeOK
  <2> QED
    BY <2>1 DEF InputUnits
<1>3. \A i \in InPorts : winner[i] = NoVC
  BY <1>2 DEF IInv, WinnersOK
<1>4. TypeOK'
  <2>1. \A i \in InPorts, v \in VCs :
          vc'[i][v] \in VC \cup {IdleVC} /\ older'[i][v] \in SUBSET VCs
    <3> SUFFICES ASSUME NEW i \in InPorts, NEW v \in VCs
                 PROVE  vc'[i][v] \in VC \cup {IdleVC}
                        /\ older'[i][v] \in SUBSET VCs
      OBVIOUS
    <3>1. vc[i][v] \in VC \cup {IdleVC} /\ older[i][v] \in SUBSET VCs
      BY <1>1 DEF TypeOK
    <3>2. Untouched(i, v) \/ GotBody(i, v) \/ GotHead(i, v)
      BY <1>1, OneArrival
    <3> QED
      BY <3>1, <3>2 DEF Untouched, GotBody, GotHead
  <2>2. /\ vc' = [i \in InPorts |-> [v \in VCs |-> vc'[i][v]]]
        /\ older' = [i \in InPorts |-> [v \in VCs |-> older'[i][v]]]
    BY DEF InputUnits
  <2>3. /\ vc' \in [InPorts -> [VCs -> VC \cup {IdleVC}]]
        /\ older' \in [InPorts -> [VCs -> SUBSET VCs]]
    BY <2>1, <2>2
  <2> QED
    BY <1>1, <1>2, <2>3 DEF TypeOK
<1>5. AssertionsHold' /\ WinnersOK' /\ IdleOK' /\ TurnsOK'
  BY <1>2, <1>3 DEF IInv, AssertionsHold, WinnersOK, IdleOK, TurnsOK
<1>6. PacketsOK'
  <2> SUFFICES ASSUME NEW i \in InPorts, NEW v \in VCs
               PROVE  /\ vc'[i][v] # IdleVC =>
                           vc'[i][v].flits + vc'[i][v].toCome > 0
                      /\ \A u \in older'[i][v] :
                           u # v /\ vc'[i][u] # IdleVC /\ vc'[i][v] # IdleVC
    BY DEF PacketsOK
  <2>1. \A u \in VCs : Untouched(i, u) \/ GotBody(i, u) \/ GotHead(i, u)
    BY <1>1, OneArrival
  <2>2. \A u \in VCs : vc[i][u] # IdleVC => vc'[i][u] # IdleVC
    BY <2>1, VCFields DEF Untouched, GotBody, GotHead
  <2>3. older[i][v] \subseteq VCs
    BY <1>1 DEF TypeOK
  <2>4. CASE Untouched(i, v)
    BY <1>1, <2>2, <2>3, <2>4 DEF PacketsOK, Untouched
  <2>5. CASE GotBody(i, v)
    <3>1. vc[i][v] # IdleVC /\ vc[i][v].flits \in Nat /\ vc[i][v].toCome \in Nat
      BY <2>5, VCFields DEF GotBody
    <3>2. vc'[i][v].flits + vc'[i][v].toCome > 0
      BY <2>5, <3>1 DEF GotBody
    <3> QED
      BY <1>1, <2>2, <2>3, <2>5, <3>1, <3>2 DEF PacketsOK, GotBody
  <2>6. CASE GotHead(i, v)
    <3>1. vc'[i][v].flits = 1 /\ vc'[i][v].toCome \in Nat /\ vc'[i][v] # IdleVC
      BY <2>6, VCFields DEF GotHead
    <3> QED
      BY <2>2, <2>6, <3>1 DEF GotHead
  <2> QED
    BY <2>1, <2>4, <2>5, <2>6
<1>7. FlowsOK'
  <2> SUFFICES ASSUME NEW i \in InPorts, NEW v \in VCs, NEW u \in older'[i][v],
                      vc'[i][u].flow = vc'[i][v].flow,
                      VNetOf[vc'[i][v].flow] \in Ordered
               PROVE  vc'[i][u].toCome = 0
    BY DEF FlowsOK
  <2>1. /\ \A w \in VCs : Untouched(i, w) \/ GotBody(i, w) \/ GotHead(i, w)
        /\ \A w, x \in VCs : ~Untouched(i, w) /\ ~Untouched(i, x) => w = x
    BY <1>1, OneArrival
  <2>2. u \in VCs
    BY <1>4 DEF TypeOK
  <2>3. \A w \in VCs : GotBody(i, w) => vc[i][w] \in VC /\ ~GotHead(i, w)
    BY VCFields DEF GotBody, GotHead
  <2>4. CASE GotHead(i, v)
    <3>1. vc[i][u] # IdleVC /\ vc[i][v] = IdleVC /\ vc'[i][v] \in VC
      BY <2>2, <2>4 DEF GotHead
    <3>2. ~Untouched(i, v)
      BY <3>1, VCFields DEF Untouched
    <3>3. Untouched(i, u)
      BY <2>1, <2>2, <3>1, <3>2
    <3> QED
      BY <2>2, <2>4, <3>3 DEF GotHead, Untouched
  <2>5. CASE ~GotHead(i, v)
    <3>1. older'[i][v] = older[i][v] /\ vc'[i][v].flow = vc[i][v].flow
      BY <2>1, <2>5 DEF Untouched, GotBody
    <3>2. vc[i][u] # IdleVC
      BY <1>1, <3>1 DEF PacketsOK
    <3>3. ~GotHead(i, u)
      BY <3>2 DEF GotHead
    <3>4. vc'[i][u].flow = vc[i][u].flow
      BY <2>1, <2>2, <3>3 DEF Untouched, GotBody
    <3>5. vc[i][u].toCome = 0
      BY <1>1, <3>1, <3>4 DEF FlowsOK
    <3>6. ~GotBody(i, u)
      BY <3>5 DEF GotBody
    <3> QED
      BY <2>1, <2>2, <3>3, <3>5, <3>6 DEF Untouched
  <2> QED
    BY <2>4, <2>5
<1>8. OldestWins'
  BY <1>2, <1>3 DEF OldestWins
<1>9. VNetsOK'
  <2> SUFFICES ASSUME NEW i \in InPorts, NEW v \in VCs, vc'[i][v] # IdleVC
               PROVE  VNetOf[vc'[i][v].flow] = get_vnet(v)
    BY DEF VNetsOK
  <2>1. Untouched(i, v) \/ GotBody(i, v) \/ GotHead(i, v)
    BY <1>1, OneArrival
  <2>2. GotBody(i, v) => vc[i][v] # IdleVC
    BY VCFields DEF GotBody
  <2> QED
    BY <1>1, <2>1, <2>2 DEF VNetsOK, Untouched, GotBody, GotHead
<1> QED
  BY <1>4, <1>5, <1>6, <1>7, <1>8, <1>9 DEF IInv, OInv

-----------------------------------------------------------------------------
\* Credits come back: the last one frees its VC.
LEMMA OutputStep ==
  ASSUME IInv, OInv, NEW c \in AllCredits, OutputUnits(c)
  PROVE  IInv' /\ OInv'
<1>1. TypeOK /\ IdleOK
  BY DEF IInv
<1>2. /\ pc = "output" /\ pc' \in {"SA-I", "input"} /\ awake' \in BOOLEAN
      /\ UNCHANGED <<quiet, vc, older, rrInvc, rrInport, winner, lost>>
  <2>1. awake \in BOOLEAN
    BY <1>1 DEF TypeOK
  <2> QED
    BY <2>1 DEF OutputUnits
<1>3. \A i \in InPorts : winner[i] = NoVC
  BY <1>2 DEF IInv, WinnersOK
<1>4. \A o \in OutPorts, w \in VCs :
        /\ out'[o][w] \in OutVC
        /\ out'[o][w].idle => out'[o][w].credit = MaxCredit
  <2> SUFFICES ASSUME NEW o \in OutPorts, NEW w \in VCs
               PROVE  /\ out'[o][w] \in OutVC
                      /\ out'[o][w].idle => out'[o][w].credit = MaxCredit
    OBVIOUS
  <2>1. /\ out[o][w] \in OutVC
        /\ out[o][w].idle => out[o][w].credit = MaxCredit
    BY <1>1 DEF TypeOK, IdleOK
  <2>2. CASE c[o] = w
    <3> DEFINE x == out[o][w]
               free == x.ended /\ x.credit = MaxCredit - 1
    <3>1. /\ x.idle \in BOOLEAN /\ x.credit \in 0 .. MaxCredit
          /\ x.ended \in BOOLEAN
      BY <2>1 DEF OutVC
    <3>2. x.credit < MaxCredit
      BY <2>2, VCFields DEF AllCredits
    <3>3. out'[o][w] = [idle |-> x.idle \/ free, credit |-> x.credit + 1,
                        ended |-> x.ended /\ ~free]
      BY <2>2 DEF OutputUnits, increment_credit
    <3>4. x.credit + 1 \in 0 .. MaxCredit /\ ~x.idle
      BY <2>1, <3>1, <3>2, Parameters
    <3>5. (x.idle \/ free) \in BOOLEAN /\ (x.ended /\ ~free) \in BOOLEAN
      OBVIOUS
    <3>6. out'[o][w] \in OutVC
      BY <3>3, <3>4, <3>5 DEF OutVC
    <3>7. out'[o][w].idle = (x.idle \/ free) /\ out'[o][w].credit = x.credit + 1
      <4> HIDE DEF free, x
      <4> QED
        BY <3>3
    <3>8. x.credit = MaxCredit - 1 => x.credit + 1 = MaxCredit
      BY Parameters
    <3> QED
      BY <3>4, <3>6, <3>7, <3>8, Zenon
  <2>3. CASE c[o] # w
    BY <2>1, <2>3 DEF OutputUnits
  <2> QED
    BY <2>2, <2>3
<1>5. TypeOK'
  <2>1. out' = [o \in OutPorts |-> [w \in VCs |-> out'[o][w]]]
    BY DEF OutputUnits
  <2>2. out' \in [OutPorts -> [VCs -> OutVC]]
    BY <1>4, <2>1
  <2> QED
    BY <1>1, <1>2, <2>2 DEF TypeOK
<1>6. AssertionsHold' /\ WinnersOK' /\ IdleOK' /\ TurnsOK'
  BY <1>2, <1>3, <1>4 DEF IInv, AssertionsHold, WinnersOK, IdleOK, TurnsOK
<1>7. OInv'
  BY <1>2, <1>3 DEF OInv, PacketsOK, VNetsOK, FlowsOK, OldestWins
<1> QED
  BY <1>5, <1>6, <1>7 DEF IInv

-----------------------------------------------------------------------------
\* SA-I: the winners are VCs that may send.
LEMMA PickStep ==
  ASSUME IInv, OInv, arbitrate_inports
  PROVE  IInv' /\ OInv'
<1>1. TypeOK
  BY DEF IInv
<1>2. /\ pc = "SA-I" /\ pc' = "SA-II"
      /\ UNCHANGED <<awake, quiet, vc, older, out, rrInport, lost>>
  BY DEF arbitrate_inports
<1>3. ASSUME NEW i \in InPorts, winner'[i] # NoVC
      PROVE  winner'[i] \in MaySend(i)
  <2>1. /\ MaySend(i) # {}
        /\ winner'[i] = FirstFrom(rrInvc[i], NumVCs, MaySend(i))
    BY <1>3 DEF arbitrate_inports
  <2>2. MaySend(i) \subseteq 0 .. NumVCs - 1 /\ rrInvc[i] \in 0 .. NumVCs - 1
    BY <1>1 DEF TypeOK, MaySend, VCs
  <2> QED
    BY <2>1, <2>2, FirstFromIsNext, Parameters
<1>4. \A i \in InPorts : winner'[i] # NoVC =>
        /\ winner'[i] \in VCs /\ need_stage(i, winner'[i])
        /\ send_allowed(i, winner'[i])
  BY <1>3 DEF MaySend
<1>5. \A i \in InPorts : rrInvc'[i] \in VCs
  <2> SUFFICES ASSUME NEW i \in InPorts PROVE rrInvc'[i] \in VCs
    OBVIOUS
  <2>1. CASE MaySend(i) = {}
    BY <1>1, <2>1 DEF arbitrate_inports, TypeOK
  <2>2. CASE MaySend(i) # {}
    <3>1. /\ winner'[i] = FirstFrom(rrInvc[i], NumVCs, MaySend(i))
          /\ rrInvc'[i] = (winner'[i] + 1) % NumVCs
      BY <2>2 DEF arbitrate_inports
    <3>2. MaySend(i) \subseteq 0 .. NumVCs - 1 /\ rrInvc[i] \in 0 .. NumVCs - 1
      BY <1>1 DEF TypeOK, MaySend, VCs
    <3>3. winner'[i] \in 0 .. NumVCs - 1
      BY <2>2, <3>1, <3>2, FirstFromIsNext, Parameters
    <3> QED
      BY <3>1, <3>3, PointerAfter, Parameters DEF VCs
  <2> QED
    BY <2>1, <2>2
<1>6. TypeOK'
  <2>1. /\ winner' = [i \in InPorts |-> winner'[i]]
        /\ rrInvc' = [i \in InPorts |-> rrInvc'[i]]
    BY DEF arbitrate_inports
  <2>2. /\ winner' \in [InPorts -> VCs \cup {NoVC}]
        /\ rrInvc' \in [InPorts -> VCs]
    BY <1>4, <1>5, <2>1
  <2> QED
    BY <1>1, <1>2, <2>2 DEF TypeOK
<1>7. WinnersOK'
  <2> SUFFICES ASSUME NEW i \in InPorts, winner'[i] # NoVC
               PROVE  LET c == vc[i][winner'[i]]
                          o == OutOf[c.flow]
                      IN c.flits > 0 /\ IF c.outvc = NoVC
                                        THEN \E w \in Scanned(c.flow) : out[o][w].idle
                                        ELSE out[o][c.outvc].credit > 0
    BY <1>2 DEF WinnersOK, need_stage, has_free_vc, has_credit, OutPort
  <2>1. need_stage(i, winner'[i]) /\ send_allowed(i, winner'[i])
    BY <1>4
  <2> QED
    BY <2>1 DEF send_allowed, need_stage, has_free_vc, has_credit, OutPort
<1>8. AssertionsHold' /\ IdleOK' /\ TurnsOK'
  BY <1>2 DEF IInv, AssertionsHold, IdleOK, TurnsOK
<1>9. PacketsOK' /\ VNetsOK' /\ FlowsOK'
  BY <1>2 DEF OInv, PacketsOK, VNetsOK, FlowsOK
<1>10. OldestWins'
  <2> SUFFICES ASSUME NEW i \in InPorts, winner'[i] # NoVC,
                      get_vnet(winner'[i]) \in Ordered,
                      NEW u \in older[i][winner'[i]],
                      get_vnet(u) = get_vnet(winner'[i]),
                      need_stage(i, u), OutPort(i, u) = OutPort(i, winner'[i])
               PROVE  FALSE
    BY <1>2 DEF OldestWins, need_stage, OutPort
  <2>1. winner'[i] \in VCs /\ send_allowed(i, winner'[i])
    BY <1>4
  <2>2. u \in VCs
    BY <1>1, <2>1 DEF TypeOK
  <2> QED
    BY <2>1, <2>2 DEF send_allowed, VCsOf
<1> QED
  BY <1>6, <1>7, <1>8, <1>9, <1>10 DEF IInv, OInv

-----------------------------------------------------------------------------
\* The grant of an output port goes to a requester whose turn is first.
LEMMA GrantIsNext ==
  ASSUME TypeOK, NEW o \in Requested
  PROVE  /\ o \in OutPorts /\ Grants[o] \in Requesters(o)
         /\ \A i \in Requesters(o) :
              (Grants[o] - rrInport[o]) % NumIn <= (i - rrInport[o]) % NumIn
<1>1. /\ o \in OutPorts /\ Requesters(o) # {}
      /\ Requesters(o) \subseteq 0 .. NumIn - 1
  BY DEF Requested, Requesters, InPorts
<1>2. rrInport[o] \in 0 .. NumIn - 1
  BY <1>1 DEF TypeOK, InPorts
<1>3. Grants[o] = FirstFrom(rrInport[o], NumIn, Requesters(o))
  BY DEF Grants
<1> QED
  BY <1>1, <1>2, <1>3, FirstFromIsNext, Parameters

\* A requester has a VC with a flit, and there is an output VC with a credit.
LEMMA RequesterCanLeave ==
  ASSUME IInv, NEW o \in OutPorts, NEW i \in Requesters(o)
  PROVE  /\ i \in InPorts /\ winner[i] \in VCs /\ OutPort(i, winner[i]) = o
         /\ vc[i][winner[i]] \in VC /\ vc[i][winner[i]].flits > 0
         /\ OutVCOf(i, o) \in VCs /\ out[o][OutVCOf(i, o)].credit > 0
         /\ IF vc[i][winner[i]].outvc = NoVC THEN out[o][OutVCOf(i, o)].idle
            ELSE OutVCOf(i, o) = vc[i][winner[i]].outvc
<1> DEFINE v == winner[i]
<1>1. TypeOK /\ WinnersOK /\ IdleOK
  BY DEF IInv
<1>2. i \in InPorts /\ v # NoVC /\ OutPort(i, v) = o
  BY DEF Requesters
<1>3. v \in VCs
  BY <1>1, <1>2 DEF TypeOK
<1>4. /\ need_stage(i, v)
      /\ IF vc[i][v].outvc = NoVC THEN has_free_vc(o, vc[i][v].flow) ELSE has_credit(o, vc[i][v].outvc)
  BY <1>1, <1>2 DEF WinnersOK
<1>5. vc[i][v] \in VC /\ vc[i][v].outvc \in VCs \cup {NoVC}
  BY <1>1, <1>2, <1>3, <1>4, ReadyVC, VCFields
<1>6. CASE vc[i][v].outvc = NoVC
  <2> DEFINE idle == {w \in Scanned(vc[i][v].flow) : out[o][w].idle}
  <2>1. idle # {} /\ idle \subseteq VCs /\ VCs \subseteq Nat
    BY <1>4, <1>6 DEF has_free_vc, Scanned, VCsOf, VCs
  <2>2. \E w \in idle : \A x \in idle : w <= x
    <3> HIDE DEF idle
    <3> QED
      BY <2>1, LeastExists
  <2>3. select_free_vc(o, vc[i][v].flow) \in idle
    <3>1. select_free_vc(o, vc[i][v].flow) = CHOOSE w \in idle : \A x \in idle : w <= x
      BY <2>1 DEF select_free_vc
    <3> HIDE DEF idle
    <3> QED
      BY <2>2, <3>1
  <2>4. OutVCOf(i, o) = select_free_vc(o, vc[i][v].flow)
    BY <1>6 DEF OutVCOf
  <2>5. /\ OutVCOf(i, o) \in VCs /\ out[o][OutVCOf(i, o)].idle
        /\ out[o][OutVCOf(i, o)].credit = MaxCredit
    BY <1>1, <2>1, <2>3, <2>4 DEF IdleOK
  <2> QED
    BY <1>2, <1>3, <1>4, <1>5, <1>6, <2>5, Parameters DEF need_stage
<1>7. CASE vc[i][v].outvc # NoVC
  BY <1>2, <1>3, <1>4, <1>5, <1>7 DEF OutVCOf, has_credit, need_stage
<1> QED
  BY <1>6, <1>7

\* The flit in the winner of input port i is let go.
Leaving(i) == \E o \in Requested : Grants[o] = i

\* What SA-II does, port by port.
LEMMA Release ==
  ASSUME IInv, arbitrate_outports
  PROVE  /\ pc = "SA-II" /\ pc' = "input" /\ awake' \in BOOLEAN
         /\ UNCHANGED <<quiet, rrInvc>>
         /\ \A i \in InPorts : winner'[i] = NoVC
         /\ \A i \in InPorts, v \in VCs :
              ~(Leaving(i) /\ v = winner[i]) => vc'[i][v] = vc[i][v]
         /\ \A o \in Requested : LET i == Grants[o] IN
              vc'[i][winner[i]] = RemoveFlit(i, OutVCOf(i, o))
         /\ \A i \in InPorts, v \in VCs :
              older'[i][v] = IF ~(Leaving(i) /\ IsTail(i)) THEN older[i][v]
                             ELSE IF v = winner[i] THEN {}
                             ELSE older[i][v] \ {winner[i]}
         /\ \A o \in OutPorts, w \in VCs :
              out'[o][w] = IF o \in Requested /\ w = OutVCOf(Grants[o], o)
                           THEN decrement_credit(out[o][w], IsTail(Grants[o]))
                           ELSE out[o][w]
         /\ \A o \in OutPorts :
              rrInport'[o] = IF o \in Requested THEN (Grants[o] + 1) % NumIn
                             ELSE rrInport[o]
         /\ \A i \in InPorts, o \in OutPorts :
              lost'[i][o] = IF i \in Requesters(o) /\ ~Leaving(i)
                            THEN lost[i][o] + 1 ELSE 0
<1> DEFINE by == [o \in Requested |-> OutVCOf(Grants[o], o)]
           leaves == {Grants[o] : o \in Requested}
           tails == {i \in leaves : IsTail(i)}
<1>1. /\ pc = "SA-II" /\ awake' \in BOOLEAN /\ UNCHANGED <<quiet, rrInvc>>
      /\ pc' = IF \E o \in Requested : by[o] = NoVC THEN "assert" ELSE "input"
      /\ winner' = [i \in InPorts |-> NoVC]
  BY DEF arbitrate_outports, check_for_wakeup
<1>2. /\ vc' = [i \in InPorts |-> [v \in VCs |->
              IF i \in leaves /\ v = winner[i]
              THEN RemoveFlit(i, by[OutPort(i, v)]) ELSE vc[i][v]]]
      /\ older' = [i \in InPorts |-> [v \in VCs |->
                 IF i \notin tails THEN older[i][v]
                 ELSE IF v = winner[i] THEN {} ELSE older[i][v] \ {winner[i]}]]
  BY DEF arbitrate_outports
<1>3. /\ out' = [o \in OutPorts |-> [w \in VCs |->
               IF o \in Requested /\ w = by[o]
               THEN decrement_credit(out[o][w], Grants[o] \in tails)
               ELSE out[o][w]]]
      /\ rrInport' = [o \in OutPorts |->
                    IF o \in Requested THEN (Grants[o] + 1) % NumIn ELSE rrInport[o]]
      /\ lost' = [i \in InPorts |-> [o \in OutPorts |->
                IF i \in Requesters(o) \ leaves THEN lost[i][o] + 1 ELSE 0]]
  BY DEF arbitrate_outports
<1>4. TypeOK
  BY DEF IInv
<1>5. \A i : /\ i \in leaves <=> Leaving(i)
             /\ i \in tails <=> Leaving(i) /\ IsTail(i)
  BY DEF Leaving
<1>6. \A o \in Requested :
        /\ o \in OutPorts /\ Grants[o] \in Requesters(o)
        /\ by[o] = OutVCOf(Grants[o], o) /\ by[o] \in VCs
  BY <1>4, GrantIsNext, RequesterCanLeave
<1>7. pc' = "input"
  BY <1>1, <1>6, VCFields
<1>8. \A i \in InPorts : Leaving(i) =>
        winner[i] \in VCs /\ by[OutPort(i, winner[i])] \in VCs
  BY <1>6, RequesterCanLeave DEF Leaving
<1> HIDE DEF by, leaves, tails
<1>9. /\ \A i \in InPorts, v \in VCs :
           ~(Leaving(i) /\ v = winner[i]) => vc'[i][v] = vc[i][v]
      /\ \A o \in Requested :
           vc'[Grants[o]][winner[Grants[o]]] = RemoveFlit(Grants[o], OutVCOf(Grants[o], o))
  <2>1. \A i \in InPorts : Leaving(i) =>
          vc'[i][winner[i]] = RemoveFlit(i, by[OutPort(i, winner[i])])
    BY <1>2, <1>5, <1>8
  <2>2. ASSUME NEW o \in Requested
        PROVE  vc'[Grants[o]][winner[Grants[o]]]
                 = RemoveFlit(Grants[o], OutVCOf(Grants[o], o))
    <3>1. Grants[o] \in InPorts /\ OutPort(Grants[o], winner[Grants[o]]) = o
      BY <1>6 DEF Requesters
    <3> QED
      BY <1>6, <2>1, <3>1 DEF Leaving
  <2> QED
    BY <1>2, <1>5, <1>8, <2>2
<1>10. \A i \in InPorts, v \in VCs :
         older'[i][v] = IF ~(Leaving(i) /\ IsTail(i)) THEN older[i][v]
                        ELSE IF v = winner[i] THEN {}
                        ELSE older[i][v] \ {winner[i]}
  BY <1>2, <1>5
<1>11. \A o \in OutPorts, w \in VCs :
         out'[o][w] = IF o \in Requested /\ w = OutVCOf(Grants[o], o)
                      THEN decrement_credit(out[o][w], IsTail(Grants[o]))
                      ELSE out[o][w]
  <2>1. \A o \in Requested : (Grants[o] \in tails) = IsTail(Grants[o])
    BY <1>5 DEF Leaving, IsTail
  <2> QED
    BY <1>3, <1>6, <2>1
<1>12. \A i \in InPorts, o \in OutPorts :
         lost'[i][o] = IF i \in Requesters(o) /\ ~Leaving(i)
                       THEN lost[i][o] + 1 ELSE 0
  BY <1>3, <1>5
<1> QED
  BY <1>1, <1>3, <1>7, <1>9, <1>10, <1>11, <1>12

\* What is left of a VC when a flit leaves it.
LEMMA LeftOver ==
  ASSUME IInv, arbitrate_outports, NEW i \in InPorts, Leaving(i)
  PROVE  LET v == winner[i]
             c == vc[i][v]
         IN /\ v \in VCs /\ c \in VC /\ c.flits > 0
            /\ vc'[i][v] \in VC \cup {IdleVC}
            /\ IsTail(i) => vc'[i][v] = IdleVC
            /\ ~IsTail(i) => /\ vc'[i][v] \in VC /\ vc'[i][v].flow = c.flow
                             /\ vc'[i][v].flits = c.flits - 1
                             /\ vc'[i][v].toCome = c.toCome
<1> DEFINE c == vc[i][winner[i]]
<1>1. TypeOK
  BY DEF IInv
<1>2. winner[i] \in VCs /\ c \in VC /\ c.flits > 0
  BY <1>1, GrantIsNext, RequesterCanLeave DEF Leaving
<1>3. PICK w \in VCs : vc'[i][winner[i]] = RemoveFlit(i, w)
  <2>1. PICK o \in Requested : Grants[o] = i
    BY DEF Leaving
  <2>2. OutVCOf(i, o) \in VCs
    BY <1>1, <2>1, GrantIsNext, RequesterCanLeave
  <2> QED
    BY <2>1, <2>2, Release
<1>4. CASE IsTail(i)
  BY <1>2, <1>3, <1>4 DEF RemoveFlit
<1>5. CASE ~IsTail(i)
  <2>1. /\ c.flow \in Flows /\ c.flits - 1 \in Nat /\ c.toCome \in Nat
    BY <1>2, VCFields
  <2>2. vc'[i][winner[i]] = [flow |-> c.flow, flits |-> c.flits - 1,
                             toCome |-> c.toCome, outvc |-> w]
    BY <1>3, <1>5 DEF RemoveFlit
  <2>3. vc'[i][winner[i]] \in VC
    BY <2>1, <2>2 DEF VC
  <2> QED
    BY <1>2, <1>5, <2>2, <2>3
<1> QED
  BY <1>4, <1>5

\* The turn of an input port that loses has come closer.
LEMMA CloserTurn ==
  ASSUME IInv, arbitrate_outports
  PROVE  TurnsOK' /\ rrInport' \in [OutPorts -> InPorts]
         /\ lost' \in [InPorts -> [OutPorts -> Nat]]
<1>1. TypeOK /\ TurnsOK
  BY DEF IInv
<1>2. \A o \in OutPorts : rrInport[o] \in InPorts /\ rrInport'[o] \in InPorts
  <2> SUFFICES ASSUME NEW o \in OutPorts
               PROVE  rrInport[o] \in InPorts /\ rrInport'[o] \in InPorts
    OBVIOUS
  <2>1. rrInport[o] \in InPorts
    BY <1>1 DEF TypeOK
  <2>2. CASE o \in Requested
    <3>1. Grants[o] \in 0 .. NumIn - 1
      BY <1>1, <2>2, GrantIsNext DEF Requesters, InPorts
    <3>2. rrInport'[o] = (Grants[o] + 1) % NumIn
      BY <2>2, Release
    <3>3. NumIn \in Nat \ {0}
      BY Parameters
    <3> HIDE DEF Grants
    <3>4. rrInport'[o] \in 0 .. NumIn - 1
      BY <3>1, <3>2, <3>3, PointerAfter
    <3> QED
      BY <2>1, <3>4 DEF InPorts
  <2>3. CASE o \notin Requested
    BY <2>1, <2>3, Release
  <2> QED
    BY <2>2, <2>3
<1>3. \A i \in InPorts, o \in OutPorts : lost[i][o] \in Nat /\ lost'[i][o] \in Nat
  <2>1. \A i \in InPorts, o \in OutPorts : lost[i][o] \in Nat
    BY <1>1 DEF TypeOK
  <2> QED
    BY <2>1, Release
<1>4. ASSUME NEW i \in InPorts, NEW o \in OutPorts
      PROVE  lost'[i][o] + ((i - rrInport'[o]) % NumIn) < NumIn
  <2> DEFINE r == rrInport[o]
             g == Grants[o]
             q == rrInport'[o]
  <2>1. /\ r \in 0 .. NumIn - 1 /\ q \in 0 .. NumIn - 1 /\ i \in 0 .. NumIn - 1
        /\ NumIn \in Nat \ {0} /\ lost[i][o] \in Nat
    BY <1>2, <1>3, Parameters DEF InPorts
  <2>2. (i - q) % NumIn = IF q <= i THEN i - q ELSE i - q + NumIn
    BY <2>1, TurnOf
  <2>3. CASE i \in Requesters(o) /\ ~Leaving(i)
    <3>1. o \in Requested
      BY <2>3 DEF Requested
    <3>2. g \in 0 .. NumIn - 1 /\ g # i
      BY <1>1, <2>3, <3>1, GrantIsNext DEF Leaving, Requesters, InPorts
    <3>3. (g - r) % NumIn <= (i - r) % NumIn
      BY <1>1, <2>3, <3>1, GrantIsNext
    <3>4. /\ (i - r) % NumIn = IF r <= i THEN i - r ELSE i - r + NumIn
          /\ (g - r) % NumIn = IF r <= g THEN g - r ELSE g - r + NumIn
      BY <2>1, <3>2, TurnOf
    <3>5. q = IF g = NumIn - 1 THEN 0 ELSE g + 1
      BY <2>1, <3>1, <3>2, Release, PointerAfter
    <3>6. lost'[i][o] = lost[i][o] + 1
      BY <2>3, Release
    <3>7. lost[i][o] + ((i - r) % NumIn) < NumIn
      BY <1>1 DEF TurnsOK
    <3> HIDE DEF r, g, q
    <3>8. ((i - q) % NumIn) + 1 <= (i - r) % NumIn
      BY <2>1, <2>2, <3>2, <3>3, <3>4, <3>5
    <3>9. (i - q) % NumIn \in Int /\ (i - r) % NumIn \in Int
      BY <2>1, <2>2, <3>4
    <3> QED
      BY <2>1, <3>6, <3>7, <3>8, <3>9 DEF q
  <2>4. CASE ~(i \in Requesters(o) /\ ~Leaving(i))
    <3>1. lost'[i][o] = 0
      BY <2>4, Release
    <3> HIDE DEF q
    <3>2. (i - q) % NumIn \in Int /\ (i - q) % NumIn < NumIn
      BY <2>1, <2>2
    <3> QED
      BY <3>1, <3>2 DEF q
  <2> QED
    BY <2>3, <2>4
<1>5. /\ rrInport' = [o \in OutPorts |-> rrInport'[o]]
      /\ lost' = [i \in InPorts |-> [o \in OutPorts |-> lost'[i][o]]]
  BY DEF arbitrate_outports
<1>6. rrInport' \in [OutPorts -> InPorts]
  BY <1>2, <1>5
<1>7. lost' \in [InPorts -> [OutPorts -> Nat]]
  BY <1>3, <1>5
<1> QED
  BY <1>4, <1>6, <1>7 DEF TurnsOK

\* SA-II preserves the invariant of every vnet.
LEMMA GrantStep ==
  ASSUME IInv, arbitrate_outports
  PROVE  IInv'
<1>1. TypeOK /\ IdleOK /\ TurnsOK
  BY DEF IInv
<1>2. /\ pc' = "input" /\ awake' \in BOOLEAN /\ UNCHANGED <<quiet, rrInvc>>
      /\ \A i \in InPorts : winner'[i] = NoVC
  BY Release
<1>3. \A i \in InPorts, v \in VCs : vc'[i][v] \in VC \cup {IdleVC}
  <2> SUFFICES ASSUME NEW i \in InPorts, NEW v \in VCs
               PROVE  vc'[i][v] \in VC \cup {IdleVC}
    OBVIOUS
  <2>1. vc[i][v] \in VC \cup {IdleVC}
    BY <1>1 DEF TypeOK
  <2>2. CASE Leaving(i) /\ v = winner[i]
    BY <2>2, LeftOver
  <2>3. CASE ~(Leaving(i) /\ v = winner[i])
    BY <2>1, <2>3, Release
  <2> QED
    BY <2>2, <2>3
<1>4. \A i \in InPorts, v \in VCs : older'[i][v] \in SUBSET VCs
  <2>1. \A i \in InPorts, v \in VCs : older[i][v] \subseteq VCs
    BY <1>1 DEF TypeOK
  <2>2. ASSUME NEW i \in InPorts, NEW v \in VCs
        PROVE  older'[i][v] \subseteq VCs
    <3>1. \/ older'[i][v] = older[i][v]
          \/ older'[i][v] = {}
          \/ older'[i][v] = older[i][v] \ {winner[i]}
      BY Release, Zenon
    <3> QED
      BY <2>1, <3>1
  <2> QED
    BY <2>2
<1>5. \A o \in OutPorts, w \in VCs :
        /\ out'[o][w] \in OutVC
        /\ out'[o][w].idle => out'[o][w].credit = MaxCredit
  <2> SUFFICES ASSUME NEW o \in OutPorts, NEW w \in VCs
               PROVE  /\ out'[o][w] \in OutVC
                      /\ out'[o][w].idle => out'[o][w].credit = MaxCredit
    OBVIOUS
  <2>1. out[o][w] \in OutVC /\ (out[o][w].idle => out[o][w].credit = MaxCredit)
    BY <1>1 DEF TypeOK, IdleOK
  <2>2. CASE o \in Requested /\ w = OutVCOf(Grants[o], o)
    <3> DEFINE n == out[o][w].credit - 1
               t == IsTail(Grants[o])
    <3>1. out[o][w].credit > 0
      BY <1>1, <2>2, GrantIsNext, RequesterCanLeave
    <3>2. n \in 0 .. MaxCredit /\ t \in BOOLEAN
      BY <2>1, <3>1, Parameters DEF OutVC, IsTail
    <3>3. out'[o][w] = [idle |-> FALSE, credit |-> n, ended |-> t]
      BY <2>2, Release DEF decrement_credit
    <3> HIDE DEF n, t
    <3>4. out'[o][w] \in OutVC /\ out'[o][w].idle = FALSE
      BY <3>2, <3>3 DEF OutVC
    <3> QED
      BY <3>4
  <2>3. CASE ~(o \in Requested /\ w = OutVCOf(Grants[o], o))
    BY <2>1, <2>3, Release
  <2> QED
    BY <2>2, <2>3
<1>6. TypeOK'
  <2>1. /\ vc' \in [InPorts -> [VCs -> VC \cup {IdleVC}]]
        /\ older' \in [InPorts -> [VCs -> SUBSET VCs]]
        /\ out' \in [OutPorts -> [VCs -> OutVC]]
    <3>1. /\ vc' = [i \in InPorts |-> [v \in VCs |-> vc'[i][v]]]
          /\ older' = [i \in InPorts |-> [v \in VCs |-> older'[i][v]]]
          /\ out' = [o \in OutPorts |-> [w \in VCs |-> out'[o][w]]]
      BY DEF arbitrate_outports
    <3> QED
      BY <1>3, <1>4, <1>5, <3>1
  <2>2. winner' \in [InPorts -> VCs \cup {NoVC}]
    BY DEF arbitrate_outports
  <2> QED
    BY <1>1, <1>2, <2>1, <2>2, CloserTurn DEF TypeOK
<1>7. AssertionsHold' /\ WinnersOK' /\ IdleOK'
  BY <1>2, <1>5 DEF AssertionsHold, WinnersOK, IdleOK
<1> QED
  BY <1>6, <1>7, CloserTurn DEF IInv

\* In an ordered vnet nothing is left of a packet that came before the winner's.
LEMMA WinnerIsOldest ==
  ASSUME IInv, OInv, NEW i \in InPorts, winner[i] \in VCs,
         VNetOf[vc[i][winner[i]].flow] \in Ordered,
         NEW u \in older[i][winner[i]]
  PROVE  vc[i][u].flow # vc[i][winner[i]].flow
<1>1. TypeOK /\ PacketsOK /\ VNetsOK /\ FlowsOK /\ OldestWins
  BY DEF IInv, OInv
<1>2. u \in VCs /\ vc[i][u] # IdleVC /\ winner[i] # NoVC /\ vc[i][winner[i]] # IdleVC
  BY <1>1, VCFields DEF TypeOK, PacketsOK
<1>3. vc[i][u] \in VC
  BY <1>1, <1>2 DEF TypeOK
<1>4. SUFFICES ASSUME vc[i][u].flow = vc[i][winner[i]].flow PROVE FALSE
  OBVIOUS
<1>5. vc[i][u].toCome = 0 /\ vc[i][u].flits + vc[i][u].toCome > 0
  BY <1>1, <1>2, <1>4 DEF FlowsOK, PacketsOK
<1>6. need_stage(i, u) /\ OutPort(i, u) = OutPort(i, winner[i])
  BY <1>3, <1>4, <1>5, VCFields DEF need_stage, OutPort
<1>7. /\ get_vnet(u) = get_vnet(winner[i])
      /\ get_vnet(winner[i]) \in Ordered
  BY <1>1, <1>2, <1>4 DEF VNetsOK
<1> QED
  BY <1>1, <1>2, <1>6, <1>7 DEF OldestWins

\* SA-II preserves what is known of packets and flows.
LEMMA GrantKeepsPackets ==
  ASSUME IInv, OInv, arbitrate_outports
  PROVE  OInv'
<1>1. TypeOK /\ PacketsOK /\ VNetsOK /\ FlowsOK
  BY DEF IInv, OInv
<1>2. ASSUME NEW i \in InPorts, NEW v \in VCs, NEW u \in older'[i][v]
      PROVE  /\ u \in VCs /\ u \in older[i][v]
             /\ Leaving(i) /\ IsTail(i) => u # winner[i] /\ v # winner[i]
  <2>1. older'[i][v] = IF ~(Leaving(i) /\ IsTail(i)) THEN older[i][v]
                       ELSE IF v = winner[i] THEN {}
                       ELSE older[i][v] \ {winner[i]}
    BY Release
  <2>2. older[i][v] \subseteq VCs
    BY <1>1 DEF TypeOK
  <2> QED
    BY <1>2, <2>1, <2>2
\* A VC that is not given up keeps its packet.
<1>3. ASSUME NEW i \in InPorts, NEW v \in VCs, vc[i][v] # IdleVC,
             Leaving(i) /\ IsTail(i) => v # winner[i]
      PROVE  /\ vc'[i][v] \in VC /\ vc'[i][v].flow = vc[i][v].flow
             /\ vc'[i][v].toCome = vc[i][v].toCome
  <2>1. vc[i][v] \in VC
    BY <1>1, <1>3 DEF TypeOK
  <2>2. CASE Leaving(i) /\ v = winner[i]
    BY <1>3, <2>2, LeftOver
  <2>3. CASE ~(Leaving(i) /\ v = winner[i])
    BY <2>1, <2>3, Release
  <2> QED
    BY <2>2, <2>3
<1>4. PacketsOK'
  <2>1. ASSUME NEW i \in InPorts, NEW v \in VCs, vc'[i][v] # IdleVC
        PROVE  vc'[i][v].flits + vc'[i][v].toCome > 0
    <3>1. CASE Leaving(i) /\ v = winner[i]
      <4>1. /\ vc[i][v] \in VC /\ ~IsTail(i) /\ vc[i][v].flits > 0
            /\ vc'[i][v].flits = vc[i][v].flits - 1
            /\ vc'[i][v].toCome = vc[i][v].toCome
        BY <2>1, <3>1, LeftOver
      <4>2. ~(vc[i][v].flits = 1 /\ vc[i][v].toCome = 0)
        BY <3>1, <4>1 DEF IsTail
      <4>3. vc[i][v].flits \in Nat /\ vc[i][v].toCome \in Nat
        BY <4>1, VCFields
      <4>4. \A m, n \in Nat : m > 0 /\ ~(m = 1 /\ n = 0) => (m - 1) + n > 0
        OBVIOUS
      <4>5. (vc[i][v].flits - 1) + vc[i][v].toCome > 0
        BY <4>1, <4>2, <4>3, <4>4
      <4> QED
        BY <4>1, <4>5
    <3>2. CASE ~(Leaving(i) /\ v = winner[i])
      <4>1. vc'[i][v] = vc[i][v]
        BY <3>2, Release
      <4> QED
        BY <1>1, <2>1, <4>1 DEF PacketsOK
    <3> QED
      BY <3>1, <3>2
  <2>2. ASSUME NEW i \in InPorts, NEW v \in VCs, NEW u \in older'[i][v]
        PROVE  u # v /\ vc'[i][u] # IdleVC /\ vc'[i][v] # IdleVC
    <3>1. /\ u \in VCs /\ u \in older[i][v]
          /\ Leaving(i) /\ IsTail(i) => u # winner[i] /\ v # winner[i]
      BY <1>2, <2>2
    <3>2. u # v /\ vc[i][u] # IdleVC /\ vc[i][v] # IdleVC
      BY <1>1, <3>1 DEF PacketsOK
    <3>3. vc'[i][u] \in VC /\ vc'[i][v] \in VC
      BY <1>3, <3>1, <3>2
    <3> QED
      BY <3>2, <3>3, VCFields
  <2> QED
    BY <2>1, <2>2 DEF PacketsOK
<1>5. FlowsOK'
  <2> SUFFICES ASSUME NEW i \in InPorts, NEW v \in VCs, NEW u \in older'[i][v],
                      vc'[i][u].flow = vc'[i][v].flow,
                      VNetOf[vc'[i][v].flow] \in Ordered
               PROVE  vc'[i][u].toCome = 0
    BY DEF FlowsOK
  <2>1. /\ u \in VCs /\ u \in older[i][v]
        /\ Leaving(i) /\ IsTail(i) => u # winner[i] /\ v # winner[i]
    BY <1>2
  <2>2. vc[i][u] # IdleVC /\ vc[i][v] # IdleVC
    BY <1>1, <2>1 DEF PacketsOK
  <2>3. /\ vc'[i][u].flow = vc[i][u].flow /\ vc'[i][v].flow = vc[i][v].flow
        /\ vc'[i][u].toCome = vc[i][u].toCome
    BY <1>3, <2>1, <2>2
  <2> QED
    BY <1>1, <2>1, <2>3 DEF FlowsOK
<1>6. OldestWins'
  BY Release DEF OldestWins
\* A VC that is given up becomes idle, the others keep their packets.
<1>7. VNetsOK'
  <2> SUFFICES ASSUME NEW i \in InPorts, NEW v \in VCs, vc'[i][v] # IdleVC
               PROVE  VNetOf[vc'[i][v].flow] = get_vnet(v)
    BY DEF VNetsOK
  <2>1. CASE Leaving(i) /\ v = winner[i]
    <3>1. ~IsTail(i) /\ vc[i][v] \in VC
      BY <2>1, LeftOver
    <3>2. vc[i][v] # IdleVC
      BY <3>1, VCFields
    <3> QED
      BY <1>1, <1>3, <2>1, <3>1, <3>2 DEF VNetsOK
  <2>2. CASE ~(Leaving(i) /\ v = winner[i])
    BY <1>1, <2>2, Release DEF VNetsOK
  <2> QED
    BY <2>1, <2>2
<1> QED
  BY <1>4, <1>5, <1>6, <1>7 DEF OInv

\* The invariant is inductive.
LEMMA Inductive ==
  ASSUME IInv, OInv, [Next]_vars
  PROVE  IInv' /\ OInv'
<1>1. CASE UNCHANGED vars
  <2> USE <1>1 DEF vars
  <2>1. /\ TypeOK' = TypeOK /\ AssertionsHold' = AssertionsHold
        /\ IdleOK' = IdleOK /\ TurnsOK' = TurnsOK
    BY DEF TypeOK, AssertionsHold, IdleOK, TurnsOK
  <2>2. WinnersOK' = WinnersOK /\ OInv' = OInv
    BY DEF WinnersOK, need_stage, has_free_vc, has_credit, OutPort, OInv,
           PacketsOK, VNetsOK, FlowsOK, OldestWins
  <2> QED
    BY <2>1, <2>2 DEF IInv
<1>2. CASE \E a \in AllArrivals : InputUnits(a)
  BY <1>2, InputStep
<1>3. CASE \E c \in AllCredits : OutputUnits(c)
  BY <1>3, OutputStep
<1>4. CASE Quieten
  <2> USE <1>4 DEF Quieten
  <2>1. TypeOK'
    BY DEF IInv, TypeOK
  <2>2. AssertionsHold' /\ IdleOK' /\ TurnsOK'
    BY DEF IInv, AssertionsHold, IdleOK, TurnsOK
  <2>3. WinnersOK' /\ OInv'
    BY DEF IInv, WinnersOK, need_stage, has_free_vc, has_credit, OutPort, OInv,
           PacketsOK, VNetsOK, FlowsOK, OldestWins
  <2> QED
    BY <2>1, <2>2, <2>3 DEF IInv
<1>5. CASE arbitrate_inports
  BY <1>5, PickStep
<1>6. CASE arbitrate_outports
  BY <1>6, GrantStep, GrantKeepsPackets
<1> QED
  BY <1>1, <1>2, <1>3, <1>4, <1>5, <1>6 DEF Next

\* A flit that leaves is of the oldest packet of its flow.
LEMMA StepKeepsOrder ==
  ASSUME IInv, OInv, [Next]_vars,
         NEW i \in InPorts, NEW v \in VCs, vc'[i][v].flits < vc[i][v].flits
  PROVE  ~\E u \in older[i][v] : /\ vc[i][u].flow = vc[i][v].flow
                                 /\ VNetOf[vc[i][v].flow] \in Ordered
<1>1. TypeOK
  BY DEF IInv
<1>2. vc[i][v].flits \in Nat /\ vc[i][v] \in VC \cup {IdleVC}
  BY <1>1, VCFields DEF TypeOK
<1>3. vc'[i][v] # vc[i][v]
  BY <1>2
<1>4. CASE arbitrate_outports
  <2>1. Leaving(i) /\ v = winner[i]
    BY <1>3, <1>4, Release
  <2> QED
    BY <2>1, WinnerIsOldest
<1>5. CASE \E a \in AllArrivals : InputUnits(a)
  <2>1. Untouched(i, v) \/ GotBody(i, v) \/ GotHead(i, v)
    BY <1>1, <1>5, OneArrival
  <2> QED
    BY <1>2, <1>3, <2>1, VCFields DEF Untouched, GotBody, GotHead
<1>6. CASE ~arbitrate_outports /\ ~ \E a \in AllArrivals : InputUnits(a)
  <2>1. vc' = vc
    BY <1>6 DEF Next, vars, OutputUnits, Quieten, arbitrate_inports
  <2> QED
    BY <1>3, <2>1
<1> QED
  BY <1>4, <1>5, <1>6

-----------------------------------------------------------------------------
\* The invariant holds in every state.
LEMMA Invariance == Spec => [](IInv /\ OInv)
<1>1. Init => IInv /\ OInv
  BY InitIInv
<1>2. IInv /\ OInv /\ [Next]_vars => (IInv /\ OInv)'
  BY Inductive
<1> QED
  BY <1>1, <1>2, PTL DEF Spec

\* The credits of output VCs stay between none and all of them, and every
\* output VC that a flit is given is one of the router's.
THEOREM TypeCorrect == Spec => []TypeOK
<1>1. IInv /\ OInv => TypeOK
  BY DEF IInv
<1> QED
  BY <1>1, Invariance, PTL

\* vc_allocate finds the free VC that SA-I has seen, for any number of input
\* ports that have seen the same one.
THEOREM VcAllocateFindsAVC == Spec => []AssertionsHold
<1>1. IInv /\ OInv => AssertionsHold
  BY DEF IInv
<1> QED
  BY <1>1, Invariance, PTL

\* An input port that goes on requesting an output port gets it before every
\* other input port has had it once.
THEOREM WaitingIsBounded == Spec => []BoundedLosses
<1>1. IInv /\ OInv => BoundedLosses
  <2> SUFFICES ASSUME IInv, NEW i \in InPorts, NEW o \in OutPorts
               PROVE  lost[i][o] < NumIn
    BY DEF BoundedLosses
  <2> DEFINE t == (i - rrInport[o]) % NumIn
  <2>1. /\ i \in 0 .. NumIn - 1 /\ rrInport[o] \in 0 .. NumIn - 1
        /\ NumIn \in Nat \ {0} /\ lost[i][o] \in Nat
    BY Parameters DEF IInv, TypeOK, InPorts
  <2>2. t \in Nat
    BY <2>1, TurnOf
  <2>3. lost[i][o] + t < NumIn
    BY DEF IInv, TurnsOK
  <2> HIDE DEF t
  <2> QED
    BY <2>1, <2>2, <2>3
<1> QED
  BY <1>1, Invariance, PTL

\* In an ordered vnet the packets of a flow leave in the order in which they
\* came, whatever VCs they are in.
THEOREM OrderIsKept == Spec => PacketsLeaveInOrder
<1> DEFINE InOrder == \A i \in InPorts, v \in VCs :
                        vc'[i][v].flits < vc[i][v].flits =>
                          ~\E u \in older[i][v] : /\ vc[i][u].flow = vc[i][v].flow
                                                  /\ VNetOf[vc[i][v].flow] \in Ordered
<1>1. IInv /\ OInv /\ [Next]_vars => [InOrder]_vars
  BY StepKeepsOrder
<1> QED
  BY <1>1, Invariance, PTL DEF Spec, PacketsLeaveInOrder

-----------------------------------------------------------------------------
(***************************************************************************)
(* Every output port implements VcPort.  SA-I and SA-II see an output port *)
(* through one request of each input port and let one flit leave by it;    *)
(* that the flit is of the packet that has the output VC, and that no      *)
(* other input VC has the same one, is SendersOK.                          *)
(***************************************************************************)

\* The winner that a port is granted to, and the output VC its flit goes to.
Sender(o) == <<Grants[o], winner[Grants[o]]>>
Target(o) == OutVCOf(Grants[o], o)

\* Nobody but the sender holds the output VC, which has a credit, and is free
\* if the sender has not been given it yet.
LEMMA SenderHolds ==
  ASSUME IInv, SendersOK, NEW o \in Requested
  PROVE  /\ Sender(o) \in InPorts \X VCs /\ Target(o) \in VCs
         /\ out[o][Target(o)].credit > 0
         /\ \/ out[o][Target(o)].idle /\ Holders(o, Target(o)) = {}
            \/ Holders(o, Target(o)) = {Sender(o)}
<1> DEFINE i == Grants[o]
           v == winner[i]
           w == Target(o)
<1>1. o \in OutPorts /\ i \in Requesters(o)
  BY GrantIsNext DEF IInv
<1>2. /\ i \in InPorts /\ v \in VCs /\ OutPort(i, v) = o
      /\ w \in VCs /\ out[o][w].credit > 0
      /\ IF vc[i][v].outvc = NoVC THEN out[o][w].idle ELSE w = vc[i][v].outvc
  BY <1>1, RequesterCanLeave DEF Target
<1>3. CASE vc[i][v].outvc = NoVC
  BY <1>1, <1>2, <1>3 DEF SendersOK, Sender
<1>4. CASE vc[i][v].outvc # NoVC
  <2>1. <<i, v>> \in Holders(o, w)
    BY <1>2, <1>4 DEF Holders
  <2>2. Holders(o, w) = {<<i, v>>}
    BY <1>1, <1>2, <2>1 DEF SendersOK
  <2> QED
    BY <1>2, <2>2 DEF Sender
<1> QED
  BY <1>3, <1>4

\* SA-II changes the holders of the granted output VC only.
LEMMA HoldersAfter ==
  ASSUME IInv, SendersOK, arbitrate_outports, NEW o \in OutPorts, NEW w \in VCs
  PROVE  Holders(o, w)' = IF o \in Requested /\ w = Target(o)
                          THEN IF IsTail(Grants[o]) THEN {} ELSE {Sender(o)}
                          ELSE Holders(o, w)
<1> DEFINE Here == o \in Requested /\ w = Target(o)
           Rest == IF IsTail(Grants[o]) THEN {} ELSE {Sender(o)}
           Holds(i, v) == vc[i][v].outvc = w /\ OutPort(i, v) = o
           HoldsThen(i, v) == vc'[i][v].outvc = w /\ OutOf[vc'[i][v].flow] = o
<1>1. ASSUME NEW i \in InPorts, NEW v \in VCs, ~(Leaving(i) /\ v = winner[i])
      PROVE  /\ HoldsThen(i, v) <=> Holds(i, v)
             /\ Here => ~Holds(i, v) /\ <<i, v>> # Sender(o)
  <2>1. vc'[i][v] = vc[i][v]
    BY <1>1, Release
  <2>2. Here => <<i, v>> # Sender(o)
    BY <1>1 DEF Sender, Leaving
  <2>3. Here => <<i, v>> \notin Holders(o, w)
    BY <2>2, SenderHolds
  <2> QED
    BY <2>1, <2>2, <2>3 DEF Holders, OutPort
<1>2. ASSUME NEW p \in Requested
      PROVE  LET i == Grants[p]
                 v == winner[i]
             IN /\ i \in InPorts /\ v \in VCs /\ Leaving(i)
                /\ <<i, v>> = Sender(p) /\ OutPort(i, v) = p
                /\ HoldsThen(i, v) <=> ~IsTail(i) /\ p = o /\ Here
                /\ Holds(i, v) => p = o /\ Here
  <2> DEFINE i == Grants[p]
             v == winner[i]
             c == vc[i][v]
  <2>1. p \in OutPorts /\ i \in Requesters(p)
    BY GrantIsNext DEF IInv
  <2>2. /\ i \in InPorts /\ v \in VCs /\ OutPort(i, v) = p /\ Target(p) \in VCs
        /\ c.outvc # NoVC => Target(p) = c.outvc
    BY <2>1, RequesterCanLeave DEF Target
  <2>3. vc'[i][v] = RemoveFlit(i, Target(p))
    BY Release DEF Target
  <2>4. IsTail(i) => vc'[i][v].outvc = NoVC
    BY <2>3 DEF RemoveFlit, IdleVC
  <2>5. ~IsTail(i) => vc'[i][v].outvc = Target(p) /\ vc'[i][v].flow = c.flow
    BY <2>3 DEF RemoveFlit
  <2>6. NoVC \notin VCs /\ OutOf[c.flow] = p
    BY <2>2, VCFields DEF OutPort
  <2> QED
    BY <2>2, <2>4, <2>5, <2>6 DEF Leaving, Sender
<1>3. CASE Here
  <2>1. Sender(o) = <<Grants[o], winner[Grants[o]]>>
    BY DEF Sender
  <2>2. ASSUME NEW i \in InPorts, NEW v \in VCs
        PROVE  HoldsThen(i, v) <=> <<i, v>> \in Rest
    <3>1. CASE ~(Leaving(i) /\ v = winner[i])
      BY <1>1, <1>3, <3>1
    <3>2. CASE Leaving(i) /\ v = winner[i]
      <4>1. PICK p \in Requested : Grants[p] = i
        BY <3>2 DEF Leaving
      <4>2. CASE p = o
        BY <1>2, <1>3, <2>1, <3>2, <4>1, <4>2
      <4>3. CASE p # o
        <5>1. OutPort(i, v) = p /\ ~HoldsThen(i, v)
          BY <1>2, <3>2, <4>1, <4>3
        <5>2. i # Grants[o]
          BY <1>2, <1>3, <3>2, <4>3, <5>1
        <5> QED
          BY <2>1, <5>1, <5>2
      <4> QED
        BY <4>2, <4>3
    <3> QED
      BY <3>1, <3>2
  <2>3. Rest \subseteq InPorts \X VCs
    BY <1>3, SenderHolds
  <2>4. Holders(o, w)' = Rest
    <3> HIDE DEF Rest
    <3>1. Holders(o, w)' = {q \in InPorts \X VCs : HoldsThen(q[1], q[2])}
      BY DEF Holders, OutPort
    <3>2. ASSUME NEW q \in InPorts \X VCs
          PROVE  HoldsThen(q[1], q[2]) <=> q \in Rest
      <4>1. q[1] \in InPorts /\ q[2] \in VCs /\ q = <<q[1], q[2]>>
        OBVIOUS
      <4> HIDE DEF HoldsThen
      <4> QED
        BY <2>2, <4>1
    <3> HIDE DEF HoldsThen
    <3> QED
      BY <2>3, <3>1, <3>2
  <2> QED
    BY <1>3, <2>4
<1>4. CASE ~Here
  <2>1. ASSUME NEW i \in InPorts, NEW v \in VCs
        PROVE  HoldsThen(i, v) <=> Holds(i, v)
    <3>1. CASE ~(Leaving(i) /\ v = winner[i])
      BY <1>1, <3>1
    <3>2. CASE Leaving(i) /\ v = winner[i]
      <4>1. PICK p \in Requested : Grants[p] = i
        BY <3>2 DEF Leaving
      <4> QED
        BY <1>2, <1>4, <3>2, <4>1
    <3> QED
      BY <3>1, <3>2
  <2>2. Holders(o, w)' = Holders(o, w)
    BY <2>1 DEF Holders, OutPort
  <2> QED
    BY <1>4, <2>2
<1> QED
  BY <1>3, <1>4

\* What comes in, goes to a VC of the packet or to an idle one: no output VC
\* changes hands.
LEMMA HoldersAfterInput ==
  ASSUME TypeOK, NEW a \in AllArrivals, InputUnits(a),
         NEW o \in OutPorts, NEW w \in VCs
  PROVE  Holders(o, w)' = Holders(o, w)
<1>1. ASSUME NEW i \in InPorts, NEW v \in VCs
      PROVE  vc'[i][v].outvc = w /\ OutOf[vc'[i][v].flow] = o
               <=> vc[i][v].outvc = w /\ OutOf[vc[i][v].flow] = o
  <2>1. Untouched(i, v) \/ GotBody(i, v) \/ GotHead(i, v)
    BY OneArrival
  <2>2. GotHead(i, v) => vc'[i][v].outvc # w /\ vc[i][v].outvc # w
    BY VCFields DEF GotHead
  <2> QED
    BY <2>1, <2>2 DEF Untouched, GotBody
<1> QED
  BY <1>1 DEF Holders, OutPort

\* A credit that comes back is of a VC with a packet; if it is that of the tail
\* nobody holds the VC.
LEMMA CreditReturns ==
  ASSUME IInv, SendersOK, NEW c \in AllCredits, OutputUnits(c),
         NEW o \in OutPorts, c[o] # NoVC
  PROVE  LET w == c[o]
             x == out[o][w]
             free == x.ended /\ x.credit = MaxCredit - 1
         IN /\ w \in VCs /\ ~x.idle /\ x.credit < MaxCredit
            /\ out'[o][w].credit = x.credit + 1
            /\ out'[o][w].idle = free /\ out'[o][w].ended = (x.ended /\ ~free)
            /\ free => Holders(o, w) = {}
            /\ \A u \in VCs \ {w} : out'[o][u] = out[o][u]
<1> DEFINE w == c[o]
           x == out[o][w]
           free == x.ended /\ x.credit = MaxCredit - 1
<1>1. w \in VCs /\ x.credit < MaxCredit
  BY DEF AllCredits
<1>2. x.idle \in BOOLEAN /\ x.credit \in 0 .. MaxCredit
  BY <1>1 DEF IInv, TypeOK, OutVC
<1>3. ~x.idle
  BY <1>1, <1>2, Parameters DEF IInv, IdleOK
<1>4. out'[o][w] = [idle |-> x.idle \/ free, credit |-> x.credit + 1,
                    ended |-> x.ended /\ ~free]
  BY <1>1 DEF OutputUnits, increment_credit
<1>5. /\ out'[o][w].credit = x.credit + 1 /\ out'[o][w].idle = (x.idle \/ free)
      /\ out'[o][w].ended = (x.ended /\ ~free)
  <2> HIDE DEF x, free, w
  <2> QED
    BY <1>4
<1>6. (x.idle \/ free) = free
  BY <1>3
<1>7. free => Holders(o, w) = {}
  BY <1>1 DEF SendersOK
<1>8. \A u \in VCs \ {w} : out'[o][u] = out[o][u]
  BY DEF OutputUnits
<1> QED
  BY <1>1, <1>3, <1>5, <1>6, <1>7, <1>8

\* The invariant of the holders is inductive.
LEMMA SendersStep ==
  ASSUME IInv, SendersOK, [Next]_vars
  PROVE  SendersOK'
<1>1. ASSUME UNCHANGED <<vc, out>> PROVE SendersOK'
  BY <1>1 DEF SendersOK, Holders, OutPort
<1>2. CASE UNCHANGED vars \/ Quieten \/ arbitrate_inports
  BY <1>1, <1>2 DEF vars, Quieten, arbitrate_inports
<1>3. ASSUME NEW a \in AllArrivals, InputUnits(a) PROVE SendersOK'
  <2>1. out' = out
    BY <1>3 DEF InputUnits
  <2> QED
    BY <1>3, <2>1, HoldersAfterInput DEF IInv, SendersOK
<1>4. ASSUME NEW c \in AllCredits, OutputUnits(c) PROVE SendersOK'
  <2> SUFFICES ASSUME NEW o \in OutPorts, NEW w \in VCs
               PROVE  IF out'[o][w].idle \/ out'[o][w].ended
                      THEN Holders(o, w)' = {}
                      ELSE \E q \in InPorts \X VCs : Holders(o, w)' = {q}
    BY DEF SendersOK
  <2>1. Holders(o, w)' = Holders(o, w)
    BY <1>4 DEF OutputUnits, Holders, OutPort
  <2>2. CASE c[o] = w
    <3>1. c[o] # NoVC
      BY <2>2, VCFields
    <3>2. /\ ~out[o][w].idle
          /\ out'[o][w].idle \/ out'[o][w].ended => out[o][w].ended
          /\ out[o][w].ended => out'[o][w].idle \/ out'[o][w].ended
      BY <1>4, <2>2, <3>1, CreditReturns
    <3> QED
      BY <2>1, <3>2 DEF SendersOK
  <2>3. CASE c[o] # w
    BY <1>4, <2>1, <2>3 DEF OutputUnits, SendersOK
  <2> QED
    BY <2>2, <2>3
<1>5. CASE arbitrate_outports
  <2> SUFFICES ASSUME NEW o \in OutPorts, NEW w \in VCs
               PROVE  IF out'[o][w].idle \/ out'[o][w].ended
                      THEN Holders(o, w)' = {}
                      ELSE \E q \in InPorts \X VCs : Holders(o, w)' = {q}
    BY DEF SendersOK
  <2>1. CASE o \in Requested /\ w = Target(o)
    <3>1. out'[o][w] = decrement_credit(out[o][w], IsTail(Grants[o]))
      BY <1>5, <2>1, Release DEF Target
    <3>2. out'[o][w].idle = FALSE /\ out'[o][w].ended = IsTail(Grants[o])
      BY <3>1 DEF decrement_credit
    <3>3. Holders(o, w)' = IF IsTail(Grants[o]) THEN {} ELSE {Sender(o)}
      BY <1>5, <2>1, HoldersAfter
    <3> QED
      BY <2>1, <3>2, <3>3, SenderHolds
  <2>2. CASE ~(o \in Requested /\ w = Target(o))
    <3>1. out'[o][w] = out[o][w]
      BY <1>5, <2>2, Release DEF Target
    <3>2. Holders(o, w)' = Holders(o, w)
      BY <1>5, <2>2, HoldersAfter
    <3> QED
      BY <3>1, <3>2 DEF SendersOK
  <2> QED
    BY <2>1, <2>2
<1> QED
  BY <1>2, <1>3, <1>4, <1>5 DEF Next

\* An empty router.
LEMMA SendersInit == Init => SendersOK
  BY VCFields DEF Init, SendersOK, Holders

-----------------------------------------------------------------------------
\* The port is left alone.
LEMMA PortKept ==
  ASSUME NEW o \in OutPorts, \A w \in VCs : out'[o][w] = out[o][w],
         \A w \in VCs : Holders(o, w)' = Holders(o, w)
  PROVE  PortStep(o)
<1>1. UNCHANGED Port(o)!vars
  BY DEF Port!vars, Holders, OutPort
<1> QED
  BY <1>1 DEF PortStep

\* A grant sends a flit to an output VC of its port.
LEMMA GrantRefines ==
  ASSUME IInv, SendersOK, arbitrate_outports, NEW o \in OutPorts
  PROVE  PortStep(o)
<1>1. CASE o \notin Requested
  BY <1>1, Release, HoldersAfter, PortKept
<1>2. CASE o \in Requested
  <2>1. PICK w \in VCs, q \in InPorts \X VCs :
          /\ w = Target(o) /\ q = Sender(o) /\ out[o][w].credit > 0
          /\ \/ out[o][w].idle /\ Holders(o, w) = {}
             \/ Holders(o, w) = {q}
    BY <1>2, SenderHolds
  <2>2. PICK rest \in {{}, {q}} : Holders(o, w)' = rest
    BY <1>2, <2>1, HoldersAfter
  <2>3. \A x \in VCs \ {w} : out'[o][x] = out[o][x] /\ Holders(o, x)' = Holders(o, x)
    BY <1>2, <2>1, Release, HoldersAfter DEF Target
  <2>4. out'[o][w] = decrement_credit(out[o][w], IsTail(Grants[o]))
    BY <1>2, <2>1, Release DEF Target
  <2>5. out'[o][w].idle = FALSE /\ out'[o][w].credit = out[o][w].credit - 1
    BY <2>4 DEF decrement_credit
  <2>6. /\ out[o][w].credit \in 0 .. MaxCredit
        /\ out[o][w].idle => out[o][w].credit = MaxCredit
    BY DEF IInv, TypeOK, OutVC, IdleOK
  <2>7. /\ MaxCredit - out'[o][w].credit = (MaxCredit - out[o][w].credit) + 1
        /\ MaxCredit - out[o][w].credit < MaxCredit
        /\ out[o][w].idle => MaxCredit - out[o][w].credit = 0
    BY <2>1, <2>5, <2>6, Parameters
  <2> DEFINE T == [x \in VCs |-> ~out[o][x].idle]
             S == [x \in VCs |-> Holders(o, x)]
             U == [x \in VCs |-> MaxCredit - out[o][x].credit]
  <2>8. /\ T' = [T EXCEPT ![w] = TRUE] /\ S' = [S EXCEPT ![w] = rest]
        /\ U' = [U EXCEPT ![w] = U[w] + 1]
    BY <2>2, <2>3, <2>5, <2>7
  <2>9. Port(o)!Send(w, q)
    BY <2>1, <2>2, <2>7, <2>8 DEF Port!Send, Port!Free, Holders
  <2>10. Port(o)!Next
    BY <2>9 DEF Port!Next
  <2> QED
    BY <2>10 DEF PortStep
<1> QED
  BY <1>1, <1>2

\* A credit pays for a flit of a VC, or for the last one.
LEMMA CreditRefines ==
  ASSUME IInv, SendersOK, NEW c \in AllCredits, OutputUnits(c), NEW o \in OutPorts
  PROVE  PortStep(o)
<1>1. \A w \in VCs : Holders(o, w)' = Holders(o, w)
  BY DEF OutputUnits, Holders, OutPort
<1>2. CASE c[o] = NoVC
  <2>1. \A w \in VCs : out'[o][w] = out[o][w]
    BY <1>2, VCFields DEF OutputUnits
  <2> QED
    BY <1>1, <2>1, PortKept
<1>3. CASE c[o] # NoVC
  <2>1. PICK w \in VCs, free \in BOOLEAN :
          /\ w = c[o] /\ free = (out[o][w].ended /\ out[o][w].credit = MaxCredit - 1)
    BY <1>3, CreditReturns
  <2>2. /\ ~out[o][w].idle /\ out[o][w].credit < MaxCredit
        /\ out'[o][w].credit = out[o][w].credit + 1
        /\ out'[o][w].idle = free
        /\ free => Holders(o, w) = {}
        /\ \A x \in VCs \ {w} : out'[o][x] = out[o][x]
    BY <1>3, <2>1, CreditReturns
  <2>3. out[o][w].credit \in 0 .. MaxCredit
    BY DEF IInv, TypeOK, OutVC
  <2>4. /\ MaxCredit - out[o][w].credit > 0
        /\ MaxCredit - out'[o][w].credit = (MaxCredit - out[o][w].credit) - 1
    BY <2>2, <2>3, Parameters
  <2> DEFINE T == [x \in VCs |-> ~out[o][x].idle]
             S == [x \in VCs |-> Holders(o, x)]
             U == [x \in VCs |-> MaxCredit - out[o][x].credit]
  <2>5. S' = S /\ U' = [U EXCEPT ![w] = U[w] - 1]
    BY <1>1, <2>2, <2>4
  <2>6. CASE free
    <3>1. MaxCredit - out[o][w].credit = 1
      <4>1. out[o][w].credit = MaxCredit - 1
        BY <2>1, <2>6
      <4> QED
        BY <4>1, Parameters
    <3>2. U' = [U EXCEPT ![w] = 0]
      <4>1. U[w] - 1 = 0
        BY <3>1
      <4> HIDE DEF U
      <4> QED
        BY <2>5, <4>1
    <3>3. T' = [T EXCEPT ![w] = FALSE]
      BY <2>2, <2>6
    <3>4. Port(o)!PayLast(w)
      BY <2>2, <2>5, <2>6, <3>1, <3>2, <3>3 DEF Port!PayLast, Holders
    <3>5. Port(o)!Next
      BY <3>4 DEF Port!Next
    <3> QED
      BY <3>5 DEF PortStep
  <2>7. CASE ~free
    <3>1. T' = T
      BY <2>2, <2>7
    <3>2. Port(o)!Pay(w)
      BY <2>4, <2>5, <3>1 DEF Port!Pay, Holders
    <3>3. Port(o)!Next
      BY <3>2 DEF Port!Next
    <3> QED
      BY <3>3 DEF PortStep
  <2> QED
    BY <2>6, <2>7
<1> QED
  BY <1>2, <1>3

\* Every step of the router is one of each of its output ports, or leaves the
\* port alone.
LEMMA StepRefines ==
  ASSUME IInv, SendersOK, [Next]_vars, NEW o \in OutPorts
  PROVE  PortStep(o)
<1>1. CASE UNCHANGED vars \/ Quieten \/ arbitrate_inports
  <2>1. vc' = vc /\ out' = out
    BY <1>1 DEF vars, Quieten, arbitrate_inports
  <2>2. \A w \in VCs : Holders(o, w)' = Holders(o, w)
    BY <2>1 DEF Holders, OutPort
  <2> QED
    BY <2>1, <2>2, PortKept
<1>2. ASSUME NEW a \in AllArrivals, InputUnits(a) PROVE PortStep(o)
  <2>1. out' = out
    BY <1>2 DEF InputUnits
  <2>2. \A w \in VCs : Holders(o, w)' = Holders(o, w)
    BY <1>2, HoldersAfterInput DEF IInv
  <2> QED
    BY <2>1, <2>2, PortKept
<1> QED
  BY <1>1, <1>2, CreditRefines, GrantRefines DEF Next

\* The ports of an empty router are free.
LEMMA InitRefines == Init => \A o \in OutPorts : Port(o)!Init
<1> SUFFICES ASSUME Init, NEW o \in OutPorts PROVE Port(o)!Init
  OBVIOUS
<1>1. \A w \in VCs : /\ out[o][w].idle = TRUE
                     /\ MaxCredit - out[o][w].credit = 0
  BY Parameters DEF Init
<1>2. \A w \in VCs : Holders(o, w) = {}
  BY VCFields DEF Init, Holders
<1> QED
  BY <1>1, <1>2 DEF Port!Init, Holders

\* Every output port keeps the promises of VcPort: no two input VCs send to one
\* output VC at a time, no buffer downstream is used twice, and an output VC is
\* given to a packet only when the last one is paid for.
THEOREM KeepsItsPorts == Spec => ImplementsPorts
<1>1. Init => SendersOK /\ \A o \in OutPorts : Port(o)!Init
  BY SendersInit, InitRefines
<1>2. IInv /\ SendersOK /\ [Next]_vars => SendersOK'
  BY SendersStep
<1>3. IInv /\ SendersOK /\ [Next]_vars => [\A o \in OutPorts : PortStep(o)]_vars
  BY StepRefines
<1> QED
  BY <1>1, <1>2, <1>3, Invariance, PTL DEF Spec, ImplementsPorts

-----------------------------------------------------------------------------
(***************************************************************************)
(* Why the router goes on: it has a wakeup as long as it has a flit, and   *)
(* the check for ordered vnets never holds back all that are ready.  That  *)
(* everything leaves in the end needs fairness and is left to TLC.         *)
(***************************************************************************)

\* check_for_wakeup sees the flits that SA-II has left, arrivals schedule the
\* router themselves.
LEMMA ForgottenStep ==
  ASSUME IInv, NoFlitForgotten, [Next]_vars
  PROVE  NoFlitForgotten'
<1> SUFFICES ASSUME pc' \in {"input", "output"}, ~awake',
                    NEW i \in InPorts, NEW v \in VCs
             PROVE  ~(vc'[i][v].flits > 0)
  BY DEF NoFlitForgotten, need_stage
<1>1. CASE UNCHANGED vars
  BY <1>1 DEF vars, NoFlitForgotten, need_stage
<1>2. ASSUME NEW a \in AllArrivals, InputUnits(a) PROVE ~(vc'[i][v].flits > 0)
  <2>1. pc = "input" /\ ~awake /\ a[i] = Nothing
    BY <1>2 DEF InputUnits
  <2>2. vc'[i][v] = vc[i][v]
    BY <1>2, <2>1, VCFields DEF InputUnits, Nothing
  <2> QED
    BY <2>1, <2>2 DEF NoFlitForgotten, need_stage
<1>3. ASSUME NEW c \in AllCredits, OutputUnits(c) PROVE ~(vc'[i][v].flits > 0)
  BY <1>3 DEF OutputUnits, NoFlitForgotten, need_stage
<1>4. CASE Quieten
  BY <1>4 DEF Quieten, NoFlitForgotten, need_stage
<1>5. CASE arbitrate_inports
  BY <1>5 DEF arbitrate_inports
<1>6. CASE arbitrate_outports
  BY <1>6 DEF arbitrate_outports, check_for_wakeup
<1> QED
  BY <1>1, <1>2, <1>3, <1>4, <1>5, <1>6 DEF Next

\* A packet is put last, and one that has left is forgotten by all.
LEMMA NestedStep ==
  ASSUME IInv, OInv, Nested, [Next]_vars
  PROVE  Nested'
<1>1. ASSUME UNCHANGED older PROVE Nested'
  BY <1>1 DEF Nested
<1>2. CASE UNCHANGED vars \/ Quieten \/ arbitrate_inports
           \/ \E c \in AllCredits : OutputUnits(c)
  BY <1>1, <1>2 DEF vars, Quieten, arbitrate_inports, OutputUnits
<1>3. ASSUME NEW a \in AllArrivals, InputUnits(a) PROVE Nested'
  <2> SUFFICES ASSUME NEW i \in InPorts, NEW v \in VCs, NEW u \in older'[i][v]
               PROVE  older'[i][u] \subseteq older'[i][v]
    BY DEF Nested
  <2>1. \A w \in VCs : Untouched(i, w) \/ GotBody(i, w) \/ GotHead(i, w)
    BY <1>3, OneArrival DEF IInv
  <2>2. /\ \A w \in VCs : older[i][w] \subseteq VCs
        /\ \A w \in VCs : \A x \in older[i][w] : vc[i][x] # IdleVC
        /\ \A w \in VCs : \A x \in older[i][w] : older[i][x] \subseteq older[i][w]
    BY DEF IInv, TypeOK, OInv, PacketsOK, Nested
  <2>3. u \in VCs /\ vc[i][u] # IdleVC
    BY <2>1, <2>2 DEF Untouched, GotBody, GotHead
  <2>4. older'[i][u] = older[i][u]
    BY <2>1, <2>3 DEF Untouched, GotBody, GotHead
  <2> QED
    BY <2>1, <2>2, <2>3, <2>4 DEF Untouched, GotBody, GotHead
<1>4. CASE arbitrate_outports
  <2> SUFFICES ASSUME NEW i \in InPorts, NEW v \in VCs, NEW u \in older'[i][v]
               PROVE  older'[i][u] \subseteq older'[i][v]
    BY DEF Nested
  <2>1. /\ older[i][v] \subseteq VCs
        /\ \A x \in older[i][v] : older[i][x] \subseteq older[i][v]
    BY DEF IInv, TypeOK, Nested
  <2>2. \A w \in VCs : older'[i][w] = IF ~(Leaving(i) /\ IsTail(i)) THEN older[i][w]
                                      ELSE IF w = winner[i] THEN {}
                                      ELSE older[i][w] \ {winner[i]}
    BY <1>4, Release
  <2>3. u \in older[i][v] /\ u \in VCs
    BY <2>1, <2>2
  <2> QED
    BY <2>1, <2>2, <2>3
<1> QED
  BY <1>2, <1>3, <1>4 DEF Next

\* The rival with the fewest older VCs has none among the rivals.
LEMMA OldestExists ==
  ASSUME TypeOK, PacketsOK, Nested
  PROVE  OldestMayGo
<1> SUFFICES ASSUME NEW i \in InPorts, NEW v \in VCs, need_stage(i, v)
             PROVE  \E u \in Rivals(i, v) : Rivals(i, v) \cap older[i][u] = {}
  BY DEF OldestMayGo
<1> DEFINE R == Rivals(i, v)
           Count(u) == Cardinality(older[i][u])
           N == {Count(u) : u \in R}
<1>1. v \in R /\ R \subseteq VCs
  BY DEF Rivals, VCsOf
<1>2. \A u \in VCs : /\ older[i][u] \in SUBSET VCs
                     /\ IsFiniteSet(older[i][u]) /\ Count(u) \in Nat
  <2>1. IsFiniteSet(VCs)
    BY FS_Interval, Parameters DEF VCs
  <2>2. \A u \in VCs : older[i][u] \in SUBSET VCs
    BY DEF TypeOK
  <2> QED
    BY <2>1, <2>2, FS_Subset, FS_CardinalityType
<1>3. N \subseteq Nat /\ N # {}
  BY <1>1, <1>2
<1>4. PICK u \in R : \A x \in R : Count(u) <= Count(x)
  <2>1. PICK n \in N : \A m \in N : n <= m
    <3> HIDE DEF N
    <3> QED
      BY <1>3, LeastExists
  <2> QED
    BY <2>1
<1>5. ASSUME NEW x \in R, x \in older[i][u] PROVE FALSE
  <2>1. older[i][x] \subseteq older[i][u] /\ x \notin older[i][x]
    BY <1>1, <1>5 DEF Nested, PacketsOK
  <2>2. Count(x) < Count(u)
    BY <1>1, <1>2, <1>5, <2>1, FS_Subset
  <2> QED
    BY <1>1, <1>2, <1>4, <2>2
<1> QED
  BY <1>5

\* A router with a flit in a buffer wakes up in the next cycle, whether the flit
\* has just come, was not granted, or was behind one that was.
THEOREM NothingIsForgotten == Spec => []NoFlitForgotten
<1>1. Init => NoFlitForgotten
  BY DEF Init, NoFlitForgotten, need_stage, IdleVC
<1>2. IInv /\ NoFlitForgotten /\ [Next]_vars => NoFlitForgotten'
  BY ForgottenStep
<1> QED
  BY <1>1, <1>2, Invariance, PTL DEF Spec

\* However many VCs of an ordered vnet are ready for one output port, one of
\* them is not held back by an older one: send_allowed is no deadlock of its own.
THEOREM SomePacketMayGo == Spec => []OldestMayGo
<1>1. Init => Nested
  BY DEF Init, Nested
<1>2. IInv /\ OInv /\ Nested /\ [Next]_vars => Nested'
  BY NestedStep
<1>3. IInv /\ OInv /\ Nested => OldestMayGo
  BY OldestExists DEF IInv, OInv
<1> QED
  BY <1>1, <1>2, <1>3, Invariance, PTL DEF Spec
=============================================================================
