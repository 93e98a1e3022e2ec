-------------------------- MODULE ReassemblyProofs --------------------------
(***************************************************************************)
(* Theorems about Reassembly: if an interface injects at most one packet   *)
(* of several flits in a cycle (OneVnet) and no packet is under way for    *)
(* FLIT_ID_ cycles, then m_clk_id names a packet, and each message is      *)
(* handed over once, when it is complete.  ReassemblyMC has the instance   *)
(* that breaks the first condition.                                        *)
(***************************************************************************)
EXTENDS Reassembly, TLAPS

\* At most one vnet has packets of several flits.
OneVnet == \A v, w \in Vnets : v = w

\* The functions have the domains that the actions take for granted.
PacketsOK ==
  /\ curCycle \in 0 .. Period - 1
  /\ DOMAIN missing \subseteq Packet
  /\ missing \in [DOMAIN missing -> 0 .. Size]
  /\ handed \in [DOMAIN missing -> Nat]
  /\ m_rob \in [DOMAIN m_rob -> 1 .. Size - 1]

\* Packets are forgotten before the clock comes round.
Recent == \A p \in DOMAIN missing : Age(p) <= Lifetime

\* The inductive invariant.
IInv == PacketsOK /\ Recent /\ HandedOnceWhenComplete /\ RobCountsFlits

-----------------------------------------------------------------------------
\* No multiple of F but 0 is nearer to 0 than F.
LEMMA SmallMultiple ==
  ASSUME NEW F \in Nat \ {0}, NEW m \in Int, m * F < F, - F < m * F
  PROVE  m = 0
<1>1. CASE m >= 1
  <2>1. m * F >= F
    BY <1>1, SMTT(30)
  <2> QED
    BY <2>1
<1>2. CASE m <= -1
  <2>1. m * F <= - F
    BY <1>2, SMTT(30)
  <2> QED
    BY <2>1
<1> QED
  BY <1>1, <1>2

\* What % and \div mean.
LEMMA Division ==
  ASSUME NEW F \in Nat \ {0}, NEW t \in Nat
  PROVE  /\ t % F \in 0 .. F - 1
         /\ t \div F \in Nat
         /\ t = (t \div F) * F + (t % F)
  BY SMTT(30)

\* Two cycles not more than Lifetime ago that agree modulo FLIT_ID_ are one.
LEMMA SameTime ==
  ASSUME Lifetime < FLIT_ID_,
         NEW c \in 0 .. Period - 1,
         NEW s \in 0 .. Period - 1, NEW t \in 0 .. Period - 1,
         (c - s) % Period <= Lifetime, (c - t) % Period <= Lifetime,
         s % FLIT_ID_ = t % FLIT_ID_
  PROVE  s = t
<1> DEFINE k == Period \div FLIT_ID_
           q == s \div FLIT_ID_
           r == t \div FLIT_ID_
<1>0. FLIT_ID_ \in Nat \ {0} /\ Period \in Nat \ {0} /\ s \in Nat /\ t \in Nat
  BY Parameters
<1>1. Period = k * FLIT_ID_ /\ k \in Nat
  <2>1. k \in Nat /\ Period = k * FLIT_ID_ + (Period % FLIT_ID_)
    BY <1>0, Division, Zenon
  <2>2. Period % FLIT_ID_ = 0
    BY Parameters
  <2> HIDE DEF k
  <2> QED
    BY <1>0, <2>1, <2>2
<1>2. /\ s = q * FLIT_ID_ + (s % FLIT_ID_) /\ q \in Nat
      /\ t = r * FLIT_ID_ + (t % FLIT_ID_) /\ r \in Nat
      /\ s % FLIT_ID_ \in 0 .. FLIT_ID_ - 1
  BY <1>0, Division, Zenon
<1> HIDE DEF k, q, r
<1>3. s - t = (q - r) * FLIT_ID_
  <2>1. (q - r) * FLIT_ID_ = q * FLIT_ID_ - r * FLIT_ID_
    BY <1>0, <1>1, <1>2, SMTT(30)
  <2>2. q * FLIT_ID_ \in Int /\ r * FLIT_ID_ \in Int
    BY <1>0, <1>1, <1>2
  <2> QED
    BY <1>2, <2>1, <2>2
<1>4. /\ (c - s) % Period = (IF s <= c THEN c - s ELSE c - s + Period)
      /\ (c - t) % Period = (IF t <= c THEN c - t ELSE c - t + Period)
  BY <1>0, <1>1, SMTT(30)
<1>5. ((c - s) % Period) - ((c - t) % Period) \in {t - s, t - s + Period, t - s - Period}
  BY <1>0, <1>1, <1>4
<1>6. (q - r - k) * FLIT_ID_ = s - t - Period /\ (q - r + k) * FLIT_ID_ = s - t + Period
  <2>1. /\ (q - r - k) * FLIT_ID_ = (q - r) * FLIT_ID_ - k * FLIT_ID_
        /\ (q - r + k) * FLIT_ID_ = (q - r) * FLIT_ID_ + k * FLIT_ID_
    BY <1>0, <1>1, <1>2, SMTT(30)
  <2> QED
    BY <1>0, <1>1, <1>3, <2>1
<1>7. \E m \in {q - r, q - r - k, q - r + k} :
        m * FLIT_ID_ = ((c - t) % Period) - ((c - s) % Period)
  BY <1>0, <1>1, <1>3, <1>4, <1>6
<1>8. PICK m \in {q - r, q - r - k, q - r + k} :
        m * FLIT_ID_ = ((c - t) % Period) - ((c - s) % Period)
  BY <1>7
<1>9. m \in Int
  BY <1>0, <1>1, <1>2
<1>10. m = 0
  <2>1. m * FLIT_ID_ < FLIT_ID_ /\ - FLIT_ID_ < m * FLIT_ID_
    BY <1>0, <1>1, <1>4, <1>8, Parameters
  <2> QED
    BY <1>0, <1>1, <1>9, <2>1, SmallMultiple
<1>11. (c - t) % Period = (c - s) % Period
  BY <1>0, <1>1, <1>8, <1>10
<1> QED
  BY <1>0, <1>1, <1>4, <1>11

-----------------------------------------------------------------------------
\* Recent packets with one m_clk_id are one packet.
LEMMA Ids ==
  ASSUME OneVnet, Lifetime < FLIT_ID_, PacketsOK,
         NEW p \in Packet, Age(p) <= Lifetime,
         NEW q \in Packet, Age(q) <= Lifetime,
         clk_id(p) = clk_id(q)
  PROVE  p = q
<1>1. /\ FLIT_ID_ \in Nat \ {0} /\ Sources \subseteq Nat
      /\ p.src \in Sources /\ p.time \in 0 .. Period - 1
      /\ q.src \in Sources /\ q.time \in 0 .. Period - 1
      /\ p.vnet \in Vnets /\ q.vnet \in Vnets
      /\ Period \in Nat
  BY Parameters DEF Packet
<1>2. /\ p.time % FLIT_ID_ \in 0 .. FLIT_ID_ - 1
      /\ q.time % FLIT_ID_ \in 0 .. FLIT_ID_ - 1
  <2>1. p.time \in Nat /\ q.time \in Nat
    BY <1>1
  <2> QED
    BY <1>1, <2>1, Division, Zenon
<1>3. p.src \in Nat /\ q.src \in Nat
  BY <1>1
<1>4. p.src = q.src /\ p.time % FLIT_ID_ = q.time % FLIT_ID_
  <2>1. p.src * FLIT_ID_ + (p.time % FLIT_ID_)
          = q.src * FLIT_ID_ + (q.time % FLIT_ID_)
    BY DEF clk_id
  <2> DEFINE x == p.time % FLIT_ID_
             y == q.time % FLIT_ID_
  <2> HIDE DEF x, y
  <2>2. /\ x \in 0 .. FLIT_ID_ - 1 /\ y \in 0 .. FLIT_ID_ - 1
        /\ p.src * FLIT_ID_ + x = q.src * FLIT_ID_ + y
    BY <1>2, <2>1 DEF x, y
  <2>3. /\ (p.src - q.src) * FLIT_ID_ = p.src * FLIT_ID_ - q.src * FLIT_ID_
        /\ p.src * FLIT_ID_ \in Int /\ q.src * FLIT_ID_ \in Int
    BY <1>1, <1>3, SMTT(30)
  <2>4. (p.src - q.src) * FLIT_ID_ = y - x
    BY <1>1, <2>2, <2>3
  <2>5. p.src - q.src = 0
    <3> DEFINE m == p.src - q.src
    <3>1. m \in Int /\ m * FLIT_ID_ < FLIT_ID_ /\ - FLIT_ID_ < m * FLIT_ID_
      BY <1>1, <1>3, <2>2, <2>4
    <3> HIDE DEF m
    <3>2. m = 0
      BY <1>1, <3>1, SmallMultiple
    <3> QED
      BY <3>2 DEF m
  <2>6. p.src = q.src /\ x = y
    BY <1>1, <1>3, <2>2, <2>4, <2>5
  <2> QED
    BY <2>6 DEF x, y
<1>5. p.time = q.time
  <2>1. /\ curCycle \in 0 .. Period - 1
        /\ (curCycle - p.time) % Period <= Lifetime
        /\ (curCycle - q.time) % Period <= Lifetime
    BY DEF Age, PacketsOK
  <2> QED
    BY <1>1, <1>4, <2>1, SameTime, Zenon
<1>6. p.vnet = q.vnet
  BY <1>1, Zenon DEF OneVnet
<1> QED
  BY <1>4, <1>5, <1>6 DEF Packet

\* The same for the packets of a state.
LEMMA Distinct ==
  ASSUME OneVnet, Lifetime < FLIT_ID_, PacketsOK, Recent
  PROVE  \A p, q \in DOMAIN missing : clk_id(p) = clk_id(q) => p = q
  BY Ids, Zenon DEF PacketsOK, Recent

\* A cycle makes a packet older, as long as the clock does not come round.
LEMMA Older ==
  ASSUME NEW c \in 0 .. Period - 1, NEW t \in 0 .. Period - 1,
         (c - t) % Period < Lifetime
  PROVE  (((c + 1) % Period) - t) % Period = ((c - t) % Period) + 1
<1>1. Period \in Nat \ {0} /\ Lifetime < Period /\ Lifetime \in Nat
  BY Parameters
<1>2. (c - t) % Period = IF t <= c THEN c - t ELSE c - t + Period
  BY <1>1, SMTT(30)
<1>3. (c + 1) % Period = IF c + 1 = Period THEN 0 ELSE c + 1
  BY <1>1, SMTT(30)
<1>4. CASE c + 1 = Period
  <2>1. (0 - t) % Period = IF t = 0 THEN 0 ELSE Period - t
    BY <1>1, SMTT(30)
  <2> QED
    BY <1>1, <1>2, <1>3, <1>4, <2>1
<1>5. CASE c + 1 # Period
  <2>1. ((c + 1) - t) % Period = IF t <= c + 1 THEN c + 1 - t ELSE c + 1 - t + Period
    BY <1>1, <1>5, SMTT(30)
  <2> QED
    BY <1>1, <1>2, <1>3, <1>5, <2>1
<1> QED
  BY <1>4, <1>5

LEMMA InitIInv == Init => IInv
  BY Parameters DEF Init, IInv, PacketsOK, Recent, HandedOnceWhenComplete, RobCountsFlits

\* A new packet has an id of its own, and no flit of it has arrived.
LEMMA InjectIInv ==
  ASSUME OneVnet, Lifetime < FLIT_ID_, IInv, NEW p \in Packet, Inject(p)
  PROVE  IInv'
<1> DEFINE D == DOMAIN missing
<1>1. /\ PacketsOK /\ Recent /\ HandedOnceWhenComplete /\ RobCountsFlits
      /\ p.time = curCycle /\ p \notin D /\ curCycle' = curCycle /\ m_rob' = m_rob
      /\ missing' = [q \in D \cup {p} |-> IF q = p THEN Size ELSE missing[q]]
      /\ handed' = [q \in D \cup {p} |-> IF q = p THEN 0 ELSE handed[q]]
  BY DEF IInv, Inject, PacketsOK
<1>2. DOMAIN missing' = D \cup {p} /\ DOMAIN handed' = D \cup {p}
  BY <1>1
<1>3. \A q \in D : missing'[q] = missing[q] /\ handed'[q] = handed[q]
  BY <1>1
<1>4. missing'[p] = Size /\ handed'[p] = 0 /\ Size \in Nat \ {0, 1}
  BY <1>1, Parameters
<1>5. PacketsOK'
  BY <1>1, <1>2, <1>3, <1>4 DEF PacketsOK
<1>6. Recent'
  <2>1. Age(p) = 0
    <3>1. 0 % Period = 0
      BY Parameters, SMTT(30)
    <3> QED
      BY <1>1, <3>1 DEF Age, PacketsOK
  <2> QED
    BY <1>1, <1>2, <2>1, Parameters DEF Recent, Age
<1>7. HandedOnceWhenComplete'
  BY <1>1, <1>2, <1>3, <1>4 DEF HandedOnceWhenComplete
<1>8. RobCountsFlits'
  <2> DEFINE Partly == {q \in D : missing[q] \in 1 .. Size - 1}
  <2>1. {q \in DOMAIN missing' : missing'[q] \in 1 .. Size' - 1} = Partly
    BY <1>2, <1>3, <1>4
  <2>2. /\ DOMAIN m_rob = {clk_id(q) : q \in Partly}
        /\ \A q \in Partly : m_rob[clk_id(q)] = Size - missing[q]
    BY <1>1 DEF RobCountsFlits
  <2>3. \A q \in Partly : missing'[q] = missing[q]
    BY <1>3
  <2>4. /\ DOMAIN m_rob' = {clk_id(q) : q \in Partly}
        /\ \A q \in Partly : m_rob'[clk_id(q)] = Size - missing'[q]
    BY <1>1, <2>2, <2>3
  <2> HIDE DEF Partly
  <2> QED
    BY <2>1, <2>4 DEF RobCountsFlits, clk_id
<1> QED
  BY <1>5, <1>6, <1>7, <1>8 DEF IInv

\* A flit is counted for its packet; the last one hands over the message.
LEMMA FlitArrivesIInv ==
  ASSUME OneVnet, Lifetime < FLIT_ID_, IInv, NEW p \in DOMAIN missing, FlitArrives(p)
  PROVE  IInv'
<1> DEFINE D == DOMAIN missing
           Partly == {q \in D : missing[q] \in 1 .. Size - 1}
           id == clk_id(p)
<1>1. /\ PacketsOK /\ Recent /\ HandedOnceWhenComplete /\ RobCountsFlits
      /\ missing[p] > 0 /\ curCycle' = curCycle
      /\ missing' = [missing EXCEPT ![p] = @ - 1]
      /\ Receive(p)
  BY DEF IInv, FlitArrives
<1>2. /\ DOMAIN missing' = D /\ DOMAIN handed = D
      /\ missing \in [D -> 0 .. Size] /\ handed \in [D -> Nat]
      /\ missing[p] \in 1 .. Size /\ Size \in Nat \ {0, 1}
  BY <1>1, Parameters DEF PacketsOK
<1>3. /\ missing'[p] = missing[p] - 1
      /\ \A q \in D : q # p => missing'[q] = missing[q]
  BY <1>1, <1>2
<1>4. Recent'
  BY <1>1, <1>2 DEF Recent, Age
<1>5. /\ DOMAIN m_rob = {clk_id(q) : q \in Partly}
      /\ \A q \in Partly : m_rob[clk_id(q)] = Size - missing[q]
      /\ m_rob \in [DOMAIN m_rob -> 1 .. Size - 1]
  BY <1>1 DEF RobCountsFlits, PacketsOK
<1>6. \A q \in D : clk_id(q) = id => q = p
  BY <1>1, Distinct
<1>7. Counted(id) = Size - missing[p] + 1
  <2>1. CASE p \in Partly
    BY <1>2, <1>5, <2>1 DEF Counted
  <2>2. CASE p \notin Partly
    <3>1. missing[p] = Size
      BY <1>2, <2>2
    <3>2. id \notin DOMAIN m_rob
      BY <1>5, <1>6, <2>2
    <3> QED
      BY <1>2, <3>1, <3>2 DEF Counted
  <2> QED
    BY <2>1, <2>2
<1>8. {q \in DOMAIN missing' : missing'[q] \in 1 .. Size - 1}
        = IF missing[p] = 1 THEN Partly \ {p} ELSE Partly \cup {p}
  BY <1>2, <1>3
<1> HIDE DEF Partly, id
<1>9. PacketsOK' /\ HandedOnceWhenComplete' /\ RobCountsFlits'
  <2>1. CASE missing[p] = 1
    <3>1. /\ m_rob' = [i \in DOMAIN m_rob \ {id} |-> m_rob[i]]
          /\ handed' = [handed EXCEPT ![p] = @ + 1]
      BY <1>1, <1>2, <1>7, <2>1 DEF Receive, areAllFlitsHere, Restrict, id
    <3>2. /\ handed \in [D -> Nat] /\ handed[p] = 0 /\ missing'[p] = 0
          /\ \A q \in D : q # p => handed[q] = IF missing[q] = 0 THEN 1 ELSE 0
      BY <1>1, <1>2, <1>3, <2>1 DEF HandedOnceWhenComplete
    <3>3. PacketsOK'
      BY <1>1, <1>2, <1>5, <3>1, <3>2 DEF PacketsOK
    <3>4. HandedOnceWhenComplete'
      BY <1>2, <1>3, <3>1, <3>2 DEF HandedOnceWhenComplete
    <3>5. DOMAIN m_rob' = {clk_id(q) : q \in Partly \ {p}}
      <4>1. DOMAIN m_rob' = DOMAIN m_rob \ {id}
        BY <3>1
      <4>2. \A q \in Partly : clk_id(q) = id => q = p
        BY <1>6 DEF Partly
      <4> QED
        BY <1>5, <4>1, <4>2 DEF id
    <3>6. \A q \in Partly \ {p} : m_rob'[clk_id(q)] = Size - missing'[q]
      <4> TAKE q \in Partly \ {p}
      <4>1. clk_id(q) \in DOMAIN m_rob \ {id} /\ q \in D
        BY <1>5, <1>6 DEF Partly
      <4> QED
        BY <1>3, <1>5, <3>1, <4>1
    <3>7. RobCountsFlits'
      BY <1>8, <2>1, <3>5, <3>6 DEF RobCountsFlits, clk_id
    <3> QED
      BY <3>3, <3>4, <3>7
  <2>2. CASE missing[p] # 1
    <3>1. /\ m_rob' = [i \in DOMAIN m_rob \cup {id} |->
                         IF i = id THEN Counted(i) ELSE m_rob[i]]
          /\ handed' = handed
      BY <1>1, <1>2, <1>7, <2>2 DEF Receive, areAllFlitsHere, id
    <3>2. missing'[p] \in 1 .. Size - 1
      BY <1>2, <1>3, <2>2
    <3>3. PacketsOK'
      BY <1>1, <1>2, <1>5, <1>7, <3>1, <3>2 DEF PacketsOK
    <3>4. HandedOnceWhenComplete'
      BY <1>1, <1>2, <1>3, <3>1, <3>2 DEF HandedOnceWhenComplete
    <3>5. DOMAIN m_rob' = {clk_id(q) : q \in Partly \cup {p}}
      BY <1>5, <3>1 DEF id
    <3>6. \A q \in Partly \cup {p} : m_rob'[clk_id(q)] = Size - missing'[q]
      <4> TAKE q \in Partly \cup {p}
      <4>1. CASE q = p
        BY <1>2, <1>3, <1>7, <3>1, <4>1 DEF id
      <4>2. CASE q # p
        <5>1. clk_id(q) \in DOMAIN m_rob \ {id} /\ q \in D
          BY <1>5, <1>6, <4>2 DEF Partly
        <5> QED
          BY <1>3, <1>5, <3>1, <4>2, <5>1
      <4> QED
        BY <4>1, <4>2
    <3>7. RobCountsFlits'
      BY <1>8, <2>2, <3>5, <3>6 DEF RobCountsFlits, clk_id
    <3> QED
      BY <3>3, <3>4, <3>7
  <2> QED
    BY <2>1, <2>2
<1> QED
  BY <1>4, <1>9 DEF IInv

\* Time passes, and packets that have arrived are forgotten.
LEMMA NextCycleIInv ==
  ASSUME IInv, NextCycle
  PROVE  IInv'
<1> DEFINE recent == {p \in DOMAIN missing : Age(p) < Lifetime}
           Partly == {q \in DOMAIN missing : missing[q] \in 1 .. Size - 1}
<1>1. /\ PacketsOK /\ Recent /\ HandedOnceWhenComplete /\ RobCountsFlits
      /\ \A p \in DOMAIN missing : missing[p] > 0 => p \in recent
      /\ curCycle' = (curCycle + 1) % Period
      /\ missing' = [p \in recent |-> missing[p]]
      /\ handed' = [p \in recent |-> handed[p]]
      /\ m_rob' = m_rob
  BY DEF IInv, NextCycle, Restrict
<1>2. DOMAIN missing' = recent /\ recent \subseteq DOMAIN missing
  BY <1>1
<1>3. (curCycle + 1) % Period \in 0 .. Period - 1
  BY <1>1, Parameters, SMTT(30) DEF PacketsOK
<1>4. PacketsOK'
  BY <1>1, <1>2, <1>3 DEF PacketsOK
<1>5. Recent'
  <2> SUFFICES ASSUME NEW p \in recent
               PROVE  (curCycle' - p.time) % Period <= Lifetime
    BY <1>2 DEF Recent, Age
  <2>1. (curCycle - p.time) % Period < Lifetime
    BY DEF Age
  <2>2. p.time \in 0 .. Period - 1 /\ curCycle \in 0 .. Period - 1
    BY <1>1 DEF PacketsOK, Packet
  <2>3. (curCycle' - p.time) % Period = ((curCycle - p.time) % Period) + 1
    BY <1>1, <2>1, <2>2, Older, Zenon
  <2>4. (curCycle - p.time) % Period \in Nat
    BY <2>2, Parameters, SMTT(30)
  <2> QED
    BY <2>1, <2>3, <2>4, Parameters
<1>6. HandedOnceWhenComplete'
  BY <1>1, <1>2 DEF HandedOnceWhenComplete
<1>7. RobCountsFlits'
  <2>1. {q \in DOMAIN missing' : missing'[q] \in 1 .. Size - 1} = Partly
    BY <1>1, <1>2 DEF PacketsOK
  <2>2. \A q \in Partly : missing'[q] = missing[q]
    BY <1>1 DEF PacketsOK
  <2>3. /\ DOMAIN m_rob' = {clk_id(q) : q \in Partly}
        /\ \A q \in Partly : m_rob'[clk_id(q)] = Size - missing'[q]
    BY <1>1, <2>2 DEF RobCountsFlits
  <2> HIDE DEF Partly
  <2> QED
    BY <2>1, <2>3 DEF RobCountsFlits, clk_id
<1> QED
  BY <1>4, <1>5, <1>6, <1>7 DEF IInv

LEMMA Stuttering == ASSUME IInv, UNCHANGED vars PROVE IInv'
  BY DEF IInv, PacketsOK, Recent, Age, HandedOnceWhenComplete, RobCountsFlits,
         clk_id, vars

LEMMA Invariance ==
  ASSUME OneVnet, Lifetime < FLIT_ID_
  PROVE  Spec => []IInv
<1>1. IInv /\ [Next]_vars => IInv'
  BY InjectIInv, FlitArrivesIInv, NextCycleIInv, Stuttering DEF Next
<1> QED
  BY <1>1, InitIInv, PTL DEF Spec

-----------------------------------------------------------------------------
\* A message is handed to the protocol when the last of its flits arrives, and
\* once, whatever packets of whatever sources the flits are mixed with.
THEOREM EachMessageOnce ==
  ASSUME OneVnet, Lifetime < FLIT_ID_
  PROVE  Spec => []HandedOnceWhenComplete
<1>1. IInv => HandedOnceWhenComplete
  BY DEF IInv
<1> QED
  BY <1>1, Invariance, PTL

\* m_rob holds the packets that have arrived in part and nothing else, so
\* that an id can be used again.
THEOREM NothingIsLeftBehind ==
  ASSUME OneVnet, Lifetime < FLIT_ID_
  PROVE  Spec => []RobCountsFlits
<1>1. IInv => RobCountsFlits
  BY DEF IInv
<1> QED
  BY <1>1, Invariance, PTL
=============================================================================
