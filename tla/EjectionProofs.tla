--------------------------- MODULE EjectionProofs ---------------------------
(***************************************************************************)
(* What Ejection promises, for any number of vnets, VCs, credits and       *)
(* slots: no buffer slot is lost, callbacks are registered exactly while   *)
(* they are needed, a VC is given back only when it is empty, and messages *)
(* of a vnet keep their order.                                             *)
(*                                                                         *)
(* The first part is about sequences: how many positions hold what.        *)
(***************************************************************************)
EXTENDS Ejection, FiniteSetTheorems, SequenceTheorems, TLAPS

-----------------------------------------------------------------------------
\* Every non-empty set of numbers has a least one.
LEMMA MinIsLeast ==
  ASSUME NEW S, S \subseteq Nat, S # {}
  PROVE  Min(S) \in S /\ \A x \in S : Min(S) =< x
<1>1. \E x \in S : \A y \in S : ~ (<<y, x>> \in OpToRel(<, Nat))
  BY NatLessThanWellFounded, WFMin
<1>2. ASSUME NEW x \in S, NEW y \in S, ~ (<<y, x>> \in OpToRel(<, Nat))
      PROVE  x =< y
  BY <1>2 DEF OpToRel
<1>3. \E x \in S : \A y \in S : x =< y
  BY <1>1, <1>2
<1> QED
  BY <1>3, Zenon DEF Min

\* The sequence without its element at i.
LEMMA RemoveAtProperties ==
  ASSUME NEW S, NEW s \in Seq(S), NEW i \in 1 .. Len(s)
  PROVE  /\ RemoveAt(s, i) \in Seq(S)
         /\ Len(RemoveAt(s, i)) = Len(s) - 1
         /\ \A k \in 1 .. Len(s) - 1 :
              RemoveAt(s, i)[k] = IF k < i THEN s[k] ELSE s[k + 1]
<1> DEFINE a == SubSeq(s, 1, i - 1)
           b == SubSeq(s, i + 1, Len(s))
<1>1. Len(s) \in Nat
  BY LenProperties
<1>2. /\ a \in Seq(S) /\ Len(a) = i - 1
      /\ \A k \in 1 .. i - 1 : a[k] = s[k]
  <2>1. \A k \in 1 .. i - 1 : s[k] \in S
    BY <1>1, ElementOfSeq
  <2> QED
    BY <1>1, <2>1, SubSeqProperties
<1>3. /\ b \in Seq(S) /\ Len(b) = Len(s) - i
      /\ \A k \in 1 .. Len(s) - i : b[k] = s[i + k]
  <2>1. \A k \in i + 1 .. Len(s) : s[k] \in S
    BY <1>1, ElementOfSeq
  <2> QED
    BY <1>1, <2>1, SubSeqProperties
<1> HIDE DEF a, b
<1>4. /\ a \o b \in Seq(S) /\ Len(a \o b) = Len(s) - 1
      /\ \A k \in 1 .. Len(s) - 1 : (a \o b)[k] = IF k <= i - 1 THEN a[k] ELSE b[k - (i - 1)]
  <2>1. /\ a \o b \in Seq(S) /\ Len(a \o b) = Len(a) + Len(b)
        /\ \A k \in 1 .. Len(a) + Len(b) :
             (a \o b)[k] = IF k <= Len(a) THEN a[k] ELSE b[k - Len(a)]
    BY <1>2, <1>3, ConcatProperties, Zenon
  <2>2. Len(a) = i - 1 /\ Len(a) + Len(b) = Len(s) - 1
    BY <1>1, <1>2, <1>3
  <2> QED
    BY <2>1, <2>2
<1>5. RemoveAt(s, i) = a \o b
  BY DEF RemoveAt, a, b
<1>6. ASSUME NEW k \in 1 .. Len(s) - 1
      PROVE  (a \o b)[k] = IF k < i THEN s[k] ELSE s[k + 1]
  <2>1. CASE k < i
    BY <1>1, <1>2, <1>4, <2>1
  <2>2. CASE ~ (k < i)
    <3>1. k - (i - 1) \in 1 .. Len(s) - i /\ i + (k - (i - 1)) = k + 1
      BY <1>1, <2>2
    <3> QED
      BY <1>1, <1>3, <1>4, <2>2, <3>1
  <2> QED
    BY <2>1, <2>2
<1> QED
  BY <1>4, <1>5, <1>6

\* The positions of a sequence that hold a member of A.
Positions(s, A) == {k \in DOMAIN s : s[k] \in A}

\* They are finitely many.
LEMMA PositionsFinite ==
  ASSUME NEW S, NEW s \in Seq(S), NEW A
  PROVE  /\ IsFiniteSet(Positions(s, A)) /\ Cardinality(Positions(s, A)) \in Nat
         /\ Positions(s, A) \subseteq 1 .. Len(s)
         /\ Cardinality(Positions(s, A)) = 0 <=> \A k \in 1 .. Len(s) : s[k] \notin A
<1>1. Len(s) \in Nat /\ DOMAIN s = 1 .. Len(s)
  BY LenProperties
<1>2. IsFiniteSet(1 .. Len(s))
  BY <1>1, FS_Interval
<1>3. Positions(s, A) \in SUBSET (1 .. Len(s))
  BY <1>1 DEF Positions
<1>4. IsFiniteSet(Positions(s, A))
  BY <1>2, <1>3, FS_Subset
<1>5. Cardinality(Positions(s, A)) \in Nat
  BY <1>4, FS_CardinalityType
<1>6. Cardinality(Positions(s, A)) = 0 <=> Positions(s, A) = {}
  BY <1>4, FS_EmptySet
<1> QED
  BY <1>1, <1>3, <1>4, <1>5, <1>6 DEF Positions

\* An element at the end adds one, or none.
LEMMA PositionsAppend ==
  ASSUME NEW S, NEW s \in Seq(S), NEW A, NEW e \in S
  PROVE  Cardinality(Positions(Append(s, e), A))
           = Cardinality(Positions(s, A)) + (IF e \in A THEN 1 ELSE 0)
<1> DEFINE t == Append(s, e)
<1>1. /\ Len(s) \in Nat /\ DOMAIN s = 1 .. Len(s)
      /\ t \in Seq(S) /\ Len(t) = Len(s) + 1
      /\ \A k \in 1 .. Len(s) : t[k] = s[k]
      /\ t[Len(s) + 1] = e
  BY LenProperties, AppendProperties
<1>2. DOMAIN t = 1 .. Len(s) + 1
  BY <1>1, LenProperties
<1> HIDE DEF t
<1>3. Positions(t, A) = IF e \in A THEN Positions(s, A) \cup {Len(s) + 1} ELSE Positions(s, A)
  BY <1>1, <1>2 DEF Positions
<1>4. IsFiniteSet(Positions(s, A)) /\ Len(s) + 1 \notin Positions(s, A)
      /\ Cardinality(Positions(s, A)) \in Nat
  <2>1. Len(s) + 1 \notin Positions(s, A)
    BY <1>1 DEF Positions
  <2> QED
    BY <2>1, PositionsFinite
<1>5. Cardinality(Positions(s, A) \cup {Len(s) + 1}) = Cardinality(Positions(s, A)) + 1
  BY <1>4, FS_AddElement
<1> QED
  BY <1>3, <1>4, <1>5 DEF t

\* An element that is taken out takes one away, or none: the others move up.
LEMMA PositionsRemove ==
  ASSUME NEW S, NEW s \in Seq(S), NEW A, NEW i \in 1 .. Len(s), NEW t \in Seq(S),
         Len(t) = Len(s) - 1,
         \A k \in 1 .. Len(s) - 1 : t[k] = IF k < i THEN s[k] ELSE s[k + 1]
  PROVE  Cardinality(Positions(t, A))
           = Cardinality(Positions(s, A)) - (IF s[i] \in A THEN 1 ELSE 0)
<1> DEFINE P == Positions(s, A) \ {i}
           Q == Positions(t, A)
           f == [k \in P |-> IF k < i THEN k ELSE k - 1]
<1>1. /\ Len(s) \in Nat /\ DOMAIN s = 1 .. Len(s)
      /\ DOMAIN t = 1 .. Len(s) - 1
  BY LenProperties
<1>2. /\ IsFiniteSet(P) /\ Cardinality(Positions(s, A)) \in Nat
      /\ Cardinality(P) = Cardinality(Positions(s, A)) - (IF s[i] \in A THEN 1 ELSE 0)
  <2>1. IsFiniteSet(Positions(s, A)) /\ Cardinality(Positions(s, A)) \in Nat
    BY PositionsFinite
  <2>2. i \in Positions(s, A) <=> s[i] \in A
    BY <1>1 DEF Positions
  <2> QED
    BY <2>1, <2>2, FS_RemoveElement
<1>3. \A k \in P : k \in Int /\ k # i /\ k \in 1 .. Len(s) /\ s[k] \in A
  BY <1>1 DEF Positions
<1>4. \A k \in Q : k \in 1 .. Len(s) - 1 /\ t[k] \in A
  BY <1>1 DEF Positions
<1>5. \A k \in P : (IF k < i THEN k ELSE k - 1) \in Q
  <2> TAKE k \in P
  <2>1. (IF k < i THEN k ELSE k - 1) \in 1 .. Len(s) - 1
    BY <1>1, <1>3
  <2>2. t[IF k < i THEN k ELSE k - 1] = s[k]
    BY <1>1, <1>3, <2>1
  <2> QED
    BY <1>1, <1>3, <2>1, <2>2 DEF Positions
<1>6. \A k \in Q : (IF k < i THEN k ELSE k + 1) \in P
  BY <1>1, <1>4 DEF Positions
<1> HIDE DEF P, Q
<1>7. f \in [P -> Q]
  BY <1>5
<1>8. IsInjective(f)
  BY <1>3 DEF IsInjective
<1>9. \A q \in Q : \E k \in DOMAIN f : f[k] = q
  <2> TAKE q \in Q
  <2>1. (IF q < i THEN q ELSE q + 1) \in P /\ q \in Int
    BY <1>4, <1>6
  <2>2. f[IF q < i THEN q ELSE q + 1] = q
    BY <2>1
  <2> QED
    BY <2>1, <2>2
<1>10. ExistsBijection(P, Q)
  <2> HIDE DEF f
  <2>1. f \in Injection(P, Q) /\ f \in Surjection(P, Q)
    BY <1>7, <1>8, <1>9 DEF Injection, Surjection
  <2> QED
    BY <2>1 DEF ExistsBijection, Bijection
<1>11. Cardinality(Q) = Cardinality(P)
  BY <1>2, <1>10, FS_Bijection
<1> QED
  BY <1>2, <1>11 DEF Q

-----------------------------------------------------------------------------
\* The credits of v in a queue of credits.
QueuedIn(q, v) == Cardinality({k \in DOMAIN q : q[k].vc = v})

\* One of them has the free signal.
FreeIn(q, v) == \E k \in DOMAIN q : q[k].vc = v /\ q[k].is_free_signal

\* The free signal is on the last credit of its VC.
FreeLastIn(q) ==
  \A j, k \in DOMAIN q : j < k /\ q[j].vc = q[k].vc => ~ q[j].is_free_signal

\* The tails of vnet n in a stall queue.
StallsIn(q, n) == Cardinality({k \in DOMAIN q : VnetOf[q[k]] = n})

\* Both are numbers of positions.
LEMMA QueuedInIsPositions ==
  ASSUME NEW q \in Seq(Credit), NEW v \in VCs
  PROVE  /\ QueuedIn(q, v) = Cardinality(Positions(q, {c \in Credit : c.vc = v}))
         /\ QueuedIn(q, v) \in Nat
         /\ QueuedIn(q, v) = 0 <=> \A k \in DOMAIN q : q[k].vc # v
<1>1. DOMAIN q = 1 .. Len(q) /\ \A k \in DOMAIN q : q[k] \in Credit
  BY LenProperties, ElementOfSeq
<1>2. {k \in DOMAIN q : q[k].vc = v} = Positions(q, {c \in Credit : c.vc = v})
  BY <1>1 DEF Positions
<1>3. QueuedIn(q, v) = Cardinality(Positions(q, {c \in Credit : c.vc = v}))
  BY <1>2 DEF QueuedIn
<1>4. /\ Cardinality(Positions(q, {c \in Credit : c.vc = v})) \in Nat
      /\ Cardinality(Positions(q, {c \in Credit : c.vc = v})) = 0
           <=> \A k \in 1 .. Len(q) : q[k] \notin {c \in Credit : c.vc = v}
  BY PositionsFinite
<1> QED
  BY <1>1, <1>3, <1>4

LEMMA StallsInIsPositions ==
  ASSUME NEW q \in Seq(VCs), NEW n \in Vnets
  PROVE  /\ StallsIn(q, n) = Cardinality(Positions(q, {v \in VCs : VnetOf[v] = n}))
         /\ StallsIn(q, n) \in Nat
         /\ StallsIn(q, n) = 0 <=> \A k \in DOMAIN q : VnetOf[q[k]] # n
<1>1. DOMAIN q = 1 .. Len(q) /\ \A k \in DOMAIN q : q[k] \in VCs
  BY LenProperties, ElementOfSeq
<1>2. {k \in DOMAIN q : VnetOf[q[k]] = n} = Positions(q, {v \in VCs : VnetOf[v] = n})
  BY <1>1 DEF Positions
<1>3. StallsIn(q, n) = Cardinality(Positions(q, {v \in VCs : VnetOf[v] = n}))
  BY <1>2 DEF StallsIn
<1>4. /\ Cardinality(Positions(q, {v \in VCs : VnetOf[v] = n})) \in Nat
      /\ Cardinality(Positions(q, {v \in VCs : VnetOf[v] = n})) = 0
           <=> \A k \in 1 .. Len(q) : q[k] \notin {v \in VCs : VnetOf[v] = n}
  BY PositionsFinite
<1> QED
  BY <1>1, <1>3, <1>4

\* As each VC is stalled at most once, there are no more than VCs.
LEMMA StallsBound ==
  ASSUME NEW q \in Seq(VCs), IsInjective(q), NEW n \in Vnets
  PROVE  StallsIn(q, n) \in 0 .. Cardinality(VCs)
<1> DEFINE P == {k \in DOMAIN q : VnetOf[q[k]] = n}
           f == [k \in P |-> q[k]]
<1>1. DOMAIN q = 1 .. Len(q) /\ \A k \in DOMAIN q : q[k] \in VCs
  BY LenProperties, ElementOfSeq
<1>2. f \in Injection(P, VCs)
  <2>1. \A k \in P : q[k] \in VCs /\ k \in DOMAIN q
    BY <1>1
  <2>2. \A j, k \in P : q[j] = q[k] => j = k
    BY <2>1, Zenon DEF IsInjective
  <2> HIDE DEF P
  <2>3. f \in [P -> VCs] /\ DOMAIN f = P /\ \A k \in P : f[k] = q[k]
    BY <2>1
  <2> HIDE DEF f
  <2>4. IsInjective(f)
    BY <2>2, <2>3 DEF IsInjective
  <2> QED
    BY <2>3, <2>4 DEF Injection
<1>3. Cardinality(P) <= Cardinality(VCs)
  <2> HIDE DEF f, P
  <2> QED
    BY <1>2, FS_Injection, Parameters
<1>4. Cardinality(VCs) \in Nat
  BY FS_CardinalityType, Parameters
<1>5. Cardinality(P) = StallsIn(q, n)
  BY DEF StallsIn
<1>6. StallsIn(q, n) \in Nat
  BY StallsInIsPositions
<1> HIDE DEF P
<1> QED
  BY <1>3, <1>4, <1>5, <1>6

\* sendCredit.
LEMMA CreditIsQueued ==
  ASSUME NEW q \in Seq(Credit), NEW v \in VCs, NEW f \in BOOLEAN
  PROVE  LET r == Append(q, [vc |-> v, is_free_signal |-> f])
         IN  /\ r \in Seq(Credit) /\ r # <<>>
             /\ \A u \in VCs : QueuedIn(r, u) = QueuedIn(q, u) + (IF u = v THEN 1 ELSE 0)
             /\ \A u \in VCs : FreeIn(r, u) <=> FreeIn(q, u) \/ (u = v /\ f)
             /\ FreeLastIn(q) /\ ~ FreeIn(q, v) => FreeLastIn(r)
<1> DEFINE r == Append(q, [vc |-> v, is_free_signal |-> f])
<1> DEFINE c == [vc |-> v, is_free_signal |-> f]
<1>1. c \in Credit /\ c.vc = v /\ c.is_free_signal = f
  BY DEF Credit
<1> HIDE DEF c, r
<1>2. /\ Len(q) \in Nat /\ DOMAIN q = 1 .. Len(q)
      /\ r \in Seq(Credit) /\ r # <<>> /\ Len(r) = Len(q) + 1
      /\ \A k \in 1 .. Len(q) : r[k] = q[k]
      /\ r[Len(q) + 1] = c
  BY <1>1, LenProperties, AppendProperties DEF c, r
<1>3. DOMAIN r = 1 .. Len(q) + 1
  BY <1>2, LenProperties
<1>4. ASSUME NEW u \in VCs
      PROVE  QueuedIn(r, u) = QueuedIn(q, u) + (IF u = v THEN 1 ELSE 0)
  <2> DEFINE A == {d \in Credit : d.vc = u}
  <2>1. QueuedIn(r, u) = Cardinality(Positions(r, A)) /\ QueuedIn(q, u) = Cardinality(Positions(q, A))
    BY <1>2, QueuedInIsPositions
  <2>2. c \in A <=> u = v
    BY <1>1
  <2> HIDE DEF A
  <2>3. r = Append(q, c)
    BY DEF c, r
  <2>4. Cardinality(Positions(Append(q, c), A)) = Cardinality(Positions(q, A)) + (IF c \in A THEN 1 ELSE 0)
    BY <1>1, PositionsAppend
  <2> QED
    BY <2>1, <2>2, <2>3, <2>4
<1>5. ASSUME NEW u \in VCs
      PROVE  FreeIn(r, u) <=> FreeIn(q, u) \/ (u = v /\ f)
  BY <1>1, <1>2, <1>3 DEF FreeIn
<1>6. FreeLastIn(q) /\ ~ FreeIn(q, v) => FreeLastIn(r)
  <2> SUFFICES ASSUME FreeLastIn(q), ~ FreeIn(q, v),
                      NEW j \in 1 .. Len(q) + 1, NEW k \in 1 .. Len(q) + 1,
                      j < k, r[j].vc = r[k].vc
               PROVE  ~ r[j].is_free_signal
    BY <1>3 DEF FreeLastIn
  <2>1. j \in 1 .. Len(q) /\ j \in DOMAIN q /\ r[j] = q[j]
    BY <1>2
  <2>2. CASE k = Len(q) + 1
    BY <1>1, <1>2, <2>1, <2>2 DEF FreeIn
  <2>3. CASE k # Len(q) + 1
    BY <1>2, <2>1, <2>3 DEF FreeLastIn
  <2> QED
    BY <2>2, <2>3
<1> QED
  BY <1>2, <1>4, <1>5, <1>6 DEF r

\* The credit link takes the first credit.
LEMMA CreditIsTaken ==
  ASSUME NEW q \in Seq(Credit), q # <<>>
  PROVE  /\ Head(q) \in Credit /\ Tail(q) \in Seq(Credit)
         /\ \A u \in VCs :
              QueuedIn(Tail(q), u) = QueuedIn(q, u) - (IF u = Head(q).vc THEN 1 ELSE 0)
         /\ \A u \in VCs : FreeIn(Tail(q), u) => FreeIn(q, u)
         /\ FreeLastIn(q) => FreeLastIn(Tail(q))
         /\ Head(q).is_free_signal => FreeIn(q, Head(q).vc)
         /\ FreeLastIn(q) /\ Head(q).is_free_signal => QueuedIn(Tail(q), Head(q).vc) = 0
<1> DEFINE t == Tail(q)
           c == Head(q)
<1>1. /\ Len(q) \in Nat \ {0} /\ DOMAIN q = 1 .. Len(q)
      /\ t \in Seq(Credit) /\ Len(t) = Len(q) - 1
      /\ \A k \in 1 .. Len(q) - 1 : t[k] = q[k + 1]
      /\ c \in Credit /\ c = q[1]
  <2>1. /\ Len(q) \in Nat \ {0} /\ DOMAIN q = 1 .. Len(q)
    BY LenProperties, EmptySeq
  <2>2. /\ t \in Seq(Credit) /\ Len(t) = Len(q) - 1
        /\ \A k \in 1 .. Len(t) : t[k] = q[k + 1]
        /\ c \in Credit
    BY HeadTailProperties
  <2> QED
    BY <2>1, <2>2 DEF Head
<1>2. DOMAIN t = 1 .. Len(q) - 1
  BY <1>1, LenProperties
<1> HIDE DEF t, c
<1>3. ASSUME NEW u \in VCs
      PROVE  QueuedIn(t, u) = QueuedIn(q, u) - (IF u = c.vc THEN 1 ELSE 0)
  <2> DEFINE A == {d \in Credit : d.vc = u}
  <2>1. QueuedIn(t, u) = Cardinality(Positions(t, A)) /\ QueuedIn(q, u) = Cardinality(Positions(q, A))
    BY <1>1, QueuedInIsPositions
  <2>2. q[1] \in A <=> u = c.vc
    BY <1>1
  <2> HIDE DEF A
  <2>3. 1 \in 1 .. Len(q) /\ \A k \in 1 .. Len(q) - 1 : t[k] = IF k < 1 THEN q[k] ELSE q[k + 1]
    BY <1>1
  <2>4. Cardinality(Positions(t, A)) = Cardinality(Positions(q, A)) - (IF q[1] \in A THEN 1 ELSE 0)
    BY <1>1, <2>3, PositionsRemove
  <2> QED
    BY <2>1, <2>2, <2>4
<1>4. ASSUME NEW u \in VCs, FreeIn(t, u) PROVE FreeIn(q, u)
  <2>1. PICK k \in 1 .. Len(q) - 1 : t[k].vc = u /\ t[k].is_free_signal
    BY <1>2, <1>4 DEF FreeIn
  <2>2. k + 1 \in DOMAIN q /\ q[k + 1] = t[k]
    BY <1>1
  <2> QED
    BY <2>1, <2>2 DEF FreeIn
<1>5. ASSUME FreeLastIn(q) PROVE FreeLastIn(t)
  <2> SUFFICES ASSUME NEW j \in 1 .. Len(q) - 1, NEW k \in 1 .. Len(q) - 1,
                      j < k, t[j].vc = t[k].vc
               PROVE  ~ t[j].is_free_signal
    BY <1>2 DEF FreeLastIn
  <2>1. /\ j + 1 \in DOMAIN q /\ k + 1 \in DOMAIN q /\ j + 1 < k + 1
        /\ t[j] = q[j + 1] /\ t[k] = q[k + 1]
    BY <1>1
  <2> QED
    BY <1>5, <2>1 DEF FreeLastIn
<1>6. c.is_free_signal => FreeIn(q, c.vc)
  BY <1>1 DEF FreeIn
<1>7. ASSUME FreeLastIn(q), c.is_free_signal
      PROVE  QueuedIn(t, c.vc) = 0
  <2>1. ASSUME NEW k \in 1 .. Len(q) - 1 PROVE t[k].vc # c.vc
    <3>1. 1 \in DOMAIN q /\ k + 1 \in DOMAIN q /\ 1 < k + 1 /\ t[k] = q[k + 1]
      BY <1>1
    <3> QED
      BY <1>1, <1>7, <3>1 DEF FreeLastIn
  <2>2. c.vc \in VCs
    BY <1>1 DEF Credit
  <2> QED
    BY <1>1, <1>2, <2>1, <2>2, QueuedInIsPositions
<1> QED
  BY <1>1, <1>3, <1>4, <1>5, <1>6, <1>7 DEF t, c

\* A tail that stalls.
LEMMA TailIsStalled ==
  ASSUME NEW q \in Seq(VCs), IsInjective(q), NEW v \in VCs, v \notin Range(q)
  PROVE  /\ Append(q, v) \in Seq(VCs) /\ IsInjective(Append(q, v))
         /\ Range(Append(q, v)) = Range(q) \cup {v}
         /\ \A n \in Vnets :
              StallsIn(Append(q, v), n) = StallsIn(q, n) + (IF n = VnetOf[v] THEN 1 ELSE 0)
<1> DEFINE r == Append(q, v)
<1>1. /\ Len(q) \in Nat /\ DOMAIN q = 1 .. Len(q)
      /\ r \in Seq(VCs) /\ Len(r) = Len(q) + 1
      /\ \A k \in 1 .. Len(q) : r[k] = q[k]
      /\ r[Len(q) + 1] = v
  BY LenProperties, AppendProperties
<1>2. DOMAIN r = 1 .. Len(q) + 1
  BY <1>1, LenProperties
<1> HIDE DEF r
<1>3. Range(r) = Range(q) \cup {v}
  BY <1>1, <1>2 DEF Range
<1>4. IsInjective(r)
  BY <1>1, <1>2 DEF Range, IsInjective
<1>5. ASSUME NEW n \in Vnets
      PROVE  StallsIn(r, n) = StallsIn(q, n) + (IF n = VnetOf[v] THEN 1 ELSE 0)
  <2> DEFINE A == {u \in VCs : VnetOf[u] = n}
  <2>1. StallsIn(r, n) = Cardinality(Positions(r, A)) /\ StallsIn(q, n) = Cardinality(Positions(q, A))
    BY <1>1, StallsInIsPositions
  <2>2. v \in A <=> n = VnetOf[v]
    OBVIOUS
  <2> HIDE DEF A
  <2>3. Cardinality(Positions(r, A)) = Cardinality(Positions(q, A)) + (IF v \in A THEN 1 ELSE 0)
    BY PositionsAppend DEF r
  <2> QED
    BY <2>1, <2>2, <2>3
<1> QED
  BY <1>1, <1>3, <1>4, <1>5 DEF r

\* A tail that leaves the stall queue.
LEMMA TailIsUnstalled ==
  ASSUME NEW q \in Seq(VCs), IsInjective(q), NEW i \in DOMAIN q
  PROVE  /\ RemoveAt(q, i) \in Seq(VCs) /\ IsInjective(RemoveAt(q, i))
         /\ Range(RemoveAt(q, i)) = Range(q) \ {q[i]}
         /\ \A n \in Vnets :
              StallsIn(RemoveAt(q, i), n) = StallsIn(q, n) - (IF n = VnetOf[q[i]] THEN 1 ELSE 0)
<1> DEFINE r == RemoveAt(q, i)
<1>1. /\ Len(q) \in Nat /\ DOMAIN q = 1 .. Len(q) /\ i \in 1 .. Len(q) /\ q[i] \in VCs
  BY LenProperties, ElementOfSeq
<1>2. /\ r \in Seq(VCs) /\ Len(r) = Len(q) - 1
      /\ \A k \in 1 .. Len(q) - 1 : r[k] = IF k < i THEN q[k] ELSE q[k + 1]
  BY <1>1, RemoveAtProperties
<1>3. DOMAIN r = 1 .. Len(q) - 1
  BY <1>1, <1>2, LenProperties
<1> HIDE DEF r
<1>4. IsInjective(r)
  BY <1>1, <1>2, <1>3 DEF IsInjective
<1>5. Range(r) = Range(q) \ {q[i]}
  <2>1. ASSUME NEW k \in DOMAIN r PROVE r[k] \in Range(q) \ {q[i]}
    BY <1>1, <1>2, <1>3 DEF Range, IsInjective
  <2>2. ASSUME NEW k \in DOMAIN q, q[k] # q[i] PROVE q[k] \in Range(r)
    <3>1. CASE k < i
      <4>1. k \in DOMAIN r /\ r[k] = q[k]
        BY <1>1, <1>2, <1>3, <3>1
      <4> QED
        BY <4>1 DEF Range
    <3>2. CASE ~ (k < i)
      <4>1. k - 1 \in DOMAIN r /\ r[k - 1] = q[k]
        BY <1>1, <1>2, <1>3, <2>2, <3>2
      <4> QED
        BY <4>1 DEF Range
    <3> QED
      BY <3>1, <3>2
  <2> QED
    BY <2>1, <2>2 DEF Range
<1>6. ASSUME NEW n \in Vnets
      PROVE  StallsIn(r, n) = StallsIn(q, n) - (IF n = VnetOf[q[i]] THEN 1 ELSE 0)
  <2> DEFINE A == {u \in VCs : VnetOf[u] = n}
  <2>1. StallsIn(r, n) = Cardinality(Positions(r, A)) /\ StallsIn(q, n) = Cardinality(Positions(q, A))
    BY <1>2, StallsInIsPositions
  <2>2. q[i] \in A <=> n = VnetOf[q[i]]
    BY <1>1
  <2> HIDE DEF A
  <2>3. Cardinality(Positions(r, A)) = Cardinality(Positions(q, A)) - (IF q[i] \in A THEN 1 ELSE 0)
    BY <1>1, <1>2, PositionsRemove
  <2> QED
    BY <2>1, <2>2, <2>3
<1> QED
  BY <1>2, <1>4, <1>5, <1>6 DEF r

-----------------------------------------------------------------------------
\* TypeOK in three parts.
Numbers ==
  /\ left \in [VCs -> 0 .. MaxFlits - 1]
  /\ credit \in [VCs -> 0 .. MaxCredit]
  /\ m_stall_count \in [Vnets -> 0 .. Cardinality(VCs)]
  /\ ready \in [Vnets -> 0 .. Slots]
  /\ entered \in [Vnets -> 0 .. Slots]
  /\ popped \in [Vnets -> 0 .. Slots]

Flags ==
  /\ idle \in [VCs -> BOOLEAN]
  /\ callback \in [Vnets -> BOOLEAN]
  /\ messageEnqueuedThisCycle \in BOOLEAN
  /\ ni \in {"stalled", "link", "done"}
  /\ niNext \in BOOLEAN /\ link \in BOOLEAN /\ linkNext \in BOOLEAN

Queues ==
  /\ inLink \in Flit \cup {NoFlit}
  /\ m_stall_queue \in Seq(VCs)
  /\ outCreditQueue \in Seq(Credit)

LEMMA TypeParts == TypeOK <=> Numbers /\ Flags /\ Queues
  BY Zenon DEF TypeOK, Numbers, Flags, Queues

\* No MessageBuffer is overfull: the inductive form of what TypeOK says of it.
RoomOK == \A n \in Vnets : ready[n] + entered[n] + popped[n] <= Slots

\* A VC has at most one stalled tail.
StalledOnce == IsInjective(m_stall_queue)

\* CallbackWhileStalled.
CallbacksOK ==
  \A n \in Vnets :
    /\ m_stall_count[n] = StallsIn(m_stall_queue, n)
    /\ callback[n] <=> m_stall_count[n] > 0

\* SlotsAccountedFor.
SlotsOK ==
  \A v \in VCs :
    MaxCredit = credit[v] + QueuedIn(outCreditQueue, v)
                + (IF inLink.vc = v THEN 1 ELSE 0)
                + (IF v \in Range(m_stall_queue) THEN 1 ELSE 0)

\* A VC is idle upstream, has flits to come, has its tail on the link, has its
\* tail in the stall queue, or has its free signal queued, one of these.
PhaseOK(v) ==
  /\ idle[v] => /\ left[v] = 0 /\ v \notin Range(m_stall_queue)
                /\ inLink.vc # v /\ QueuedIn(outCreditQueue, v) = 0
  /\ left[v] > 0 => v \notin Range(m_stall_queue) /\ ~ FreeIn(outCreditQueue, v)
  /\ inLink.vc = v => /\ v \notin Range(m_stall_queue) /\ ~ FreeIn(outCreditQueue, v)
                      /\ inLink.tail <=> left[v] = 0
  /\ v \in Range(m_stall_queue) => ~ FreeIn(outCreditQueue, v)

PhasesOK == \A v \in VCs : PhaseOK(v)

\* Nothing is queued for a VC after its free signal.
FreeIsLast == FreeLastIn(outCreditQueue)

\* The interface reads its link in the cycle in which a flit arrives.
LinkIsRead == ni = "done" => inLink = NoFlit

\* If nothing was unstalled, no stalled message had room.
NothingFits == ni = "link" /\ ~ messageEnqueuedThisCycle => Unstallable = {}

\* The inductive invariant.
IInv ==
  /\ Numbers /\ Flags /\ Queues /\ RoomOK /\ StalledOnce /\ CallbacksOK
  /\ SlotsOK /\ PhasesOK /\ FreeIsLast /\ NothingFits /\ LinkIsRead

LEMMA InitIInv == Init => IInv
<1> SUFFICES ASSUME Init PROVE IInv
  OBVIOUS
<1>1. /\ m_stall_queue = <<>> /\ outCreditQueue = <<>>
      /\ m_stall_queue \in Seq(VCs) /\ outCreditQueue \in Seq(Credit)
      /\ DOMAIN m_stall_queue = {} /\ DOMAIN outCreditQueue = {}
  BY DEF Init
<1>2. \A v \in VCs : QueuedIn(outCreditQueue, v) = 0 /\ ~ FreeIn(outCreditQueue, v)
  BY <1>1, QueuedInIsPositions DEF FreeIn
<1>3. \A n \in Vnets : StallsIn(m_stall_queue, n) = 0
  BY <1>1, StallsInIsPositions
<1>4. Range(m_stall_queue) = {} /\ StalledOnce /\ FreeIsLast
  BY <1>1 DEF Range, StalledOnce, IsInjective, FreeIsLast, FreeLastIn
<1>5. Cardinality(VCs) \in Nat
  BY FS_CardinalityType, Parameters
<1>6. Numbers
  BY <1>5, Parameters DEF Init, Numbers
<1>10. Flags
  BY Zenon DEF Init, Flags
<1>11. Queues
  BY <1>1 DEF Init, Queues
<1>7. NoFlit.vc = "none" /\ "none" \notin VCs
  BY Parameters DEF NoFlit
<1>8. RoomOK /\ CallbacksOK /\ NothingFits /\ LinkIsRead
  BY <1>3, Parameters DEF Init, RoomOK, CallbacksOK, NothingFits, LinkIsRead
<1>9. SlotsOK /\ PhasesOK
  BY <1>2, <1>4, <1>7, Parameters DEF Init, SlotsOK, PhasesOK, PhaseOK
<1> QED
  BY <1>4, <1>6, <1>8, <1>9, <1>10, <1>11 DEF IInv

\* A slot that is free can be taken.
LEMMA Enters ==
  ASSUME Numbers, RoomOK, NEW n \in Vnets, SlotAvailable(n), Enqueue(n),
         UNCHANGED <<ready, popped>>
  PROVE  RoomOK' /\ entered' \in [Vnets -> 0 .. Slots]
<1>1. \A m \in Vnets : entered'[m] = entered[m] + (IF m = n THEN 1 ELSE 0)
  BY DEF Numbers, Enqueue
<1>2. \A m \in Vnets :
        /\ ready[m] \in Nat /\ entered[m] \in Nat /\ popped[m] \in Nat /\ Slots \in Nat
        /\ ready[m] + entered[m] + popped[m] <= Slots
  BY Parameters DEF Numbers, RoomOK
<1>3. ready[n] + entered[n] + popped[n] + 1 <= Slots
  BY <1>2 DEF SlotAvailable
<1>4. \A m \in Vnets : /\ ready[m] + entered'[m] + popped[m] <= Slots
                       /\ entered'[m] \in 0 .. Slots
  <2> TAKE m \in Vnets
  <2> QED
    BY <1>1, <1>2, <1>3
<1> QED
  BY <1>4 DEF RoomOK, Numbers, Enqueue

\* A stalled tail is counted once, so that no more are stalled than there are VCs.
LEMMA CountsAreBounded ==
  ASSUME NEW q \in Seq(VCs), IsInjective(q), NEW c, DOMAIN c = Vnets,
         c = [n \in Vnets |-> c[n]], \A n \in Vnets : c[n] = StallsIn(q, n)
  PROVE  c \in [Vnets -> 0 .. Cardinality(VCs)]
<1>1. \A n \in Vnets : c[n] \in 0 .. Cardinality(VCs)
  BY StallsBound
<1> QED
  BY <1>1

\* What sendCredit does to the credits that are queued.
LEMMA Sends ==
  ASSUME Queues, NEW v \in VCs, NEW f \in BOOLEAN, sendCredit(v, f)
  PROVE  /\ outCreditQueue' \in Seq(Credit)
         /\ \A u \in VCs : QueuedIn(outCreditQueue', u)
                            = QueuedIn(outCreditQueue, u) + (IF u = v THEN 1 ELSE 0)
         /\ \A u \in VCs : FreeIn(outCreditQueue', u) <=>
                            FreeIn(outCreditQueue, u) \/ (u = v /\ f)
         /\ FreeIsLast /\ ~ FreeIn(outCreditQueue, v) => FreeIsLast'
<1> DEFINE r == Append(outCreditQueue, [vc |-> v, is_free_signal |-> f])
<1>1. outCreditQueue \in Seq(Credit)
  BY DEF Queues
<1>2. /\ r \in Seq(Credit)
      /\ \A u \in VCs : QueuedIn(r, u) = QueuedIn(outCreditQueue, u) + (IF u = v THEN 1 ELSE 0)
      /\ \A u \in VCs : FreeIn(r, u) <=> FreeIn(outCreditQueue, u) \/ (u = v /\ f)
      /\ FreeLastIn(outCreditQueue) /\ ~ FreeIn(outCreditQueue, v) => FreeLastIn(r)
  BY <1>1, CreditIsQueued, Zenon
<1>3. outCreditQueue' = r
  BY DEF sendCredit
<1> HIDE DEF r
<1> QED
  BY <1>2, <1>3 DEF FreeIsLast

\* A message leaves the stall queue.
LEMMA UnstallIInv ==
  ASSUME IInv, checkStallQueue, Unstallable # {}
  PROVE  IInv'
<1> DEFINE k == Min(Unstallable)
           v == m_stall_queue[k]
           n == VnetOf[v]
<1>1. /\ Numbers /\ Flags /\ Queues /\ RoomOK /\ StalledOnce /\ CallbacksOK
      /\ SlotsOK /\ PhasesOK /\ FreeIsLast /\ LinkIsRead
  BY DEF IInv
<1>2. k \in Unstallable
  <2>1. Unstallable \subseteq Nat
    BY <1>1, LenProperties DEF Numbers, Flags, Queues, Unstallable
  <2> QED
    BY <2>1, MinIsLeast
<1> HIDE DEF k
<1>3. k \in DOMAIN m_stall_queue /\ SlotAvailable(n) /\ v \in VCs /\ n \in Vnets
      /\ v \in Range(m_stall_queue)
  BY <1>1, <1>2, LenProperties, ElementOfSeq, Parameters DEF Unstallable, Numbers, Flags, Queues, Range
<1> HIDE DEF v
<1>4. /\ Enqueue(n) /\ sendCredit(v, TRUE)
      /\ m_stall_queue' = RemoveAt(m_stall_queue, k)
      /\ m_stall_count' = [m_stall_count EXCEPT ![n] = @ - 1]
      /\ callback' = [callback EXCEPT ![n] = @ /\ m_stall_count[n] > 1]
      /\ ni = "stalled" /\ ni' = "link" /\ messageEnqueuedThisCycle' = TRUE
      /\ UNCHANGED <<left, idle, credit, inLink, ready, popped, niNext, link, linkNext>>
  BY DEF checkStallQueue, Unstall, k, v, upstream
<1>5. /\ m_stall_queue' \in Seq(VCs) /\ StalledOnce'
      /\ Range(m_stall_queue') = Range(m_stall_queue) \ {v}
      /\ \A m \in Vnets : StallsIn(m_stall_queue', m)
                           = StallsIn(m_stall_queue, m) - (IF m = n THEN 1 ELSE 0)
  BY <1>1, <1>3, <1>4, TailIsUnstalled DEF Numbers, Flags, Queues, StalledOnce, v
<1>6. /\ outCreditQueue' \in Seq(Credit)
      /\ \A u \in VCs : QueuedIn(outCreditQueue', u)
                         = QueuedIn(outCreditQueue, u) + (IF u = v THEN 1 ELSE 0)
      /\ \A u \in VCs : FreeIn(outCreditQueue', u) <=> FreeIn(outCreditQueue, u) \/ u = v
      /\ FreeIsLast /\ ~ FreeIn(outCreditQueue, v) => FreeIsLast'
  BY <1>1, <1>3, <1>4, Sends
<1>7. ~ FreeIn(outCreditQueue, v) /\ left[v] = 0 /\ ~ idle[v] /\ inLink.vc # v
  BY <1>1, <1>3 DEF PhasesOK, PhaseOK, Numbers, Flags, Queues
<1>8. \A u \in VCs : QueuedIn(outCreditQueue, u) \in Nat
  BY <1>1, QueuedInIsPositions DEF Numbers, Flags, Queues
<1>9. CallbacksOK'
  <2>1. \A m \in Vnets :
          /\ m_stall_count'[m] = m_stall_count[m] - (IF m = n THEN 1 ELSE 0)
          /\ callback'[m] = IF m = n THEN callback[m] /\ m_stall_count[m] > 1 ELSE callback[m]
    BY <1>1, <1>4 DEF Numbers, Flags, Queues
  <2>2. \A m \in Vnets : /\ m_stall_count[m] = StallsIn(m_stall_queue, m)
                         /\ callback[m] <=> m_stall_count[m] > 0
                         /\ m_stall_count[m] \in Nat
    BY <1>1, StallsInIsPositions DEF Numbers, Flags, Queues, CallbacksOK
  <2>3. \A m \in Vnets : m_stall_count'[m] = StallsIn(m_stall_queue', m)
    BY <1>5, <2>1, <2>2
  <2>4. \A m \in Vnets : callback'[m] <=> m_stall_count'[m] > 0
    <3> TAKE m \in Vnets
    <3>1. m_stall_count[m] \in Nat /\ (callback[m] <=> m_stall_count[m] > 0)
      BY <2>2
    <3>2. CASE m = n
      <4>1. m_stall_count'[m] > 0 <=> m_stall_count[m] > 1
        BY <2>1, <3>1, <3>2
      <4>2. m_stall_count[m] > 1 => m_stall_count[m] > 0
        BY <3>1
      <4> QED
        BY <2>1, <3>1, <3>2, <4>1, <4>2, Zenon
    <3>3. CASE m # n
      <4>1. m_stall_count'[m] = m_stall_count[m]
        BY <2>1, <3>1, <3>3
      <4> QED
        BY <2>1, <3>1, <3>3, <4>1, Zenon
    <3> QED
      BY <3>2, <3>3
  <2> QED
    BY <2>3, <2>4 DEF CallbacksOK
<1>10. m_stall_count' \in [Vnets -> 0 .. Cardinality(VCs)]
  <2>1. DOMAIN m_stall_count' = Vnets /\ m_stall_count' = [m \in Vnets |-> m_stall_count'[m]]
    BY <1>1, <1>4 DEF Numbers
  <2> QED
    BY <1>5, <1>9, <2>1, CountsAreBounded DEF CallbacksOK, StalledOnce
<1>12. RoomOK' /\ entered' \in [Vnets -> 0 .. Slots]
  BY <1>1, <1>3, <1>4, Enters
<1>13. Numbers'
  BY <1>1, <1>4, <1>10, <1>12 DEF Numbers
<1>17. Flags'
  BY <1>1, <1>4 DEF Flags
<1>18. Queues'
  BY <1>1, <1>4, <1>5, <1>6 DEF Queues
<1>14. SlotsOK'
  <2> SUFFICES ASSUME NEW u \in VCs
               PROVE  MaxCredit = credit[u] + QueuedIn(outCreditQueue', u)
                        + (IF inLink.vc = u THEN 1 ELSE 0)
                        + (IF u \in Range(m_stall_queue') THEN 1 ELSE 0)
    BY <1>4 DEF SlotsOK
  <2>1. /\ MaxCredit = credit[u] + QueuedIn(outCreditQueue, u)
                        + (IF inLink.vc = u THEN 1 ELSE 0)
                        + (IF u \in Range(m_stall_queue) THEN 1 ELSE 0)
        /\ credit[u] \in Nat /\ QueuedIn(outCreditQueue, u) \in Nat /\ MaxCredit \in Nat
    BY <1>1, <1>8, Parameters DEF SlotsOK, Numbers
  <2>2. u \in Range(m_stall_queue') <=> u \in Range(m_stall_queue) /\ u # v
    BY <1>5
  <2>3. QueuedIn(outCreditQueue', u) = QueuedIn(outCreditQueue, u) + (IF u = v THEN 1 ELSE 0)
    BY <1>6
  <2> QED
    BY <1>3, <2>1, <2>2, <2>3
<1>15. PhasesOK'
  <2> SUFFICES ASSUME NEW u \in VCs
               PROVE  PhaseOK(u)'
    BY <1>4 DEF PhasesOK
  <2>1. PhaseOK(u)
    BY <1>1 DEF PhasesOK
  <2>2. u \in Range(m_stall_queue') <=> u \in Range(m_stall_queue) /\ u # v
    BY <1>5
  <2>3. /\ u # v => QueuedIn(outCreditQueue', u) = QueuedIn(outCreditQueue, u)
        /\ FreeIn(outCreditQueue', u) <=> FreeIn(outCreditQueue, u) \/ u = v
    BY <1>6, <1>8
  <2>4. UNCHANGED <<idle, left, inLink>>
    BY <1>4
  <2>5. ~ (left[v] > 0)
    BY <1>7
  <2> QED
    BY <1>7, <2>1, <2>2, <2>3, <2>4, <2>5, Zenon DEF PhaseOK
<1>16. FreeIsLast' /\ NothingFits' /\ LinkIsRead'
  BY <1>1, <1>4, <1>6, <1>7 DEF FreeIsLast, NothingFits, LinkIsRead
<1> QED
  BY <1>5, <1>9, <1>12, <1>13, <1>14, <1>15, <1>16, <1>17, <1>18 DEF IInv

\* None does.
LEMMA NothingUnstalledIInv ==
  ASSUME IInv, checkStallQueue, Unstallable = {}
  PROVE  IInv'
<1>1. /\ ni' = "link" /\ messageEnqueuedThisCycle' = FALSE
      /\ UNCHANGED <<left, idle, credit, inLink, m_stall_queue, m_stall_count,
                     outCreditQueue, ready, entered, popped, callback,
                     niNext, link, linkNext>>
  BY DEF checkStallQueue, upstream
<1>2. Unstallable' = {}
  BY <1>1 DEF Unstallable, SlotAvailable
<1>3. Numbers' /\ Queues' /\ RoomOK' /\ StalledOnce' /\ FreeIsLast'
  BY <1>1 DEF IInv, Numbers, Queues, RoomOK, StalledOnce, FreeIsLast
<1>4. CallbacksOK' /\ SlotsOK' /\ PhasesOK'
  BY <1>1 DEF IInv, CallbacksOK, SlotsOK, PhasesOK, PhaseOK
<1>5. Flags'
  BY <1>1 DEF IInv, Flags
<1>6. NothingFits' /\ LinkIsRead'
  BY <1>1, <1>2 DEF NothingFits, LinkIsRead
<1> QED
  BY <1>3, <1>4, <1>5, <1>6 DEF IInv

\* "No flit" is the flit of no VC.
LEMMA NoFlitIsNowhere == NoFlit.vc \notin VCs
  BY Parameters DEF NoFlit

\* What the three kinds of flits have in common.
LEMMA FlitOnLink ==
  ASSUME IInv, inLink # NoFlit
  PROVE  /\ inLink.vc \in VCs /\ VnetOf[inLink.vc] \in Vnets
         /\ inLink.vc \notin Range(m_stall_queue)
         /\ ~ FreeIn(outCreditQueue, inLink.vc)
         /\ ~ idle[inLink.vc]
         /\ inLink.tail <=> left[inLink.vc] = 0
         /\ left[inLink.vc] \in Nat
<1>1. inLink.vc \in VCs
  BY DEF IInv, Queues, Flit
<1>2. PhaseOK(inLink.vc) /\ left[inLink.vc] \in Nat
  BY <1>1, Parameters DEF IInv, PhasesOK, Numbers
<1> QED
  BY <1>1, <1>2, Parameters DEF PhaseOK

\* If the flit on the link becomes a queued credit or a stalled tail, all slots
\* stay accounted for.
LEMMA SlotMoves ==
  ASSUME IInv, NEW v \in VCs, inLink.vc = v, inLink' = NoFlit, credit' = credit,
         NEW q \in {0, 1},
         \A u \in VCs : QueuedIn(outCreditQueue', u)
                        = QueuedIn(outCreditQueue, u) + (IF u = v THEN q ELSE 0),
         v \notin Range(m_stall_queue),
         Range(m_stall_queue') = IF q = 1 THEN Range(m_stall_queue)
                                          ELSE Range(m_stall_queue) \cup {v}
  PROVE  SlotsOK'
<1> SUFFICES ASSUME NEW u \in VCs
             PROVE  MaxCredit = credit[u] + QueuedIn(outCreditQueue', u)
                      + (IF inLink'.vc = u THEN 1 ELSE 0)
                      + (IF u \in Range(m_stall_queue') THEN 1 ELSE 0)
  BY DEF SlotsOK
<1>1. /\ MaxCredit = credit[u] + QueuedIn(outCreditQueue, u)
                      + (IF inLink.vc = u THEN 1 ELSE 0)
                      + (IF u \in Range(m_stall_queue) THEN 1 ELSE 0)
      /\ credit[u] \in Nat /\ MaxCredit \in Nat
  BY Parameters DEF IInv, SlotsOK, Numbers
<1>2. QueuedIn(outCreditQueue, u) \in Nat
  BY QueuedInIsPositions DEF IInv, Queues
<1>3. inLink'.vc # u
  BY NoFlitIsNowhere
<1>4. QueuedIn(outCreditQueue', u) = QueuedIn(outCreditQueue, u) + (IF u = v THEN q ELSE 0)
  OBVIOUS
<1> QED
  BY <1>1, <1>2, <1>3, <1>4

\* A tail enters its MessageBuffer.
LEMMA EjectTailIInv ==
  ASSUME IInv, ConsumeLink, inLink # NoFlit, EjectTail
  PROVE  IInv'
<1> DEFINE v == inLink.vc
           n == VnetOf[v]
<1>1. /\ v \in VCs /\ n \in Vnets /\ v \notin Range(m_stall_queue)
      /\ ~ FreeIn(outCreditQueue, v) /\ ~ idle[v] /\ left[v] = 0
  BY FlitOnLink DEF EjectTail
<1>2. /\ SlotAvailable(n) /\ Enqueue(n) /\ sendCredit(v, TRUE)
      /\ UNCHANGED <<m_stall_queue, m_stall_count, callback>>
      /\ ni' = "done" /\ inLink' = NoFlit
      /\ linkNext' = (linkNext \/ outCreditQueue' # <<>>)
      /\ UNCHANGED <<left, idle, credit, messageEnqueuedThisCycle, ready, popped,
                     niNext, link>>
  BY DEF EjectTail, ConsumeLink, upstream
<1>3. /\ Numbers /\ Flags /\ Queues /\ RoomOK /\ StalledOnce /\ CallbacksOK
      /\ SlotsOK /\ PhasesOK /\ FreeIsLast /\ LinkIsRead
  BY DEF IInv
<1> HIDE DEF v
<1>4. /\ outCreditQueue' \in Seq(Credit)
      /\ \A u \in VCs : QueuedIn(outCreditQueue', u)
                         = QueuedIn(outCreditQueue, u) + (IF u = v THEN 1 ELSE 0)
      /\ \A u \in VCs : FreeIn(outCreditQueue', u) <=> FreeIn(outCreditQueue, u) \/ u = v
      /\ FreeIsLast'
  BY <1>1, <1>2, <1>3, Sends
<1>5. RoomOK' /\ entered' \in [Vnets -> 0 .. Slots]
  BY <1>1, <1>2, <1>3, Enters
<1>6. Numbers' /\ Queues'
  BY <1>2, <1>3, <1>4, <1>5 DEF Numbers, Queues
<1>7. Flags'
  BY <1>2, <1>3 DEF Flags
<1>8. StalledOnce' /\ CallbacksOK' /\ NothingFits' /\ LinkIsRead'
  BY <1>2, <1>3 DEF StalledOnce, CallbacksOK, NothingFits, LinkIsRead
<1>9. SlotsOK'
  BY <1>1, <1>2, <1>4, SlotMoves DEF v
<1>10. PhasesOK'
  <2> SUFFICES ASSUME NEW u \in VCs PROVE PhaseOK(u)'
    BY DEF PhasesOK
  <2>1. PhaseOK(u) /\ inLink'.vc # u
    BY <1>2, <1>3, NoFlitIsNowhere DEF PhasesOK
  <2>2. QueuedIn(outCreditQueue, u) \in Nat
    BY <1>3, QueuedInIsPositions DEF Queues
  <2>3. /\ u # v => QueuedIn(outCreditQueue', u) = QueuedIn(outCreditQueue, u)
        /\ FreeIn(outCreditQueue', u) <=> FreeIn(outCreditQueue, u) \/ u = v
    BY <1>4, <2>2
  <2>4. UNCHANGED <<idle, left, m_stall_queue>> /\ ~ (left[v] > 0)
    BY <1>1, <1>2
  <2> QED
    BY <1>1, <2>1, <2>3, <2>4, Zenon DEF PhaseOK
<1> QED
  BY <1>4, <1>5, <1>6, <1>7, <1>8, <1>9, <1>10 DEF IInv

\* A tail is stalled.
LEMMA StallTailIInv ==
  ASSUME IInv, ConsumeLink, inLink # NoFlit, StallTail
  PROVE  IInv'
<1> DEFINE v == inLink.vc
           n == VnetOf[v]
<1>1. /\ v \in VCs /\ n \in Vnets /\ v \notin Range(m_stall_queue)
      /\ ~ FreeIn(outCreditQueue, v) /\ ~ idle[v] /\ left[v] = 0
  BY FlitOnLink DEF StallTail
<1>2. /\ m_stall_queue' = Append(m_stall_queue, v)
      /\ m_stall_count' = [m_stall_count EXCEPT ![n] = @ + 1]
      /\ callback' = [callback EXCEPT ![n] = TRUE]
      /\ ni' = "done" /\ inLink' = NoFlit
      /\ linkNext' = (linkNext \/ outCreditQueue' # <<>>)
      /\ UNCHANGED <<left, idle, credit, messageEnqueuedThisCycle, ready, entered,
                     popped, outCreditQueue, niNext, link>>
  BY DEF StallTail, ConsumeLink, upstream
<1>3. /\ Numbers /\ Flags /\ Queues /\ RoomOK /\ StalledOnce /\ CallbacksOK
      /\ SlotsOK /\ PhasesOK /\ FreeIsLast /\ LinkIsRead
  BY DEF IInv
<1> HIDE DEF v
<1>4. /\ m_stall_queue' \in Seq(VCs) /\ StalledOnce'
      /\ Range(m_stall_queue') = Range(m_stall_queue) \cup {v}
      /\ \A m \in Vnets : StallsIn(m_stall_queue', m)
                           = StallsIn(m_stall_queue, m) + (IF m = n THEN 1 ELSE 0)
  BY <1>1, <1>2, <1>3, TailIsStalled DEF Queues, StalledOnce
<1>5. CallbacksOK'
  <2>1. \A m \in Vnets :
          m_stall_count'[m] = m_stall_count[m] + (IF m = n THEN 1 ELSE 0)
    BY <1>2, <1>3 DEF Numbers
  <2>5. \A m \in Vnets : IF m = n THEN callback'[m] ELSE callback'[m] = callback[m]
    BY <1>2, <1>3 DEF Flags
  <2>2. \A m \in Vnets : /\ m_stall_count[m] = StallsIn(m_stall_queue, m)
                         /\ callback[m] <=> m_stall_count[m] > 0
                         /\ m_stall_count[m] \in Nat
    <3>1. \A m \in Vnets : StallsIn(m_stall_queue, m) \in Nat
      BY <1>3, StallsInIsPositions DEF Queues
    <3> QED
      BY <1>3, <3>1 DEF CallbacksOK
  <2>3. \A m \in Vnets : m_stall_count'[m] = StallsIn(m_stall_queue', m)
    BY <1>4, <2>1, <2>2
  <2>4. \A m \in Vnets : callback'[m] <=> m_stall_count'[m] > 0
    <3> TAKE m \in Vnets
    <3>1. m_stall_count[m] \in Nat /\ (callback[m] <=> m_stall_count[m] > 0)
      BY <2>2
    <3>2. CASE m = n
      <4>1. m_stall_count'[m] > 0
        BY <2>1, <3>1, <3>2
      <4> QED
        BY <2>5, <3>2, <4>1, Zenon
    <3>3. CASE m # n
      <4>1. m_stall_count'[m] = m_stall_count[m]
        BY <2>1, <3>1, <3>3
      <4> QED
        BY <2>5, <3>1, <3>3, <4>1, Zenon
    <3> QED
      BY <3>2, <3>3
  <2> QED
    BY <2>3, <2>4 DEF CallbacksOK
<1>6. m_stall_count' \in [Vnets -> 0 .. Cardinality(VCs)]
  <2>1. DOMAIN m_stall_count' = Vnets /\ m_stall_count' = [m \in Vnets |-> m_stall_count'[m]]
    BY <1>2, <1>3 DEF Numbers
  <2> QED
    BY <1>4, <1>5, <2>1, CountsAreBounded DEF CallbacksOK, StalledOnce
<1>7. Numbers' /\ Queues'
  BY <1>2, <1>3, <1>4, <1>6 DEF Numbers, Queues
<1>8. Flags'
  BY <1>2, <1>3 DEF Flags
<1>9. RoomOK' /\ FreeIsLast' /\ NothingFits' /\ LinkIsRead'
  BY <1>2, <1>3 DEF RoomOK, FreeIsLast, NothingFits, LinkIsRead
<1>10. SlotsOK'
  <2>1. \A u \in VCs : QueuedIn(outCreditQueue', u)
                       = QueuedIn(outCreditQueue, u) + (IF u = v THEN 0 ELSE 0)
    <3>1. \A u \in VCs : QueuedIn(outCreditQueue, u) \in Nat
      BY <1>3, QueuedInIsPositions DEF Queues
    <3> QED
      BY <1>2, <3>1
  <2> QED
    BY <1>1, <1>2, <1>4, <2>1, SlotMoves DEF v
<1>11. PhasesOK'
  <2> SUFFICES ASSUME NEW u \in VCs PROVE PhaseOK(u)'
    BY DEF PhasesOK
  <2>1. PhaseOK(u) /\ inLink'.vc # u
    BY <1>2, <1>3, NoFlitIsNowhere DEF PhasesOK
  <2>2. u \in Range(m_stall_queue') <=> u \in Range(m_stall_queue) \/ u = v
    BY <1>4
  <2>3. UNCHANGED <<idle, left, outCreditQueue>> /\ ~ (left[v] > 0)
    BY <1>1, <1>2
  <2> QED
    BY <1>1, <2>1, <2>2, <2>3, Zenon DEF PhaseOK
<1> QED
  BY <1>4, <1>5, <1>7, <1>8, <1>9, <1>10, <1>11 DEF IInv

\* Another flit is exchanged for a credit.
LEMMA EatFlitIInv ==
  ASSUME IInv, ConsumeLink, inLink # NoFlit, EatFlit
  PROVE  IInv'
<1> DEFINE v == inLink.vc
<1>1. /\ v \in VCs /\ v \notin Range(m_stall_queue)
      /\ ~ FreeIn(outCreditQueue, v) /\ ~ idle[v]
  BY FlitOnLink
<1>2. /\ sendCredit(v, FALSE)
      /\ UNCHANGED <<m_stall_queue, m_stall_count, entered, callback>>
      /\ ni' = "done" /\ inLink' = NoFlit
      /\ linkNext' = (linkNext \/ outCreditQueue' # <<>>)
      /\ UNCHANGED <<left, idle, credit, messageEnqueuedThisCycle, ready, popped,
                     niNext, link>>
  BY DEF EatFlit, ConsumeLink, upstream
<1>3. /\ Numbers /\ Flags /\ Queues /\ RoomOK /\ StalledOnce /\ CallbacksOK
      /\ SlotsOK /\ PhasesOK /\ FreeIsLast /\ LinkIsRead
  BY DEF IInv
<1> HIDE DEF v
<1>4. /\ outCreditQueue' \in Seq(Credit)
      /\ \A u \in VCs : QueuedIn(outCreditQueue', u)
                         = QueuedIn(outCreditQueue, u) + (IF u = v THEN 1 ELSE 0)
      /\ \A u \in VCs : FreeIn(outCreditQueue', u) <=> FreeIn(outCreditQueue, u)
      /\ FreeIsLast'
  BY <1>1, <1>2, <1>3, Sends
<1>5. Numbers' /\ Queues' /\ RoomOK'
  BY <1>2, <1>3, <1>4 DEF Numbers, Queues, RoomOK
<1>6. Flags'
  BY <1>2, <1>3 DEF Flags
<1>7. StalledOnce' /\ CallbacksOK' /\ NothingFits' /\ LinkIsRead'
  BY <1>2, <1>3 DEF StalledOnce, CallbacksOK, NothingFits, LinkIsRead
<1>8. SlotsOK'
  BY <1>1, <1>2, <1>4, SlotMoves DEF v
<1>9. PhasesOK'
  <2> SUFFICES ASSUME NEW u \in VCs PROVE PhaseOK(u)'
    BY DEF PhasesOK
  <2>1. PhaseOK(u) /\ inLink'.vc # u
    BY <1>2, <1>3, NoFlitIsNowhere DEF PhasesOK
  <2>2. QueuedIn(outCreditQueue, u) \in Nat
    BY <1>3, QueuedInIsPositions DEF Queues
  <2>3. /\ u # v => QueuedIn(outCreditQueue', u) = QueuedIn(outCreditQueue, u)
        /\ FreeIn(outCreditQueue', u) <=> FreeIn(outCreditQueue, u)
    BY <1>4, <2>2
  <2>4. UNCHANGED <<idle, left, m_stall_queue>>
    BY <1>2
  <2> QED
    BY <1>1, <2>1, <2>3, <2>4, Zenon DEF PhaseOK
<1> QED
  BY <1>4, <1>5, <1>6, <1>7, <1>8, <1>9 DEF IInv

LEMMA ConsumeLinkIInv ==
  ASSUME IInv, ConsumeLink
  PROVE  IInv'
<1>1. CASE inLink # NoFlit
  <2>1. EjectTail \/ StallTail \/ EatFlit
    BY <1>1 DEF ConsumeLink
  <2> QED
    BY <1>1, <2>1, EjectTailIInv, StallTailIInv, EatFlitIInv
<1>2. CASE inLink = NoFlit
  <2>1. /\ ni' = "done" /\ linkNext' = (linkNext \/ outCreditQueue' # <<>>)
        /\ UNCHANGED <<left, idle, credit, inLink, m_stall_queue, m_stall_count,
                       messageEnqueuedThisCycle, outCreditQueue, ready, entered,
                       popped, callback, niNext, link>>
    BY <1>2 DEF ConsumeLink, upstream
  <2>2. Numbers' /\ Queues' /\ RoomOK' /\ StalledOnce' /\ FreeIsLast'
    BY <2>1 DEF IInv, Numbers, Queues, RoomOK, StalledOnce, FreeIsLast
  <2>3. CallbacksOK' /\ SlotsOK' /\ PhasesOK'
    BY <2>1 DEF IInv, CallbacksOK, SlotsOK, PhasesOK, PhaseOK
  <2>4. Flags'
    BY <2>1 DEF IInv, Flags
  <2>5. NothingFits' /\ LinkIsRead'
    BY <1>2, <2>1 DEF NothingFits, LinkIsRead
  <2> QED
    BY <2>2, <2>3, <2>4, <2>5 DEF IInv
<1> QED
  BY <1>1, <1>2

\* The credit goes to the router; the VC may become idle there.
LEMMA CreditLinkWakeupIInv ==
  ASSUME IInv, CreditLinkWakeup
  PROVE  IInv'
<1>1. /\ link' = FALSE /\ ni # "link"
      /\ UNCHANGED <<left, inLink, m_stall_queue, m_stall_count,
                     messageEnqueuedThisCycle, ready, entered, popped, callback,
                     ni, niNext, linkNext>>
  BY DEF CreditLinkWakeup, stall, buffers
<1>2. /\ Numbers /\ Flags /\ Queues /\ RoomOK /\ StalledOnce /\ CallbacksOK
      /\ SlotsOK /\ PhasesOK /\ FreeIsLast /\ LinkIsRead
  BY DEF IInv
<1>3. /\ RoomOK' /\ StalledOnce' /\ CallbacksOK' /\ NothingFits' /\ LinkIsRead'
  BY <1>1, <1>2 DEF RoomOK, StalledOnce, CallbacksOK, NothingFits, LinkIsRead
<1>4. CASE outCreditQueue = <<>>
  <2>1. UNCHANGED <<credit, idle, outCreditQueue>>
    BY <1>4 DEF CreditLinkWakeup
  <2>2. Numbers' /\ Queues' /\ FreeIsLast' /\ SlotsOK' /\ PhasesOK'
    BY <1>1, <1>2, <2>1 DEF Numbers, Queues, FreeIsLast, SlotsOK, PhasesOK, PhaseOK
  <2>3. Flags'
    BY <1>1, <1>2, <2>1 DEF Flags
  <2> QED
    BY <1>3, <2>2, <2>3 DEF IInv
<1>5. CASE outCreditQueue # <<>>
  <2> DEFINE c == Head(outCreditQueue)
             v == c.vc
  <2>1. /\ credit' = [credit EXCEPT ![v] = @ + 1]
        /\ idle' = [idle EXCEPT ![v] = @ \/ c.is_free_signal]
        /\ outCreditQueue' = Tail(outCreditQueue)
    BY <1>5 DEF CreditLinkWakeup
  <2>2. /\ c \in Credit /\ outCreditQueue' \in Seq(Credit)
        /\ \A u \in VCs : QueuedIn(outCreditQueue', u)
                           = QueuedIn(outCreditQueue, u) - (IF u = v THEN 1 ELSE 0)
        /\ \A u \in VCs : FreeIn(outCreditQueue', u) => FreeIn(outCreditQueue, u)
        /\ FreeIsLast'
        /\ c.is_free_signal =>
             FreeIn(outCreditQueue, v) /\ QueuedIn(outCreditQueue', v) = 0
    BY <1>2, <1>5, <2>1, CreditIsTaken DEF Queues, FreeIsLast
  <2>3. v \in VCs /\ c.is_free_signal \in BOOLEAN
    BY <2>2 DEF Credit
  <2> HIDE DEF c, v
  <2>4. \A u \in VCs : QueuedIn(outCreditQueue, u) \in Nat /\ QueuedIn(outCreditQueue', u) \in Nat
    BY <1>2, <2>2, QueuedInIsPositions DEF Queues
  <2>5. \A u \in VCs : credit'[u] = credit[u] + (IF u = v THEN 1 ELSE 0)
    BY <1>2, <2>1 DEF Numbers
  <2>6. \A u \in VCs :
          /\ MaxCredit = credit'[u] + QueuedIn(outCreditQueue', u)
                        + (IF inLink.vc = u THEN 1 ELSE 0)
                        + (IF u \in Range(m_stall_queue) THEN 1 ELSE 0)
          /\ credit'[u] \in 0 .. MaxCredit
    <3> TAKE u \in VCs
    <3>1. /\ MaxCredit = credit[u] + QueuedIn(outCreditQueue, u)
                        + (IF inLink.vc = u THEN 1 ELSE 0)
                        + (IF u \in Range(m_stall_queue) THEN 1 ELSE 0)
          /\ credit[u] \in Nat /\ MaxCredit \in Nat
      BY <1>2, Parameters DEF SlotsOK, Numbers
    <3>2. /\ QueuedIn(outCreditQueue', u) = QueuedIn(outCreditQueue, u) - (IF u = v THEN 1 ELSE 0)
          /\ credit'[u] = credit[u] + (IF u = v THEN 1 ELSE 0)
          /\ QueuedIn(outCreditQueue, u) \in Nat /\ QueuedIn(outCreditQueue', u) \in Nat
      BY <2>2, <2>4, <2>5
    <3> QED
      BY <3>1, <3>2
  <2>7. SlotsOK'
    BY <1>1, <2>6 DEF SlotsOK
  <2>8. credit' \in [VCs -> 0 .. MaxCredit]
    <3>1. DOMAIN credit' = VCs /\ credit' = [u \in VCs |-> credit'[u]]
      BY <1>2, <2>1 DEF Numbers
    <3> QED
      BY <2>6, <3>1
  <2>9. Numbers' /\ Queues'
    BY <1>1, <1>2, <2>2, <2>8 DEF Numbers, Queues
  <2>10. Flags'
    BY <1>1, <1>2, <2>1, <2>3 DEF Flags
  <2>11. PhasesOK'
    <3> SUFFICES ASSUME NEW u \in VCs PROVE PhaseOK(u)'
      BY DEF PhasesOK
    <3>1. PhaseOK(u)
      BY <1>2 DEF PhasesOK
    <3>2. CASE u = v /\ c.is_free_signal
      <4>1. FreeIn(outCreditQueue, u) /\ QueuedIn(outCreditQueue', u) = 0
        BY <2>2, <3>2
      <4>2. ~ FreeIn(outCreditQueue', u)
        <5>1. \A k \in DOMAIN outCreditQueue' : outCreditQueue'[k].vc # u
          BY <2>2, <4>1, QueuedInIsPositions
        <5> QED
          BY <5>1, Zenon DEF FreeIn
      <4>3. left[u] = 0
        BY <1>2, <3>1, <4>1 DEF PhaseOK, Numbers
      <4>4. inLink.vc # u /\ u \notin Range(m_stall_queue)
        BY <3>1, <4>1 DEF PhaseOK
      <4> QED
        BY <1>1, <4>1, <4>2, <4>3, <4>4 DEF PhaseOK
    <3>3. CASE ~ (u = v /\ c.is_free_signal)
      <4>1. idle'[u] <=> idle[u]
        BY <1>2, <2>1, <2>3, <3>3 DEF Flags
      <4>2. QueuedIn(outCreditQueue, u) = 0 => QueuedIn(outCreditQueue', u) = 0
        BY <2>2, <2>4
      <4>3. FreeIn(outCreditQueue', u) => FreeIn(outCreditQueue, u)
        BY <2>2
      <4>4. UNCHANGED <<left, inLink, m_stall_queue>>
        BY <1>1
      <4> QED
        BY <3>1, <4>1, <4>2, <4>3, <4>4, Zenon DEF PhaseOK
    <3> QED
      BY <3>2, <3>3
  <2> QED
    BY <1>3, <2>2, <2>7, <2>9, <2>10, <2>11 DEF IInv
<1> QED
  BY <1>4, <1>5

\* The protocol takes a message.
LEMMA DequeueIInv ==
  ASSUME IInv, NEW n \in Vnets, Dequeue(n)
  PROVE  IInv'
<1>1. /\ ni # "link" /\ ready[n] > 0
      /\ ready' = [ready EXCEPT ![n] = @ - 1]
      /\ popped' = [popped EXCEPT ![n] = @ + 1]
      /\ niNext' = (niNext \/ callback[n])
      /\ UNCHANGED <<left, idle, credit, inLink, m_stall_queue, m_stall_count,
                     messageEnqueuedThisCycle, outCreditQueue, entered, callback,
                     ni, link, linkNext>>
  BY DEF Dequeue, upstream, stall
<1>2. /\ Numbers /\ Flags /\ Queues /\ RoomOK /\ StalledOnce /\ CallbacksOK
      /\ SlotsOK /\ PhasesOK /\ FreeIsLast /\ LinkIsRead
  BY DEF IInv
<1>3. \A m \in Vnets : /\ ready'[m] \in 0 .. Slots /\ popped'[m] \in 0 .. Slots
                       /\ ready'[m] + entered[m] + popped'[m] <= Slots
  <2> TAKE m \in Vnets
  <2>1. /\ ready'[m] = ready[m] - (IF m = n THEN 1 ELSE 0)
        /\ popped'[m] = popped[m] + (IF m = n THEN 1 ELSE 0)
    BY <1>1, <1>2 DEF Numbers
  <2>2. /\ ready[m] \in Nat /\ entered[m] \in Nat /\ popped[m] \in Nat /\ Slots \in Nat
        /\ ready[m] + entered[m] + popped[m] <= Slots
    BY <1>2, Parameters DEF Numbers, RoomOK
  <2> QED
    BY <1>1, <2>1, <2>2
<1>4. ready' \in [Vnets -> 0 .. Slots] /\ popped' \in [Vnets -> 0 .. Slots]
  <2>1. /\ DOMAIN ready' = Vnets /\ ready' = [m \in Vnets |-> ready'[m]]
        /\ DOMAIN popped' = Vnets /\ popped' = [m \in Vnets |-> popped'[m]]
    BY <1>1, <1>2 DEF Numbers
  <2> QED
    BY <1>3, <2>1
<1>5. Numbers' /\ Queues' /\ RoomOK'
  BY <1>1, <1>2, <1>3, <1>4 DEF Numbers, Queues, RoomOK
<1>6. Flags'
  BY <1>1, <1>2 DEF Flags
<1>7. /\ StalledOnce' /\ CallbacksOK' /\ SlotsOK' /\ PhasesOK' /\ FreeIsLast'
      /\ NothingFits' /\ LinkIsRead'
  BY <1>1, <1>2 DEF StalledOnce, CallbacksOK, SlotsOK, PhasesOK, PhaseOK, FreeIsLast,
                    NothingFits, LinkIsRead
<1> QED
  BY <1>5, <1>6, <1>7 DEF IInv

\* The flit that arrives was paid for with a credit.
LEMMA ArrivalOK ==
  ASSUME IInv, inLink = NoFlit, NEW v \in VCs, NEW rest \in 0 .. MaxFlits - 1,
         Arrival(v, rest), credit[v] > 0,
         v \notin Range(m_stall_queue), ~ FreeIn(outCreditQueue, v),
         UNCHANGED <<m_stall_queue, outCreditQueue>>
  PROVE  /\ inLink' \in Flit /\ left' \in [VCs -> 0 .. MaxFlits - 1]
         /\ credit' \in [VCs -> 0 .. MaxCredit] /\ idle' \in [VCs -> BOOLEAN]
         /\ SlotsOK' /\ PhasesOK'
<1>1. /\ inLink' = [vc |-> v, tail |-> rest = 0]
      /\ left' = [left EXCEPT ![v] = rest]
      /\ idle' = [idle EXCEPT ![v] = FALSE]
      /\ credit' = [credit EXCEPT ![v] = @ - 1]
  BY DEF Arrival
<1>2. Numbers /\ Flags /\ Queues /\ SlotsOK /\ PhasesOK
  BY DEF IInv
<1>3. inLink' \in Flit /\ inLink'.vc = v /\ (inLink'.tail <=> rest = 0)
  BY <1>1 DEF Flit
<1>4. left' \in [VCs -> 0 .. MaxFlits - 1]
  BY <1>1, <1>2 DEF Numbers
<1>5. credit' \in [VCs -> 0 .. MaxCredit]
  BY <1>1, <1>2, Parameters DEF Numbers
<1>6. idle' \in [VCs -> BOOLEAN]
  BY <1>1, <1>2 DEF Flags
<1>7. SlotsOK'
  <2> SUFFICES ASSUME NEW u \in VCs
               PROVE  MaxCredit = credit'[u] + QueuedIn(outCreditQueue, u)
                        + (IF inLink'.vc = u THEN 1 ELSE 0)
                        + (IF u \in Range(m_stall_queue) THEN 1 ELSE 0)
    BY DEF SlotsOK
  <2>1. /\ MaxCredit = credit[u] + QueuedIn(outCreditQueue, u)
                        + (IF inLink.vc = u THEN 1 ELSE 0)
                        + (IF u \in Range(m_stall_queue) THEN 1 ELSE 0)
        /\ credit[u] \in Nat /\ MaxCredit \in Nat
    BY <1>2, Parameters DEF SlotsOK, Numbers
  <2>2. QueuedIn(outCreditQueue, u) \in Nat
    BY <1>2, QueuedInIsPositions DEF Queues
  <2>3. inLink.vc # u /\ credit'[u] = credit[u] - (IF u = v THEN 1 ELSE 0)
    BY <1>1, <1>2, NoFlitIsNowhere DEF Numbers
  <2> QED
    BY <1>3, <2>1, <2>2, <2>3
<1>8. PhasesOK'
  <2> SUFFICES ASSUME NEW u \in VCs PROVE PhaseOK(u)'
    BY DEF PhasesOK
  <2>1. PhaseOK(u)
    BY <1>2 DEF PhasesOK
  <2>2. CASE u = v
    <3>1. left'[u] = rest /\ ~ idle'[u]
      BY <1>1, <1>2, <2>2 DEF Numbers, Flags
    <3> QED
      BY <1>3, <2>2, <3>1 DEF PhaseOK
  <2>3. CASE u # v
    <3>1. left'[u] = left[u] /\ idle'[u] = idle[u] /\ inLink'.vc # u
      BY <1>1, <1>2, <1>3, <2>3 DEF Numbers, Flags
    <3> QED
      BY <2>1, <3>1 DEF PhaseOK
  <2> QED
    BY <2>2, <2>3
<1> QED
  BY <1>3, <1>4, <1>5, <1>6, <1>7, <1>8

\* A cycle begins.
LEMMA CycleIInv ==
  ASSUME IInv, NEW other \in BOOLEAN, Cycle(other)
  PROVE  IInv'
<1>0. inLink = NoFlit
  BY DEF Cycle, IInv, LinkIsRead
<1>1. /\ ni' = IF niNext \/ inLink' # NoFlit \/ other THEN "stalled" ELSE "done"
      /\ niNext' = FALSE /\ link' = linkNext /\ linkNext' = FALSE
      /\ ready' = [n \in Vnets |-> ready[n] + entered[n]]
      /\ entered' = [n \in Vnets |-> 0]
      /\ popped' = [n \in Vnets |-> 0]
      /\ UNCHANGED <<m_stall_queue, m_stall_count, messageEnqueuedThisCycle,
                     outCreditQueue, callback>>
  BY DEF Cycle, stall
<1>2. /\ Numbers /\ Flags /\ Queues /\ RoomOK /\ StalledOnce /\ CallbacksOK
      /\ SlotsOK /\ PhasesOK /\ FreeIsLast /\ LinkIsRead
  BY DEF IInv
<1>3. /\ inLink' \in Flit \cup {NoFlit} /\ left' \in [VCs -> 0 .. MaxFlits - 1]
      /\ credit' \in [VCs -> 0 .. MaxCredit] /\ idle' \in [VCs -> BOOLEAN]
      /\ SlotsOK' /\ PhasesOK'
  <2>1. CASE NoArrival
    <3>1. UNCHANGED <<left, idle, credit, inLink>> /\ inLink' = NoFlit
      BY <1>0, <2>1 DEF NoArrival, upstream
    <3> QED
      BY <1>0, <1>1, <1>2, <3>1 DEF Numbers, Flags, SlotsOK, PhasesOK, PhaseOK
  <2>2. CASE \E v \in VCs : HeadArrives(v)
    <3>1. PICK v \in VCs : HeadArrives(v)
      BY <2>2
    <3>2. PICK rest \in 0 .. MaxFlits - 1 : Arrival(v, rest)
      <4>1. PICK n \in 1 .. MaxFlits : Arrival(v, n - 1)
        BY <3>1 DEF HeadArrives
      <4>2. n - 1 \in 0 .. MaxFlits - 1
        BY Parameters
      <4> QED
        BY <4>1, <4>2
    <3>3. /\ idle[v] /\ v \notin Range(m_stall_queue)
          /\ QueuedIn(outCreditQueue, v) = 0
      BY <1>2, <3>1 DEF HeadArrives, PhasesOK, PhaseOK
    <3>4. ~ FreeIn(outCreditQueue, v)
      BY <1>2, <3>3, QueuedInIsPositions DEF FreeIn, Queues
    <3>5. credit[v] > 0
      <4>1. /\ MaxCredit = credit[v] + 0 + 0 + 0
            /\ credit[v] \in Nat /\ MaxCredit \in Nat \ {0}
        BY <1>0, <1>2, <3>3, NoFlitIsNowhere, Parameters DEF SlotsOK, Numbers
      <4> QED
        BY <4>1
    <3> QED
      BY <1>0, <1>1, <3>2, <3>3, <3>4, <3>5, ArrivalOK
  <2>3. CASE \E v \in VCs : BodyArrives(v)
    <3>1. PICK v \in VCs : BodyArrives(v)
      BY <2>3
    <3>2. /\ left[v] - 1 \in 0 .. MaxFlits - 1 /\ left[v] > 0 /\ credit[v] > 0
          /\ Arrival(v, left[v] - 1)
      BY <1>2, <3>1, Parameters DEF BodyArrives, Numbers
    <3>3. v \notin Range(m_stall_queue) /\ ~ FreeIn(outCreditQueue, v)
      BY <1>2, <3>2 DEF PhasesOK, PhaseOK
    <3> QED
      BY <1>0, <1>1, <3>2, <3>3, ArrivalOK
  <2> QED
    BY <2>1, <2>2, <2>3 DEF Cycle
<1>4. \A n \in Vnets : /\ ready'[n] \in 0 .. Slots
                       /\ ready'[n] + entered'[n] + popped'[n] <= Slots
  <2> TAKE n \in Vnets
  <2>1. /\ ready[n] \in Nat /\ entered[n] \in Nat /\ popped[n] \in Nat /\ Slots \in Nat
        /\ ready[n] + entered[n] + popped[n] <= Slots
    BY <1>2, Parameters DEF Numbers, RoomOK
  <2>2. ready'[n] = ready[n] + entered[n] /\ entered'[n] = 0 /\ popped'[n] = 0
    BY <1>1
  <2> QED
    BY <2>1, <2>2
<1>5. /\ ready' \in [Vnets -> 0 .. Slots] /\ entered' \in [Vnets -> 0 .. Slots]
      /\ popped' \in [Vnets -> 0 .. Slots]
  <2>1. DOMAIN ready' = Vnets /\ ready' = [n \in Vnets |-> ready'[n]]
    BY <1>1
  <2>2. 0 \in 0 .. Slots
    BY Parameters
  <2> QED
    BY <1>1, <1>4, <2>1, <2>2
<1>6. Numbers' /\ Queues' /\ RoomOK'
  BY <1>0, <1>1, <1>2, <1>3, <1>4, <1>5 DEF Numbers, Queues, RoomOK
<1>7. Flags'
  BY <1>0, <1>1, <1>2, <1>3 DEF Flags
<1>8. StalledOnce' /\ CallbacksOK' /\ FreeIsLast' /\ NothingFits' /\ LinkIsRead'
  BY <1>1, <1>2 DEF StalledOnce, CallbacksOK, FreeIsLast, NothingFits, LinkIsRead
<1> QED
  BY <1>3, <1>6, <1>7, <1>8 DEF IInv

LEMMA StutterIInv ==
  ASSUME IInv, UNCHANGED vars
  PROVE  IInv'
<1>1. UNCHANGED <<left, idle, credit, inLink, m_stall_queue, m_stall_count,
                 messageEnqueuedThisCycle, outCreditQueue, ready, entered, popped,
                 callback, ni, niNext, link, linkNext>>
  BY DEF vars, upstream, stall, buffers, schedule
<1>2. Numbers' /\ Queues' /\ RoomOK' /\ StalledOnce' /\ FreeIsLast'
  BY <1>1 DEF IInv, Numbers, Queues, RoomOK, StalledOnce, FreeIsLast
<1>3. CallbacksOK' /\ SlotsOK' /\ PhasesOK'
  BY <1>1 DEF IInv, CallbacksOK, SlotsOK, PhasesOK, PhaseOK
<1>4. Flags'
  BY <1>1 DEF IInv, Flags
<1>5. NothingFits' /\ LinkIsRead'
  BY <1>1 DEF IInv, NothingFits, LinkIsRead, Unstallable, SlotAvailable
<1> QED
  BY <1>2, <1>3, <1>4, <1>5 DEF IInv

LEMMA Invariance == Spec => []IInv
<1>1. IInv /\ [Next]_vars => IInv'
  <2> SUFFICES ASSUME IInv, [Next]_vars
               PROVE  IInv'
    OBVIOUS
  <2>1. CASE checkStallQueue
    BY <2>1, UnstallIInv, NothingUnstalledIInv
  <2>2. CASE ConsumeLink
    BY <2>2, ConsumeLinkIInv
  <2>3. CASE CreditLinkWakeup
    BY <2>3, CreditLinkWakeupIInv
  <2>4. CASE \E n \in Vnets : Dequeue(n)
    BY <2>4, DequeueIInv
  <2>5. CASE \E other \in BOOLEAN : Cycle(other)
    BY <2>5, CycleIInv
  <2>6. CASE UNCHANGED vars
    BY <2>6, StutterIInv
  <2> QED
    BY <2>1, <2>2, <2>3, <2>4, <2>5, <2>6 DEF Next, NetworkInterfaceWakeup
<1> QED
  BY <1>1, InitIInv, PTL DEF Spec

-----------------------------------------------------------------------------
\* Nothing is taken or given twice: slots of the MessageBuffers, credits and
\* stalled tails stay within their bounds.
THEOREM TypeCorrect == Spec => []TypeOK
<1>1. IInv => TypeOK
  BY TypeParts DEF IInv
<1> QED
  BY <1>1, Invariance, PTL

\* A MessageBuffer calls back exactly while a tail of its vnet is stalled.
THEOREM CallbacksAreKept == Spec => []CallbackWhileStalled
<1>1. IInv => CallbackWhileStalled
  BY DEF IInv, CallbacksOK, CallbackWhileStalled, StallsIn
<1> QED
  BY <1>1, Invariance, PTL

\* A slot of an input VC is a credit upstream, a flit that arrives, a stalled
\* tail or a queued credit.
THEOREM NoSlotIsLost == Spec => []SlotsAccountedFor
<1>1. IInv => SlotsAccountedFor
  BY DEF IInv, SlotsOK, RoomOK, SlotsAccountedFor, QueuedIn, Queued, Stalled
<1> QED
  BY <1>1, Invariance, PTL

\* The router takes a VC for idle only when nothing of its packet is left here.
THEOREM IdleIsEmpty == Spec => []IdleVCsAreEmpty
<1>1. IInv => IdleVCsAreEmpty
  BY DEF IInv, PhasesOK, PhaseOK, IdleVCsAreEmpty, QueuedIn, Queued, Stalled
<1> QED
  BY <1>1, Invariance, PTL

\* What is unstalled is the first message of its vnet.
LEMMA UnstallsFirst ==
  ASSUME IInv, checkStallQueue, Unstallable # {}, NEW n \in Vnets
  PROVE  FirstEnters(n)
<1> DEFINE k == Min(Unstallable)
           v == m_stall_queue[k]
<1>1. /\ Numbers /\ m_stall_queue \in Seq(VCs) /\ IsInjective(m_stall_queue)
      /\ DOMAIN m_stall_queue = 1 .. Len(m_stall_queue) /\ Len(m_stall_queue) \in Nat
  BY LenProperties DEF IInv, Queues, StalledOnce
<1>2. k \in Unstallable /\ \A j \in Unstallable : k <= j
  <2>1. Unstallable \subseteq Nat
    BY <1>1 DEF Unstallable
  <2> QED
    BY <2>1, MinIsLeast
<1> HIDE DEF k
<1>3. k \in DOMAIN m_stall_queue /\ SlotAvailable(VnetOf[v])
  BY <1>2 DEF Unstallable
<1>4. v \notin Range(m_stall_queue')
  <2>1. m_stall_queue' = RemoveAt(m_stall_queue, k)
    BY DEF checkStallQueue, Unstall, k
  <2> QED
    BY <1>1, <1>3, <2>1, TailIsUnstalled
<1>5. CASE n # VnetOf[v]
  <2>1. entered' = [entered EXCEPT ![VnetOf[v]] = @ + 1]
    BY DEF checkStallQueue, Unstall, Enqueue, k
  <2>2. entered'[n] = entered[n] /\ entered[n] \in Nat
    BY <1>1, <1>5, <2>1, Parameters DEF Numbers
  <2> QED
    BY <2>2 DEF FirstEnters
<1>6. CASE n = VnetOf[v]
  <2> DEFINE IsFirst(i) == /\ VnetOf[m_stall_queue[i]] = n
                           /\ \A j \in 1 .. i - 1 : VnetOf[m_stall_queue[j]] # n
  <2>1. IsFirst(k)
    <3> SUFFICES ASSUME NEW j \in 1 .. k - 1, VnetOf[m_stall_queue[j]] = n
                 PROVE  FALSE
      BY <1>6
    <3>1. j \in DOMAIN m_stall_queue /\ j < k
      BY <1>1, <1>3
    <3>2. j \in Unstallable
      BY <1>3, <1>6, <3>1 DEF Unstallable
    <3> QED
      BY <1>1, <1>2, <1>3, <3>1, <3>2
  <2>2. \A i \in DOMAIN m_stall_queue : IsFirst(i) => i = k
    <3> TAKE i \in DOMAIN m_stall_queue
    <3>1. CASE i < k
      BY <1>1, <1>3, <2>1, <3>1
    <3>2. CASE i > k
      BY <1>1, <1>3, <2>1, <3>2
    <3> QED
      BY <1>1, <1>3, <3>1, <3>2
  <2>3. FirstStalled(n) = CHOOSE i \in DOMAIN m_stall_queue : IsFirst(i)
    BY Zenon DEF FirstStalled
  <2> HIDE DEF IsFirst
  <2>4. FirstStalled(n) = k
    BY <1>3, <2>1, <2>2, <2>3, Zenon
  <2> QED
    BY <1>4, <2>4, Zenon DEF FirstEnters
<1> QED
  BY <1>5, <1>6

\* A tail that enters at once finds none of its vnet stalled.
LEMMA EjectsUnstalled ==
  ASSUME IInv, ConsumeLink, inLink # NoFlit, EjectTail, NEW n \in Vnets
  PROVE  FirstEnters(n)
<1> DEFINE m == VnetOf[inLink.vc]
<1>1. /\ Unstallable = {} /\ SlotAvailable(m) /\ m \in Vnets
  BY FlitOnLink DEF IInv, NothingFits, ConsumeLink, EjectTail
<1>2. CASE n = m
  <2>1. \A k \in DOMAIN m_stall_queue : VnetOf[m_stall_queue[k]] # n
    BY <1>1, <1>2 DEF Unstallable
  <2>2. StallsIn(m_stall_queue, n) = 0
    BY <2>1, StallsInIsPositions DEF IInv, Queues
  <2>3. m_stall_count[n] = 0
    BY <2>2 DEF IInv, CallbacksOK
  <2> QED
    BY <2>3 DEF FirstEnters
<1>3. CASE n # m
  <2>1. entered'[n] = entered[n] /\ entered[n] \in Nat
    BY <1>3, Parameters DEF IInv, Numbers, EjectTail, Enqueue
  <2> QED
    BY <2>1 DEF FirstEnters
<1> QED
  BY <1>2, <1>3

\* Messages of a vnet enter its MessageBuffer in the order of their tails.
THEOREM OrderIsKept == Spec => NoOvertaking
<1>1. IInv /\ [Next]_vars => [\A n \in Vnets : FirstEnters(n)]_vars
  <2> SUFFICES ASSUME IInv, Next, NEW n \in Vnets
               PROVE  FirstEnters(n)
    OBVIOUS
  <2>1. entered[n] \in Nat
    BY Parameters DEF IInv, Numbers
  <2>2. CASE entered' = entered
    BY <2>1, <2>2 DEF FirstEnters
  <2>3. CASE checkStallQueue
    BY <2>2, <2>3, UnstallsFirst DEF checkStallQueue
  <2>4. CASE ConsumeLink
    <3>1. CASE inLink = NoFlit \/ ~ EjectTail
      <4>1. entered' = entered
        BY <2>4, <3>1 DEF ConsumeLink, StallTail, EatFlit
      <4> QED
        BY <2>2, <4>1
    <3>2. CASE inLink # NoFlit /\ EjectTail
      BY <2>4, <3>2, EjectsUnstalled
    <3> QED
      BY <3>1, <3>2
  <2>5. CASE CreditLinkWakeup
    BY <2>2, <2>5 DEF CreditLinkWakeup, buffers
  <2>6. CASE \E m \in Vnets : Dequeue(m)
    BY <2>2, <2>6 DEF Dequeue
  <2>7. CASE \E other \in BOOLEAN : Cycle(other)
    <3>1. entered'[n] = 0
      BY <2>7 DEF Cycle
    <3> QED
      BY <2>1, <3>1 DEF FirstEnters
  <2> QED
    BY <2>3, <2>4, <2>5, <2>6, <2>7 DEF Next, NetworkInterfaceWakeup
<1> QED
  BY <1>1, Invariance, PTL DEF Spec, NoOvertaking
=============================================================================
