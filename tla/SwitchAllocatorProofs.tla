------------------------ MODULE SwitchAllocatorProofs ------------------------
(***************************************************************************)
(* Proofs about SwitchAllocator, for any ports, VCs, flits and any TDM     *)
(* schedule that satisfies NoOverload.                                     *)
(*                                                                         *)
(* The inductive invariant counts: while permutation_CHIPPER runs, there   *)
(* are at least as many available non-local output ports as flits of non-  *)
(* local input ports still without one.                                    *)
(***************************************************************************)
EXTENDS SwitchAllocator, FiniteSetTheorems, WellFoundedInduction, TLAPS

\* The flits of Local input ports: gold ones stay in the router's own
\* network interfaces, the others leave the router.
LocalFlitsOK ==
  \A i \in LocalIn, v \in VCs :
    top[i][v] # NoFlit => (top[i][v].gold <=> top[i][v].prefer \in LocalOut)

\* A non-local input port holds a flit only if its link could deliver one in
\* this wave and has been read, and never two.
ArrivalsOK ==
  pc \in {"input", "permute", "outports"} =>
    \A i \in NonLocalIn :
      /\ Occupied(i) # {} => i \in MayArrive(wave)
      /\ pc = "input" /\ i \in todo => Occupied(i) = {}
      /\ \A u, v \in Occupied(i) : u = v

\* What SA-I picked is what is in the VCs.
PickedOK ==
  pc \in {"permute", "outports"} =>
    \A i \in InPorts :
      /\ picked[i] = NoFlit <=> Occupied(i) = {}
      /\ picked[i] # NoFlit => picked[i] = top[i][pickedVC[i]]

Allocated == Picked \ todo

\* What permutation_CHIPPER did so far.
AllocatedOK ==
  pc \in {"permute", "outports", "done"} =>
    /\ todo \subseteq Picked
    /\ ava \subseteq Available(wave)
    /\ \A i \in Allocated :
         /\ port[i] \in OutPorts
         /\ i \in NonLocalIn => flag[i]
         /\ i \in LocalIn /\ (picked[i].gold \/ ~flag[i])
              => port[i] = picked[i].prefer
         /\ i \in LocalIn /\ picked[i].gold => port[i] \in LocalOut
         /\ i \in LocalIn /\ ~picked[i].gold => port[i] \in NonLocalOut
         /\ Reserved(i) => port[i] \in Available(wave) \ ava
         /\ i \in LocalIn /\ ~flag[i] => port[i] \notin ava

\* No output port is reserved twice.
Exclusive ==
  pc \in {"permute", "outports", "done"} =>
    \A i, j \in Allocated :
      Reserved(i) /\ Reserved(j) /\ port[i] = port[j] => i = j

\* A stalled Local flit asks for a port reserved for a Local flit only if that
\* flit's input port comes first.
LocalOrder ==
  pc \in {"permute", "outports", "done"} =>
    \A i \in Allocated \cap LocalIn : ~picked[i].gold =>
      /\ GoldTodo = {} /\ todo \subseteq LocalIn
      /\ \A j \in todo : i < j
      /\ \A j \in Allocated \cap LocalIn :
           Reserved(i) /\ ~flag[j] /\ port[i] = port[j] => i < j

\* The counting argument.
EnoughPorts ==
  pc = "permute" =>
    Cardinality(todo \cap NonLocalIn) <= Cardinality(ava \cap NonLocalOut)

RequestsOK ==
  /\ pc \in {"input", "permute"} => req = {}
  /\ pc \in {"outports", "done"} =>
       /\ todo = {}
       /\ req = {<<port[i], i>> : i \in {j \in Picked : send_allowed(j)}}
  /\ pc = "done" =>
       /\ \A o \in OutPorts : sent[o] = Winner(o)
       /\ \A i \in NonLocalIn : Occupied(i) = {}

IInv ==
  /\ TypeOK
  /\ NoAssertionFails
  /\ LocalFlitsOK
  /\ ArrivalsOK
  /\ PickedOK
  /\ AllocatedOK
  /\ Exclusive
  /\ LocalOrder
  /\ EnoughPorts
  /\ RequestsOK

-----------------------------------------------------------------------------
\* A non-empty set of naturals has a least member.
LEMMA MinExists ==
  ASSUME NEW S, S \subseteq Nat, S # {}
  PROVE  \E x \in S : \A y \in S : x <= y
<1>1. \E x \in S : \A y \in S : ~ (<<y, x>> \in OpToRel(<, Nat))
  BY NatLessThanWellFounded, WFMin
<1>2. ASSUME NEW x \in S, NEW y \in S, ~ (<<y, x>> \in OpToRel(<, Nat))
      PROVE  x <= y
  BY <1>2 DEF OpToRel
<1> QED
  BY <1>1, <1>2

\* The scan over ports in ascending order finds the least one.
LEMMA FirstIsLeast ==
  ASSUME NEW S, S \subseteq Nat, S # {}
  PROVE  First(S) \in S /\ \A y \in S : First(S) <= y
  BY MinExists DEF First

\* The round robin scan finds a member of every non-empty set of VCs.
LEMMA FirstFromIsMember ==
  ASSUME NEW S, S \subseteq VCs, S # {}, NEW r \in VCs
  PROVE  FirstFrom(r, S) \in S
<1> DEFINE D == {(v - r) % NumVCs : v \in S}
<1>1. \A v \in S : (v - r) % NumVCs \in Nat
  BY PortAssumption DEF VCs
<1>2. D \subseteq Nat /\ D # {}
  BY <1>1
<1>3. PICK m \in D : \A y \in D : m <= y
  BY <1>2, MinExists
<1>4. \E v \in S : \A u \in S : (v - r) % NumVCs <= (u - r) % NumVCs
  BY <1>3
<1> QED
  BY <1>4 DEF FirstFrom

\* What getANonLocalOutport returns.
LEMMA DeflectionPorts ==
  ASSUME TypeOK, NEW i \in InPorts
  PROVE  /\ getANonLocalOutport(i) \subseteq (ava \cap NonLocalOut) \cup {None}
         /\ ava \cap NonLocalOut # {} => None \notin getANonLocalOutport(i)
<1>1. ava \cap NonLocalOut = Candidates(i) \cup UTurnPorts(i)
  BY DEF TypeOK, Candidates, UTurnPorts, NonLocalOut, LocalOut
<1>2. None \notin OutPorts
  BY PortAssumption DEF None
<1>3. Candidates(i) \subseteq OutPorts /\ UTurnPorts(i) \subseteq OutPorts
  BY DEF TypeOK, Candidates, UTurnPorts
<1> QED
  BY <1>1, <1>2, <1>3 DEF getANonLocalOutport

\* An empty VC is told from a flit by its output port.
LEMMA NoFlitIsNoFlit ==
  /\ NoFlit \notin Flit
  /\ \A f \in Flit : /\ f.gold \in BOOLEAN /\ f.id \in 0 .. MaxId
                     /\ f.prefer \in OutPorts
<1>1. None \notin OutPorts
  BY PortAssumption DEF None
<1> QED
  BY <1>1 DEF Flit, NoFlit

\* The inductive invariant holds of the router as it is constructed.
LEMMA InitIInv == Init => IInv
<1> SUFFICES ASSUME Init PROVE IInv
  OBVIOUS
<1> USE DEF Init
<1>1. 0 \in VCs /\ 0 \in Waves
  BY PortAssumption DEF VCs, Waves
<1>2. TypeOK
  BY <1>1, PortAssumption DEF TypeOK
<1>3. \A i \in InPorts : Occupied(i) = {}
  BY DEF Occupied
<1>4. LocalFlitsOK
  BY DEF LocalFlitsOK, LocalIn
<1>5. ArrivalsOK
  BY <1>3 DEF ArrivalsOK, NonLocalIn
<1> QED
  BY <1>2, <1>4, <1>5
  DEF IInv, NoAssertionFails, PickedOK, AllocatedOK, Exclusive, LocalOrder,
      EnoughPorts, RequestsOK

\* InputUnit::wakeup preserves the inductive invariant.
LEMMA InputStep ==
  ASSUME IInv, NEW i \in InPorts, InputUnitWakeup(i)
  PROVE  IInv'
<1> USE DEF InputUnitWakeup
<1>1. /\ TypeOK /\ LocalFlitsOK /\ ArrivalsOK /\ RequestsOK
      /\ pc = "input" /\ pc' = "input" /\ wave' = wave /\ req' = req
      /\ todo' = todo \ {i} /\ i \in todo
  BY DEF IInv
<1>2. Arrivals(i) \subseteq Flit
  BY DEF Arrivals
<1>3. CASE UNCHANGED top
  <2>1. TypeOK'
    BY <1>1, <1>3 DEF TypeOK
  <2>2. LocalFlitsOK'
    BY <1>1, <1>3 DEF LocalFlitsOK
  <2>3. \A j : Occupied(j)' = Occupied(j)
    BY <1>3 DEF Occupied
  <2>4. ArrivalsOK'
    BY <1>1, <2>3 DEF ArrivalsOK, MayArrive
  <2> QED
    BY <1>1, <2>1, <2>2, <2>4
    DEF IInv, NoAssertionFails, PickedOK, AllocatedOK, Exclusive, LocalOrder,
        EnoughPorts, RequestsOK
<1>4. CASE /\ i \in LocalIn \cup MayArrive(wave)
           /\ \E v \in VCs, f \in Arrivals(i) :
                /\ top[i][v] = NoFlit
                /\ top' = [top EXCEPT ![i][v] = f]
  <2>1. PICK v \in VCs, f \in Arrivals(i) :
          top[i][v] = NoFlit /\ top' = [top EXCEPT ![i][v] = f]
    BY <1>4
  <2>2. /\ \A j \in InPorts : j # i => top'[j] = top[j]
        /\ top'[i] = [top[i] EXCEPT ![v] = f]
        /\ top' \in [InPorts -> [VCs -> Flit \cup {NoFlit}]]
    BY <1>1, <1>2, <2>1 DEF TypeOK
  <2>3. top'[i][v] = f /\ \A u \in VCs : u # v => top'[i][u] = top[i][u]
    BY <1>1, <2>2 DEF TypeOK
  <2>4. TypeOK'
    BY <1>1, <2>2 DEF TypeOK
  <2>5. LocalFlitsOK'
    BY <1>1, <2>2, <2>3 DEF LocalFlitsOK, Arrivals, LocalIn
  <2>6. ArrivalsOK'
    <3>1. \A j \in InPorts : j # i => Occupied(j)' = Occupied(j)
      BY <2>2 DEF Occupied
    <3>2. i \in NonLocalIn => Occupied(i)' = {v} /\ i \in MayArrive(wave)
      <4>1. i \in NonLocalIn => Occupied(i) = {}
        BY <1>1 DEF ArrivalsOK
      <4>2. f # NoFlit
        BY <1>2, NoFlitIsNoFlit
      <4> QED
        BY <1>4, <2>3, <4>1, <4>2 DEF Occupied, NonLocalIn
    <3> QED
      BY <1>1, <3>1, <3>2 DEF ArrivalsOK, MayArrive, NonLocalIn
  <2> QED
    BY <1>1, <2>4, <2>5, <2>6
    DEF IInv, NoAssertionFails, PickedOK, AllocatedOK, Exclusive, LocalOrder,
        EnoughPorts, RequestsOK
<1> QED
  BY <1>3, <1>4

\* The first part of SA-I preserves the inductive invariant: NoOverload
\* gives the count EnoughPorts its initial value.
LEMMA PickStep ==
  ASSUME IInv, arbitrate_inports
  PROVE  IInv'
<1> USE DEF arbitrate_inports
<1>1. /\ TypeOK /\ LocalFlitsOK /\ ArrivalsOK /\ RequestsOK
      /\ pc = "input" /\ pc' = "permute" /\ wave' = wave /\ req' = req
      /\ todo = {} /\ top' = top /\ ava' = Available(wave)
      /\ todo' = {i \in InPorts : Occupied(i) # {}}
  BY DEF IInv
<1>2. \A i \in InPorts : Occupied(i) \subseteq VCs /\ Occupied(i)' = Occupied(i)
  BY <1>1 DEF Occupied
<1>3. \A i \in InPorts : Occupied(i) # {} =>
        FirstFrom(rrInvc[i], Occupied(i)) \in Occupied(i)
  BY <1>1, <1>2, FirstFromIsMember DEF TypeOK
<1>4. \A i \in InPorts :
        /\ Occupied(i) = {} => picked'[i] = NoFlit /\ pickedVC'[i] = rrInvc[i]
        /\ Occupied(i) # {} =>
             /\ pickedVC'[i] \in Occupied(i)
             /\ picked'[i] = top[i][pickedVC'[i]]
             /\ picked'[i] # NoFlit
  BY <1>3 DEF Occupied
<1>5. \A i \in InPorts :
        pickedVC'[i] \in VCs /\ picked'[i] \in Flit \cup {NoFlit}
  BY <1>1, <1>2, <1>4 DEF TypeOK
<1>6. TypeOK'
  <2>1. Available(wave) \subseteq OutPorts
    BY DEF Available
  <2>2. /\ picked' \in [InPorts -> Flit \cup {NoFlit}]
        /\ pickedVC' \in [InPorts -> VCs]
    BY <1>5
  <2> QED
    BY <1>1, <2>1, <2>2 DEF TypeOK
<1>7. LocalFlitsOK'
  BY <1>1 DEF LocalFlitsOK
<1>8. ArrivalsOK'
  BY <1>1, <1>2 DEF ArrivalsOK, MayArrive, NonLocalIn
<1>9. PickedOK'
  BY <1>1, <1>2, <1>4 DEF PickedOK
<1>10. Picked' = todo' /\ Allocated' = {}
  BY <1>1, <1>4 DEF Picked, Allocated
<1>11. AllocatedOK' /\ Exclusive' /\ LocalOrder'
  BY <1>1, <1>10 DEF AllocatedOK, Exclusive, LocalOrder, Available,
                     isLinkAvaliable
<1>12. EnoughPorts'
  <2>1. todo' \cap NonLocalIn \subseteq MayArrive(wave)
    BY <1>1 DEF ArrivalsOK
  <2>2. IsFiniteSet(MayArrive(wave))
    BY PortAssumption, FS_Subset DEF MayArrive, NonLocalIn
  <2>3. /\ IsFiniteSet(todo' \cap NonLocalIn)
        /\ Cardinality(todo' \cap NonLocalIn) <= Cardinality(MayArrive(wave))
    BY <2>1, <2>2, FS_Subset
  <2>4. Cardinality(MayArrive(wave))
          <= Cardinality(Available(wave) \cap NonLocalOut)
    BY <1>1, NoOverload DEF TypeOK
  <2>5. IsFiniteSet(Available(wave) \cap NonLocalOut)
    BY PortAssumption, FS_Subset DEF NonLocalOut
  <2>6. /\ Cardinality(todo' \cap NonLocalIn) \in Nat
        /\ Cardinality(MayArrive(wave)) \in Nat
        /\ Cardinality(Available(wave) \cap NonLocalOut) \in Nat
    BY <2>2, <2>3, <2>5, FS_CardinalityType
  <2>7. Cardinality(todo' \cap NonLocalIn)
          <= Cardinality(Available(wave) \cap NonLocalOut)
    BY <2>3, <2>4, <2>6
  <2>8. (todo \cap NonLocalIn)' = todo' \cap NonLocalIn
    OBVIOUS
  <2> QED
    BY <1>1, <2>7 DEF EnoughPorts
<1> QED
  BY <1>1, <1>6, <1>7, <1>8, <1>9, <1>11, <1>12
  DEF IInv, NoAssertionFails, RequestsOK

\* One flit and at most one port less on each side keeps the count.
LEMMA RemoveOne ==
  ASSUME NEW S, NEW T, IsFiniteSet(S), IsFiniteSet(T),
         Cardinality(S) <= Cardinality(T), NEW x \in S, NEW y
  PROVE  Cardinality(S \ {x}) <= Cardinality(T \ {y})
<1>1. /\ Cardinality(S) \in Nat /\ Cardinality(T) \in Nat
      /\ Cardinality(S \ {x}) = Cardinality(S) - 1
  BY FS_CardinalityType, FS_RemoveElement
<1>2. CASE y \in T
  <2>1. Cardinality(T \ {y}) = Cardinality(T) - 1
    BY <1>2, FS_RemoveElement
  <2> QED
    BY <1>1, <2>1
<1>3. CASE y \notin T
  <2>1. T \ {y} = T
    BY <1>3
  <2>2. Cardinality(T \ {y}) = Cardinality(T)
    BY <2>1
  <2> QED
    BY <1>1, <2>2
<1> QED
  BY <1>2, <1>3

\* What every action of permutation_CHIPPER does to one picked flit.
GrantOf(i, o, a) ==
  /\ pc = "permute" /\ i \in todo /\ o \in OutPorts /\ a \in BOOLEAN
  /\ Grant(i, o, a)
  /\ UNCHANGED <<wave, pc, top, rrInvc, picked, pickedVC, req, sent>>
  /\ \/ a /\ o \in ava /\ ava' = ava \ {o}
     \/ /\ ava' = ava /\ i \in LocalIn /\ o = picked[i].prefer
        /\ picked[i].gold = a /\ (~a => o \notin ava)
  /\ i \in NonLocalIn => a
  /\ i \in LocalIn /\ picked[i].gold => ava' = ava
  /\ i \in LocalIn /\ ~picked[i].gold =>
       /\ o \in NonLocalOut /\ GoldTodo = {} /\ todo \subseteq LocalIn
       /\ \A j \in todo : i <= j

\* Giving a picked flit its output port preserves the inductive invariant.
LEMMA GrantStep ==
  ASSUME IInv, NEW i, NEW o, NEW a, GrantOf(i, o, a)
  PROVE  IInv'
<1> USE DEF GrantOf, Grant
<1>1. /\ TypeOK /\ LocalFlitsOK /\ ArrivalsOK /\ PickedOK /\ AllocatedOK
      /\ Exclusive /\ LocalOrder /\ EnoughPorts /\ RequestsOK
      /\ pc = "permute" /\ pc' = pc /\ wave' = wave /\ top' = top
      /\ picked' = picked /\ pickedVC' = pickedVC /\ req' = req
      /\ sent' = sent /\ rrInvc' = rrInvc
      /\ todo' = todo \ {i} /\ ava' \subseteq ava
      /\ i \in InPorts /\ i \in todo /\ i \in Picked
  BY DEF IInv, TypeOK, AllocatedOK
<1>2. /\ port' \in [InPorts -> OutPorts \cup {None}]
      /\ flag' \in [InPorts -> BOOLEAN]
      /\ port'[i] = o /\ flag'[i] = a
      /\ \A j \in InPorts : j # i => port'[j] = port[j] /\ flag'[j] = flag[j]
  BY <1>1 DEF TypeOK
<1>3. TypeOK'
  BY <1>1, <1>2 DEF TypeOK
<1>4. \A j : Occupied(j)' = Occupied(j)
  BY <1>1 DEF Occupied
<1>5. LocalFlitsOK' /\ ArrivalsOK' /\ PickedOK' /\ RequestsOK'
  BY <1>1, <1>4 DEF LocalFlitsOK, ArrivalsOK, PickedOK, RequestsOK, MayArrive
<1>6. /\ Picked' = Picked
      /\ Allocated' = Allocated \cup {i}
      /\ i \notin Allocated /\ Allocated \subseteq InPorts
  BY <1>1 DEF Picked, Allocated
<1>7. \A j \in Allocated :
        /\ Reserved(j)' <=> Reserved(j)
        /\ port'[j] = port[j] /\ flag'[j] = flag[j]
  BY <1>1, <1>2, <1>6 DEF Reserved
<1>8. picked[i] = top[i][pickedVC[i]] /\ picked[i] \in Flit
  BY <1>1 DEF PickedOK, Picked, TypeOK
<1>9. i \in LocalIn => (picked[i].gold <=> picked[i].prefer \in LocalOut)
  BY <1>1, <1>8, NoFlitIsNoFlit DEF LocalFlitsOK, TypeOK
<1>10. AllocatedOK'
  <2>1. \A j \in Allocated :
         /\ port'[j] \in OutPorts
         /\ j \in NonLocalIn => flag'[j]
         /\ j \in LocalIn /\ (picked[j].gold \/ ~flag'[j])
              => port'[j] = picked[j].prefer
         /\ j \in LocalIn /\ picked[j].gold => port'[j] \in LocalOut
         /\ j \in LocalIn /\ ~picked[j].gold => port'[j] \in NonLocalOut
         /\ Reserved(j)' => port'[j] \in Available(wave) \ ava'
         /\ j \in LocalIn /\ ~flag'[j] => port'[j] \notin ava'
    BY <1>1, <1>7 DEF AllocatedOK
  <2>2. /\ port'[i] \in OutPorts
        /\ i \in NonLocalIn => flag'[i]
        /\ i \in LocalIn /\ (picked[i].gold \/ ~flag'[i])
              => port'[i] = picked[i].prefer
        /\ i \in LocalIn /\ picked[i].gold => port'[i] \in LocalOut
        /\ i \in LocalIn /\ ~picked[i].gold => port'[i] \in NonLocalOut
        /\ Reserved(i)' => port'[i] \in Available(wave) \ ava'
        /\ i \in LocalIn /\ ~flag'[i] => port'[i] \notin ava'
    <3>1. ava \subseteq Available(wave)
      BY <1>1 DEF AllocatedOK
    <3>2. picked[i].gold \in BOOLEAN
      BY <1>8, NoFlitIsNoFlit
    <3>3. i \in LocalIn /\ picked[i].gold =>
            o = picked[i].prefer /\ a /\ o \in LocalOut
      BY <1>1, <1>9, <3>2 DEF TypeOK
    <3>4. Reserved(i)' => o \in ava /\ ava' = ava \ {o}
      BY <1>1, <1>2, <3>2 DEF Reserved, NonLocalIn
    <3> QED
      BY <1>1, <1>2, <3>1, <3>2, <3>3, <3>4 DEF NonLocalIn
  <2>3. todo' \subseteq Picked' /\ ava' \subseteq Available(wave)'
    BY <1>1, <1>6 DEF AllocatedOK, Available
  <2>4. Available(wave)' = Available(wave)
    BY <1>1 DEF Available
  <2> QED
    BY <1>1, <1>6, <2>1, <2>2, <2>3, <2>4 DEF AllocatedOK
<1>11. Exclusive'
  <2>1. Reserved(i)' => o \in ava
    BY <1>1, <1>2, <1>8, NoFlitIsNoFlit DEF Reserved, NonLocalIn
  <2>2. \A j \in Allocated : Reserved(j) => port[j] \notin ava
    BY <1>1 DEF AllocatedOK
  <2> QED
    BY <1>1, <1>2, <1>6, <1>7, <2>1, <2>2 DEF Exclusive
<1>12. LocalOrder'
  <2>1. GoldTodo' \subseteq GoldTodo
    BY <1>1 DEF GoldTodo
  <2>2. \A k \in Allocated \cap LocalIn : ~picked[k].gold =>
          /\ GoldTodo' = {} /\ todo' \subseteq LocalIn
          /\ \A j \in todo' : k < j
    BY <1>1, <2>1 DEF LocalOrder
  <2>3. i \in LocalIn /\ ~picked[i].gold =>
          /\ GoldTodo' = {} /\ todo' \subseteq LocalIn
          /\ \A j \in todo' : i < j
    BY <1>1, <2>1, PortAssumption DEF TypeOK
  <2>4. ASSUME NEW k \in Allocated' \cap LocalIn, ~picked[k].gold,
               NEW j \in Allocated' \cap LocalIn,
               Reserved(k)', ~flag'[j], port'[k] = port'[j]
        PROVE  k < j
    <3>1. CASE k # i /\ j # i
      BY <1>1, <1>6, <1>7, <2>4, <3>1 DEF LocalOrder
    <3>2. CASE k = i /\ j # i
      <4>1. o \in ava /\ port[j] \notin ava
        BY <1>1, <1>2, <1>6, <1>7, <2>4, <3>2 DEF AllocatedOK, Reserved
      <4> QED
        BY <1>2, <1>6, <1>7, <2>4, <3>2, <4>1
    <3>3. CASE k # i /\ j = i
      BY <1>1, <1>6, <2>4, <3>3 DEF LocalOrder
    <3>4. CASE k = i /\ j = i
      BY <2>4, <3>4 DEF Reserved
    <3> QED
      BY <3>1, <3>2, <3>3, <3>4
  <2> QED
    BY <1>1, <1>6, <2>2, <2>3, <2>4 DEF LocalOrder
<1>13. EnoughPorts'
  <2> DEFINE S == todo \cap NonLocalIn
             T == ava \cap NonLocalOut
  <2>1. /\ IsFiniteSet(S) /\ IsFiniteSet(T)
        /\ Cardinality(S) <= Cardinality(T)
    BY <1>1, PortAssumption, FS_Subset DEF TypeOK, EnoughPorts
  <2>2. (todo \cap NonLocalIn)' = todo' \cap NonLocalIn
        /\ (ava \cap NonLocalOut)' = ava' \cap NonLocalOut
    OBVIOUS
  <2>3. CASE i \in NonLocalIn
    <3>1. todo' \cap NonLocalIn = S \ {i} /\ ava' \cap NonLocalOut = T \ {o}
      BY <1>1, <2>3 DEF NonLocalIn
    <3>2. Cardinality(S \ {i}) <= Cardinality(T \ {o})
      BY <1>1, <2>1, <2>3, RemoveOne
    <3> QED
      BY <1>1, <2>2, <3>1, <3>2 DEF EnoughPorts
  <2>4. CASE i \notin NonLocalIn /\ ava' = ava
    <3>1. todo' \cap NonLocalIn = S
      BY <1>1, <2>4
    <3> QED
      BY <1>1, <2>1, <2>2, <2>4, <3>1 DEF EnoughPorts
  <2>5. CASE i \notin NonLocalIn /\ ava' # ava
    <3>1. i \in LocalIn /\ ~picked[i].gold
      BY <1>1, <2>5 DEF NonLocalIn
    <3>2. todo' \cap NonLocalIn = {}
      BY <1>1, <3>1 DEF NonLocalIn
    <3>3. Cardinality(ava' \cap NonLocalOut) \in Nat
      <4>1. ava' \cap NonLocalOut \subseteq OutPorts
        BY <1>3 DEF TypeOK
      <4>2. IsFiniteSet(ava' \cap NonLocalOut)
        BY <4>1, PortAssumption, FS_Subset
      <4> QED
        BY <4>2, FS_CardinalityType
    <3>4. Cardinality(todo' \cap NonLocalIn) = 0
      BY <3>2, FS_EmptySet
    <3> QED
      BY <1>1, <2>2, <3>3, <3>4 DEF EnoughPorts
  <2> QED
    BY <2>3, <2>4, <2>5
<1> QED
  BY <1>1, <1>3, <1>5, <1>10, <1>11, <1>12, <1>13
  DEF IInv, NoAssertionFails

\* getANonLocalOutport never comes back empty for a flit that must leave.
LEMMA PortsLeft ==
  ASSUME IInv, pc = "permute", NEW i \in todo \cap NonLocalIn
  PROVE  getANonLocalOutport(i) \subseteq ava \cap NonLocalOut
<1>1. TypeOK /\ EnoughPorts /\ i \in InPorts
  BY DEF IInv, TypeOK
<1>2. IsFiniteSet(todo \cap NonLocalIn) /\ IsFiniteSet(ava \cap NonLocalOut)
  BY <1>1, PortAssumption, FS_Subset DEF TypeOK
<1>3. Cardinality(todo \cap NonLocalIn) # 0
  BY <1>2, FS_EmptySet
<1>4. /\ Cardinality(todo \cap NonLocalIn) \in Nat
      /\ Cardinality(ava \cap NonLocalOut) \in Nat
  BY <1>2, FS_CardinalityType
<1>5. Cardinality(ava \cap NonLocalOut) # 0
  BY <1>1, <1>3, <1>4 DEF EnoughPorts
<1>6. ava \cap NonLocalOut # {}
  BY <1>5, FS_EmptySet
<1> QED
  BY <1>1, <1>6, DeflectionPorts

\* The grant of a flit that must leave is one of those GrantOf describes.
LEMMA GrantNonLocalStep ==
  ASSUME IInv, pc = "permute", NEW i \in todo \cap NonLocalIn,
         GrantNonLocal(i),
         UNCHANGED <<wave, top, rrInvc, picked, pickedVC, req, sent>>
  PROVE  IInv'
<1>1. TypeOK /\ i \in InPorts /\ i \notin LocalIn /\ picked[i] \in Flit
  BY DEF IInv, TypeOK, AllocatedOK, Picked, NonLocalIn
<1>2. CASE picked[i].prefer \in ava /\ ~uTurn(i)
  <2>1. GrantOf(i, picked[i].prefer, TRUE)
    BY <1>1, <1>2, NoFlitIsNoFlit DEF GrantNonLocal, GrantOf
  <2> QED
    BY <2>1, GrantStep
<1>3. CASE ~(picked[i].prefer \in ava /\ ~uTurn(i))
  <2>1. PICK o \in getANonLocalOutport(i) :
          /\ Grant(i, o, TRUE)
          /\ ava' = ava \ {o}
          /\ pc' = IF o = None THEN "assert" ELSE pc
    BY <1>3 DEF GrantNonLocal
  <2>2. o \in ava \cap NonLocalOut /\ o \in OutPorts
    BY <1>1, PortsLeft DEF TypeOK
  <2>3. o # None
    BY <2>2, PortAssumption DEF None
  <2>4. GrantOf(i, o, TRUE)
    BY <1>1, <2>1, <2>2, <2>3 DEF GrantOf
  <2> QED
    BY <2>4, GrantStep
<1> QED
  BY <1>2, <1>3

\* The gold loop of permutation_CHIPPER preserves the inductive invariant.
LEMMA GoldStep ==
  ASSUME IInv, NEW i \in InPorts, AllocateGold(i)
  PROVE  IInv'
<1>1. /\ TypeOK /\ LocalFlitsOK /\ PickedOK /\ pc = "permute" /\ i \in todo
      /\ picked[i].gold /\ i \in Picked
  BY DEF IInv, AllocateGold, GoldTodo, AllocatedOK
<1>2. CASE i \in LocalIn
  <2>1. picked[i] = top[i][pickedVC[i]] /\ picked[i] \in Flit
    BY <1>1 DEF PickedOK, Picked, TypeOK
  <2>2. picked[i].prefer \in LocalOut
    BY <1>1, <1>2, <2>1, NoFlitIsNoFlit DEF LocalFlitsOK, TypeOK
  <2>3. GrantOf(i, picked[i].prefer, TRUE)
    BY <1>1, <1>2, <2>2
    DEF AllocateGold, GrantOf, LocalOut, NonLocalIn
  <2> QED
    BY <2>3, GrantStep
<1>3. CASE i \notin LocalIn
  <2>1. i \in todo \cap NonLocalIn /\ GrantNonLocal(i)
    BY <1>1, <1>3 DEF AllocateGold, NonLocalIn
  <2> QED
    BY <1>1, <2>1, GrantNonLocalStep DEF AllocateGold
<1> QED
  BY <1>2, <1>3

\* So does its loop over the other non-local flits.
LEMMA NonGoldStep ==
  ASSUME IInv, NEW i \in InPorts, AllocateNonGold(i)
  PROVE  IInv'
  BY GrantNonLocalStep DEF AllocateNonGold, NonLocalIn

\* So does its loop over the flits of Local ports.
LEMMA LocalStep ==
  ASSUME IInv, NEW i \in InPorts, AllocateLocal(i)
  PROVE  IInv'
<1>1. /\ TypeOK /\ LocalFlitsOK /\ PickedOK /\ pc = "permute" /\ i \in todo
      /\ GoldTodo = {} /\ todo \subseteq LocalIn /\ i \in Picked
      /\ \A j \in todo : i <= j
  BY DEF IInv, AllocateLocal, AllocatedOK
<1>2. ~picked[i].gold
  BY <1>1 DEF GoldTodo
<1>3. picked[i] = top[i][pickedVC[i]] /\ picked[i] \in Flit
  BY <1>1 DEF PickedOK, Picked, TypeOK
<1>4. picked[i].prefer \in NonLocalOut /\ picked[i].prefer \in OutPorts
  BY <1>1, <1>2, <1>3, NoFlitIsNoFlit DEF LocalFlitsOK, TypeOK, NonLocalOut
<1>5. CASE picked[i].prefer \in ava
  <2>1. GrantOf(i, picked[i].prefer, TRUE)
    BY <1>1, <1>2, <1>4, <1>5 DEF AllocateLocal, GrantOf, NonLocalIn
  <2> QED
    BY <2>1, GrantStep
<1>6. CASE picked[i].prefer \notin ava
  <2>1. PICK o \in getANonLocalOutport(i) :
          IF o = None
          THEN Grant(i, picked[i].prefer, FALSE) /\ UNCHANGED ava
          ELSE Grant(i, o, TRUE) /\ ava' = ava \ {o}
    BY <1>6 DEF AllocateLocal
  <2>2. CASE o = None
    <3>1. GrantOf(i, picked[i].prefer, FALSE)
      BY <1>1, <1>2, <1>3, <1>4, <1>6, <2>1, <2>2, NoFlitIsNoFlit
      DEF AllocateLocal, GrantOf, NonLocalIn
    <3> QED
      BY <3>1, GrantStep
  <2>3. CASE o # None
    <3>1. o \in ava \cap NonLocalOut /\ o \in OutPorts
      BY <1>1, <2>3, DeflectionPorts DEF TypeOK
    <3>2. GrantOf(i, o, TRUE)
      BY <1>1, <1>2, <2>1, <2>3, <3>1
      DEF AllocateLocal, GrantOf, NonLocalIn
    <3> QED
      BY <3>2, GrantStep
  <2> QED
    BY <2>2, <2>3
<1> QED
  BY <1>5, <1>6

\* Placing the requests preserves the inductive invariant: every non-local
\* flit holds an output port, so send_allowed is true of it.
LEMMA RequestStep ==
  ASSUME IInv, PlaceRequests
  PROVE  IInv'
<1>1. /\ TypeOK /\ LocalFlitsOK /\ ArrivalsOK /\ PickedOK /\ AllocatedOK
      /\ Exclusive /\ LocalOrder /\ RequestsOK
      /\ pc = "permute" /\ todo = {} /\ todo' = todo /\ wave' = wave
      /\ top' = top /\ picked' = picked /\ pickedVC' = pickedVC
      /\ ava' = ava /\ flag' = flag /\ port' = port /\ sent' = sent
  BY DEF IInv, PlaceRequests
<1>2. Allocated = Picked /\ Picked \subseteq InPorts
  BY <1>1 DEF Allocated, Picked
<1>3. \A i \in Picked \ LocalIn : send_allowed(i)
  BY <1>1, <1>2 DEF AllocatedOK, send_allowed, NonLocalIn
<1>4. pc' = "outports"
  BY <1>3 DEF PlaceRequests
<1>5. /\ Picked' = Picked /\ Allocated' = Allocated /\ GoldTodo' = GoldTodo
      /\ \A i : /\ Reserved(i)' = Reserved(i)
                /\ Occupied(i)' = Occupied(i)
                /\ send_allowed(i)' = send_allowed(i)
  BY <1>1 DEF Picked, Allocated, GoldTodo, Reserved, Occupied, send_allowed
<1>6. req' = {<<port[i], i>> : i \in {j \in Picked : send_allowed(j)}}
  BY DEF PlaceRequests
<1>7. TypeOK'
  <2>1. req' \subseteq OutPorts \X InPorts
    BY <1>1, <1>2, <1>6 DEF AllocatedOK
  <2>2. \A i \in InPorts : (pickedVC[i] + 1) % NumVCs \in VCs
    BY <1>1, PortAssumption DEF TypeOK, VCs
  <2>3. rrInvc' \in [InPorts -> VCs]
    BY <1>1, <2>2 DEF TypeOK, PlaceRequests
  <2> QED
    BY <1>1, <1>4, <2>1, <2>3 DEF TypeOK
<1>8. LocalFlitsOK' /\ ArrivalsOK' /\ PickedOK' /\ Exclusive' /\ LocalOrder'
  BY <1>1, <1>4, <1>5
  DEF LocalFlitsOK, ArrivalsOK, PickedOK, Exclusive, LocalOrder, MayArrive
<1>9. AllocatedOK'
  BY <1>1, <1>4, <1>5 DEF AllocatedOK, Available
<1>10. RequestsOK'
  BY <1>1, <1>4, <1>5, <1>6 DEF RequestsOK
<1> QED
  BY <1>4, <1>7, <1>8, <1>9, <1>10 DEF IInv, NoAssertionFails, EnoughPorts

\* What arbitrate_outports grants.
LEMMA WinnerType ==
  ASSUME TypeOK, NEW o
  PROVE  /\ Winner(o) \in InPorts \cup {None}
         /\ Eligible(o) # {} => Winner(o) \in Eligible(o)
         /\ \A i \in Eligible(o) : Winner(o) <= i
<1>1. Eligible(o) \subseteq InPorts /\ Eligible(o) \subseteq Nat
  BY PortAssumption DEF Eligible, Requesters
<1>2. CASE Eligible(o) = {}
  BY <1>2 DEF Winner
<1>3. CASE Eligible(o) # {}
  BY <1>1, <1>3, FirstIsLeast DEF Winner
<1> QED
  BY <1>2, <1>3

Requesting == {i \in Picked : send_allowed(i)}

\* Who asks for an output port once the requests are placed.
LEMMA RequestersOf ==
  ASSUME IInv, pc \in {"outports", "done"}
  PROVE  /\ Allocated = Picked
         /\ \A o : Requesters(o) = {i \in Requesting : port[i] = o}
         /\ \A i \in Picked \ LocalIn : Reserved(i) /\ i \in Requesting
         /\ \A i \in Picked : Reserved(i) => i \in Requesting
<1>1. todo = {} /\ AllocatedOK /\ RequestsOK
  BY DEF IInv, RequestsOK
<1>2. Allocated = Picked
  BY <1>1 DEF Allocated
<1>3. \A i \in Picked \ LocalIn : Reserved(i) /\ i \in Requesting
  BY <1>1, <1>2
  DEF AllocatedOK, Reserved, Requesting, send_allowed, NonLocalIn, Picked
<1>4. \A o : Requesters(o) = {i \in Requesting : port[i] = o}
  BY <1>1 DEF RequestsOK, Requesters, Requesting, Picked
<1>5. \A i \in Picked : Reserved(i) => i \in Requesting
  BY DEF Reserved, Requesting, send_allowed
<1> QED
  BY <1>2, <1>3, <1>4, <1>5

\* An output port never serves anyone but the flit it is reserved for.
LEMMA ReservedWins ==
  ASSUME IInv, pc \in {"outports", "done"}, NEW i \in Picked, Reserved(i)
  PROVE  Winner(port[i]) = i
<1> DEFINE o == port[i]
<1>1. TypeOK /\ AllocatedOK /\ Exclusive /\ LocalOrder /\ LocalFlitsOK
  BY DEF IInv
<1>2. i \in Requesters(o) /\ i \in InPorts
  BY RequestersOf DEF Picked
<1>3. CASE i \notin LocalIn
  <2>1. Requesters(o) \ LocalIn = {i}
    <3>1. ASSUME NEW j \in Requesters(o) \ LocalIn
          PROVE  j = i
      <4>1. j \in Picked /\ Reserved(j) /\ port[j] = port[i]
        BY RequestersOf DEF Requesting
      <4> QED
        BY <1>1, <4>1, RequestersOf DEF Exclusive
    <3> QED
      BY <1>2, <1>3, <3>1
  <2>2. Eligible(o) = {i}
    BY <1>2, <1>3, <2>1 DEF Eligible
  <2> QED
    BY <1>1, <2>2, WinnerType
<1>4. CASE i \in LocalIn
  <2>1. ~picked[i].gold /\ port[i] \in NonLocalOut
    BY <1>1, <1>4, RequestersOf DEF Reserved, AllocatedOK
  <2>2. Requesters(o) \subseteq LocalIn
    <3>1. ASSUME NEW j \in Requesters(o), j \notin LocalIn
          PROVE  FALSE
      <4>1. j \in Picked /\ Reserved(j) /\ port[j] = port[i]
        BY <3>1, RequestersOf DEF Requesting
      <4>2. j = i
        BY <1>1, <4>1, RequestersOf DEF Exclusive
      <4> QED
        BY <1>4, <3>1, <4>2
    <3> QED
      BY <3>1
  <2>3. Eligible(o) = Requesters(o)
    BY <2>2 DEF Eligible
  <2>4. \A j \in Requesters(o) : j # i => i < j
    <3>1. ASSUME NEW j \in Requesters(o), j # i
          PROVE  i < j
      <4>1. /\ j \in Picked /\ port[j] = port[i] /\ j \in LocalIn
            /\ j \in Allocated /\ i \in Allocated /\ j \in InPorts
        BY <2>2, RequestersOf DEF Requesting, Picked
      <4>2. ~Reserved(j)
        BY <1>1, <3>1, <4>1 DEF Exclusive
      <4>3. ~picked[j].gold
        BY <1>1, <2>1, <4>1 DEF AllocatedOK, NonLocalOut
      <4>4. ~flag[j]
        BY <4>1, <4>2, <4>3 DEF Reserved
      <4> QED
        BY <1>1, <1>4, <2>1, <4>1, <4>4 DEF LocalOrder
    <3> QED
      BY <3>1
  <2>5. Winner(o) \in Requesters(o) /\ Winner(o) <= i
    BY <1>1, <1>2, <2>3, WinnerType
  <2>6. Requesters(o) \subseteq Nat
    BY PortAssumption DEF Requesters
  <2> QED
    BY <1>2, <2>4, <2>5, <2>6
<1> QED
  BY <1>3, <1>4

\* SA-II preserves the inductive invariant: non-local VCs end empty.
LEMMA ReleaseStep ==
  ASSUME IInv, arbitrate_outports
  PROVE  IInv'
<1>1. /\ TypeOK /\ LocalFlitsOK /\ ArrivalsOK /\ PickedOK /\ AllocatedOK
      /\ Exclusive /\ LocalOrder /\ RequestsOK
      /\ pc = "outports" /\ pc' = "done" /\ todo' = todo /\ wave' = wave
      /\ picked' = picked /\ pickedVC' = pickedVC /\ rrInvc' = rrInvc
      /\ ava' = ava /\ flag' = flag /\ port' = port /\ req' = req
      /\ sent' = [o \in OutPorts |-> Winner(o)]
  BY DEF IInv, arbitrate_outports
<1>2. /\ Picked' = Picked /\ Allocated' = Allocated /\ GoldTodo' = GoldTodo
      /\ \A i : Reserved(i)' = Reserved(i) /\ send_allowed(i)' = send_allowed(i)
      /\ \A o : Winner(o)' = Winner(o)
  BY <1>1 DEF Picked, Allocated, GoldTodo, Reserved, send_allowed, Winner,
              Eligible, Requesters
<1>3. /\ Allocated = Picked /\ Picked \subseteq InPorts
      /\ \A i \in Picked : port[i] \in OutPorts
  BY <1>1, RequestersOf DEF Picked, AllocatedOK
<1>4. \A i \in Picked : /\ picked[i] = top[i][pickedVC[i]]
                        /\ picked[i] \in Flit
  BY <1>1 DEF PickedOK, Picked, TypeOK
<1>5. ASSUME NEW i \in InPorts, NEW v \in VCs
      PROVE  /\ i \notin Picked \/ v # pickedVC[i] => top'[i][v] = top[i][v]
             /\ i \in Picked /\ v = pickedVC[i] /\ Leaves(i) =>
                  top'[i][v] = NoFlit
             /\ i \in Picked /\ v = pickedVC[i] /\ ~Leaves(i) =>
                  top'[i][v] = [picked[i] EXCEPT !.prefer = port[i]]
  BY <1>4 DEF arbitrate_outports
<1>6. ASSUME NEW i \in InPorts, NEW v \in VCs,
             i \in Picked, v = pickedVC[i], ~Leaves(i)
      PROVE  /\ top'[i][v] \in Flit
             /\ top'[i][v].prefer = port[i]
             /\ top'[i][v].gold = picked[i].gold
  <2>1. top'[i][v] = [picked[i] EXCEPT !.prefer = port[i]]
    BY <1>5, <1>6
  <2>2. picked[i] \in Flit /\ port[i] \in OutPorts
    BY <1>3, <1>4, <1>6
  <2> QED
    BY <2>1, <2>2 DEF Flit
<1>7. TypeOK'
  <2>1. \A i \in InPorts, v \in VCs : top'[i][v] \in Flit \cup {NoFlit}
    <3>1. \A i \in InPorts, v \in VCs : top[i][v] \in Flit \cup {NoFlit}
      BY <1>1 DEF TypeOK
    <3> QED
      BY <1>5, <1>6, <3>1
  <2>2. top' \in [InPorts -> [VCs -> Flit \cup {NoFlit}]]
    <3>1. top' = [i \in InPorts |-> [v \in VCs |-> top'[i][v]]]
      BY DEF arbitrate_outports
    <3> QED
      BY <2>1, <3>1
  <2>3. sent' \in [OutPorts -> InPorts \cup {None}]
    BY <1>1, WinnerType
  <2> QED
    BY <1>1, <2>2, <2>3 DEF TypeOK
<1>8. LocalFlitsOK'
  <2>1. \A i \in LocalIn \cap Picked : picked[i].gold <=> port[i] \in LocalOut
    BY <1>1, <1>3, <1>4, NoFlitIsNoFlit DEF AllocatedOK, NonLocalOut
  <2>2. ASSUME NEW i \in LocalIn, NEW v \in VCs, top'[i][v] # NoFlit
        PROVE  top'[i][v].gold <=> top'[i][v].prefer \in LocalOut
    <3>0. i \in InPorts
      BY DEF LocalIn
    <3>1. CASE i \notin Picked \/ v # pickedVC[i]
      <4>1. top'[i][v] = top[i][v]
        BY <1>5, <3>0, <3>1
      <4> QED
        BY <1>1, <2>2, <4>1 DEF LocalFlitsOK
    <3>2. CASE i \in Picked /\ v = pickedVC[i]
      <4>1. ~Leaves(i)
        BY <1>5, <2>2, <3>0, <3>2
      <4>2. top'[i][v].prefer = port[i] /\ top'[i][v].gold = picked[i].gold
        BY <1>6, <3>0, <3>2, <4>1
      <4> QED
        BY <2>1, <3>2, <4>2
    <3> QED
      BY <3>1, <3>2
  <2> QED
    BY <2>2 DEF LocalFlitsOK
<1>9. \A i \in NonLocalIn : Occupied(i)' = {}
  <2>1. ASSUME NEW i \in NonLocalIn, NEW v \in VCs
        PROVE  top'[i][v] = NoFlit
    <3>1. i \in InPorts /\ i \notin LocalIn
      BY DEF NonLocalIn
    <3>2. CASE i \notin Picked
      BY <1>1, <1>5, <3>1, <3>2 DEF PickedOK, Occupied, Picked
    <3>3. CASE i \in Picked /\ v # pickedVC[i]
      <4>1. pickedVC[i] \in Occupied(i)
        BY <1>1, <1>4, <3>1, <3>3, NoFlitIsNoFlit DEF Occupied, TypeOK
      <4>2. v \notin Occupied(i)
        BY <1>1, <3>3, <4>1 DEF ArrivalsOK
      <4> QED
        BY <1>5, <3>1, <3>3, <4>2 DEF Occupied
    <3>4. CASE i \in Picked /\ v = pickedVC[i]
      <4>1. Winner(port[i]) = i
        BY <1>1, <3>1, <3>4, RequestersOf, ReservedWins
      <4>2. Leaves(i)
        BY <1>3, <3>4, <4>1 DEF Leaves
      <4> QED
        BY <1>5, <3>1, <3>4, <4>2
    <3> QED
      BY <3>2, <3>3, <3>4
  <2> QED
    BY <2>1 DEF Occupied
<1>10. ArrivalsOK' /\ PickedOK' /\ EnoughPorts'
  BY <1>1 DEF ArrivalsOK, PickedOK, EnoughPorts
<1>11. AllocatedOK' /\ Exclusive' /\ LocalOrder'
  BY <1>1, <1>2 DEF AllocatedOK, Exclusive, LocalOrder, Available
<1>12. RequestsOK'
  BY <1>1, <1>2, <1>9 DEF RequestsOK
<1> QED
  BY <1>1, <1>7, <1>8, <1>10, <1>11, <1>12 DEF IInv, NoAssertionFails

\* The end of a cycle preserves the inductive invariant.
LEMMA NextCycleStep ==
  ASSUME IInv, NextCycle
  PROVE  IInv'
<1> USE DEF NextCycle
<1>1. TypeOK /\ LocalFlitsOK /\ RequestsOK /\ pc = "done" /\ pc' = "input"
  BY DEF IInv
<1>2. 0 \in VCs /\ (wave + 1) % WaveNum \in Waves
  BY <1>1, PortAssumption DEF VCs, Waves, TypeOK
<1>3. TypeOK'
  BY <1>1, <1>2 DEF TypeOK
<1>4. \A i : Occupied(i)' = Occupied(i)
  BY DEF Occupied
<1>5. \A i \in NonLocalIn : Occupied(i)' = {}
  BY <1>1, <1>4 DEF RequestsOK
<1>6. LocalFlitsOK'
  BY <1>1 DEF LocalFlitsOK
<1>7. ArrivalsOK'
  BY <1>1, <1>5 DEF ArrivalsOK
<1> QED
  BY <1>1, <1>3, <1>6, <1>7
  DEF IInv, NoAssertionFails, PickedOK, AllocatedOK, Exclusive, LocalOrder,
      EnoughPorts, RequestsOK

-----------------------------------------------------------------------------
\* The invariant is inductive.
LEMMA IInvInductive == IInv /\ [Next]_vars => IInv'
<1> SUFFICES ASSUME IInv, [Next]_vars PROVE IInv'
  OBVIOUS
<1>1. CASE \E i \in InPorts : \/ InputUnitWakeup(i)
                              \/ AllocateGold(i)
                              \/ AllocateNonGold(i)
                              \/ AllocateLocal(i)
  BY <1>1, InputStep, GoldStep, NonGoldStep, LocalStep
<1>2. CASE arbitrate_inports
  BY <1>2, PickStep
<1>3. CASE PlaceRequests
  BY <1>3, RequestStep
<1>4. CASE arbitrate_outports
  BY <1>4, ReleaseStep
<1>5. CASE NextCycle
  BY <1>5, NextCycleStep
<1>6. CASE UNCHANGED vars
  <2>1. \A i : /\ Occupied(i)' = Occupied(i) /\ Reserved(i)' = Reserved(i)
               /\ send_allowed(i)' = send_allowed(i)
               /\ Winner(i)' = Winner(i)
    BY <1>6 DEF vars, Occupied, Reserved, Picked, send_allowed, Winner,
                Eligible, Requesters
  <2>2. /\ Picked' = Picked /\ Allocated' = Allocated
        /\ GoldTodo' = GoldTodo
    BY <1>6 DEF vars, Picked, Allocated, GoldTodo
  <2>3. /\ TypeOK' /\ NoAssertionFails' /\ LocalFlitsOK' /\ ArrivalsOK'
        /\ PickedOK' /\ EnoughPorts'
    BY <1>6, <2>1, <2>2
    DEF vars, IInv, TypeOK, NoAssertionFails, LocalFlitsOK, ArrivalsOK,
        MayArrive, PickedOK, EnoughPorts
  <2>4. AllocatedOK' /\ Exclusive' /\ LocalOrder' /\ RequestsOK'
    BY <1>6, <2>1, <2>2
    DEF vars, IInv, AllocatedOK, Available, Exclusive, LocalOrder, RequestsOK
  <2> QED
    BY <2>3, <2>4 DEF IInv
<1> QED
  BY <1>1, <1>2, <1>3, <1>4, <1>5, <1>6 DEF Next

\* The inductive invariant holds in every reachable state.
THEOREM Invariance == Spec => []IInv
  BY InitIInv, IInvInductive, PTL DEF Spec

\* The state of a router stays well formed: every port, VC and wave the
\* allocator computes is one the router has.
THEOREM TypeCorrect == Spec => []TypeOK
<1>1. IInv => TypeOK
  BY DEF IInv
<1> QED
  BY <1>1, Invariance, PTL

\* getANonLocalOutport never returns -1 for a flit that must leave, whatever
\* the number of ports, the flits and the random choices, if the topology or
\* the TDM schedule satisfies NoOverload: the assertions of
\* permutation_CHIPPER and arbitrate_inports never fail.
THEOREM NoAssertionEverFails == Spec => []NoAssertionFails
<1>1. IInv => NoAssertionFails
  BY DEF IInv
<1> QED
  BY <1>1, Invariance, PTL

\* No output port is requested by two flits that cannot wait (the assertion
\* of arbitrate_outports, in the strong form its comment asks for).
THEOREM NoDoubleRequest == Spec => []OneNonLocalRequest
<1>1. IInv => OneNonLocalRequest
  <2> SUFFICES ASSUME IInv, NEW o \in OutPorts,
                      NEW i \in Requesters(o) \ LocalIn,
                      NEW j \in Requesters(o) \ LocalIn
               PROVE  i = j
    BY DEF OneNonLocalRequest
  <2>1. CASE pc \in {"outports", "done"}
    <3>1. /\ i \in Picked /\ j \in Picked /\ Reserved(i) /\ Reserved(j)
          /\ port[i] = port[j]
      BY <2>1, RequestersOf DEF Requesting
    <3> QED
      BY <2>1, <3>1, RequestersOf DEF IInv, Exclusive
  <2>2. CASE pc \notin {"outports", "done"}
    BY <2>2 DEF IInv, TypeOK, NoAssertionFails, RequestsOK, Requesters
  <2> QED
    BY <2>1, <2>2
<1> QED
  BY <1>1, Invariance, PTL

\* Every flit that comes from another router leaves in the cycle it arrives:
\* a bufferless router never keeps one (verify_VCs_empty).
THEOREM NothingIsBuffered == Spec => []NonLocalVCsEmpty
<1>1. IInv => NonLocalVCsEmpty
  BY DEF IInv, RequestsOK, NonLocalVCsEmpty
<1> QED
  BY <1>1, Invariance, PTL

\* The output port CHIPPER reserves for a flit serves that flit in SA-II.
THEOREM ReservationsAreHonoured == Spec => []ReservationHonoured
<1>1. IInv => ReservationHonoured
  <2> SUFFICES ASSUME IInv, pc = "done", NEW i \in InPorts, Reserved(i)
               PROVE  sent[port[i]] = i
    BY DEF ReservationHonoured
  <2>1. i \in Picked /\ port[i] \in OutPorts
    BY RequestersOf DEF Reserved, IInv, AllocatedOK
  <2>2. Winner(port[i]) = i
    BY <2>1, ReservedWins
  <2> QED
    BY <2>1, <2>2 DEF IInv, RequestsOK
<1> QED
  BY <1>1, Invariance, PTL

-----------------------------------------------------------------------------
(***************************************************************************)
(* What the allocation is worth: links are driven in their waves only, no  *)
(* link is idle while a Local flit waits for one, and the gold flit with   *)
(* the smallest id is not deflected.  The invariant is strengthened by     *)
(* what the ports that are no longer available say about the flits that    *)
(* came first.                                                             *)
(***************************************************************************)


Allocation == pc \in {"permute", "outports", "done"}

\* Nothing is released before SA-II.
NothingSent == pc # "done" => \A o \in OutPorts : sent[o] = None

\* A port that may be used and is not available is reserved for a flit.
TakenIsReserved ==
  Allocation => \A o \in Available(wave) \ ava :
                  \E j \in Allocated : Reserved(j) /\ port[j] = o

\* A Local flit stalls when no link is left.
StalledLast ==
  Allocation => \A i \in Allocated \cap LocalIn :
                  ~picked[i].gold /\ ~flag[i] => ava \cap NonLocalOut = {}

\* The golden flit finds all ports available.
GoldenFirst ==
  Allocation => \A i \in InPorts : IsGolden(i) =>
    /\ i \in todo => ava = Available(wave)
    /\ i \in Allocated /\ ~uTurn(i) /\ picked[i].prefer \in Available(wave)
         => port[i] = picked[i].prefer

GInv == NothingSent /\ TakenIsReserved /\ StalledLast /\ GoldenFirst

-----------------------------------------------------------------------------
\* In the initial state there is nothing to show.
LEMMA InitGInv == Init => GInv
  BY DEF Init, GInv, NothingSent, TakenIsReserved, StalledLast, GoldenFirst,
         Allocation

\* A step that leaves the allocation alone.
LEMMA SameAllocation ==
  ASSUME GInv, TypeOK, Allocation, pc' # "done" => UNCHANGED sent, pc # "done",
         UNCHANGED <<wave, todo, picked, ava, flag, port>>
  PROVE  TakenIsReserved' /\ StalledLast' /\ GoldenFirst'
         /\ (pc' # "done" => NothingSent')
<1>1. /\ Picked' = Picked /\ Allocated' = Allocated
      /\ Available(wave)' = Available(wave)
      /\ \A i : /\ Reserved(i)' = Reserved(i) /\ IsGolden(i)' = IsGolden(i)
                /\ uTurn(i)' = uTurn(i)
  BY DEF Picked, Allocated, Available, Reserved, IsGolden, uTurn
<1>2. TakenIsReserved'
  BY <1>1 DEF GInv, TakenIsReserved
<1>3. StalledLast'
  BY <1>1 DEF GInv, StalledLast
<1>4. GoldenFirst'
  BY <1>1 DEF GInv, GoldenFirst
<1> QED
  BY <1>2, <1>3, <1>4 DEF GInv, NothingSent

\* Giving one picked flit its output port keeps it, if only what is left over
\* lets a Local flit stall, and nobody takes a port before the golden flit.
LEMMA GrantKeeps ==
  ASSUME IInv, GInv, NEW i, NEW o, NEW a, GrantOf(i, o, a),
         ~a => ava \cap NonLocalOut = {},
         IsGolden(i) /\ ~uTurn(i) /\ picked[i].prefer \in ava
           => o = picked[i].prefer,
         \A k \in todo : IsGolden(k) /\ k # i => ava' = ava
  PROVE  GInv'
<1>1. /\ TypeOK /\ AllocatedOK /\ pc = "permute" /\ pc' = "permute"
      /\ wave' = wave /\ picked' = picked /\ sent' = sent
      /\ todo' = todo \ {i} /\ ava' \subseteq ava
      /\ i \in InPorts /\ i \in todo /\ i \in Picked /\ i \notin Allocated
  BY DEF GrantOf, Grant, IInv, TypeOK, AllocatedOK, Allocated
<1>2. /\ port'[i] = o /\ flag'[i] = a
      /\ \A j \in InPorts : j # i => port'[j] = port[j] /\ flag'[j] = flag[j]
  BY <1>1 DEF TypeOK, GrantOf, Grant
<1>3. /\ Picked' = Picked /\ Allocated' = Allocated \cup {i}
      /\ Available(wave)' = Available(wave)
      /\ Allocated \subseteq InPorts
      /\ Allocation /\ Allocation'
  BY <1>1 DEF Picked, Allocated, Available, Allocation
<1>4. \A k : IsGolden(k)' = IsGolden(k) /\ uTurn(k)' = uTurn(k)
  BY <1>1, <1>3 DEF IsGolden, uTurn
<1>5. \A j \in Allocated : Reserved(j)' = Reserved(j) /\ port'[j] = port[j]
  BY <1>1, <1>2, <1>3 DEF Reserved
<1>6. TakenIsReserved'
  <2> SUFFICES ASSUME NEW p \in Available(wave), p \notin ava'
               PROVE  \E j \in Allocated' : Reserved(j)' /\ port'[j] = p
    BY <1>3 DEF TakenIsReserved
  <2>1. CASE p \notin ava
    <3>1. PICK j \in Allocated : Reserved(j) /\ port[j] = p
      BY <1>3, <2>1 DEF GInv, TakenIsReserved
    <3> QED
      BY <3>1, <1>3, <1>5
  <2>2. CASE p \in ava
    <3>1. a /\ p = o /\ ~(i \in LocalIn /\ picked[i].gold)
      BY <2>2 DEF GrantOf
    <3>2. Reserved(i)' /\ port'[i] = p
      BY <3>1, <1>1, <1>2, <1>3 DEF Reserved
    <3> QED
      BY <3>2, <1>3
  <2> QED
    BY <2>1, <2>2
<1>7. StalledLast'
  <2> SUFFICES ASSUME NEW j \in Allocated', j \in LocalIn, ~picked'[j].gold,
                      ~flag'[j]
               PROVE  ava' \cap NonLocalOut = {}
    BY <1>3 DEF StalledLast
  <2>1. CASE j = i
    BY <1>1, <1>2, <2>1
  <2>2. CASE j # i
    <3>1. j \in Allocated /\ ~flag[j] /\ ~picked[j].gold
      BY <2>2, <1>1, <1>2, <1>3
    <3> QED
      BY <3>1, <1>1, <1>3 DEF GInv, StalledLast
  <2> QED
    BY <2>1, <2>2
<1>8. GoldenFirst'
  <2> SUFFICES ASSUME NEW k \in InPorts, IsGolden(k)'
               PROVE  /\ k \in todo' => ava' = Available(wave)
                      /\ k \in Allocated' /\ ~uTurn(k)
                           /\ picked[k].prefer \in Available(wave)
                         => port'[k] = picked[k].prefer
    BY <1>1, <1>3, <1>4 DEF GoldenFirst
  <2>1. IsGolden(k)
    BY <1>4
  <2>2. CASE k = i
    <3>1. ava = Available(wave)
      BY <2>1, <2>2, <1>1, <1>3 DEF GInv, GoldenFirst
    <3> QED
      BY <3>1, <2>1, <2>2, <1>1, <1>2
  <2>3. CASE k # i
    <3>1. k \in todo' => ava' = Available(wave)
      BY <2>1, <2>3, <1>1, <1>3 DEF GInv, GoldenFirst
    <3>2. k \in Allocated' => k \in Allocated /\ port'[k] = port[k]
      BY <2>3, <1>2, <1>3
    <3> QED
      BY <3>1, <3>2, <2>1, <1>3 DEF GInv, GoldenFirst
  <2> QED
    BY <2>2, <2>3
<1>9. NothingSent'
  BY <1>1 DEF GInv, NothingSent
<1> QED
  BY <1>6, <1>7, <1>8, <1>9 DEF GInv

\* A flit that must leave.
LEMMA NonLocalKeeps ==
  ASSUME IInv, GInv, pc = "permute", NEW i \in todo \cap NonLocalIn,
         GrantNonLocal(i),
         UNCHANGED <<wave, top, rrInvc, picked, pickedVC, req, sent>>,
         \A k \in todo : ~(IsGolden(k) /\ k # i)
  PROVE  GInv'
<1>1. TypeOK /\ i \in InPorts /\ i \notin LocalIn /\ picked[i] \in Flit
  BY DEF IInv, TypeOK, AllocatedOK, Picked, NonLocalIn
<1>2. CASE picked[i].prefer \in ava /\ ~uTurn(i)
  <2>1. GrantOf(i, picked[i].prefer, TRUE)
    BY <1>1, <1>2, NoFlitIsNoFlit DEF GrantNonLocal, GrantOf
  <2> QED
    BY <2>1, GrantKeeps
<1>3. CASE ~(picked[i].prefer \in ava /\ ~uTurn(i))
  <2>1. PICK o \in getANonLocalOutport(i) :
          /\ Grant(i, o, TRUE)
          /\ ava' = ava \ {o}
          /\ pc' = IF o = None THEN "assert" ELSE pc
    BY <1>3 DEF GrantNonLocal
  <2>2. o \in ava \cap NonLocalOut /\ o \in OutPorts
    BY <1>1, PortsLeft DEF TypeOK
  <2>3. o # None
    BY <2>2, PortAssumption DEF None
  <2>4. GrantOf(i, o, TRUE)
    BY <1>1, <2>1, <2>2, <2>3 DEF GrantOf
  <2> QED
    BY <1>3, <2>4, GrantKeeps
<1> QED
  BY <1>2, <1>3

\* The gold loop: only a gold flit of a Local port, which takes no available
\* port away, comes before the golden one.
LEMMA GoldKeeps ==
  ASSUME IInv, GInv, NEW i \in InPorts, AllocateGold(i)
  PROVE  GInv'
<1>1. /\ TypeOK /\ LocalFlitsOK /\ PickedOK /\ pc = "permute" /\ i \in todo
      /\ picked[i].gold /\ i \in Picked /\ todo \subseteq Picked
      /\ \A j \in GoldTodo : picked[i].id <= picked[j].id
  BY DEF IInv, AllocateGold, GoldTodo, AllocatedOK
<1>2. CASE i \in LocalIn
  <2>1. picked[i] = top[i][pickedVC[i]] /\ picked[i] \in Flit
    BY <1>1 DEF PickedOK, Picked, TypeOK
  <2>2. picked[i].prefer \in LocalOut
    BY <1>1, <1>2, <2>1, NoFlitIsNoFlit DEF LocalFlitsOK, TypeOK
  <2>3. GrantOf(i, picked[i].prefer, TRUE) /\ ava' = ava
    BY <1>1, <1>2, <2>2
    DEF AllocateGold, GrantOf, LocalOut, NonLocalIn
  <2> QED
    BY <2>3, GrantKeeps
<1>3. CASE i \notin LocalIn
  <2>1. i \in todo \cap NonLocalIn /\ GrantNonLocal(i)
    BY <1>1, <1>3 DEF AllocateGold, NonLocalIn
  <2>2. ASSUME NEW k \in todo, IsGolden(k), k # i
        PROVE  FALSE
    <3>1. k \in GoldTodo /\ picked[i].id <= picked[k].id
      BY <1>1, <2>2 DEF IsGolden, GoldTodo
    <3>2. picked[k].id < picked[i].id
      BY <1>1, <1>3, <2>2 DEF IsGolden
    <3>3. picked[k].id \in Int /\ picked[i].id \in Int
      BY <1>1, <2>2 DEF TypeOK, Flit, Picked
    <3> QED
      BY <3>1, <3>2, <3>3
  <2> QED
    BY <1>1, <2>1, <2>2, NonLocalKeeps DEF AllocateGold
<1> QED
  BY <1>2, <1>3

\* When the other flits of links are served no golden one is waiting.
LEMMA NonGoldKeeps ==
  ASSUME IInv, GInv, NEW i \in InPorts, AllocateNonGold(i)
  PROVE  GInv'
<1>1. \A k \in todo : ~IsGolden(k)
  BY DEF AllocateNonGold, GoldTodo, IsGolden
<1> QED
  BY <1>1, NonLocalKeeps DEF AllocateNonGold, NonLocalIn

\* Local flits come last, and stall if getANonLocalOutport returns -1.
LEMMA LocalKeeps ==
  ASSUME IInv, GInv, NEW i \in InPorts, AllocateLocal(i)
  PROVE  GInv'
<1>1. /\ TypeOK /\ LocalFlitsOK /\ PickedOK /\ pc = "permute" /\ i \in todo
      /\ GoldTodo = {} /\ todo \subseteq LocalIn /\ i \in Picked
      /\ \A j \in todo : i <= j
  BY DEF IInv, AllocateLocal, AllocatedOK
<1>2. ~picked[i].gold /\ \A k \in todo : ~IsGolden(k)
  BY <1>1 DEF GoldTodo, IsGolden
<1>3. picked[i] = top[i][pickedVC[i]] /\ picked[i] \in Flit
  BY <1>1 DEF PickedOK, Picked, TypeOK
<1>4. picked[i].prefer \in NonLocalOut /\ picked[i].prefer \in OutPorts
  BY <1>1, <1>2, <1>3, NoFlitIsNoFlit DEF LocalFlitsOK, TypeOK, NonLocalOut
<1>5. CASE picked[i].prefer \in ava
  <2>1. GrantOf(i, picked[i].prefer, TRUE)
    BY <1>1, <1>2, <1>4, <1>5 DEF AllocateLocal, GrantOf, NonLocalIn
  <2> QED
    BY <1>1, <1>2, <2>1, GrantKeeps
<1>6. CASE picked[i].prefer \notin ava
  <2>1. PICK o \in getANonLocalOutport(i) :
          IF o = None
          THEN Grant(i, picked[i].prefer, FALSE) /\ UNCHANGED ava
          ELSE Grant(i, o, TRUE) /\ ava' = ava \ {o}
    BY <1>6 DEF AllocateLocal
  <2>2. CASE o = None
    <3>1. GrantOf(i, picked[i].prefer, FALSE)
      BY <1>1, <1>2, <1>3, <1>4, <1>6, <2>1, <2>2, NoFlitIsNoFlit
      DEF AllocateLocal, GrantOf, NonLocalIn
    <3>2. ava \cap NonLocalOut = {}
      BY <1>1, <2>1, <2>2, DeflectionPorts
    <3> QED
      BY <1>1, <1>2, <3>1, <3>2, GrantKeeps
  <2>3. CASE o # None
    <3>1. o \in ava \cap NonLocalOut /\ o \in OutPorts
      BY <1>1, <2>3, DeflectionPorts DEF TypeOK
    <3>2. GrantOf(i, o, TRUE)
      BY <1>1, <1>2, <2>1, <2>3, <3>1
      DEF AllocateLocal, GrantOf, NonLocalIn
    <3> QED
      BY <1>1, <1>2, <3>2, GrantKeeps
  <2> QED
    BY <2>2, <2>3
<1> QED
  BY <1>5, <1>6

\* SA-I starts with all the ports of the wave and nothing allocated.
LEMMA PickKeeps ==
  ASSUME IInv, GInv, arbitrate_inports
  PROVE  GInv'
<1>1. /\ TypeOK /\ pc' = "permute" /\ sent' = sent /\ wave' = wave
      /\ pc = "input" /\ ava' = Available(wave)
  BY DEF IInv, arbitrate_inports
<1>2. Available(wave)' = Available(wave)
  BY <1>1 DEF Available
<1>3. Allocated' = {}
  <2> SUFFICES ASSUME NEW i \in Picked' PROVE i \in todo'
    BY DEF Allocated
  <2>1. i \in InPorts /\ Occupied(i) # {}
    BY DEF arbitrate_inports, Picked
  <2> QED
    BY <2>1 DEF arbitrate_inports
<1> QED
  BY <1>1, <1>2, <1>3
  DEF GInv, NothingSent, TakenIsReserved, StalledLast, GoldenFirst

\* The strengthened invariant is inductive.
LEMMA GInvInductive == IInv /\ IInv' /\ GInv /\ [Next]_vars => GInv'
<1> SUFFICES ASSUME IInv, IInv', GInv, [Next]_vars PROVE GInv'
  OBVIOUS
<1>1. ASSUME NEW i \in InPorts, InputUnitWakeup(i) PROVE GInv'
  BY <1>1 DEF InputUnitWakeup, GInv, NothingSent, TakenIsReserved,
              StalledLast, GoldenFirst, Allocation
<1>2. ASSUME NEW i \in InPorts,
             AllocateGold(i) \/ AllocateNonGold(i) \/ AllocateLocal(i)
      PROVE  GInv'
  BY <1>2, GoldKeeps, NonGoldKeeps, LocalKeeps
<1>3. CASE arbitrate_inports
  BY <1>3, PickKeeps
<1>4. CASE PlaceRequests
  <2>1. /\ Allocation /\ pc # "done" /\ pc' # "done" /\ UNCHANGED sent
        /\ UNCHANGED <<wave, todo, picked, ava, flag, port>>
    BY <1>4 DEF PlaceRequests, Allocation
  <2> QED
    BY <2>1, SameAllocation DEF GInv, IInv
<1>5. CASE arbitrate_outports
  <2>1. /\ Allocation /\ pc # "done" /\ pc' = "done"
        /\ UNCHANGED <<wave, todo, picked, ava, flag, port>>
    BY <1>5 DEF arbitrate_outports, Allocation
  <2>2. NothingSent'
    BY <2>1 DEF NothingSent
  <2> QED
    BY <2>1, <2>2, SameAllocation DEF GInv, IInv
<1>6. CASE NextCycle
  BY <1>6 DEF NextCycle, GInv, NothingSent, TakenIsReserved, StalledLast,
              GoldenFirst, Allocation
<1>7. CASE UNCHANGED vars
  <2>1. /\ Picked' = Picked /\ Allocated' = Allocated
        /\ Available(wave)' = Available(wave) /\ Allocation' = Allocation
        /\ \A i : /\ Reserved(i)' = Reserved(i) /\ IsGolden(i)' = IsGolden(i)
                  /\ uTurn(i)' = uTurn(i)
    BY <1>7 DEF vars, Picked, Allocated, Available, Reserved, IsGolden, uTurn,
                Allocation
  <2> QED
    BY <1>7, <2>1 DEF vars, GInv, NothingSent, TakenIsReserved, StalledLast,
                      GoldenFirst
<1> QED
  BY <1>1, <1>2, <1>3, <1>4, <1>5, <1>6, <1>7 DEF Next

\* Both invariants hold in every reachable state.
LEMMA Invariants == Spec => [](IInv /\ GInv)
  BY InitIInv, InitGInv, IInvInductive, GInvInductive, PTL DEF Spec

\* What a released flit had been granted, and what a reserved port releases.
LEMMA SentIsGranted ==
  ASSUME IInv, pc = "done"
  PROVE  /\ \A o \in OutPorts : sent[o] # None =>
              sent[o] \in Allocated /\ port[sent[o]] = o /\ send_allowed(sent[o])
         /\ \A i \in Allocated : Reserved(i) => sent[port[i]] = i
<1>1. TypeOK /\ AllocatedOK /\ RequestsOK
  BY DEF IInv
<1>2. ASSUME NEW o \in OutPorts, sent[o] # None
      PROVE  /\ sent[o] \in Allocated /\ port[sent[o]] = o
             /\ send_allowed(sent[o])
  <2>1. sent[o] = Winner(o) /\ Eligible(o) # {}
    BY <1>1, <1>2 DEF RequestsOK, Winner
  <2>2. sent[o] \in Requesters(o)
    BY <1>1, <2>1, WinnerType DEF Eligible
  <2> QED
    BY <2>2, RequestersOf DEF Requesting
<1>3. ASSUME NEW i \in Allocated, Reserved(i)
      PROVE  sent[port[i]] = i
  <2>1. i \in Picked /\ port[i] \in OutPorts
    BY <1>1 DEF Allocated, AllocatedOK
  <2> QED
    BY <1>1, <1>3, <2>1, ReservedWins DEF RequestsOK
<1> QED
  BY <1>2, <1>3

-----------------------------------------------------------------------------
\* With TDM_ no link is driven outside its waves, whatever deflects flits: what
\* SA-II releases was reserved by permutation_CHIPPER, in areLinksAvaliable.
THEOREM WavesAreRespected ==
  ASSUME Tdm = TRUE
  PROVE  Spec => []WaveRespected
<1>1. IInv /\ GInv => WaveRespected
  <2> SUFFICES ASSUME IInv, GInv, NEW o \in NonLocalOut, sent[o] # None
               PROVE  (wave + 1) % WaveNum \in WaveTable[o]
    BY DEF WaveRespected
  <2>1. o \in OutPorts /\ OutDir[o] # Local /\ o \notin LocalOut /\ pc = "done"
    BY DEF NonLocalOut, LocalOut, GInv, NothingSent
  <2> DEFINE i == sent[o]
  <2>2. i \in Allocated /\ port[i] = o /\ flag[i] /\ i \in Picked
    BY <2>1, SentIsGranted DEF send_allowed, Allocated
  <2>3. Reserved(i)
    BY <2>1, <2>2 DEF Reserved, IInv, AllocatedOK
  <2>4. o \in Available(wave)
    BY <2>1, <2>2, <2>3 DEF IInv, AllocatedOK
  <2> QED
    BY <2>1, <2>4 DEF Available, isLinkAvaliable
<1> QED
  BY <1>1, Invariants, PTL

\* While a Local flit is held back every link of the wave carries a flit.
THEOREM LinksAreNotIdle == Spec => []WorkConserving
<1>1. IInv /\ GInv => WorkConserving
  <2> SUFFICES ASSUME IInv, GInv, pc = "done", NEW i \in LocalIn,
                      picked[i] # NoFlit, ~picked[i].gold,
                      \A o \in OutPorts : sent[o] # i,
                      NEW p \in Available(wave) \cap NonLocalOut
               PROVE  sent[p] # None
    BY DEF WorkConserving
  <2>1. i \in Allocated /\ i \in Picked /\ port[i] \in OutPorts
    BY RequestersOf DEF Picked, LocalIn, IInv, AllocatedOK
  <2>2. ~flag[i]
    BY <2>1, SentIsGranted DEF Reserved
  <2>3. p \notin ava
    BY <2>1, <2>2 DEF GInv, StalledLast, Allocation
  <2>4. PICK j \in Allocated : Reserved(j) /\ port[j] = p
    BY <2>3 DEF GInv, TakenIsReserved, Allocation
  <2>5. sent[p] = j /\ j \in InPorts
    BY <2>4, SentIsGranted DEF Allocated, Picked
  <2> QED
    BY <2>5, PortAssumption DEF None
<1> QED
  BY <1>1, Invariants, PTL

\* A gold flit with a smaller id than all others of its router leaves by the
\* port it prefers if that is a link of the wave and not the way it came.
THEOREM GoldIsNotDeflected == Spec => []GoldenNotDeflected
<1>1. IInv /\ GInv => GoldenNotDeflected
  <2> SUFFICES ASSUME IInv, GInv, pc = "done", NEW i \in InPorts, IsGolden(i),
                      ~uTurn(i), picked[i].prefer \in Available(wave)
               PROVE  sent[picked[i].prefer] = i
    BY DEF GoldenNotDeflected
  <2>1. i \in Picked \ LocalIn
    BY DEF IsGolden
  <2>2. i \in Allocated /\ Reserved(i)
    BY <2>1, RequestersOf
  <2>3. port[i] = picked[i].prefer
    BY <2>2 DEF GInv, GoldenFirst, Allocation
  <2> QED
    BY <2>2, <2>3, SentIsGranted
<1> QED
  BY <1>1, Invariants, PTL
=============================================================================
