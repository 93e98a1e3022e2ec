-------------------------- MODULE FlowControlProofs --------------------------
(***************************************************************************)
(* Proofs about FlowControl, for any number of VCs, sources and buffers    *)
(* and packets of any length.                                              *)
(*                                                                         *)
(* The inductive invariant describes one output VC from end to end: where  *)
(* its credits are, that its packet is a head followed by other flits      *)
(* followed by a tail, and who may add to it.                              *)
(***************************************************************************)
EXTENDS FlowControl, SequenceTheorems, TLAPS

\* A VC that is free upstream has nothing under way in either direction.
IdleOK(v) ==
  outState[v] = IDLE_ =>
    /\ credit[v] = MaxCredit
    /\ vcState[v] = IDLE_
    /\ \A s \in Sources : outvc[s] # v

\* The source that has the VC: there is no other, it has flits left, and all
\* that is under way is its own and not the tail.
OwnerOK(v) ==
  \A s \in Sources : outvc[s] = v =>
    /\ left[s] > 0
    /\ vcState[v] = IDLE_ => link[v] # <<>>
    /\ \A t \in Sources : outvc[t] = v => s = t
    /\ \A k \in 1 .. Len(buf[v])  : buf[v][k].src = s  /\ ~buf[v][k].tail
    /\ \A k \in 1 .. Len(link[v]) : link[v][k].src = s /\ ~link[v][k].tail
    /\ \A k \in 1 .. Len(credits[v]) : ~credits[v][k].is_free_signal

\* A tail is the last flit under way.
TailsOK(v) ==
  /\ \A k \in 1 .. Len(buf[v]) :
       buf[v][k].tail => k = Len(buf[v]) /\ link[v] = <<>>
  /\ \A k \in 1 .. Len(link[v]) : link[v][k].tail => k = Len(link[v])

\* A head on the link comes first, and meets an idle VC.
HeadsOK(v) ==
  /\ \A k \in 1 .. Len(link[v]) : link[v][k].head => k = 1 /\ vcState[v] = IDLE_
  /\ vcState[v] = IDLE_ =>
       buf[v] = <<>> /\ (link[v] # <<>> => Head(link[v]).head)

\* The free signal is in the last credit of a packet.
CreditsOK(v) ==
  \A k \in 1 .. Len(credits[v]) : credits[v][k].is_free_signal =>
    /\ k = Len(credits[v])
    /\ link[v] = <<>> /\ buf[v] = <<>> /\ vcState[v] = IDLE_

\* What is under way in a VC belongs to one packet.
SourcesOK(v) ==
  /\ \A j, k \in 1 .. Len(buf[v])  : buf[v][j].src = buf[v][k].src
  /\ \A j, k \in 1 .. Len(link[v]) : link[v][j].src = link[v][k].src
  /\ \A j \in 1 .. Len(buf[v]), k \in 1 .. Len(link[v]) :
       buf[v][j].src = link[v][k].src

Balanced(v) ==
  credit[v] + Len(link[v]) + Len(buf[v]) + Len(credits[v]) = MaxCredit

VCInv(v) ==
  /\ Balanced(v)
  /\ IdleOK(v)
  /\ OwnerOK(v)
  /\ TailsOK(v)
  /\ HeadsOK(v)
  /\ CreditsOK(v)
  /\ SourcesOK(v)

IInv == TypeOK /\ \A v \in VCs : VCInv(v)

-----------------------------------------------------------------------------
\* What Head and Tail return.
LEMMA TailFacts ==
  ASSUME NEW S, NEW q \in Seq(S), q # <<>>
  PROVE  /\ Len(q) \in Nat /\ Len(q) > 0 /\ 1 \in 1 .. Len(q)
         /\ Head(q) = q[1] /\ Head(q) \in S
         /\ Tail(q) \in Seq(S) /\ Len(Tail(q)) = Len(q) - 1
         /\ \A k \in 1 .. Len(Tail(q)) :
              Tail(q)[k] = q[k + 1] /\ k + 1 \in 1 .. Len(q)
<1>1. Len(q) \in Nat /\ Len(q) > 0
  BY EmptySeq
<1>2. Head(q) = q[1] /\ 1 \in 1 .. Len(q)
  BY <1>1
<1>3. Head(q) \in S /\ Tail(q) \in Seq(S) /\ Len(Tail(q)) = Len(q) - 1
  BY HeadTailProperties
<1>4. \A k \in 1 .. Len(Tail(q)) : Tail(q)[k] = q[k + 1]
  BY HeadTailProperties
<1>5. \A k \in 1 .. Len(Tail(q)) : k + 1 \in 1 .. Len(q)
  BY <1>1, <1>3
<1> QED
  BY <1>1, <1>2, <1>3, <1>4, <1>5

\* What Append returns.
LEMMA AppendFacts ==
  ASSUME NEW S, NEW q \in Seq(S), NEW e \in S
  PROVE  /\ Append(q, e) \in Seq(S) /\ Append(q, e) # <<>>
         /\ Len(Append(q, e)) = Len(q) + 1
         /\ \A k \in 1 .. Len(q) : Append(q, e)[k] = q[k]
         /\ Append(q, e)[Len(q) + 1] = e
  BY AppendProperties

\* The numbers a balance is about.
LEMMA BalanceOf ==
  ASSUME TypeOK, NEW v \in VCs, Balanced(v)
  PROVE  \E a, b, c, d, m \in Nat :
           /\ credit[v] = a /\ Len(link[v]) = b /\ Len(buf[v]) = c
           /\ Len(credits[v]) = d /\ MaxCredit = m
           /\ a + b + c + d = m
<1>1. /\ link[v] \in Seq(Flit) /\ buf[v] \in Seq(Flit)
      /\ credits[v] \in Seq(Credit) /\ credit[v] \in 0 .. MaxCredit
  BY DEF TypeOK
<1>2. /\ Len(link[v]) \in Nat /\ Len(buf[v]) \in Nat
      /\ Len(credits[v]) \in Nat /\ credit[v] \in Nat /\ MaxCredit \in Nat
  BY <1>1, Parameters
<1> QED
  BY <1>2 DEF Balanced

\* A VC whose credits are all upstream is empty.
LEMMA AllCreditsMeansEmpty ==
  ASSUME TypeOK, NEW v \in VCs, Balanced(v), credit[v] = MaxCredit
  PROVE  link[v] = <<>> /\ buf[v] = <<>> /\ credits[v] = <<>>
<1>1. /\ link[v] \in Seq(Flit) /\ buf[v] \in Seq(Flit)
      /\ credits[v] \in Seq(Credit)
  BY DEF TypeOK
<1>2. /\ Len(link[v]) \in Nat /\ Len(buf[v]) \in Nat
      /\ Len(credits[v]) \in Nat /\ MaxCredit \in Nat
  BY <1>1, Parameters
<1>3. Len(link[v]) = 0 /\ Len(buf[v]) = 0 /\ Len(credits[v]) = 0
  <2>1. PICK a \in Nat, b \in Nat, c \in Nat :
          a = Len(link[v]) /\ b = Len(buf[v]) /\ c = Len(credits[v])
    BY <1>2
  <2>2. MaxCredit + a + b + c = MaxCredit
    BY <2>1 DEF Balanced
  <2>3. a = 0 /\ b = 0 /\ c = 0
    BY <1>2, <2>2
  <2> QED
    BY <2>1, <2>3
<1>4. link[v] = <<>>
  BY <1>1, <1>3, EmptySeq
<1>5. buf[v] = <<>>
  BY <1>1, <1>3, EmptySeq
<1>6. credits[v] = <<>>
  BY <1>1, <1>3, EmptySeq
<1> QED
  BY <1>4, <1>5, <1>6

\* A VC that an action leaves alone keeps its invariant; the sources may only
\* have given up other VCs.
LEMMA Untouched ==
  ASSUME NEW v \in VCs, VCInv(v),
         UNCHANGED <<outState[v], credit[v], link[v], vcState[v], buf[v],
                     credits[v]>>,
         \A s \in Sources : outvc'[s] = v => outvc[s] = v /\ left'[s] = left[s]
  PROVE  VCInv(v)'
<1> USE DEF VCInv
<1>1. Balanced(v)'
  BY DEF Balanced
<1>2. IdleOK(v)'
  BY DEF IdleOK
<1>3. OwnerOK(v)'
  BY DEF OwnerOK
<1>4. TailsOK(v)' /\ HeadsOK(v)'
  BY DEF TailsOK, HeadsOK
<1>5. CreditsOK(v)' /\ SourcesOK(v)'
  BY DEF CreditsOK, SourcesOK
<1> QED
  BY <1>1, <1>2, <1>3, <1>4, <1>5

-----------------------------------------------------------------------------
\* Nothing is under way in a new output port.
LEMMA InitIInv == Init => IInv
<1> SUFFICES ASSUME Init PROVE IInv
  OBVIOUS
<1> USE DEF Init
<1>1. NoVC \notin VCs
  BY DEF NoVC, VCs
<1>2. TypeOK
  BY Parameters DEF TypeOK
<1>3. ASSUME NEW v \in VCs PROVE VCInv(v)
  <2>1. Len(link[v]) = 0 /\ Len(buf[v]) = 0 /\ Len(credits[v]) = 0
    OBVIOUS
  <2>2. Balanced(v)
    BY <2>1, Parameters DEF Balanced
  <2>3. IdleOK(v) /\ OwnerOK(v)
    BY <1>1 DEF IdleOK, OwnerOK
  <2>4. TailsOK(v) /\ HeadsOK(v) /\ CreditsOK(v) /\ SourcesOK(v)
    BY <2>1 DEF TailsOK, HeadsOK, CreditsOK, SourcesOK
  <2> QED
    BY <2>2, <2>3, <2>4 DEF VCInv
<1> QED
  BY <1>2, <1>3 DEF IInv

\* A new packet at a source: its VC upstream had no flits, hence no output VC.
LEMMA NewPacketStep ==
  ASSUME IInv, NEW s \in Sources, NewPacket(s)
  PROVE  IInv'
<1> USE DEF NewPacket
<1>1. TypeOK'
  BY DEF IInv, TypeOK
<1>2. ASSUME NEW v \in VCs PROVE VCInv(v)'
  <2>1. outvc[s] # v
    BY DEF IInv, VCInv, OwnerOK
  <2>2. \A t \in Sources : outvc'[t] = v => outvc[t] = v /\ left'[t] = left[t]
    BY <2>1 DEF IInv, TypeOK
  <2> QED
    BY <2>2, Untouched DEF IInv
<1> QED
  BY <1>1, <1>2 DEF IInv

\* Sending a flit keeps types and counts.
LEMMA SendType ==
  ASSUME IInv, NEW s \in Sources, NEW v \in VCs, left[s] > 0, credit[v] > 0,
         Send(s, v), outState' \in [VCs -> {IDLE_, ACTIVE_}]
  PROVE  /\ TypeOK'
         /\ NextFlit(s) \in Flit
         /\ link'[v] = Append(link[v], NextFlit(s))
         /\ Balanced(v)'
         /\ \A u \in VCs \ {v} : credit'[u] = credit[u] /\ link'[u] = link[u]
<1> USE DEF Send, SwitchTraversal, decrement_credit
<1>1. TypeOK /\ Balanced(v)
  BY DEF IInv, VCInv
<1>2. NextFlit(s) \in Flit
  BY <1>1 DEF NextFlit, Flit, TypeOK
<1>3. /\ link'[v] = Append(link[v], NextFlit(s))
      /\ credit'[v] = credit[v] - 1
      /\ \A u \in VCs \ {v} : credit'[u] = credit[u] /\ link'[u] = link[u]
  BY <1>1 DEF TypeOK
<1>4. /\ link'[v] \in Seq(Flit) /\ Len(link'[v]) = Len(link[v]) + 1
      /\ Len(link[v]) \in Nat /\ Len(buf[v]) \in Nat /\ Len(credits[v]) \in Nat
  BY <1>1, <1>2, <1>3, AppendFacts DEF TypeOK
<1>5. Balanced(v)'
  BY <1>1, <1>3, <1>4, Parameters DEF Balanced, TypeOK
<1>6. TypeOK'
  <2>1. left' \in [Sources -> 0 .. MaxFlits]
    BY <1>1, Parameters DEF TypeOK
  <2>2. outvc' \in [Sources -> VCs \cup {NoVC}]
    BY <1>1 DEF TypeOK
  <2>3. credit' \in [VCs -> 0 .. MaxCredit]
    BY <1>1, Parameters DEF TypeOK
  <2>4. link' \in [VCs -> Seq(Flit)]
    BY <1>1, <1>3, <1>4 DEF TypeOK
  <2> QED
    BY <1>1, <2>1, <2>2, <2>3, <2>4 DEF TypeOK
<1> QED
  BY <1>2, <1>3, <1>5, <1>6

\* The head of a packet goes into a VC that is empty from end to end.
LEMMA SendHeadStep ==
  ASSUME IInv, NEW s \in Sources, SendHead(s)
  PROVE  IInv'
<1> USE DEF SendHead
<1>1. TypeOK /\ left[s] > 0 /\ outvc[s] = NoVC /\ NoVC \notin VCs
  BY DEF IInv, NoVC, VCs
<1>2. PICK v \in VCs : /\ select_free_vc(s, v)
                       /\ outState' = [outState EXCEPT ![v] = ACTIVE_]
                       /\ Send(s, v)
  OBVIOUS
<1>3. outState[v] = IDLE_ /\ VCInv(v)
  BY <1>2 DEF IInv, select_free_vc, FreeVCs
<1>4. /\ credit[v] = MaxCredit /\ vcState[v] = IDLE_
      /\ \A t \in Sources : outvc[t] # v
      /\ link[v] = <<>> /\ buf[v] = <<>> /\ credits[v] = <<>>
  BY <1>1, <1>3, AllCreditsMeansEmpty DEF VCInv, IdleOK
<1>5. credit[v] > 0 /\ outState' \in [VCs -> {IDLE_, ACTIVE_}]
  BY <1>1, <1>2, <1>4, Parameters DEF TypeOK
<1>6. /\ TypeOK' /\ Balanced(v)' /\ NextFlit(s) \in Flit
      /\ link'[v] = Append(link[v], NextFlit(s))
      /\ \A u \in VCs \ {v} : credit'[u] = credit[u] /\ link'[u] = link[u]
  BY <1>1, <1>2, <1>5, SendType
<1>7. /\ link'[v] = <<NextFlit(s)>> /\ Len(link'[v]) = 1
      /\ link'[v][1] = NextFlit(s) /\ Head(link'[v]) = NextFlit(s)
      /\ buf'[v] = <<>> /\ Len(buf'[v]) = 0
      /\ credits'[v] = <<>> /\ Len(credits'[v]) = 0
      /\ vcState'[v] = IDLE_ /\ outState'[v] = ACTIVE_
  BY <1>1, <1>2, <1>4, <1>6 DEF Send, TypeOK
<1>8. /\ NextFlit(s).head /\ NextFlit(s).src = s
      /\ NextFlit(s).tail <=> left[s] = 1
  BY <1>1 DEF NextFlit
<1>9. /\ \A t \in Sources \ {s} : outvc'[t] = outvc[t] /\ left'[t] = left[t]
      /\ outvc'[s] = IF left[s] = 1 THEN NoVC ELSE v
      /\ left'[s] = left[s] - 1
  BY <1>1, <1>2 DEF Send, TypeOK
<1>10. VCInv(v)'
  <2>1. IdleOK(v)'
    BY <1>7 DEF IdleOK, IDLE_, ACTIVE_
  <2>2. OwnerOK(v)'
    <3> SUFFICES ASSUME NEW t \in Sources, outvc'[t] = v
                 PROVE  /\ t = s /\ left[s] # 1 /\ left'[s] > 0
      BY <1>7, <1>8, <1>9, <1>4 DEF OwnerOK
    <3>1. t = s
      BY <1>4, <1>9
    <3>2. left[s] # 1
      BY <1>1, <1>9, <3>1
    <3> QED
      BY <1>1, <1>9, <3>1, <3>2 DEF TypeOK
  <2>3. TailsOK(v)' /\ HeadsOK(v)'
    BY <1>7, <1>8 DEF TailsOK, HeadsOK
  <2>4. CreditsOK(v)' /\ SourcesOK(v)'
    BY <1>7 DEF CreditsOK, SourcesOK
  <2> QED
    BY <1>6, <2>1, <2>2, <2>3, <2>4 DEF VCInv
<1>11. ASSUME NEW u \in VCs, u # v PROVE VCInv(u)'
  <2>1. /\ outState'[u] = outState[u] /\ vcState'[u] = vcState[u]
        /\ buf'[u] = buf[u] /\ credits'[u] = credits[u]
    BY <1>1, <1>2, <1>11 DEF Send, TypeOK
  <2>2. \A t \in Sources : outvc'[t] = u => outvc[t] = u /\ left'[t] = left[t]
    BY <1>1, <1>9, <1>11
  <2> QED
    BY <1>6, <1>11, <2>1, <2>2, Untouched DEF IInv
<1> QED
  BY <1>6, <1>10, <1>11 DEF IInv

\* The other flits of a packet follow it into the VC it owns.
LEMMA SendBodyStep ==
  ASSUME IInv, NEW s \in Sources, SendBody(s)
  PROVE  IInv'
<1> USE DEF SendBody
<1>0. PICK v \in VCs : outvc[s] = v
  BY DEF IInv, TypeOK
<1>1. /\ TypeOK /\ left[s] > 0 /\ NoVC \notin VCs
      /\ outState[v] = ACTIVE_ /\ Send(s, v) /\ credit[v] > 0
      /\ outState' = outState /\ VCInv(v)
  BY <1>0 DEF IInv, NoVC, VCs, has_credit
<1>2. /\ \A t \in Sources : outvc[t] = v => s = t
      /\ vcState[v] = IDLE_ => link[v] # <<>>
      /\ \A k \in 1 .. Len(buf[v])  : buf[v][k].src = s  /\ ~buf[v][k].tail
      /\ \A k \in 1 .. Len(link[v]) : link[v][k].src = s /\ ~link[v][k].tail
      /\ \A k \in 1 .. Len(credits[v]) : ~credits[v][k].is_free_signal
  BY <1>0, <1>1 DEF VCInv, OwnerOK
<1>3. /\ TypeOK' /\ Balanced(v)' /\ NextFlit(s) \in Flit
      /\ link'[v] = Append(link[v], NextFlit(s))
      /\ \A u \in VCs \ {v} : credit'[u] = credit[u] /\ link'[u] = link[u]
  BY <1>1, SendType DEF TypeOK
<1>4. link[v] \in Seq(Flit) /\ Len(link[v]) \in Nat /\ Len(buf[v]) \in Nat
  BY <1>1 DEF TypeOK
<1>5. /\ link'[v] # <<>> /\ Len(link'[v]) = Len(link[v]) + 1
      /\ \A k \in 1 .. Len(link[v]) : link'[v][k] = link[v][k]
      /\ link'[v][Len(link[v]) + 1] = NextFlit(s)
      /\ buf'[v] = buf[v] /\ credits'[v] = credits[v]
      /\ vcState'[v] = vcState[v]
  BY <1>1, <1>3, <1>4, AppendFacts DEF Send
<1>6. /\ ~NextFlit(s).head /\ NextFlit(s).src = s
      /\ NextFlit(s).tail <=> left[s] = 1
  BY <1>0, <1>1 DEF NextFlit, NoVC, VCs
<1>7. /\ \A t \in Sources \ {s} : outvc'[t] = outvc[t] /\ left'[t] = left[t]
      /\ outvc'[s] = IF left[s] = 1 THEN NoVC ELSE v
      /\ left'[s] = left[s] - 1
  BY <1>0, <1>1 DEF Send, TypeOK
<1>8. VCInv(v)'
  <2>1. IdleOK(v)'
    BY <1>1 DEF IdleOK, IDLE_, ACTIVE_
  <2>2. \A k \in 1 .. Len(link'[v]) : k \in 1 .. Len(link[v])
                                      \/ k = Len(link[v]) + 1
    BY <1>4, <1>5
  <2>3. OwnerOK(v)'
    <3> SUFFICES ASSUME NEW t \in Sources, outvc'[t] = v
                 PROVE  /\ t = s /\ left[s] # 1 /\ left'[s] > 0
      BY <1>2, <1>5, <1>6, <1>7, <2>2 DEF OwnerOK
    <3>1. t = s
      BY <1>2, <1>7
    <3>2. left[s] # 1
      BY <1>1, <1>7, <3>1
    <3> QED
      BY <1>1, <1>7, <3>1, <3>2 DEF TypeOK
  <2>4. TailsOK(v)'
    BY <1>2, <1>4, <1>5, <2>2 DEF TailsOK
  <2>5. HeadsOK(v)'
    <3>1. HeadsOK(v)
      BY <1>1 DEF VCInv
    <3>2. vcState[v] = IDLE_ => Head(link'[v]) = Head(link[v])
      <4> SUFFICES ASSUME vcState[v] = IDLE_
                   PROVE  Head(link'[v]) = Head(link[v])
        OBVIOUS
      <4>1. link[v] # <<>> /\ Len(link[v]) > 0
        BY <1>2, <1>4, EmptySeq
      <4> QED
        BY <1>3, <1>4, <1>5, <4>1, TailFacts DEF TypeOK
    <3> QED
      BY <1>2, <1>4, <1>5, <1>6, <2>2, <3>1, <3>2 DEF HeadsOK
  <2>6. CreditsOK(v)'
    BY <1>2, <1>5 DEF CreditsOK
  <2>7. SourcesOK(v)'
    <3>1. \A k \in 1 .. Len(buf'[v]) : buf'[v][k].src = s
      BY <1>2, <1>5
    <3>2. \A k \in 1 .. Len(link'[v]) : link'[v][k].src = s
      BY <1>2, <1>5, <1>6, <2>2
    <3> QED
      BY <3>1, <3>2 DEF SourcesOK
  <2> QED
    BY <1>3, <2>1, <2>3, <2>4, <2>5, <2>6, <2>7 DEF VCInv
<1>9. ASSUME NEW u \in VCs, u # v PROVE VCInv(u)'
  <2>1. /\ outState'[u] = outState[u] /\ vcState'[u] = vcState[u]
        /\ buf'[u] = buf[u] /\ credits'[u] = credits[u]
    BY <1>1 DEF Send
  <2>2. \A t \in Sources : outvc'[t] = u => outvc[t] = u /\ left'[t] = left[t]
    BY <1>1, <1>7, <1>9
  <2> QED
    BY <1>3, <1>9, <2>1, <2>2, Untouched DEF IInv
<1> QED
  BY <1>3, <1>8, <1>9 DEF IInv

\* InputUnit::wakeup moves the oldest flit on the link to the end of the
\* buffer: a head into an idle VC, any other behind the flits of its packet.
LEMMA ArrivalStep ==
  ASSUME IInv, NEW v \in VCs, InputUnitWakeup(v)
  PROVE  IInv'
<1> USE DEF InputUnitWakeup
<1>1. /\ TypeOK /\ VCInv(v) /\ link[v] # <<>>
      /\ link[v] \in Seq(Flit) /\ buf[v] \in Seq(Flit)
      /\ credits[v] \in Seq(Credit)
  BY DEF IInv, TypeOK
<1> DEFINE f == link[v][1]
<1>2. /\ Len(link[v]) \in Nat /\ Len(link[v]) > 0 /\ Len(buf[v]) \in Nat
      /\ Head(link[v]) = f /\ f \in Flit /\ Len(credits[v]) \in Nat
  BY <1>1, TailFacts
<1>3. /\ link'[v] = Tail(link[v]) /\ buf'[v] = Append(buf[v], f)
      /\ vcState'[v] = ACTIVE_ /\ credits'[v] = credits[v]
      /\ credit'[v] = credit[v] /\ outState'[v] = outState[v]
      /\ outvc' = outvc /\ left' = left
  BY <1>1, <1>2 DEF TypeOK
<1>4. /\ link'[v] \in Seq(Flit) /\ Len(link'[v]) = Len(link[v]) - 1
      /\ \A k \in 1 .. Len(link'[v]) :
           link'[v][k] = link[v][k + 1] /\ k + 1 \in 1 .. Len(link[v])
  <2>1. /\ Tail(link[v]) \in Seq(Flit) /\ Len(Tail(link[v])) = Len(link[v]) - 1
        /\ \A k \in 1 .. Len(Tail(link[v])) :
             Tail(link[v])[k] = link[v][k + 1] /\ k + 1 \in 1 .. Len(link[v])
    BY <1>1, TailFacts
  <2> QED
    BY <1>3, <2>1
<1>5. /\ buf'[v] \in Seq(Flit) /\ Len(buf'[v]) = Len(buf[v]) + 1
      /\ \A k \in 1 .. Len(buf[v]) : buf'[v][k] = buf[v][k]
      /\ buf'[v][Len(buf[v]) + 1] = f
  BY <1>1, <1>2, <1>3, AppendFacts
<1>6. \A k \in 1 .. Len(buf'[v]) : k \in 1 .. Len(buf[v]) \/ k = Len(buf[v]) + 1
  BY <1>2, <1>5
<1>7. TypeOK'
  <2>1. link' \in [VCs -> Seq(Flit)] /\ buf' \in [VCs -> Seq(Flit)]
    BY <1>1, <1>3, <1>4, <1>5 DEF TypeOK
  <2>2. vcState' \in [VCs -> {IDLE_, ACTIVE_}]
    BY <1>1 DEF TypeOK
  <2> QED
    BY <1>1, <2>1, <2>2 DEF TypeOK
<1>8. VCInv(v)'
  <2>1. 1 \in 1 .. Len(link[v])
    BY <1>2
  <2>2. Balanced(v)'
    <3>1. PICK a, b, c, d, m \in Nat :
            /\ credit[v] = a /\ Len(link[v]) = b /\ Len(buf[v]) = c
            /\ Len(credits[v]) = d /\ MaxCredit = m
            /\ a + b + c + d = m
      BY <1>1, BalanceOf DEF VCInv
    <3>2. a + (b - 1) + (c + 1) + d = m
      BY <3>1
    <3> QED
      BY <1>3, <1>4, <1>5, <3>1, <3>2 DEF Balanced
  <2>3. outState[v] # IDLE_
    BY <1>1, AllCreditsMeansEmpty DEF VCInv, IdleOK
  <2>4. \A k \in 1 .. Len(credits[v]) : ~credits[v][k].is_free_signal
    BY <1>1 DEF VCInv, CreditsOK
  <2>5. OwnerOK(v)'
    <3> SUFFICES ASSUME NEW s \in Sources, outvc'[s] = v
                 PROVE  /\ left'[s] > 0
                        /\ vcState'[v] = IDLE_ => link'[v] # <<>>
                        /\ \A t \in Sources : outvc'[t] = v => s = t
                        /\ \A k \in 1 .. Len(buf'[v]) :
                             buf'[v][k].src = s /\ ~buf'[v][k].tail
                        /\ \A k \in 1 .. Len(link'[v]) :
                             link'[v][k].src = s /\ ~link'[v][k].tail
                        /\ \A k \in 1 .. Len(credits'[v]) :
                             ~credits'[v][k].is_free_signal
      BY DEF OwnerOK
    <3>1. /\ outvc[s] = v /\ left[s] > 0
          /\ \A t \in Sources : outvc[t] = v => s = t
          /\ \A k \in 1 .. Len(buf[v]) : buf[v][k].src = s /\ ~buf[v][k].tail
          /\ \A k \in 1 .. Len(link[v]) : link[v][k].src = s /\ ~link[v][k].tail
      BY <1>1, <1>3 DEF VCInv, OwnerOK
    <3>2. \A k \in 1 .. Len(buf'[v]) : buf'[v][k].src = s /\ ~buf'[v][k].tail
      BY <1>5, <1>6, <2>1, <3>1
    <3>3. \A k \in 1 .. Len(link'[v]) : link'[v][k].src = s /\ ~link'[v][k].tail
      BY <1>4, <3>1
    <3>4. vcState'[v] # IDLE_
      BY <1>3 DEF IDLE_, ACTIVE_
    <3>5. /\ left'[s] > 0 /\ \A t \in Sources : outvc'[t] = v => s = t
          /\ \A k \in 1 .. Len(credits'[v]) : ~credits'[v][k].is_free_signal
      BY <1>3, <2>4, <3>1
    <3> QED
      BY <3>2, <3>3, <3>4, <3>5
  <2>6. \A k \in 1 .. Len(buf[v]) : ~buf[v][k].tail
    BY <1>1 DEF VCInv, TailsOK
  <2>7. f.tail => Len(link[v]) = 1
    BY <1>1, <2>1 DEF VCInv, TailsOK
  <2>8. f.tail => link'[v] = <<>>
    BY <1>2, <1>4, <2>7, EmptySeq
  <2>9. TailsOK(v)'
    BY <1>1, <1>2, <1>4, <1>5, <1>6, <2>6, <2>8 DEF VCInv, TailsOK
  <2>10. HeadsOK(v)'
    <3>1. \A k \in 1 .. Len(link'[v]) : ~link'[v][k].head
      <4> SUFFICES ASSUME NEW k \in 1 .. Len(link'[v]), link'[v][k].head
                   PROVE  FALSE
        OBVIOUS
      <4>1. link[v][k + 1].head /\ k + 1 \in 1 .. Len(link[v])
        BY <1>4
      <4>2. k + 1 = 1
        BY <1>1, <4>1 DEF VCInv, HeadsOK
      <4> QED
        BY <4>2
    <3> QED
      BY <1>3, <3>1 DEF HeadsOK, IDLE_, ACTIVE_
  <2>11. CreditsOK(v)'
    BY <1>3, <2>4 DEF CreditsOK
  <2>12. SourcesOK(v)'
    BY <1>1, <1>4, <1>5, <1>6, <2>1 DEF VCInv, SourcesOK
  <2>13. IdleOK(v)'
    BY <1>3, <2>3 DEF IdleOK
  <2> QED
    BY <2>2, <2>5, <2>9, <2>10, <2>11, <2>12, <2>13 DEF VCInv
<1>9. ASSUME NEW u \in VCs, u # v PROVE VCInv(u)'
  <2>1. UNCHANGED <<outState[u], credit[u], link[u], vcState[u], buf[u],
                    credits[u]>>
    BY <1>1, <1>9 DEF TypeOK
  <2> QED
    BY <1>3, <2>1, Untouched DEF IInv
<1> QED
  BY <1>7, <1>8, <1>9 DEF IInv

\* A departure turns a flit of the buffer into a credit; the tail is the last
\* flit under way and makes the VC idle.
LEMMA DepartStep ==
  ASSUME IInv, NEW v \in VCs, Depart(v)
  PROVE  IInv'
<1> USE DEF Depart, ReturnCredit
<1>1. /\ TypeOK /\ VCInv(v) /\ buf[v] # <<>>
      /\ link[v] \in Seq(Flit) /\ buf[v] \in Seq(Flit)
      /\ credits[v] \in Seq(Credit)
  BY DEF IInv, TypeOK
<1> DEFINE f == buf[v][1]
<1>2. /\ Len(buf[v]) \in Nat /\ Len(buf[v]) > 0 /\ Len(link[v]) \in Nat
      /\ Head(buf[v]) = f /\ f \in Flit /\ f.tail \in BOOLEAN
      /\ Len(credits[v]) \in Nat
  <2>1. Len(buf[v]) \in Nat /\ Len(buf[v]) > 0 /\ Head(buf[v]) = f /\ f \in Flit
    BY <1>1, TailFacts
  <2> QED
    BY <1>1, <2>1 DEF Flit
<1>3. /\ buf'[v] = Tail(buf[v]) /\ credits'[v] = Append(credits[v], [is_free_signal |-> f.tail])
      /\ vcState'[v] = IF f.tail THEN IDLE_ ELSE vcState[v]
      /\ link'[v] = link[v]
      /\ credit'[v] = credit[v] /\ outState'[v] = outState[v]
      /\ outvc' = outvc /\ left' = left
  BY <1>1, <1>2 DEF TypeOK
<1>4. /\ buf'[v] \in Seq(Flit) /\ Len(buf'[v]) = Len(buf[v]) - 1
      /\ \A k \in 1 .. Len(buf'[v]) :
           buf'[v][k] = buf[v][k + 1] /\ k + 1 \in 1 .. Len(buf[v])
  <2>1. /\ Tail(buf[v]) \in Seq(Flit) /\ Len(Tail(buf[v])) = Len(buf[v]) - 1
        /\ \A k \in 1 .. Len(Tail(buf[v])) :
             Tail(buf[v])[k] = buf[v][k + 1] /\ k + 1 \in 1 .. Len(buf[v])
    BY <1>1, TailFacts
  <2> QED
    BY <1>3, <2>1
<1>5. /\ credits'[v] \in Seq(Credit)
      /\ Len(credits'[v]) = Len(credits[v]) + 1
      /\ \A k \in 1 .. Len(credits[v]) : credits'[v][k] = credits[v][k]
      /\ credits'[v][Len(credits[v]) + 1] = [is_free_signal |-> f.tail]
  <2>1. [is_free_signal |-> f.tail] \in Credit
    BY <1>2 DEF Credit
  <2> QED
    BY <1>1, <1>3, <2>1, AppendFacts
<1>6. \A k \in 1 .. Len(credits'[v]) :
        k \in 1 .. Len(credits[v]) \/ k = Len(credits[v]) + 1
  BY <1>2, <1>5
<1>7. TypeOK'
  <2>1. buf' \in [VCs -> Seq(Flit)] /\ credits' \in [VCs -> Seq(Credit)]
    BY <1>1, <1>3, <1>4, <1>5 DEF TypeOK
  <2>2. vcState' \in [VCs -> {IDLE_, ACTIVE_}]
    BY <1>1 DEF TypeOK
  <2> QED
    BY <1>1, <2>1, <2>2 DEF TypeOK
<1>8. VCInv(v)'
  <2>1. 1 \in 1 .. Len(buf[v])
    BY <1>2
  <2>2. Balanced(v)'
    <3>1. PICK a, b, c, d, m \in Nat :
            /\ credit[v] = a /\ Len(link[v]) = b /\ Len(buf[v]) = c
            /\ Len(credits[v]) = d /\ MaxCredit = m
            /\ a + b + c + d = m
      BY <1>1, BalanceOf DEF VCInv
    <3>2. a + b + (c - 1) + (d + 1) = m
      BY <3>1
    <3> QED
      BY <1>3, <1>4, <1>5, <3>1, <3>2 DEF Balanced
  <2>3. outState[v] # IDLE_
    BY <1>1, AllCreditsMeansEmpty DEF VCInv, IdleOK
  <2>4. \A k \in 1 .. Len(credits[v]) : ~credits[v][k].is_free_signal
    BY <1>1 DEF VCInv, CreditsOK
  <2>5. vcState[v] = ACTIVE_
    BY <1>1 DEF VCInv, HeadsOK, TypeOK
  <2>6. f.tail => /\ link[v] = <<>> /\ buf'[v] = <<>>
                  /\ \A s \in Sources : outvc[s] # v
    BY <1>1, <1>2, <1>3, <2>1 DEF VCInv, TailsOK, OwnerOK
  <2>7. OwnerOK(v)'
    <3> SUFFICES ASSUME NEW s \in Sources, outvc'[s] = v
                 PROVE  /\ left'[s] > 0
                        /\ vcState'[v] = IDLE_ => link'[v] # <<>>
                        /\ \A t \in Sources : outvc'[t] = v => s = t
                        /\ \A k \in 1 .. Len(buf'[v]) :
                             buf'[v][k].src = s /\ ~buf'[v][k].tail
                        /\ \A k \in 1 .. Len(link'[v]) :
                             link'[v][k].src = s /\ ~link'[v][k].tail
                        /\ \A k \in 1 .. Len(credits'[v]) :
                             ~credits'[v][k].is_free_signal
      BY DEF OwnerOK
    <3>1. /\ outvc[s] = v /\ left[s] > 0
          /\ \A t \in Sources : outvc[t] = v => s = t
          /\ \A k \in 1 .. Len(buf[v]) : buf[v][k].src = s /\ ~buf[v][k].tail
          /\ \A k \in 1 .. Len(link[v]) : link[v][k].src = s /\ ~link[v][k].tail
      BY <1>1, <1>3 DEF VCInv, OwnerOK
    <3>2. ~f.tail
      BY <2>6, <3>1
    <3>3. vcState'[v] # IDLE_
      BY <1>3, <2>5, <3>2 DEF IDLE_, ACTIVE_
    <3>4. \A k \in 1 .. Len(buf'[v]) : buf'[v][k].src = s /\ ~buf'[v][k].tail
      BY <1>4, <3>1
    <3>5. \A k \in 1 .. Len(credits'[v]) : ~credits'[v][k].is_free_signal
      <4>1. ~credits'[v][Len(credits[v]) + 1].is_free_signal
        BY <1>5, <3>2
      <4> QED
        BY <1>5, <1>6, <2>4, <4>1
    <3>6. /\ left'[s] > 0 /\ \A t \in Sources : outvc'[t] = v => s = t
          /\ \A k \in 1 .. Len(link'[v]) : link'[v][k].src = s /\ ~link'[v][k].tail
      BY <1>3, <3>1
    <3> QED
      BY <3>3, <3>4, <3>5, <3>6
  <2>8. TailsOK(v)'
    <3>1. \A k \in 1 .. Len(buf'[v]) : buf'[v][k].tail =>
            k + 1 = Len(buf[v]) /\ link[v] = <<>>
      BY <1>1, <1>4 DEF VCInv, TailsOK
    <3>2. \A k \in 1 .. Len(buf'[v]) : k + 1 = Len(buf[v]) => k = Len(buf'[v])
      BY <1>2, <1>4
    <3>3. \A k \in 1 .. Len(link[v]) : link[v][k].tail => k = Len(link[v])
      BY <1>1 DEF VCInv, TailsOK
    <3>4. \A k \in 1 .. Len(link'[v]) : link'[v][k].tail => k = Len(link'[v])
      BY <1>3, <3>3
    <3> QED
      BY <1>3, <3>1, <3>2, <3>4 DEF TailsOK
  <2>9. HeadsOK(v)'
    <3>1. CASE f.tail
      <4>1. Len(link'[v]) = 0
        BY <1>3, <2>6, <3>1
      <4> QED
        BY <1>3, <2>6, <3>1, <4>1 DEF HeadsOK
    <3>2. CASE ~f.tail
      BY <1>1, <1>3, <2>5, <3>2 DEF VCInv, HeadsOK, IDLE_, ACTIVE_
    <3> QED
      BY <3>1, <3>2
  <2>10. CreditsOK(v)'
    BY <1>2, <1>3, <1>5, <1>6, <2>4, <2>6 DEF CreditsOK
  <2>11. SourcesOK(v)'
    BY <1>1, <1>3, <1>4 DEF VCInv, SourcesOK
  <2>12. IdleOK(v)'
    BY <1>3, <2>3 DEF IdleOK
  <2> QED
    BY <2>2, <2>7, <2>8, <2>9, <2>10, <2>11, <2>12 DEF VCInv
<1>9. ASSUME NEW u \in VCs, u # v PROVE VCInv(u)'
  <2>1. UNCHANGED <<outState[u], credit[u], link[u], vcState[u], buf[u],
                    credits[u]>>
    BY <1>1, <1>9 DEF TypeOK
  <2> QED
    BY <1>3, <2>1, Untouched DEF IInv
<1> QED
  BY <1>7, <1>8, <1>9 DEF IInv

\* A credit that comes home is counted; the one with the free signal is the
\* last thing under way, so the VC that becomes idle has all its credits.
LEMMA CreditStep ==
  ASSUME IInv, NEW v \in VCs, OutputUnitWakeup(v)
  PROVE  IInv'
<1> USE DEF OutputUnitWakeup, increment_credit
<1>1. /\ TypeOK /\ VCInv(v) /\ credits[v] # <<>>
      /\ link[v] \in Seq(Flit) /\ buf[v] \in Seq(Flit)
      /\ credits[v] \in Seq(Credit)
      /\ credit[v] \in 0 .. MaxCredit
  BY DEF IInv, TypeOK
<1> DEFINE free == credits[v][1].is_free_signal
<1>2. /\ Len(credits[v]) \in Nat /\ Len(credits[v]) > 0
      /\ Len(link[v]) \in Nat /\ Len(buf[v]) \in Nat
      /\ Head(credits[v]) = credits[v][1] /\ credits[v][1] \in Credit
  <2>1. /\ Len(credits[v]) \in Nat /\ Len(credits[v]) > 0
        /\ Head(credits[v]) = credits[v][1] /\ credits[v][1] \in Credit
    BY <1>1, TailFacts
  <2> QED
    BY <1>1, <2>1
<1>3. /\ credits'[v] = Tail(credits[v]) /\ credit'[v] = credit[v] + 1
      /\ outState'[v] = IF free THEN IDLE_ ELSE outState[v]
      /\ link'[v] = link[v] /\ buf'[v] = buf[v] /\ vcState'[v] = vcState[v]
      /\ outvc' = outvc /\ left' = left
  BY <1>1, <1>2 DEF TypeOK
<1>4. /\ credits'[v] \in Seq(Credit)
      /\ Len(credits'[v]) = Len(credits[v]) - 1
      /\ \A k \in 1 .. Len(credits'[v]) :
           credits'[v][k] = credits[v][k + 1] /\ k + 1 \in 1 .. Len(credits[v])
  <2>1. /\ Tail(credits[v]) \in Seq(Credit) /\ Len(Tail(credits[v])) = Len(credits[v]) - 1
        /\ \A k \in 1 .. Len(Tail(credits[v])) :
             Tail(credits[v])[k] = credits[v][k + 1] /\ k + 1 \in 1 .. Len(credits[v])
    BY <1>1, TailFacts
  <2> QED
    BY <1>3, <2>1
<1>5. Balanced(v)' /\ credit'[v] \in 0 .. MaxCredit
  <2>1. PICK a, b, c, d, m \in Nat :
          /\ credit[v] = a /\ Len(link[v]) = b /\ Len(buf[v]) = c
          /\ Len(credits[v]) = d /\ MaxCredit = m
          /\ a + b + c + d = m
    BY <1>1, BalanceOf DEF VCInv
  <2>2. d > 0
    BY <1>2, <2>1
  <2>3. (a + 1) + b + c + (d - 1) = m /\ a + 1 \in 0 .. m
    BY <2>1, <2>2
  <2> QED
    BY <1>3, <1>4, <2>1, <2>3 DEF Balanced
<1>6. TypeOK'
  <2>1. credits' \in [VCs -> Seq(Credit)]
    BY <1>1, <1>3, <1>4 DEF TypeOK
  <2>2. credit' \in [VCs -> 0 .. MaxCredit]
    BY <1>1, <1>3, <1>5 DEF TypeOK
  <2>3. outState' \in [VCs -> {IDLE_, ACTIVE_}]
    BY <1>1 DEF TypeOK
  <2> QED
    BY <1>1, <2>1, <2>2, <2>3 DEF TypeOK
<1>7. VCInv(v)'
  <2>1. 1 \in 1 .. Len(credits[v])
    BY <1>2
  <2>2. outState[v] # IDLE_
    BY <1>1, AllCreditsMeansEmpty DEF VCInv, IdleOK
  <2>3. free => /\ Len(credits[v]) = 1 /\ link[v] = <<>> /\ buf[v] = <<>>
                /\ vcState[v] = IDLE_
                /\ \A s \in Sources : outvc[s] # v
    BY <1>1, <2>1 DEF VCInv, CreditsOK, OwnerOK
  <2>4. free => credit'[v] = MaxCredit
    <3>1. PICK a, b, c, d, m \in Nat :
            /\ credit[v] = a /\ Len(link[v]) = b /\ Len(buf[v]) = c
            /\ Len(credits[v]) = d /\ MaxCredit = m
            /\ a + b + c + d = m
      BY <1>1, BalanceOf DEF VCInv
    <3>2. free => b = 0 /\ c = 0 /\ d = 1
      BY <2>3, <3>1
    <3>3. free => a + 1 = m
      BY <3>1, <3>2
    <3> QED
      BY <1>3, <3>1, <3>3
  <2>5. IdleOK(v)'
    BY <1>3, <2>2, <2>3, <2>4 DEF IdleOK
  <2>6. OwnerOK(v)'
    BY <1>1, <1>3, <1>4 DEF VCInv, OwnerOK
  <2>7. TailsOK(v)'
    BY <1>1, <1>3 DEF VCInv, TailsOK
  <2>8. HeadsOK(v)'
    BY <1>1, <1>3 DEF VCInv, HeadsOK
  <2>9. SourcesOK(v)'
    BY <1>1, <1>3 DEF VCInv, SourcesOK
  <2>10. CreditsOK(v)'
    <3>1. \A k \in 1 .. Len(credits'[v]) : credits'[v][k].is_free_signal =>
            /\ k + 1 = Len(credits[v])
            /\ link[v] = <<>> /\ buf[v] = <<>> /\ vcState[v] = IDLE_
      BY <1>1, <1>4 DEF VCInv, CreditsOK
    <3>2. \A k \in 1 .. Len(credits'[v]) : credits'[v][k].is_free_signal =>
            k = Len(credits'[v])
      BY <1>2, <1>4, <3>1
    <3> QED
      BY <1>3, <3>1, <3>2 DEF CreditsOK
  <2> QED
    BY <1>5, <2>5, <2>6, <2>7, <2>8, <2>9, <2>10 DEF VCInv
<1>8. ASSUME NEW u \in VCs, u # v PROVE VCInv(u)'
  <2>1. UNCHANGED <<outState[u], credit[u], link[u], vcState[u], buf[u],
                    credits[u]>>
    BY <1>1, <1>8 DEF TypeOK
  <2> QED
    BY <1>3, <2>1, Untouched DEF IInv
<1> QED
  BY <1>6, <1>7, <1>8 DEF IInv

\* The invariant is inductive.
LEMMA IInvInductive == IInv /\ [Next]_vars => IInv'
<1> SUFFICES ASSUME IInv, [Next]_vars PROVE IInv'
  OBVIOUS
<1>1. ASSUME NEW s \in Sources, NewPacket(s) PROVE IInv'
  BY <1>1, NewPacketStep
<1>2. ASSUME NEW s \in Sources, SendHead(s) PROVE IInv'
  BY <1>2, SendHeadStep
<1>3. ASSUME NEW s \in Sources, SendBody(s) PROVE IInv'
  BY <1>3, SendBodyStep
<1>4. ASSUME NEW v \in VCs, InputUnitWakeup(v) PROVE IInv'
  BY <1>4, ArrivalStep
<1>5. ASSUME NEW v \in VCs, Depart(v) PROVE IInv'
  BY <1>5, DepartStep
<1>6. ASSUME NEW v \in VCs, OutputUnitWakeup(v) PROVE IInv'
  BY <1>6, CreditStep
<1>7. CASE UNCHANGED vars
  <2>1. TypeOK'
    BY <1>7 DEF vars, IInv, TypeOK
  <2>2. ASSUME NEW v \in VCs PROVE VCInv(v)'
    BY <1>7, Untouched DEF vars, IInv
  <2> QED
    BY <2>1, <2>2 DEF IInv
<1> QED
  BY <1>1, <1>2, <1>3, <1>4, <1>5, <1>6, <1>7 DEF Next

\* The inductive invariant holds in every reachable state.
THEOREM Invariance == Spec => []IInv
  BY InitIInv, IInvInductive, PTL DEF Spec

\* The state stays well formed; in particular a credit count never becomes
\* negative (the assertion in OutVcState::decrement_credit, which the code
\* keeps in a comment) nor exceeds its maximum (increment_credit asserts it).
THEOREM TypeCorrect == Spec => []TypeOK
<1>1. IInv => TypeOK
  BY DEF IInv
<1> QED
  BY <1>1, Invariance, PTL

\* Buffer slots are neither lost nor made: credits, flits and credits on their
\* way back always add up to the buffers of the VC.
THEOREM CreditConservation == Spec => []CreditsConserved
<1>1. IInv => CreditsConserved
  BY DEF IInv, TypeOK, VCInv, Balanced, CreditsConserved
<1> QED
  BY <1>1, Invariance, PTL

\* The assertions of InputUnit::wakeup and arbitrate_outports never fail: a
\* head finds its VC idle, the flits after it find it active, and a tail that
\* departs leaves its VC empty.
THEOREM NoAssertionEverFails == Spec => []AssertionsHold
<1>1. IInv => ArrivalsMeetTheirVC
  <2> SUFFICES ASSUME IInv, NEW v \in VCs, link[v] # <<>>
               PROVE  vcState[v] = IF Head(link[v]).head THEN IDLE_ ELSE ACTIVE_
    BY DEF ArrivalsMeetTheirVC
  <2>1. /\ HeadsOK(v) /\ link[v] \in Seq(Flit)
        /\ vcState[v] \in {IDLE_, ACTIVE_}
    BY DEF IInv, VCInv, TypeOK
  <2>2. Head(link[v]) = link[v][1] /\ 1 \in 1 .. Len(link[v])
    BY <2>1, TailFacts
  <2> QED
    BY <2>1, <2>2 DEF HeadsOK
<1>2. IInv => TailLeavesVCEmpty
  <2> SUFFICES ASSUME IInv, NEW v \in VCs, buf[v] # <<>>, Head(buf[v]).tail
               PROVE  Len(buf[v]) = 1
    BY DEF TailLeavesVCEmpty
  <2>1. TailsOK(v) /\ buf[v] \in Seq(Flit)
    BY DEF IInv, VCInv, TypeOK
  <2>2. Head(buf[v]) = buf[v][1] /\ 1 \in 1 .. Len(buf[v])
    BY <2>1, TailFacts
  <2> QED
    BY <2>1, <2>2 DEF TailsOK
<1>3. IInv => AssertionsHold
  BY <1>1, <1>2 DEF AssertionsHold
<1> QED
  BY <1>3, Invariance, PTL

\* What a concatenation holds.
LEMMA ConcatFacts ==
  ASSUME NEW S, NEW q \in Seq(S), NEW r \in Seq(S), NEW k \in 1 .. Len(q \o r)
  PROVE  \/ k \in 1 .. Len(q) /\ (q \o r)[k] = q[k]
         \/ k - Len(q) \in 1 .. Len(r) /\ (q \o r)[k] = r[k - Len(q)]
<1>1. /\ Len(q) \in Nat /\ Len(r) \in Nat /\ Len(q \o r) = Len(q) + Len(r)
      /\ k \in Nat /\ 1 <= k /\ k <= Len(q) + Len(r)
  OBVIOUS
<1>2. CASE k <= Len(q)
  BY <1>1, <1>2
<1>3. CASE k > Len(q)
  BY <1>1, <1>3
<1> QED
  BY <1>1, <1>2, <1>3

\* The invariant keeps packets apart.
LEMMA PacketsApart ==
  ASSUME IInv
  PROVE  OnePacketPerVC
<1>1. ASSUME NEW v \in VCs
      PROVE  buf[v] \in Seq(Flit) /\ link[v] \in Seq(Flit) /\ VCInv(v)
  BY <1>1 DEF IInv, TypeOK
<1>2. ASSUME NEW v \in VCs,
             NEW j \in 1 .. Len(UnderWay(v)), NEW k \in 1 .. Len(UnderWay(v))
      PROVE  UnderWay(v)[j].src = UnderWay(v)[k].src
  <2>1. \/ j \in 1 .. Len(buf[v]) /\ UnderWay(v)[j] = buf[v][j]
        \/ /\ j - Len(buf[v]) \in 1 .. Len(link[v])
           /\ UnderWay(v)[j] = link[v][j - Len(buf[v])]
    BY <1>1, <1>2, ConcatFacts DEF UnderWay
  <2>2. \/ k \in 1 .. Len(buf[v]) /\ UnderWay(v)[k] = buf[v][k]
        \/ /\ k - Len(buf[v]) \in 1 .. Len(link[v])
           /\ UnderWay(v)[k] = link[v][k - Len(buf[v])]
    BY <1>1, <1>2, ConcatFacts DEF UnderWay
  <2>3. /\ \A m, n \in 1 .. Len(buf[v])  : buf[v][m].src = buf[v][n].src
        /\ \A m, n \in 1 .. Len(link[v]) : link[v][m].src = link[v][n].src
        /\ \A m \in 1 .. Len(buf[v]), n \in 1 .. Len(link[v]) :
             buf[v][m].src = link[v][n].src
    BY <1>1 DEF VCInv, SourcesOK
  <2>4. CASE /\ j \in 1 .. Len(buf[v]) /\ UnderWay(v)[j] = buf[v][j]
             /\ k \in 1 .. Len(buf[v]) /\ UnderWay(v)[k] = buf[v][k]
    BY <2>3, <2>4
  <2>5. CASE /\ j \in 1 .. Len(buf[v]) /\ UnderWay(v)[j] = buf[v][j]
             /\ k - Len(buf[v]) \in 1 .. Len(link[v])
             /\ UnderWay(v)[k] = link[v][k - Len(buf[v])]
    BY <2>3, <2>5
  <2>6. CASE /\ j - Len(buf[v]) \in 1 .. Len(link[v])
             /\ UnderWay(v)[j] = link[v][j - Len(buf[v])]
             /\ k \in 1 .. Len(buf[v]) /\ UnderWay(v)[k] = buf[v][k]
    BY <2>3, <2>6
  <2>7. CASE /\ j - Len(buf[v]) \in 1 .. Len(link[v])
             /\ UnderWay(v)[j] = link[v][j - Len(buf[v])]
             /\ k - Len(buf[v]) \in 1 .. Len(link[v])
             /\ UnderWay(v)[k] = link[v][k - Len(buf[v])]
    BY <2>3, <2>7
  <2> QED
    BY <2>1, <2>2, <2>4, <2>5, <2>6, <2>7
<1>3. ASSUME NEW s \in Sources, NEW t \in Sources,
             outvc[s] # NoVC, outvc[s] = outvc[t]
      PROVE  s = t
  <2>1. outvc[s] \in VCs
    BY <1>3 DEF IInv, TypeOK
  <2> QED
    BY <1>1, <1>3, <2>1 DEF VCInv, OwnerOK
<1>4. ASSUME NEW s \in Sources, NEW v \in VCs, outvc[s] = v,
             NEW k \in 1 .. Len(UnderWay(v))
      PROVE  UnderWay(v)[k].src = s /\ ~UnderWay(v)[k].tail
  <2>1. \/ k \in 1 .. Len(buf[v]) /\ UnderWay(v)[k] = buf[v][k]
        \/ /\ k - Len(buf[v]) \in 1 .. Len(link[v])
           /\ UnderWay(v)[k] = link[v][k - Len(buf[v])]
    BY <1>1, <1>4, ConcatFacts DEF UnderWay
  <2>2. OwnerOK(v)
    BY <1>1 DEF VCInv
  <2> QED
    BY <1>4, <2>1, <2>2 DEF OwnerOK
<1> QED
  BY <1>2, <1>3, <1>4 DEF OnePacketPerVC

\* Flits of different packets never mix in a VC, and no two sources send to it.
THEOREM NoMixing == Spec => []OnePacketPerVC
<1>1. IInv => OnePacketPerVC
  BY PacketsApart
<1> QED
  BY <1>1, Invariance, PTL

\* A head may be sent to a free VC without a look at its credits.
THEOREM FreeVCHasCredits == Spec => []IdleVCIsEmpty
<1>1. IInv => IdleVCIsEmpty
  BY DEF IInv, VCInv, IdleOK, IdleVCIsEmpty
<1> QED
  BY <1>1, Invariance, PTL

-----------------------------------------------------------------------------
(***************************************************************************)
(* FlowControl implements VcPipe: every step opens, fills, empties or      *)
(* closes one queue, or leaves all of them as they are.  That a step has   *)
(* the conditions VcPipe asks for is in the invariant: the upstream side   *)
(* knows the queue by its credits only.                                    *)
(***************************************************************************)


Senders(v) == {s \in Sources : outvc[s] = v}

\* The queues of VcPipe other than that of v.
OthersSame(v) ==
  \A u \in VCs \ {v} :
    /\ outState'[u] = outState[u]
    /\ Senders(u)' = Senders(u)
    /\ UnderWay(u)' = UnderWay(u)

-----------------------------------------------------------------------------
\* What a queue made of two becomes when a flit is added, when one moves from
\* the second to the first, and when the oldest is taken.
LEMMA QueueGrows ==
  ASSUME NEW S, NEW q \in Seq(S), NEW r \in Seq(S), NEW e \in S
  PROVE  q \o Append(r, e) = Append(q \o r, e)
  OBVIOUS

LEMMA QueueMoves ==
  ASSUME NEW S, NEW q \in Seq(S), NEW r \in Seq(S), r # <<>>
  PROVE  Append(q, Head(r)) \o Tail(r) = q \o r
  OBVIOUS

LEMMA QueueShrinks ==
  ASSUME NEW S, NEW q \in Seq(S), NEW r \in Seq(S), q # <<>>
  PROVE  Tail(q) \o r = Tail(q \o r) /\ q \o r # <<>>
  OBVIOUS

-----------------------------------------------------------------------------
(***************************************************************************)
(* A step that changes one VC, as a step of VcPipe.                        *)
(***************************************************************************)
LEMMA OpenStep ==
  ASSUME NEW v \in VCs, NEW f \in Flit, OthersSame(v),
         outState[v] # ACTIVE_, UnderWay(v) = <<>>, f.head,
         outState'[v] = ACTIVE_,
         Senders(v)' = IF f.tail THEN {} ELSE {f.src},
         UnderWay(v)' = <<f>>
  PROVE  Pipe!Open(v, f)
<1>1. [u \in VCs |-> outState'[u] = ACTIVE_]
        = [[u \in VCs |-> outState[u] = ACTIVE_] EXCEPT ![v] = TRUE]
  BY DEF OthersSame
<1>2. [u \in VCs |-> Senders(u)']
        = [[u \in VCs |-> Senders(u)] EXCEPT ![v] = IF f.tail THEN {} ELSE {f.src}]
  BY DEF OthersSame
<1>3. [u \in VCs |-> UnderWay(u)'] = [[u \in VCs |-> UnderWay(u)] EXCEPT ![v] = <<f>>]
  BY DEF OthersSame
<1> QED
  BY <1>1, <1>2, <1>3 DEF Pipe!Open, Pipe!MoreAfter, Senders

LEMMA PushStep ==
  ASSUME NEW v \in VCs, NEW f \in Flit, OthersSame(v),
         Senders(v) = {f.src}, ~f.head, Len(UnderWay(v)) < MaxCredit,
         outState'[v] = outState[v],
         Senders(v)' = IF f.tail THEN {} ELSE {f.src},
         UnderWay(v)' = Append(UnderWay(v), f)
  PROVE  Pipe!Push(v, f)
<1>1. [u \in VCs |-> outState'[u] = ACTIVE_] = [u \in VCs |-> outState[u] = ACTIVE_]
  BY DEF OthersSame
<1>2. [u \in VCs |-> Senders(u)']
        = [[u \in VCs |-> Senders(u)] EXCEPT ![v] = IF f.tail THEN {} ELSE {f.src}]
  BY DEF OthersSame
<1>3. [u \in VCs |-> UnderWay(u)']
        = [[u \in VCs |-> UnderWay(u)] EXCEPT ![v] = Append(@, f)]
  BY DEF OthersSame
<1> QED
  BY <1>1, <1>2, <1>3 DEF Pipe!Push, Pipe!MoreAfter, Senders

LEMMA PopStep ==
  ASSUME NEW v \in VCs, OthersSame(v), UnderWay(v) # <<>>,
         outState'[v] = outState[v], Senders(v)' = Senders(v),
         UnderWay(v)' = Tail(UnderWay(v))
  PROVE  Pipe!Pop(v)
<1>1. [u \in VCs |-> outState'[u] = ACTIVE_] = [u \in VCs |-> outState[u] = ACTIVE_]
  BY DEF OthersSame
<1>2. [u \in VCs |-> Senders(u)'] = [u \in VCs |-> Senders(u)]
  BY DEF OthersSame
<1>3. [u \in VCs |-> UnderWay(u)']
        = [[u \in VCs |-> UnderWay(u)] EXCEPT ![v] = Tail(@)]
  BY DEF OthersSame
<1> QED
  BY <1>1, <1>2, <1>3 DEF Pipe!Pop, Senders

LEMMA CloseStep ==
  ASSUME NEW v \in VCs, OthersSame(v), UnderWay(v) = <<>>,
         Senders(v) = {}, outState[v] = ACTIVE_,
         outState'[v] # ACTIVE_, Senders(v)' = {}, UnderWay(v)' = <<>>
  PROVE  Pipe!Close(v)
<1>1. [u \in VCs |-> outState'[u] = ACTIVE_]
        = [[u \in VCs |-> outState[u] = ACTIVE_] EXCEPT ![v] = FALSE]
  BY DEF OthersSame
<1>2. [u \in VCs |-> Senders(u)'] = [u \in VCs |-> Senders(u)]
  BY DEF OthersSame
<1>3. [u \in VCs |-> UnderWay(u)'] = [u \in VCs |-> UnderWay(u)]
  BY DEF OthersSame
<1> QED
  BY <1>1, <1>2, <1>3 DEF Pipe!Close, Senders

-----------------------------------------------------------------------------
LEMMA InitRefines == Init => Pipe!Init
<1> SUFFICES ASSUME Init PROVE Pipe!Init
  OBVIOUS
<1>1. \A v \in VCs : v # NoVC
  BY Parameters DEF VCs, NoVC
<1>2. [v \in VCs |-> outState[v] = ACTIVE_] = [v \in VCs |-> FALSE]
  BY DEF Init, IDLE_, ACTIVE_
<1>3. [v \in VCs |-> Senders(v)] = [v \in VCs |-> {}]
  BY <1>1 DEF Init, Senders
<1>4. [v \in VCs |-> UnderWay(v)] = [v \in VCs |-> <<>>]
  BY DEF Init, UnderWay
<1> QED
  BY <1>2, <1>3, <1>4 DEF Pipe!Init, Senders

\* What a grant does to the queue of VC v and to all others.
LEMMA SendFacts ==
  ASSUME IInv, NEW s \in Sources, NEW v \in VCs, Send(s, v),
         left[s] > 0, outvc[s] \in {NoVC, v}
  PROVE  /\ NextFlit(s) \in Flit
         /\ UnderWay(v)' = Append(UnderWay(v), NextFlit(s))
         /\ \A u \in VCs \ {v} : UnderWay(u)' = UnderWay(u)
         /\ \A u \in VCs \ {v} : Senders(u)' = Senders(u)
         /\ Senders(v)' = IF left[s] = 1 THEN Senders(v) \ {s}
                          ELSE Senders(v) \cup {s}
<1>1. /\ outvc \in [Sources -> VCs \cup {NoVC}] /\ link \in [VCs -> Seq(Flit)]
      /\ buf[v] \in Seq(Flit) /\ NoVC \notin VCs
  BY Parameters DEF IInv, TypeOK, VCs, NoVC
<1>2. NextFlit(s) \in Flit
  BY DEF NextFlit, Flit
<1>3. link' = [link EXCEPT ![v] = Append(@, NextFlit(s))] /\ buf' = buf
  BY DEF Send, SwitchTraversal
<1>4. outvc' = [outvc EXCEPT ![s] = IF left[s] = 1 THEN NoVC ELSE v]
  BY DEF Send
<1>5. UnderWay(v)' = Append(UnderWay(v), NextFlit(s))
  <2>1. link'[v] = Append(link[v], NextFlit(s)) /\ buf'[v] = buf[v]
    BY <1>1, <1>3
  <2>2. buf[v] \o Append(link[v], NextFlit(s)) = Append(buf[v] \o link[v], NextFlit(s))
    <3>1. PICK q \in Seq(Flit), r \in Seq(Flit), e \in Flit :
            q = buf[v] /\ r = link[v] /\ e = NextFlit(s)
      BY <1>1, <1>2
    <3>2. q \o Append(r, e) = Append(q \o r, e)
      BY QueueGrows
    <3> QED
      BY <3>1, <3>2
  <2> QED
    BY <2>1, <2>2 DEF UnderWay
<1>6. \A u \in VCs \ {v} : UnderWay(u)' = UnderWay(u)
  BY <1>1, <1>3 DEF UnderWay
<1>7. \A u \in VCs \ {v} : Senders(u)' = Senders(u)
  BY <1>1, <1>4 DEF Senders
<1>8. Senders(v)' = IF left[s] = 1 THEN Senders(v) \ {s} ELSE Senders(v) \cup {s}
  BY <1>1, <1>4 DEF Senders
<1> QED
  BY <1>2, <1>5, <1>6, <1>7, <1>8

\* A head opens a queue: a VC that is idle upstream is empty, and nobody sends
\* to it.
LEMMA SendHeadRefines ==
  ASSUME IInv, NEW s \in Sources, SendHead(s)
  PROVE  Pipe!Next
<1>1. PICK v \in VCs : /\ select_free_vc(s, v)
                       /\ outState' = [outState EXCEPT ![v] = ACTIVE_]
                       /\ Send(s, v)
  BY DEF SendHead
<1>2. left[s] > 0 /\ outvc[s] = NoVC
  BY DEF SendHead
<1>3. outState[v] = IDLE_ /\ outState \in [VCs -> {IDLE_, ACTIVE_}]
  BY <1>1 DEF select_free_vc, FreeVCs, IInv, TypeOK
<1>4. TypeOK /\ Balanced(v) /\ credit[v] = MaxCredit /\ \A t \in Sources : outvc[t] # v
  BY <1>3 DEF IInv, VCInv, IdleOK
<1>5. link[v] = <<>> /\ buf[v] = <<>>
  BY <1>4, AllCreditsMeansEmpty
<1>6. UnderWay(v) = <<>> /\ Senders(v) = {}
  BY <1>4, <1>5 DEF UnderWay, Senders
<1>f. PICK f \in Flit : f = NextFlit(s)
  BY <1>1, <1>2, SendFacts
<1>7. f.head /\ f.src = s /\ (f.tail <=> left[s] = 1)
  BY <1>2, <1>f DEF NextFlit
<1>8. /\ UnderWay(v)' = <<f>> /\ Senders(v)' = IF f.tail THEN {} ELSE {f.src}
      /\ \A u \in VCs \ {v} : UnderWay(u)' = UnderWay(u) /\ Senders(u)' = Senders(u)
  <2>1. UnderWay(v)' = Append(<<>>, f)
    BY <1>1, <1>2, <1>6, <1>f, SendFacts
  <2>2. Senders(v)' = IF left[s] = 1 THEN {} \ {s} ELSE {} \cup {s}
    BY <1>1, <1>2, <1>6, SendFacts
  <2>3. \A u \in VCs \ {v} : UnderWay(u)' = UnderWay(u) /\ Senders(u)' = Senders(u)
    BY <1>1, <1>2, SendFacts
  <2> QED
    BY <1>7, <2>1, <2>2, <2>3
<1>9. OthersSame(v) /\ outState'[v] = ACTIVE_ /\ outState[v] # ACTIVE_
  BY <1>1, <1>3, <1>8 DEF OthersSame, IDLE_, ACTIVE_
<1>10. Pipe!Open(v, f)
  BY <1>6, <1>7, <1>8, <1>9, OpenStep
<1> QED
  BY <1>10 DEF Pipe!Next

\* Any other flit is added to the queue that its source has open; its credit is
\* a place in the queue.
LEMMA SendBodyRefines ==
  ASSUME IInv, NEW s \in Sources, SendBody(s)
  PROVE  Pipe!Next
<1>0. PICK v \in VCs : outvc[s] = v
  BY DEF SendBody, IInv, TypeOK
<1>1. /\ left[s] > 0 /\ outvc[s] # NoVC /\ credit[v] > 0 /\ Send(s, v)
      /\ outState' = outState
  BY <1>0 DEF SendBody, has_credit
<1>2. TypeOK /\ VCInv(v)
  BY DEF IInv
<1>3. Senders(v) = {s}
  BY <1>0, <1>2 DEF VCInv, OwnerOK, Senders
<1>f. PICK f \in Flit : f = NextFlit(s)
  BY <1>0, <1>1, SendFacts
<1>4. ~f.head /\ f.src = s /\ (f.tail <=> left[s] = 1)
  BY <1>1, <1>f DEF NextFlit
<1>5. /\ UnderWay(v)' = Append(UnderWay(v), f)
      /\ Senders(v)' = IF f.tail THEN {} ELSE {f.src}
      /\ OthersSame(v)
  <2>1. UnderWay(v)' = Append(UnderWay(v), f)
    BY <1>0, <1>1, <1>f, SendFacts
  <2>2. Senders(v)' = IF left[s] = 1 THEN Senders(v) \ {s} ELSE Senders(v) \cup {s}
    BY <1>0, <1>1, SendFacts
  <2>3. OthersSame(v)
    BY <1>0, <1>1, SendFacts DEF OthersSame
  <2> QED
    BY <1>3, <1>4, <2>1, <2>2, <2>3
<1>6. Len(UnderWay(v)) < MaxCredit
  <2>1. PICK a, b, c, d, m \in Nat :
           /\ credit[v] = a /\ Len(link[v]) = b /\ Len(buf[v]) = c
           /\ Len(credits[v]) = d /\ MaxCredit = m
           /\ a + b + c + d = m
    BY <1>2, BalanceOf DEF VCInv
  <2>2. link[v] \in Seq(Flit) /\ buf[v] \in Seq(Flit)
    BY <1>2 DEF TypeOK
  <2>3. Len(UnderWay(v)) = c + b
    BY <2>1, <2>2, ConcatProperties DEF UnderWay
  <2> QED
    BY <1>1, <2>1, <2>3
<1>7. Pipe!Push(v, f)
  BY <1>1, <1>2, <1>3, <1>4, <1>5, <1>6, PushStep
<1> QED
  BY <1>7 DEF Pipe!Next

\* An arrival moves a flit within its queue.
LEMMA ArrivalRefines ==
  ASSUME IInv, NEW w \in VCs, InputUnitWakeup(w)
  PROVE  UNCHANGED <<outState, [v \in VCs |-> Senders(v)], [v \in VCs |-> UnderWay(v)]>>
<1>1. /\ link[w] # <<>> /\ outvc' = outvc /\ outState' = outState
      /\ buf' = [buf EXCEPT ![w] = Append(@, Head(link[w]))]
      /\ link' = [link EXCEPT ![w] = Tail(@)]
  BY DEF InputUnitWakeup
<1>2. link \in [VCs -> Seq(Flit)] /\ buf \in [VCs -> Seq(Flit)]
  BY DEF IInv, TypeOK
<1>3. \A v \in VCs : Senders(v)' = Senders(v)
  BY <1>1 DEF Senders
<1>4. ASSUME NEW v \in VCs PROVE UnderWay(v)' = UnderWay(v)
  <2>1. CASE v # w
    BY <1>1, <1>2, <2>1 DEF UnderWay
  <2>2. CASE v = w
    <3>1. link[v] \in Seq(Flit) /\ buf[v] \in Seq(Flit) /\ Head(link[v]) \in Flit
      BY <1>1, <1>2, <2>2, TailFacts
    <3>2. Append(buf[v], Head(link[v])) \o Tail(link[v]) = buf[v] \o link[v]
      BY <1>1, <2>2, <3>1, QueueMoves
    <3> QED
      BY <1>1, <1>2, <2>2, <3>2 DEF UnderWay
  <2> QED
    BY <2>1, <2>2
<1> QED
  BY <1>1, <1>3, <1>4

\* A departure takes the oldest flit.
LEMMA DepartRefines ==
  ASSUME IInv, NEW v \in VCs, Depart(v)
  PROVE  Pipe!Next
<1>1. /\ buf[v] # <<>> /\ buf' = [buf EXCEPT ![v] = Tail(@)] /\ link' = link
      /\ outvc' = outvc /\ outState' = outState
  BY DEF Depart
<1>2. link \in [VCs -> Seq(Flit)] /\ buf \in [VCs -> Seq(Flit)]
  BY DEF IInv, TypeOK
<1>3. /\ Tail(buf[v]) \o link[v] = Tail(buf[v] \o link[v])
      /\ buf[v] \o link[v] # <<>>
  <2>1. link[v] \in Seq(Flit) /\ buf[v] \in Seq(Flit) /\ Head(buf[v]) \in Flit
    BY <1>1, <1>2, TailFacts
  <2> QED
    BY <1>1, <2>1, QueueShrinks
<1>4. UnderWay(v)' = Tail(UnderWay(v)) /\ UnderWay(v) # <<>>
  BY <1>1, <1>2, <1>3 DEF UnderWay
<1>5. \A u \in VCs : Senders(u)' = Senders(u)
  BY <1>1 DEF Senders
<1>6. OthersSame(v)
  BY <1>1, <1>2, <1>5 DEF OthersSame, UnderWay
<1>7. Pipe!Pop(v)
  BY <1>1, <1>4, <1>5, <1>6, PopStep
<1> QED
  BY <1>7 DEF Pipe!Next

\* A credit closes the queue if it has the free signal, and the queue is empty
\* then; any other credit is not seen.
LEMMA CreditRefines ==
  ASSUME IInv, NEW v \in VCs, OutputUnitWakeup(v)
  PROVE  \/ Pipe!Next
         \/ UNCHANGED <<outState, [u \in VCs |-> Senders(u)], [u \in VCs |-> UnderWay(u)]>>
<1>1. /\ credits[v] # <<>> /\ outvc' = outvc /\ buf' = buf /\ link' = link
      /\ outState' = [outState EXCEPT ![v] =
                         IF Head(credits[v]).is_free_signal THEN IDLE_ ELSE @]
  BY DEF OutputUnitWakeup
<1>2. /\ TypeOK /\ VCInv(v) /\ outState \in [VCs -> {IDLE_, ACTIVE_}]
      /\ credits[v] \in Seq(Credit)
  BY DEF IInv, TypeOK
<1>3. \A u \in VCs : Senders(u)' = Senders(u) /\ UnderWay(u)' = UnderWay(u)
  BY <1>1 DEF Senders, UnderWay
<1>4. CASE ~Head(credits[v]).is_free_signal
  <2>1. outState' = outState
    BY <1>1, <1>2, <1>4
  <2> QED
    BY <1>3, <2>1
<1>5. CASE Head(credits[v]).is_free_signal
  <2>1. credits[v][1].is_free_signal /\ 1 \in 1 .. Len(credits[v])
    BY <1>1, <1>2, <1>5, TailFacts
  <2>2. link[v] = <<>> /\ buf[v] = <<>>
    BY <1>2, <2>1 DEF VCInv, CreditsOK
  <2>3. UnderWay(v) = <<>>
    BY <2>2 DEF UnderWay
  <2>4. Senders(v) = {}
    BY <1>2, <2>1 DEF VCInv, OwnerOK, Senders
  <2>5. outState[v] = ACTIVE_
    BY <1>1, <1>2, AllCreditsMeansEmpty DEF VCInv, IdleOK
  <2>6. outState'[v] # ACTIVE_ /\ OthersSame(v)
    BY <1>1, <1>2, <1>3, <1>5 DEF OthersSame, IDLE_, ACTIVE_
  <2>7. Senders(v)' = {} /\ UnderWay(v)' = <<>>
    BY <1>3, <2>3, <2>4
  <2>8. Pipe!Close(v)
    BY <2>3, <2>4, <2>5, <2>6, <2>7, CloseStep
  <2> QED
    BY <2>8 DEF Pipe!Next
<1> QED
  BY <1>4, <1>5

-----------------------------------------------------------------------------
\* Every step of the link is a step of VcPipe or leaves its queues alone.
LEMMA StepRefines == IInv /\ [Next]_vars => [Pipe!Next]_(Pipe!vars)
<1> SUFFICES ASSUME IInv, [Next]_vars
             PROVE  Pipe!Next \/ UNCHANGED Pipe!vars
  OBVIOUS
<1> DEFINE Same == UNCHANGED <<outState, [v \in VCs |-> Senders(v)],
                               [v \in VCs |-> UnderWay(v)]>>
<1>1. Same => UNCHANGED Pipe!vars
  BY DEF Pipe!vars, Senders
<1>2. ASSUME NEW s \in Sources, NewPacket(s) PROVE Same
  BY <1>2 DEF NewPacket, Senders, UnderWay
<1>3. ASSUME NEW s \in Sources, SendHead(s) PROVE Pipe!Next
  BY <1>3, SendHeadRefines
<1>4. ASSUME NEW s \in Sources, SendBody(s) PROVE Pipe!Next
  BY <1>4, SendBodyRefines
<1>5. ASSUME NEW v \in VCs, InputUnitWakeup(v) PROVE Same
  BY <1>5, ArrivalRefines
<1>6. ASSUME NEW v \in VCs, Depart(v) PROVE Pipe!Next
  BY <1>6, DepartRefines
<1>7. ASSUME NEW v \in VCs, OutputUnitWakeup(v) PROVE Pipe!Next \/ Same
  BY <1>7, CreditRefines
<1>8. ASSUME UNCHANGED vars PROVE Same
  BY <1>8 DEF vars, Senders, UnderWay
<1> HIDE DEF Same
<1> QED
  BY <1>1, <1>2, <1>3, <1>4, <1>5, <1>6, <1>7, <1>8 DEF Next

-----------------------------------------------------------------------------
(***************************************************************************)
(* FlowControl implements VcPort: a grant sends, a credit that comes back  *)
(* pays, and nothing else is seen by the port.                             *)
(***************************************************************************)

\* A grant sends a flit to a VC that is free or has its source.
LEMMA GrantSends ==
  ASSUME IInv, NEW s \in Sources, NEW v \in VCs, Send(s, v),
         left[s] > 0, outvc[s] \in {NoVC, v}, credit[v] > 0,
         outState' = [outState EXCEPT ![v] = ACTIVE_],
         \/ outState[v] = IDLE_ /\ credit[v] = MaxCredit /\ Senders(v) = {}
         \/ Senders(v) = {s}
  PROVE  Port!Next
<1>1. /\ credit \in [VCs -> 0 .. MaxCredit] /\ outState \in [VCs -> {IDLE_, ACTIVE_}]
      /\ MaxCredit \in Nat
  BY Parameters DEF IInv, TypeOK
<1>2. credit' = [credit EXCEPT ![v] = @ - 1]
  BY DEF Send, decrement_credit
<1>3. /\ MaxCredit - credit[v] < MaxCredit
      /\ MaxCredit - (credit[v] - 1) = (MaxCredit - credit[v]) + 1
      /\ credit[v] = MaxCredit => MaxCredit - credit[v] = 0
  BY <1>1
<1> DEFINE T == [u \in VCs |-> outState[u] = ACTIVE_]
           S == [u \in VCs |-> Senders(u)]
           U == [u \in VCs |-> MaxCredit - credit[u]]
<1>4. T' = [T EXCEPT ![v] = TRUE]
  BY <1>1
<1>5. U' = [U EXCEPT ![v] = U[v] + 1]
  <2>1. \A u \in VCs : U'[u] = IF u = v THEN MaxCredit - (credit[v] - 1) ELSE U[u]
    BY <1>1, <1>2
  <2> QED
    BY <1>3, <2>1
<1>6. PICK rest \in {{}, {s}} : Senders(v)' = rest
  <2>1. Senders(v)' = IF left[s] = 1 THEN Senders(v) \ {s} ELSE Senders(v) \cup {s}
    BY SendFacts
  <2> QED
    BY <2>1
<1>7. S' = [S EXCEPT ![v] = rest]
  <2>1. \A u \in VCs \ {v} : Senders(u)' = Senders(u)
    BY SendFacts
  <2> QED
    BY <1>6, <2>1
<1>8. IDLE_ # ACTIVE_
  BY DEF IDLE_, ACTIVE_
<1>9. Port!Send(v, s)
  BY <1>3, <1>4, <1>5, <1>6, <1>7, <1>8 DEF Port!Send, Port!Free, Senders
<1> QED
  BY <1>9 DEF Port!Next

\* A credit pays for a flit, and with the free signal for the last one: all
\* others have been paid for, and nobody has more to send.
LEMMA CreditPays ==
  ASSUME IInv, NEW v \in VCs, OutputUnitWakeup(v)
  PROVE  Port!Next
<1>1. /\ credits[v] # <<>> /\ outvc' = outvc
      /\ credit' = [credit EXCEPT ![v] = @ + 1]
      /\ outState' = [outState EXCEPT ![v] =
                         IF Head(credits[v]).is_free_signal THEN IDLE_ ELSE @]
  BY DEF OutputUnitWakeup, increment_credit
<1>2. /\ TypeOK /\ VCInv(v) /\ outState \in [VCs -> {IDLE_, ACTIVE_}]
      /\ credit \in [VCs -> 0 .. MaxCredit] /\ credits[v] \in Seq(Credit)
  BY DEF IInv, TypeOK
<1>3. PICK a, b, c, d, m \in Nat :
           /\ credit[v] = a /\ Len(link[v]) = b /\ Len(buf[v]) = c
           /\ Len(credits[v]) = d /\ MaxCredit = m
           /\ a + b + c + d = m
  BY <1>2, BalanceOf DEF VCInv
<1>4. d > 0
  BY <1>1, <1>2, <1>3, TailFacts
<1>5. MaxCredit - credit[v] > 0 /\ MaxCredit - (credit[v] + 1) = (MaxCredit - credit[v]) - 1
  BY <1>3, <1>4
<1> DEFINE T == [u \in VCs |-> outState[u] = ACTIVE_]
           S == [u \in VCs |-> Senders(u)]
           U == [u \in VCs |-> MaxCredit - credit[u]]
<1>6. S' = S
  BY <1>1 DEF Senders
<1>7. U' = [U EXCEPT ![v] = U[v] - 1]
  <2>1. \A u \in VCs : U'[u] = IF u = v THEN MaxCredit - (credit[v] + 1) ELSE U[u]
    BY <1>1, <1>2
  <2> QED
    BY <1>5, <2>1
<1>8. CASE Head(credits[v]).is_free_signal
  <2>1. credits[v][1].is_free_signal /\ 1 \in 1 .. Len(credits[v])
    BY <1>1, <1>2, <1>8, TailFacts
  <2>2. link[v] = <<>> /\ buf[v] = <<>> /\ 1 = Len(credits[v])
    BY <1>2, <2>1 DEF VCInv, CreditsOK
  <2>3. Senders(v) = {}
    BY <1>2, <2>1 DEF VCInv, OwnerOK, Senders
  <2>4. outState[v] = ACTIVE_
    BY <1>1, <1>2, AllCreditsMeansEmpty DEF VCInv, IdleOK
  <2>5. U[v] = 1 /\ U[v] - 1 = 0
    <3>1. b = 0 /\ c = 0 /\ d = 1
      BY <1>3, <2>2
    <3> QED
      BY <1>3, <3>1
  <2>6. T' = [T EXCEPT ![v] = FALSE]
    BY <1>1, <1>2, <1>8 DEF IDLE_, ACTIVE_
  <2>7. U' = [U EXCEPT ![v] = 0]
    <3> HIDE DEF U
    <3> QED
      BY <1>7, <2>5
  <2>8. Port!PayLast(v)
    BY <1>6, <2>3, <2>4, <2>5, <2>6, <2>7 DEF Port!PayLast, Senders
  <2> QED
    BY <2>8 DEF Port!Next
<1>9. CASE ~Head(credits[v]).is_free_signal
  <2>1. T' = T
    BY <1>1, <1>2, <1>9
  <2>2. Port!Pay(v)
    BY <1>5, <1>6, <1>7, <2>1 DEF Port!Pay, Senders
  <2> QED
    BY <2>2 DEF Port!Next
<1> QED
  BY <1>8, <1>9

\* A link with all its credits is a free port.
LEMMA InitIsFreePort == Init => Port!Init
<1> SUFFICES ASSUME Init PROVE Port!Init
  OBVIOUS
<1>1. \A v \in VCs : v # NoVC
  BY Parameters DEF VCs, NoVC
<1>2. \A v \in VCs : (outState[v] = ACTIVE_) = FALSE
  BY DEF Init, IDLE_, ACTIVE_
<1>3. \A v \in VCs : {s \in Sources : outvc[s] = v} = {}
  BY <1>1 DEF Init
<1>4. \A v \in VCs : MaxCredit - credit[v] = 0
  BY Parameters DEF Init
<1> QED
  BY <1>2, <1>3, <1>4 DEF Port!Init

\* Every step of the link is a step of VcPort or leaves the port alone.
LEMMA StepKeepsPort == IInv /\ [Next]_vars => [Port!Next]_(Port!vars)
<1> DEFINE Same == UNCHANGED <<outState, outvc, credit>>
<1> SUFFICES ASSUME IInv, [Next]_vars
             PROVE  Port!Next \/ UNCHANGED Port!vars
  OBVIOUS
<1>1. Same => UNCHANGED Port!vars
  BY DEF Port!vars
<1>2. ASSUME NEW s \in Sources, SendHead(s) PROVE Port!Next
  <2>1. PICK v \in VCs : /\ select_free_vc(s, v)
                         /\ outState' = [outState EXCEPT ![v] = ACTIVE_]
                         /\ Send(s, v)
    BY <1>2 DEF SendHead
  <2>2. left[s] > 0 /\ outvc[s] = NoVC
    BY <1>2 DEF SendHead
  <2>3. outState[v] = IDLE_
    BY <2>1 DEF select_free_vc, FreeVCs
  <2>4. credit[v] = MaxCredit /\ Senders(v) = {}
    BY <2>3 DEF IInv, VCInv, IdleOK, Senders
  <2>5. credit[v] > 0
    BY <2>4, Parameters
  <2> QED
    BY <2>1, <2>2, <2>3, <2>4, <2>5, GrantSends
<1>3. ASSUME NEW s \in Sources, SendBody(s) PROVE Port!Next
  <2>1. PICK v \in VCs : outvc[s] = v
    BY <1>3 DEF SendBody, IInv, TypeOK
  <2>2. /\ left[s] > 0 /\ credit[v] > 0 /\ Send(s, v)
        /\ outState' = outState /\ outState[v] = ACTIVE_
    BY <1>3, <2>1 DEF SendBody, has_credit
  <2>3. Senders(v) = {s}
    BY <2>1 DEF IInv, VCInv, OwnerOK, Senders
  <2>4. outState' = [outState EXCEPT ![v] = ACTIVE_]
    BY <2>2 DEF IInv, TypeOK
  <2> QED
    BY <2>1, <2>2, <2>3, <2>4, GrantSends
<1>4. ASSUME NEW v \in VCs, OutputUnitWakeup(v) PROVE Port!Next
  BY <1>4, CreditPays
<1>5. ASSUME NEW s \in Sources, NewPacket(s) PROVE Same
  BY <1>5 DEF NewPacket
<1>6. ASSUME NEW v \in VCs, InputUnitWakeup(v) \/ Depart(v) PROVE Same
  BY <1>6 DEF InputUnitWakeup, Depart
<1>7. ASSUME UNCHANGED vars PROVE Same
  BY <1>7 DEF vars
<1> HIDE DEF Same
<1> QED
  BY <1>1, <1>2, <1>3, <1>4, <1>5, <1>6, <1>7 DEF Next

\* The link with its credits is a port of the kind of VcPort on the upstream
\* side, and from there to the downstream router a packet channel, VcPipe.
THEOREM Implementation == Spec => ImplementsPortAndPipe
<1>1. Init /\ [][Next]_vars /\ []IInv => Pipe!Init /\ [][Pipe!Next]_(Pipe!vars)
  BY InitRefines, StepRefines, PTL
<1>2. Init /\ [][Next]_vars /\ []IInv => Port!Init /\ [][Port!Next]_(Port!vars)
  BY InitIsFreePort, StepKeepsPort, PTL
<1> QED
  BY <1>1, <1>2, Invariance, PTL DEF Spec, ImplementsPortAndPipe, Pipe!Spec, Port!Spec

-----------------------------------------------------------------------------
(***************************************************************************)
(* Why used VCs become free again: the tail of a packet that has been sent *)
(* is under way, and after it the free signal.  That both arrive needs     *)
(* fairness and is left to TLC.                                            *)
(***************************************************************************)
TailIn(q)   == \E k \in 1 .. Len(q) : q[k].tail
SignalIn(q) == \E k \in 1 .. Len(q) : q[k].is_free_signal

EndUnderWay(v) == TailIn(link[v]) \/ TailIn(buf[v]) \/ SignalIn(credits[v])

NoVCIsLost == \A v \in VCs : AllSent(v) => EndUnderWay(v)

\* A queue with a tail keeps it when flits are added, and loses it with the
\* flit that is the tail; free signals likewise.
LEMMA TailsKept ==
  ASSUME NEW q \in Seq(Flit)
  PROVE  /\ \A f \in Flit : TailIn(q) \/ f.tail => TailIn(Append(q, f))
         /\ q # <<>> /\ TailIn(q) => Head(q).tail \/ TailIn(Tail(q))
<1>1. \A f \in Flit : TailIn(q) \/ f.tail => TailIn(Append(q, f))
  <2> SUFFICES ASSUME NEW f \in Flit, TailIn(q) \/ f.tail
               PROVE  TailIn(Append(q, f))
    OBVIOUS
  <2>1. /\ Len(q) \in Nat /\ Len(Append(q, f)) = Len(q) + 1
        /\ \A k \in 1 .. Len(q) : Append(q, f)[k] = q[k]
        /\ Append(q, f)[Len(q) + 1] = f
    BY AppendFacts
  <2>2. CASE TailIn(q)
    BY <2>1, <2>2 DEF TailIn
  <2>3. CASE f.tail
    BY <2>1, <2>3 DEF TailIn
  <2> QED
    BY <2>2, <2>3
<1>2. ASSUME q # <<>>, TailIn(q), ~Head(q).tail PROVE TailIn(Tail(q))
  <2>1. PICK k \in 1 .. Len(q) : q[k].tail
    BY <1>2 DEF TailIn
  <2>2. /\ Len(q) \in Nat /\ Head(q) = q[1] /\ Len(Tail(q)) = Len(q) - 1
        /\ \A j \in 1 .. Len(Tail(q)) : Tail(q)[j] = q[j + 1]
    BY <1>2, TailFacts
  <2>3. k # 1
    BY <1>2, <2>1, <2>2
  <2>4. k - 1 \in 1 .. Len(Tail(q)) /\ (k - 1) + 1 = k
    BY <2>2, <2>3
  <2>5. Tail(q)[k - 1].tail
    BY <2>1, <2>2, <2>4
  <2> QED
    BY <2>4, <2>5 DEF TailIn
<1> QED
  BY <1>1, <1>2

LEMMA SignalsKept ==
  ASSUME NEW q \in Seq(Credit)
  PROVE  /\ \A c \in Credit : SignalIn(q) \/ c.is_free_signal => SignalIn(Append(q, c))
         /\ q # <<>> /\ SignalIn(q) => Head(q).is_free_signal \/ SignalIn(Tail(q))
<1>1. \A c \in Credit : SignalIn(q) \/ c.is_free_signal => SignalIn(Append(q, c))
  <2> SUFFICES ASSUME NEW c \in Credit, SignalIn(q) \/ c.is_free_signal
               PROVE  SignalIn(Append(q, c))
    OBVIOUS
  <2>1. /\ Len(q) \in Nat /\ Len(Append(q, c)) = Len(q) + 1
        /\ \A k \in 1 .. Len(q) : Append(q, c)[k] = q[k]
        /\ Append(q, c)[Len(q) + 1] = c
    BY AppendFacts
  <2>2. CASE SignalIn(q)
    BY <2>1, <2>2 DEF SignalIn
  <2>3. CASE c.is_free_signal
    BY <2>1, <2>3 DEF SignalIn
  <2> QED
    BY <2>2, <2>3
<1>2. ASSUME q # <<>>, SignalIn(q), ~Head(q).is_free_signal PROVE SignalIn(Tail(q))
  <2>1. PICK k \in 1 .. Len(q) : q[k].is_free_signal
    BY <1>2 DEF SignalIn
  <2>2. /\ Len(q) \in Nat /\ Head(q) = q[1] /\ Len(Tail(q)) = Len(q) - 1
        /\ \A j \in 1 .. Len(Tail(q)) : Tail(q)[j] = q[j + 1]
    BY <1>2, TailFacts
  <2>3. k # 1
    BY <1>2, <2>1, <2>2
  <2>4. k - 1 \in 1 .. Len(Tail(q)) /\ (k - 1) + 1 = k
    BY <2>2, <2>3
  <2>5. Tail(q)[k - 1].is_free_signal
    BY <2>1, <2>2, <2>4
  <2> QED
    BY <2>4, <2>5 DEF SignalIn
<1> QED
  BY <1>1, <1>2

\* A VC of which nothing changes.
LEMMA EndKept ==
  ASSUME NEW v \in VCs, AllSent(v) => EndUnderWay(v),
         UNCHANGED <<outState[v], link[v], buf[v], credits[v]>>,
         AllSent(v)' => \A s \in Sources : outvc[s] # v
  PROVE  AllSent(v)' => EndUnderWay(v)'
  BY DEF AllSent, EndUnderWay

\* After a grant the source goes on sending, or the tail is on the link.
LEMMA EndSent ==
  ASSUME IInv, NoVCIsLost, NEW s \in Sources, NEW v \in VCs, Send(s, v),
         left[s] > 0, outvc[s] \in {NoVC, v},
         \A u \in VCs \ {v} : outState'[u] = outState[u]
  PROVE  NoVCIsLost'
<1>1. /\ left \in [Sources -> 0 .. MaxFlits]
      /\ outvc \in [Sources -> VCs \cup {NoVC}] /\ link \in [VCs -> Seq(Flit)]
      /\ NoVC \notin VCs
  BY DEF IInv, TypeOK, VCs, NoVC
<1>2. /\ link' = [link EXCEPT ![v] = Append(@, NextFlit(s))]
      /\ outvc' = [outvc EXCEPT ![s] = IF left[s] = 1 THEN NoVC ELSE v]
      /\ buf' = buf /\ credits' = credits
  BY DEF Send, SwitchTraversal
<1>3. NextFlit(s) \in Flit /\ (NextFlit(s).tail <=> left[s] = 1)
  BY SendFacts DEF NextFlit
<1> SUFFICES ASSUME NEW u \in VCs, AllSent(u)' PROVE EndUnderWay(u)'
  BY DEF NoVCIsLost
<1>4. CASE u # v
  <2>1. UNCHANGED <<outState[u], link[u], buf[u], credits[u]>>
    BY <1>1, <1>2, <1>4
  <2>2. \A t \in Sources : outvc[t] # u
    BY <1>1, <1>2, <1>4 DEF AllSent
  <2> QED
    BY <2>1, <2>2, EndKept DEF NoVCIsLost
<1>5. CASE u = v
  <2>1. left[s] = 1
    BY <1>1, <1>2, <1>5 DEF AllSent
  <2>2. TailIn(Append(link[v], NextFlit(s)))
    BY <1>1, <1>3, <2>1, TailsKept
  <2> QED
    BY <1>1, <1>2, <1>5, <2>2 DEF EndUnderWay
<1> QED
  BY <1>4, <1>5

\* What ends a packet is handed on from the link to the buffer, from the buffer
\* to the credit link, and from there to the VC.
LEMMA EndHandedOn ==
  ASSUME IInv, NoVCIsLost, NEW v \in VCs,
         InputUnitWakeup(v) \/ Depart(v) \/ OutputUnitWakeup(v)
  PROVE  NoVCIsLost'
<1>1. /\ link \in [VCs -> Seq(Flit)] /\ buf \in [VCs -> Seq(Flit)]
      /\ credits \in [VCs -> Seq(Credit)] /\ outState \in [VCs -> {IDLE_, ACTIVE_}]
  BY DEF IInv, TypeOK
<1> SUFFICES ASSUME NEW u \in VCs, AllSent(u)' PROVE EndUnderWay(u)'
  BY DEF NoVCIsLost
<1>2. outvc' = outvc
  BY DEF InputUnitWakeup, Depart, OutputUnitWakeup
<1>3. CASE u # v
  <2>1. UNCHANGED <<outState[u], link[u], buf[u], credits[u]>>
    BY <1>1, <1>3 DEF InputUnitWakeup, Depart, OutputUnitWakeup, ReturnCredit
  <2>2. AllSent(u)' => \A t \in Sources : outvc[t] # u
    BY <1>2 DEF AllSent
  <2> QED
    BY <2>1, <2>2, EndKept DEF NoVCIsLost
<1>4. CASE u = v /\ InputUnitWakeup(v)
  <2>1. /\ link[v] # <<>> /\ link'[v] = Tail(link[v])
        /\ buf'[v] = Append(buf[v], Head(link[v]))
        /\ UNCHANGED <<outState, credits>>
    BY <1>1, <1>4 DEF InputUnitWakeup
  <2>2. Head(link[v]) \in Flit
    BY <1>1, <2>1, TailFacts
  <2>3. EndUnderWay(v)
    BY <1>2, <1>4, <2>1 DEF NoVCIsLost, AllSent
  <2> QED
    BY <1>1, <1>4, <2>1, <2>2, <2>3, TailsKept DEF EndUnderWay
<1>5. CASE u = v /\ Depart(v)
  <2> DEFINE c == [is_free_signal |-> Head(buf[v]).tail]
  <2>1. /\ buf[v] # <<>> /\ buf'[v] = Tail(buf[v])
        /\ credits'[v] = Append(credits[v], c)
        /\ UNCHANGED <<outState, link>>
    BY <1>1, <1>5 DEF Depart, ReturnCredit
  <2>4. Head(buf[v]) \in Flit
    BY <1>1, <2>1, TailFacts
  <2>5. Head(buf[v]).tail \in BOOLEAN
    BY <2>4 DEF Flit
  <2>2. c \in Credit /\ c.is_free_signal = Head(buf[v]).tail
    BY <2>5 DEF Credit
  <2>3. EndUnderWay(v)
    BY <1>2, <1>5, <2>1 DEF NoVCIsLost, AllSent
  <2> HIDE DEF c
  <2> QED
    BY <1>1, <1>5, <2>1, <2>2, <2>3, TailsKept, SignalsKept DEF EndUnderWay
<1>6. CASE u = v /\ OutputUnitWakeup(v)
  <2>1. /\ credits[v] # <<>> /\ credits'[v] = Tail(credits[v])
        /\ outState'[v] = IF Head(credits[v]).is_free_signal THEN IDLE_ ELSE outState[v]
        /\ UNCHANGED <<link, buf>>
    BY <1>1, <1>6 DEF OutputUnitWakeup
  <2>2. ~Head(credits[v]).is_free_signal
    BY <1>6, <2>1 DEF AllSent, IDLE_, ACTIVE_
  <2>3. EndUnderWay(v)
    BY <1>2, <1>6, <2>1, <2>2 DEF NoVCIsLost, AllSent
  <2> QED
    BY <1>1, <1>6, <2>1, <2>2, <2>3, SignalsKept DEF EndUnderWay
<1> QED
  BY <1>3, <1>4, <1>5, <1>6

\* An output VC whose packet has been sent is never lost: its tail is on the link
\* or in the buffer downstream, or the free signal is on its way back.
THEOREM UsedVCsComeBack == Spec => []NoVCIsLost
<1>1. Init => NoVCIsLost
  BY DEF Init, NoVCIsLost, AllSent, IDLE_, ACTIVE_
<1>2. IInv /\ NoVCIsLost /\ [Next]_vars => NoVCIsLost'
  <2> SUFFICES ASSUME IInv, NoVCIsLost, [Next]_vars PROVE NoVCIsLost'
    OBVIOUS
  <2>1. ASSUME NEW s \in Sources, SendHead(s) PROVE NoVCIsLost'
    <3>1. PICK v \in VCs : outState' = [outState EXCEPT ![v] = ACTIVE_] /\ Send(s, v)
      BY <2>1 DEF SendHead
    <3>2. \A u \in VCs \ {v} : outState'[u] = outState[u]
      BY <3>1 DEF IInv, TypeOK
    <3> QED
      BY <2>1, <3>1, <3>2, EndSent DEF SendHead
  <2>2. ASSUME NEW s \in Sources, SendBody(s) PROVE NoVCIsLost'
    <3>1. PICK v \in VCs : outvc[s] = v
      BY <2>2 DEF SendBody, IInv, TypeOK
    <3> QED
      BY <2>2, <3>1, EndSent DEF SendBody
  <2>3. ASSUME NEW s \in Sources, NewPacket(s) PROVE NoVCIsLost'
    BY <2>3 DEF NewPacket, NoVCIsLost, AllSent, EndUnderWay
  <2>4. CASE UNCHANGED vars
    BY <2>4 DEF vars, NoVCIsLost, AllSent, EndUnderWay
  <2> QED
    BY <2>1, <2>2, <2>3, <2>4, EndHandedOn DEF Next
<1> QED
  BY <1>1, <1>2, Invariance, PTL DEF Spec
=============================================================================
