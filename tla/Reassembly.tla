----------------------------- MODULE Reassembly -----------------------------
(***************************************************************************)
(* How a network interface of the bufferless network puts packets together *)
(* again.  Every flit of a packet travels alone and they arrive in any     *)
(* order; m_rob counts the flits that have arrived with the same m_clk_id, *)
(* which is computed from the source and the cycle of injection only.      *)
(*                                                                         *)
(* One destination is modelled, with the packets of several flits that     *)
(* are sent to it; the flits on their way are a count per packet.  Cycles  *)
(* are counted modulo Period, which no packet lives to see.                *)
(***************************************************************************)
EXTENDS Integers, FiniteSets, Functions

CONSTANTS
  Sources,   \* the network interfaces that send, numbered from 0
  Vnets,     \* the vnets whose packets have more than one flit
  Size,      \* flits of such a packet: 5
  FLIT_ID_,  \* modulus of the cycle in m_clk_id
  Lifetime,  \* cycles after which the last flit of a packet has arrived
  Period     \* modulus of the modelled clock

ASSUME Parameters ==
  /\ Sources \subseteq Nat
  /\ Size \in Nat \ {0, 1}
  /\ FLIT_ID_ \in Nat \ {0}
  /\ Lifetime \in Nat
  /\ Period \in Nat \ {0} /\ Period % FLIT_ID_ = 0
  /\ Lifetime < Period

VARIABLES
  curCycle,   \* the cycle, modulo Period
  missing,    \* flits under way of every recent packet
  handed,     \* how often its message was handed to the protocol
  m_rob       \* flits counted for every m_clk_id

vars == <<curCycle, missing, handed, m_rob>>

Packet == [src : Sources, vnet : Vnets, time : 0 .. Period - 1]

\* Mutant: the source is not part of the id.
clk_id_cycleOnly(p) == p.time % FLIT_ID_

\* m_clk_id: the flits of a packet are made in the same cycle and share it.
clk_id(p) == p.src * FLIT_ID_ + (p.time % FLIT_ID_)

Age(p) == (curCycle - p.time) % Period

-----------------------------------------------------------------------------
Init ==
  /\ curCycle = 0
  /\ missing = <<>>
  /\ handed = <<>>
  /\ m_rob = <<>>

\* flitisizeMessage at a source: at most one packet of a vnet per cycle.
Inject(p) ==
  /\ p.time = curCycle
  /\ p \notin DOMAIN missing
  /\ missing' = [q \in DOMAIN missing \cup {p} |->
                   IF q = p THEN Size ELSE missing[q]]
  /\ handed' = [q \in DOMAIN handed \cup {p} |->
                  IF q = p THEN 0 ELSE handed[q]]
  /\ UNCHANGED <<curCycle, m_rob>>

\* The count of an id with the flit that arrives.
Counted(id) == IF id \in DOMAIN m_rob THEN m_rob[id] + 1 ELSE 1

\* Mutant: the last flit but one completes the packet.
areAllFlitsHere_early(p) == Counted(clk_id(p)) = Size - 1

\* areAllFlitsHere, which also counts the flit.
areAllFlitsHere(p) == Counted(clk_id(p)) = Size

\* The branch of wakeup for DEFLECTION_ and TDM_: the flit that completes its
\* packet hands over its message (at once or from the stall queue), and the
\* entry is erased.
Receive(p) ==
  IF areAllFlitsHere(p)
    THEN /\ m_rob' = Restrict(m_rob, DOMAIN m_rob \ {clk_id(p)})
         /\ handed' = [handed EXCEPT ![p] = @ + 1]
    ELSE /\ m_rob' = [id \in DOMAIN m_rob \cup {clk_id(p)} |->
                        IF id = clk_id(p) THEN Counted(id) ELSE m_rob[id]]
         /\ UNCHANGED handed

\* Flits arrive in any order and, other than on the real link, any number of
\* them in a cycle.
FlitArrives(p) ==
  /\ missing[p] > 0
  /\ missing' = [missing EXCEPT ![p] = @ - 1]
  /\ Receive(p)
  /\ UNCHANGED curCycle

\* A packet whose Lifetime has passed has arrived and is forgotten.
NextCycle ==
  /\ \A p \in DOMAIN missing : missing[p] > 0 => Age(p) < Lifetime
  /\ curCycle' = (curCycle + 1) % Period
  /\ LET recent == {p \in DOMAIN missing : Age(p) < Lifetime}
     IN /\ missing' = Restrict(missing, recent)
        /\ handed' = Restrict(handed, recent)
  /\ UNCHANGED m_rob

Next ==
  \/ \E p \in Packet : Inject(p)
  \/ \E p \in DOMAIN missing : FlitArrives(p)
  \/ NextCycle

Spec == Init /\ [][Next]_vars

-----------------------------------------------------------------------------
\* A message is handed to the protocol when the last of its flits arrives, not
\* before, and once: "no duplicate id will appear".
HandedOnceWhenComplete ==
  \A p \in DOMAIN missing : handed[p] = IF missing[p] = 0 THEN 1 ELSE 0

\* The entries of m_rob are the packets that have arrived in part, and count
\* their flits: nothing is left in it that a later packet would meet.
RobCountsFlits ==
  LET partly == {p \in DOMAIN missing : missing[p] \in 1 .. Size - 1}
  IN /\ DOMAIN m_rob = {clk_id(p) : p \in partly}
     /\ \A p \in partly : m_rob[clk_id(p)] = Size - missing[p]
=============================================================================
