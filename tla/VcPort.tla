-------------------------------- MODULE VcPort --------------------------------
(***************************************************************************)
(* What an output port promises to the link behind it, be it a port of a   *)
(* router or of a network interface: a VC is given to one packet at a      *)
(* time, nobody else sends to it before the packet has ended, no flit is   *)
(* sent without a buffer for it, a cycle has one flit at most, and a VC is *)
(* given to the next packet when all flits of the last are paid back.      *)
(* FlowControl is about what such a port and its link are together.        *)
(***************************************************************************)
EXTENDS Naturals

CONSTANTS VCs, Senders, Capacity

VARIABLES
  taken,   \* a packet has the VC
  sender,  \* who has more flits of that packet to send
  used     \* the buffers of the VC that are not paid back

vars == <<taken, sender, used>>

Init == /\ taken = [v \in VCs |-> FALSE]
        /\ sender = [v \in VCs |-> {}]
        /\ used = [v \in VCs |-> 0]

Free(v) == ~taken[v] /\ used[v] = 0

\* A VC is chosen for a packet that is not sent yet.
Take(v, s) ==
  /\ Free(v)
  /\ taken' = [taken EXCEPT ![v] = TRUE]
  /\ sender' = [sender EXCEPT ![v] = {s}]
  /\ UNCHANGED used

\* A flit is sent: the first of a packet, to a VC that is free or has been
\* taken for it, or another one.
Send(v, s) ==
  /\ Free(v) \/ sender[v] = {s}
  /\ used[v] < Capacity
  /\ taken' = [taken EXCEPT ![v] = TRUE]
  /\ \E rest \in {{}, {s}} : sender' = [sender EXCEPT ![v] = rest]
  /\ used' = [used EXCEPT ![v] = @ + 1]

Pay(v) ==
  /\ used[v] > 0
  /\ used' = [used EXCEPT ![v] = @ - 1]
  /\ UNCHANGED <<taken, sender>>

\* The last flit of a packet is paid back.
PayLast(v) ==
  /\ taken[v] /\ sender[v] = {} /\ used[v] = 1
  /\ taken' = [taken EXCEPT ![v] = FALSE]
  /\ used' = [used EXCEPT ![v] = 0]
  /\ UNCHANGED sender

Next ==
  \E v \in VCs : \/ \E s \in Senders : Take(v, s) \/ Send(v, s)
                 \/ Pay(v)
                 \/ PayLast(v)

Spec == Init /\ [][Next]_vars
=============================================================================
