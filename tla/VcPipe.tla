-------------------------------- MODULE VcPipe --------------------------------
(***************************************************************************)
(* What a link with credits promises to the packets that cross it: every   *)
(* output VC is a bounded queue of flits that is opened by the head of a   *)
(* packet, delivers the flits of that packet, all of them and in order,    *)
(* and is closed before another packet may open it.                        *)
(***************************************************************************)
EXTENDS Naturals, Sequences

CONSTANTS VCs, Flits, Capacity

VARIABLES
  open,     \* a packet has the VC
  senders,  \* the source that has more flits to add to it
  queue     \* the flits under way in the VC, oldest first

vars == <<open, senders, queue>>

Init == /\ open = [v \in VCs |-> FALSE]
        /\ senders = [v \in VCs |-> {}]
        /\ queue = [v \in VCs |-> <<>>]

\* The source of flit f goes on sending after f unless f is the tail.
MoreAfter(f) == IF f.tail THEN {} ELSE {f.src}

Open(v, f) ==
  /\ ~open[v] /\ queue[v] = <<>>
  /\ f.head
  /\ open' = [open EXCEPT ![v] = TRUE]
  /\ senders' = [senders EXCEPT ![v] = MoreAfter(f)]
  /\ queue' = [queue EXCEPT ![v] = <<f>>]

Push(v, f) ==
  /\ senders[v] = {f.src} /\ ~f.head
  /\ Len(queue[v]) < Capacity
  /\ senders' = [senders EXCEPT ![v] = MoreAfter(f)]
  /\ queue' = [queue EXCEPT ![v] = Append(@, f)]
  /\ UNCHANGED open

Pop(v) ==
  /\ queue[v] # <<>>
  /\ queue' = [queue EXCEPT ![v] = Tail(@)]
  /\ UNCHANGED <<open, senders>>

Close(v) ==
  /\ open[v] /\ senders[v] = {} /\ queue[v] = <<>>
  /\ open' = [open EXCEPT ![v] = FALSE]
  /\ UNCHANGED <<senders, queue>>

Next ==
  \E v \in VCs : \/ \E f \in Flits : Open(v, f) \/ Push(v, f)
                 \/ Pop(v)
                 \/ Close(v)

Spec == Init /\ [][Next]_vars
=============================================================================
