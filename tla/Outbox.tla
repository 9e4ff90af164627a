------------------------------- MODULE Outbox -------------------------------
(***************************************************************************)
(* What SocketSender promises the transports that hand it packets: one     *)
(* queue for everybody, from which packets leave in the order in which     *)
(* they were handed over, each once, either sent or given up.              *)
(***************************************************************************)
EXTENDS Integers, Sequences

CONSTANT Packets

VARIABLES
    queue,    \* packets handed over and not yet dealt with
    gone      \* packets dealt with, in order

outbox == <<queue, gone>>

OutboxInit == queue = <<>> /\ gone = <<>>

Put(b) == queue' = Append(queue, b) /\ UNCHANGED gone

Take ==
    /\ queue # <<>>
    /\ queue' = Tail(queue)
    /\ gone' = Append(gone, Head(queue))

OutboxNext == Take \/ \E b \in Packets : Put(b)

OutboxSpec == OutboxInit /\ [][OutboxNext]_outbox
=============================================================================
