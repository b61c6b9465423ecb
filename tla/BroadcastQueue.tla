--------------------------- MODULE BroadcastQueue ---------------------------
(***************************************************************************)
(* What the ring buffer of a session promises to its threads: every reader *)
(* has a bounded FIFO queue of its own, a reader that joins starts with an *)
(* empty queue, a block goes to all the queues or to none, and a reader    *)
(* takes bytes from the front of its own queue only.  There are no         *)
(* offsets, no wrap-around and no mutex here.                              *)
(***************************************************************************)
EXTENDS Naturals, Sequences

CONSTANTS Capacity,   \* the most bytes a queue holds
          Blocks      \* what the producer may put: sequences of bytes

VARIABLE queue        \* queue[i]: what the i-th reader has not taken yet

Init == queue = <<>>

Join == queue' = Append(queue, <<>>)

Put(block) ==
    /\ \A i \in DOMAIN queue : Len(queue[i]) + Len(block) <= Capacity
    /\ queue' = [i \in DOMAIN queue |-> queue[i] \o block]

Take(i, n) ==
    /\ n \in 1 .. Len(queue[i])
    /\ queue' = [queue EXCEPT ![i] = SubSeq(@, n + 1, Len(@))]

Next ==
    \/ Join
    \/ \E block \in Blocks : Put(block)
    \/ \E i \in DOMAIN queue : \E n \in 1 .. Capacity : Take(i, n)

Spec == Init /\ [][Next]_queue

=============================================================================
