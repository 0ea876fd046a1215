----------------------------- MODULE EventQueue -----------------------------
(***************************************************************************)
(* What the queue of one priority level promises the event core: events    *)
(* come out in the order they were accepted, each once.                    *)
(***************************************************************************)
EXTENDS Sequences

CONSTANT Events

VARIABLE queue

Init == queue = <<>>

Put(e) == queue' = Append(queue, e)
Take   == queue # <<>> /\ queue' = Tail(queue)

Next == Take \/ \E e \in Events : Put(e)

Spec == Init /\ [][Next]_queue
=============================================================================
