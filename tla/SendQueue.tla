------------------------------ MODULE SendQueue ------------------------------
(***************************************************************************)
(* What the relay's tasks may expect of the WebSocket of an edge agent:    *)
(* one send at a time, in the order in which they were asked for.  A send  *)
(* ends with success or, once the WebSocket is broken, with an exception.  *)
(***************************************************************************)
EXTENDS Sequences, Functions

CONSTANT Tasks

VARIABLE queue  \* the tasks that want to send, the first of which is sending

Init == queue = <<>>

Submit(t) == t \notin Range(queue) /\ queue' = Append(queue, t)

SendOver == queue # <<>> /\ queue' = Tail(queue)

Next == SendOver \/ \E t \in Tasks : Submit(t)

Spec == Init /\ [][Next]_queue

=============================================================================
