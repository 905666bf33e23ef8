------------------------------ MODULE BoundedQueue ------------------------------
(* What the two rings of the firmware are for: a queue of limited length      *)
(* that refuses an item when it is full, and may be emptied at once.         *)
EXTENDS Naturals, Sequences

CONSTANTS Items, Size

VARIABLE queue

QueueInit == queue = <<>>

Put(x) == queue' = IF Len(queue) < Size THEN Append(queue, x) ELSE queue
Get    == queue # <<>> /\ queue' = Tail(queue)
Clear  == queue' = <<>>

QueueNext == (\E x \in Items : Put(x)) \/ Get \/ Clear
QueueSpec == QueueInit /\ [][QueueNext]_queue
=============================================================================
