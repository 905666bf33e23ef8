---------------------------------- MODULE Ring ----------------------------------
(***************************************************************************)
(* The rings of packets in main/nfc_mcu.c (queue, head, count) and of      *)
(* replies in main/btstack_hid.c (replies, reply_head, reply_count): the   *)
(* same arithmetic of indices twice.  Other modules take them for          *)
(* sequences; here they are shown to be queues.                            *)
(***************************************************************************)
EXTENDS Integers, Sequences

CONSTANTS
    Items,      \* what a slot holds
    Zero,       \* a slot never written
    Size        \* 4 packets, 8 replies

ASSUME RingAssumption == Size \in Nat \ {0}

VARIABLES slots, head, count
ringVars == <<slots, head, count>>

RingInit == slots = [i \in 0..(Size - 1) |-> Zero] /\ head = 0 /\ count = 0

\* A fault of the tail: the ring is one slot shorter than what wraps around.
TailShort == (head + count) % (Size - 1)

\* The slot after the last one in use.
RingTail == (head + count) % Size

\* reserve() with what its caller writes; a full ring refuses.
RingPut(x) ==
    /\ IF count = Size THEN UNCHANGED <<slots, count>>
       ELSE slots' = [slots EXCEPT ![RingTail] = x] /\ count' = count + 1
    /\ UNCHANGED head

\* nfc_commit(), and the end of send_next_report() for a reply.
RingGet ==
    /\ count # 0
    /\ head' = (head + 1) % Size
    /\ count' = count - 1
    /\ UNCHANGED slots

\* flush(), and a connection that begins or ends: the slots keep their bytes.
RingFlush == head' = 0 /\ count' = 0 /\ UNCHANGED slots

RingNext == (\E x \in Items : RingPut(x)) \/ RingGet \/ RingFlush
RingSpec == RingInit /\ [][RingNext]_ringVars

-----------------------------------------------------------------------------

Live == [i \in 1..count |-> slots[(head + i - 1) % Size]]
Queue == INSTANCE BoundedQueue WITH queue <- Live

\* Wherever the head stands and whatever old items the slots still hold, the ring
\* is a queue: items come out as they were put in, one by one, none overwritten
\* (nfc_mcu.c:58, btstack_hid.c:363).
ActsAsQueue == Queue!QueueSpec
=============================================================================
