------------------------------- MODULE NfcMcu -------------------------------
(***************************************************************************)
(* The read-only NFC microcontroller of main/nfc_mcu.c: the presented tag, *)
(* the MCU power and poll states, and the bounded transactional queue of   *)
(* MCU packets that 0x31 input reports carry to the console.               *)
(*                                                                         *)
(* All its operations run in the BTstack run loop, one at a time, so each  *)
(* C function is one action.  The ring queue[(head + i) % 4] is the        *)
(* sequence of its live slots; `present' is tag # NoTag (load sets both,   *)
(* unload clears both).  The diagnostic counters (received, rejected,      *)
(* last_cmd, last_sub) decide nothing and are left out, as are packet      *)
(* bytes that no property tells apart.                                     *)
(***************************************************************************)
EXTENDS Naturals, Sequences

CONSTANTS
    Tags,       \* the 540-byte images a PC may present
    NoTag,      \* no image is presented
    QueueSize   \* slots of the packet queue, 4 in the code

\* read_tag() writes to three reserved slots without testing reserve() for
\* NULL, so the queue must hold at least the three fragments.
ASSUME NfcAssumption ==
    /\ QueueSize \in Nat /\ QueueSize >= 3
    /\ NoTag \notin Tags

VARIABLES
    tag,        \* tag[540] and present
    seen,       \* the console was given a poll packet for this tag
    power,      \* power_state: 0 off, 1 on, 4 NFC mode
    poll,       \* poll_state: 0 stopped, 1 looking or just found, 9 held
    queue,      \* packets reserved and not yet committed
    wire,       \* history: the last packet the console was sent
    announced   \* history: it was sent one of this detection's tag packets

nfcVars == <<tag, seen, power, poll, queue, wire, announced>>
nfcHistory == <<wire, announced>>

PowerStates == {0, 1, 4}
PollStates  == {0, 1, 9}
Fragments   == {"first", "second", "tail"}

\* `tag' is the image whose UID or bytes the packet carries, `state' the
\* power state of a status packet and the poll state of a poll packet.
Packet ==
    [kind : {"idle", "status", "poll"} \cup Fragments,
     tag  : Tags \cup {NoTag},
     state: PowerStates \cup PollStates]

Idle == [kind |-> "idle", tag |-> NoTag, state |-> 0]

StatusPacket(pw) ==
    IF pw = 0 THEN Idle ELSE [kind |-> "status", tag |-> NoTag, state |-> pw]

PollPacket(t, pl) == [kind |-> "poll", tag |-> t, state |-> pl]

Fragment(k, t) == [kind |-> k, tag |-> t, state |-> 0]

Carries(p) == p.tag # NoTag

\* A fault of reserve(): no test of a full queue.
ReserveOverrun(q, p) == Append(q, p)

\* reserve() and finish(): a packet that finds no free slot is not queued.
Reserve(q, p) == IF Len(q) = QueueSize THEN q ELSE Append(q, p)

-----------------------------------------------------------------------------

NfcInit ==
    /\ tag = NoTag
    /\ seen = FALSE
    /\ power = 0
    /\ poll = 0
    /\ queue = <<>>
    /\ wire = Idle
    /\ announced = FALSE

\* nfc_reset(), called for every new HID connection: the tag stays presented.
NfcReset ==
    /\ power' = 0
    /\ poll' = 0
    /\ seen' = FALSE
    /\ queue' = <<>>
    /\ announced' = FALSE
    /\ UNCHANGED <<tag, wire>>

\* The packet poll() builds when tag, seen and poll_state are t, s and pl.
PollAnswer(t, s, pl) ==
    IF t # NoTag /\ pl # 0
    THEN PollPacket(t, IF s THEN 9 ELSE 1)
    ELSE PollPacket(NoTag, pl)

\* A fault of poll(): the tag counts as seen although no slot was free.
AnswerPollUnsent(t, s, pl, q) ==
    /\ seen' = (s \/ Carries(PollAnswer(t, s, pl)))
    /\ poll' = PollAnswer(t, s, pl).state
    /\ queue' = Reserve(q, PollAnswer(t, s, pl))

\* poll() called when the queue is q, too: a full queue returns before
\* anything is changed, and a tag that was found has been seen.
AnswerPoll(t, s, pl, q) ==
    IF Len(q) = QueueSize
    THEN seen' = s /\ poll' = pl /\ queue' = q
    ELSE /\ seen' = (s \/ Carries(PollAnswer(t, s, pl)))
         /\ poll' = PollAnswer(t, s, pl).state
         /\ queue' = Append(q, PollAnswer(t, s, pl))

\* A fault of nfc_load(): the queue is not flushed.
LoadWithoutFlush(t) ==
    /\ tag' = t
    /\ seen' = FALSE
    /\ announced' = FALSE
    /\ UNCHANGED <<power, poll, queue, wire>>

\* nfc_load(): packets of the old tag are dropped, and the status or poll
\* packet the console may be waiting for is queued again.
NfcLoad(t) ==
    /\ tag' = t
    /\ IF power = 4 /\ poll # 0
       THEN AnswerPoll(t, FALSE, 1, <<>>)
       ELSE /\ seen' = FALSE
            /\ queue' = IF power # 0 THEN <<StatusPacket(power)>> ELSE <<>>
            /\ UNCHANGED poll
    /\ announced' = FALSE
    /\ UNCHANGED <<power, wire>>

\* nfc_unload(): the console is told of the loss only if it is polling.
NfcUnload ==
    /\ tag' = NoTag
    /\ IF poll # 0 /\ power = 4
       THEN AnswerPoll(NoTag, FALSE, 1, <<>>)
       ELSE /\ seen' = FALSE
            /\ queue' = <<>>
            /\ poll' = IF poll # 0 THEN 1 ELSE 0
    /\ announced' = FALSE
    /\ UNCHANGED <<power, wire>>

\* A fault of nfc_power(): the queue is not flushed.
PowerWithoutFlush(v) ==
    /\ power' = v
    /\ poll' = 0
    /\ seen' = FALSE
    /\ queue' = Reserve(queue, StatusPacket(v))
    /\ announced' = FALSE
    /\ UNCHANGED <<tag, wire>>

\* nfc_power() with a value it accepts.
NfcPower(v) ==
    /\ power' = v
    /\ poll' = 0
    /\ seen' = FALSE
    /\ queue' = <<StatusPacket(v)>>
    /\ announced' = FALSE
    /\ UNCHANGED <<tag, wire>>

\* nfc_config() with a mode it accepts: ignored when the MCU is off or the
\* mode is 0, and acknowledged all the same.
NfcConfig(m) ==
    IF power # 0 /\ m # 0
    THEN /\ power' = m
         /\ poll' = 0
         /\ seen' = FALSE
         /\ queue' = <<StatusPacket(m)>>
         /\ announced' = FALSE
         /\ UNCHANGED <<tag, wire>>
    ELSE UNCHANGED nfcVars

-----------------------------------------------------------------------------
(* nfc_command(): the requests of output report 0x11.                      *)

\* Command 1 is answered in every power state.
NfcStatus ==
    /\ queue' = Reserve(queue, StatusPacket(power))
    /\ UNCHANGED <<tag, seen, power, poll, nfcHistory>>

NfcStartPolling ==
    /\ power = 4
    /\ poll' = 1
    /\ UNCHANGED <<tag, seen, power, queue, nfcHistory>>

NfcStopPolling ==
    /\ power = 4
    /\ poll' = 0
    /\ seen' = FALSE
    /\ queue' = <<>>
    /\ announced' = FALSE
    /\ UNCHANGED <<tag, power, wire>>

NfcPoll ==
    /\ power = 4
    /\ AnswerPoll(tag, seen, poll, queue)
    /\ UNCHANGED <<tag, power, nfcHistory>>

\* read_tag(): three fragments in three slots of the emptied queue.
NfcRead ==
    /\ power = 4
    /\ tag # NoTag
    /\ queue' = <<Fragment("first", tag), Fragment("second", tag),
                  Fragment("tail", tag)>>
    /\ UNCHANGED <<tag, seen, power, poll, nfcHistory>>

\* What nfc_command() accepts but its state forbids, or does not support, is
\* rejected without a change.
NfcRequests == {"status", "start", "stop", "poll", "read", "unsupported"}

NfcAccepts(r) ==
    \/ r = "status"
    \/ r \in {"start", "stop", "poll"} /\ power = 4
    \/ r = "read" /\ power = 4 /\ tag # NoTag

NfcCommand(r) ==
    \/ r = "status" /\ NfcStatus
    \/ r = "start"  /\ NfcStartPolling
    \/ r = "stop"   /\ NfcStopPolling
    \/ r = "poll"   /\ NfcPoll
    \/ r = "read"   /\ NfcRead
    \/ ~NfcAccepts(r) /\ UNCHANGED nfcVars

\* nfc_peek(): the oldest packet, or the idle one.
NfcPeek == IF queue = <<>> THEN Idle ELSE Head(queue)

\* nfc_peek() and, once L2CAP has accepted the report, nfc_commit().
NfcTransmit ==
    /\ wire' = NfcPeek
    /\ announced' = (announced \/ Carries(NfcPeek))
    /\ queue' = IF queue = <<>> THEN queue ELSE Tail(queue)
    /\ UNCHANGED <<tag, seen, power, poll>>

NfcNext ==
    \/ NfcReset
    \/ \E t \in Tags : NfcLoad(t)
    \/ NfcUnload
    \/ \E v \in {0, 1} : NfcPower(v)
    \/ \E m \in PowerStates : NfcConfig(m)
    \/ \E r \in NfcRequests : NfcCommand(r)
    \/ NfcTransmit

NfcSpec == NfcInit /\ [][NfcNext]_nfcVars

-----------------------------------------------------------------------------

\* Types: the ring never holds more than its slots.
NfcTypeOK ==
    /\ tag \in Tags \cup {NoTag}
    /\ seen \in BOOLEAN
    /\ power \in PowerStates
    /\ poll \in PollStates
    /\ queue \in Seq(Packet)
    /\ Len(queue) <= QueueSize
    /\ wire \in Packet
    /\ announced \in BOOLEAN

\* Whatever the PC loads or removes between a console request and the report
\* that answers it, every packet waiting in the queue that carries a UID or
\* tag bytes carries those of the tag presented now ("Replace stale tag
\* packets", nfc_mcu.c:41).
NoStaleTag ==
    \A i \in 1..Len(queue) : Carries(queue[i]) => queue[i].tag = tag

\* Tag data is queued, and polling is on, only while the console holds the MCU
\* in NFC mode: a power change, a mode change or a reconnection leaves none.
TagDataOnlyInNfcMode ==
    /\ (\E i \in 1..Len(queue) : Carries(queue[i])) => power = 4
    /\ poll # 0 => power = 4

\* The packet that must have been sent or queued just before a fragment.
FollowsOn(before, p) ==
    /\ p.kind = "second" => before = Fragment("first", p.tag)
    /\ p.kind = "tail"   => before = Fragment("second", p.tag)

\* The console receives the three fragments of a read back to back and of one
\* tag: no poll or status answer comes between them and no flush leaves part
\* of a read at the head ("All three fragments are reserved together; polling
\* cannot evict them.", nfc_mcu.c:104).
FragmentsInOrder ==
    \A i \in 1..Len(queue) :
        FollowsOn(IF i = 1 THEN wire ELSE queue[i-1], queue[i])

\* A poll packet that says the tag is still held (poll state 9) reaches the
\* console only after a packet that gave it that tag's identity: a poll that
\* was dropped by a full queue, or flushed by a load, a removal or a mode
\* change, does not count as seen.
DetectedBeforeHeld ==
    \A i \in 1..Len(queue) :
        queue[i].kind = "poll" /\ queue[i].state = 9 =>
            announced \/ \E j \in 1..(i-1) : Carries(queue[j])
=============================================================================
