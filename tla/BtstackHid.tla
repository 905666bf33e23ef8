------------------------------ MODULE BtstackHid ------------------------------
(***************************************************************************)
(* The firmware around its BTstack transport, main/btstack_hid.c: the link *)
(* to the console, the queue of subcommand replies, the input timer and    *)
(* the one pending request to send, composed with the HID device profile,  *)
(* the Switch protocol, the NFC microcontroller and the PC's commands.     *)
(*                                                                         *)
(* Every handler runs in the BTstack run loop, so the actions are whole    *)
(* handlers, and none runs while a poll of the PC's queue is under way;    *)
(* only the PC's reader task and the clock interleave with a poll.  The    *)
(* ring replies[(head + i) % 8] is the sequence of its live slots.         *)
(***************************************************************************)
EXTENDS PcControl, SwitchProto, HidDevice

CONSTANT ReplyQueueSize     \* REPLY_QUEUE_SIZE, 8 in the code

ASSUME ReplyAssumption == ReplyQueueSize \in Nat \ {0}

VARIABLES
    connected,      \* a console is connected
    sendPending,    \* send_pending: a can-send-now event is awaited
    replies,        \* replies waiting to be sent
    timerArmed,     \* input_timer is in the run loop's list
    \* History:
    lastNumber,     \* the number of the last report the console received
    skipped,        \* numbers spent by input reports refused since then
    lost,           \* a reply was dropped since the last input report was sent
    answered,       \* the last reply the console received
    shown           \* the controls in the last report the console received

appVars == <<connected, sendPending, replies, timerArmed>>
appHistory == <<lastNumber, skipped, lost, answered, shown>>
vars == <<controls, nfcVars, pcVars, protoVars, hidVars, appVars, appHistory>>

AppInit ==
    /\ connected = FALSE
    /\ sendPending = FALSE
    /\ replies = <<>>
    /\ timerArmed = FALSE
    /\ lastNumber = TimerMod - 1
    /\ skipped = 0
    /\ lost = FALSE
    /\ answered = [number |-> 0, held |-> Neutral]
    /\ shown = Neutral

Init == ControlsInit /\ NfcInit /\ PcInit /\ ProtoInit /\ HidInit /\ AppInit

-----------------------------------------------------------------------------
(* The link.                                                               *)

\* HID_SUBEVENT_CONNECTION_OPENED
AppOpened ==
    /\ connected' = TRUE
    /\ sendPending' = FALSE
    /\ replies' = <<>>
    /\ PcConnection(TRUE)
    /\ ProtoReset
    /\ timerArmed' = TRUE
    /\ lastNumber' = TimerMod - 1
    /\ skipped' = 0
    /\ lost' = FALSE
    /\ shown' = Neutral
    /\ UNCHANGED answered

\* HID_SUBEVENT_CONNECTION_CLOSED
AppClosed ==
    /\ connected' = FALSE
    /\ sendPending' = FALSE
    /\ replies' = <<>>
    /\ timerArmed' = FALSE
    /\ PcConnection(FALSE)
    /\ UNCHANGED <<nfcVars, protoVars, appHistory>>

Incoming(ch) ==
    /\ ~polling
    /\ HidIncoming(ch)
    /\ UNCHANGED <<controls, nfcVars, pcVars, protoVars, appVars, appHistory>>

Opened(ch) ==
    /\ ~polling
    /\ HidOpened(ch)
    /\ IF HidTellsOpened
       THEN AppOpened
       ELSE UNCHANGED <<controls, nfcVars, pcVars, protoVars, appVars,
                        appHistory>>

Closed(S) ==
    /\ ~polling
    /\ HidClosed(S)
    /\ IF HidTellsClosed(S)
       THEN AppClosed
       ELSE UNCHANGED <<controls, nfcVars, pcVars, protoVars, appVars,
                        appHistory>>

-----------------------------------------------------------------------------
(* Output reports and the replies to them.                                 *)

\* A fault: the queue is not found full.
SendReportOverrun(r, w) ==
    /\ replies' = Append(replies, r)
    /\ sendPending' = TRUE
    /\ IF sendPending THEN waiting' = w /\ UNCHANGED requested
                      ELSE HidRequest(w)
    /\ UNCHANGED lost

\* btstack_hid_send_input_report() of the reply r; w are the channels that
\* wait for a moment to send.
SendInputReport(r, w) ==
    IF connected /\ Len(replies) < ReplyQueueSize
    THEN /\ replies' = Append(replies, r)
         /\ sendPending' = TRUE
         /\ IF sendPending THEN waiting' = w /\ UNCHANGED requested
                           ELSE HidRequest(w)
         /\ UNCHANGED lost
    ELSE /\ lost' = TRUE
         /\ waiting' = w
         /\ UNCHANGED <<replies, sendPending, requested>>

\* track_output() of an output report, and the reply it causes.
TrackOutput(o, w) ==
    /\ HandleOutput(o)
    /\ IF Replies(o)
       THEN SendInputReport(Reply, w)
       ELSE waiting' = w /\ UNCHANGED <<replies, sendPending, requested, lost>>
    /\ UNCHANGED <<controls, pcVars, channel, hidConnected, connected,
                   timerArmed, lastNumber, skipped, answered, shown>>

\* An output report as DATA, which the profile takes from either of its
\* channels: report_data_callback().
ReceiveData(o) ==
    /\ ~polling
    /\ \E ch \in Channels : channel[ch] = "open"
    /\ TrackOutput(o, waiting)
    /\ UNCHANGED hidState

\* The same in a SET_REPORT transaction: set_report_callback(), between the
\* change of the profile's state and its request for the answer.
ReceiveSetReport(o) ==
    /\ ~polling
    /\ channel["control"] = "open"
    /\ hidState' = "handshake"
    /\ TrackOutput(o, Await(waiting, "control"))

\* Any other transaction of the host.
Transaction(asks) ==
    /\ ~polling
    /\ HidTransaction(asks)
    /\ UNCHANGED <<controls, nfcVars, pcVars, protoVars, appVars, appHistory>>

-----------------------------------------------------------------------------
(* send_next_report(): `ok' says whether L2CAP accepts the report.         *)

\* The console receives the reply r.
ConsoleReceives(r) ==
    /\ answered' = r /\ shown' = r.held
    /\ lastNumber' = r.number /\ skipped' = 0

\* A fault: the reply leaves the queue whether it was accepted or not.
SendReplyOnce(ok) ==
    /\ replies # <<>>
    /\ replies' = Tail(replies)
    /\ IF ok THEN ConsoleReceives(Head(replies))
             ELSE UNCHANGED <<answered, lastNumber, skipped, shown>>
    /\ UNCHANGED <<nfcVars, protoVars, lost>>

\* The head of the queue stays there until L2CAP accepts it.
SendReply(ok) ==
    /\ replies # <<>>
    /\ IF ok
       THEN replies' = Tail(replies) /\ ConsoleReceives(Head(replies))
       ELSE UNCHANGED <<replies, answered, lastNumber, skipped, shown>>
    /\ UNCHANGED <<nfcVars, protoVars, lost>>

\* A full report spends a number, also when it is refused.
SpendNumber(ok) ==
    /\ NextTimer
    /\ IF ok
       THEN lastNumber' = timer /\ skipped' = 0 /\ lost' = FALSE
       ELSE skipped' = (skipped + 1) % TimerMod /\ UNCHANGED <<lastNumber, lost>>
    /\ UNCHANGED <<mode, enabled>>

\* A fault: the MCU packet is taken even if the report was refused.
SendInputCommits(ok) ==
    /\ replies = <<>>
    /\ SpendNumber(ok)
    /\ IF mode = Mode31
       THEN /\ queue' = IF queue = <<>> THEN queue ELSE Tail(queue)
            /\ wire' = IF ok THEN NfcPeek ELSE wire
            /\ UNCHANGED <<tag, seen, power, poll, announced>>
       ELSE UNCHANGED nfcVars
    /\ shown' = IF ok THEN controls ELSE shown
    /\ UNCHANGED <<replies, answered>>

\* The number of a full report is spent even if the report is not sent; the
\* MCU packet is taken from its queue only if it is.
SendInput(ok) ==
    /\ replies = <<>>
    /\ IF mode = Mode3F
       THEN UNCHANGED <<protoVars, lastNumber, skipped, lost>>
       ELSE SpendNumber(ok)
    /\ IF mode = Mode31 /\ ok THEN NfcTransmit ELSE UNCHANGED nfcVars
    /\ shown' = IF ok THEN controls ELSE shown
    /\ UNCHANGED <<replies, answered>>

SendNextReport(ok) ==
    /\ ok => channel["interrupt"] # "none"
    /\ sendPending' = FALSE
    /\ SendReply(ok) \/ SendInput(ok)
    /\ UNCHANGED <<connected, timerArmed>>

\* HID_SUBEVENT_CAN_SEND_NOW
AppCanSend(ok) ==
    IF connected /\ sendPending
    THEN SendNextReport(ok)
    ELSE UNCHANGED <<nfcVars, protoVars, appVars, appHistory>>

\* L2CAP's can-send-now event on a channel.
CanSend(ch, ok) ==
    /\ ~polling
    /\ HidSendNow(ch)
    /\ IF HidTellsCanSend
       THEN AppCanSend(ok)
       ELSE UNCHANGED <<nfcVars, protoVars, appVars, appHistory>>
    /\ UNCHANGED <<controls, pcVars>>

Handshake(ch) ==
    /\ ~polling
    /\ HidHandshake(ch)
    /\ UNCHANGED <<controls, nfcVars, pcVars, protoVars, appVars, appHistory>>

\* input_timer_handler(), which arms the timer again.
InputTimer ==
    /\ ~polling
    /\ timerArmed
    /\ IF connected /\ ~sendPending
       THEN sendPending' = TRUE /\ HidRequest(waiting)
       ELSE UNCHANGED <<sendPending, waiting, requested>>
    /\ UNCHANGED <<controls, nfcVars, pcVars, protoVars, channel,
                   hidConnected, hidState, connected, replies, timerArmed,
                   appHistory>>

-----------------------------------------------------------------------------
(* The PC.                                                                 *)

PcPoll ==
    /\ PollBegin \/ PollCommand \/ PollEnd
    /\ UNCHANGED <<protoVars, hidVars, appVars, appHistory>>

PcReads(l) ==
    /\ ReaderLine(l)
    /\ UNCHANGED <<protoVars, hidVars, appVars, appHistory>>

ClockTick ==
    /\ Tick
    /\ UNCHANGED <<protoVars, hidVars, appVars, appHistory>>

-----------------------------------------------------------------------------

HostNext ==
    \/ \E ch \in Channels : Incoming(ch) \/ Opened(ch)
    \/ \E S \in SUBSET Channels : Closed(S)
    \/ \E o \in HostOutputs : ReceiveData(o) \/ ReceiveSetReport(o)
    \/ \E asks \in BOOLEAN : Transaction(asks)

SendNext ==
    \E ch \in Channels : Handshake(ch) \/ \E ok \in BOOLEAN : CanSend(ch, ok)

Next ==
    \/ HostNext
    \/ SendNext
    \/ InputTimer
    \/ PcPoll
    \/ \E l \in PcLines : PcReads(l)
    \/ ClockTick

Spec == Init /\ [][Next]_vars

\* The run loop serves its timers and L2CAP's events between any two polls of
\* the PC, hence strong fairness for what a poll only delays; L2CAP does not
\* refuse every report it gave the moment for, and the host's transactions do
\* not take every moment.  Polls are 10 ms apart, so the clock moves on however
\* often they run.  Nothing else is assumed of the host or the PC.
Fairness ==
    /\ WF_vars(PcPoll)
    /\ SF_vars(ClockTick)
    /\ SF_vars(InputTimer)
    /\ SF_vars(\E ch \in Channels : Handshake(ch))
    /\ SF_vars(\E ch \in Channels : CanSend(ch, TRUE) /\ sendPending)

FairSpec == Spec /\ Fairness

-----------------------------------------------------------------------------

\* Types: the reply ring never holds more than its slots.
AppTypeOK ==
    /\ connected \in BOOLEAN
    /\ sendPending \in BOOLEAN
    /\ replies \in Seq([number : 0..(TimerMod - 1), held : Controls])
    /\ Len(replies) <= ReplyQueueSize
    /\ answered \in [number : 0..(TimerMod - 1), held : Controls]
    /\ timerArmed \in BOOLEAN
    /\ lastNumber \in 0..(TimerMod - 1)
    /\ skipped \in 0..(TimerMod - 1)
    /\ lost \in BOOLEAN
    /\ shown \in Controls

TypeOK == NfcTypeOK /\ PcTypeOK /\ ProtoTypeOK /\ HidTypeOK /\ AppTypeOK

\* The notions of "connected" of the profile, the transport and the PC control
\* agree between run-loop steps, and the input timer runs exactly while there
\* is a connection; when the profile announces one, the timer it adds is not
\* in the list already, which the run loop asserts (btstack_run_loop.c:112).
LinkAgreement ==
    /\ connected = hidConnected
    /\ connected = linked
    /\ connected = timerArmed
    /\ connected => \E ch \in Channels : channel[ch] # "none"
    /\ HidTellsOpened => ~timerArmed

\* No lost wakeup: while both channels are there, a send the application waits
\* for is one the profile will tell it of, because the request is remembered
\* and a channel waits; handshakes, whose use of the moment takes it away, and
\* nested events included.
NoLostWakeup ==
    connected /\ sendPending /\ BothChannels =>
        requested /\ \E ch \in Channels : waiting[ch]

\* The profile tells an application that still waits: its flag and the
\* application's agree in every connection.
RequestsAgree == connected /\ requested => sendPending

\* The numbers of the reports follow each other, around the wrap of the byte:
\* those of the queued replies continue the last one the console received, and
\* the next report continues them, although a number is taken when a reply is
\* built and the report may wait or be overtaken by the timer.  On the air the
\* gaps are exactly the input reports L2CAP refused, one number for each, since
\* build_input_report() spends it before the send (btstack_hid.c:91-108); a
\* refused reply keeps its number.  A reply dropped by a full queue leaves a
\* gap too, until the next input report is received.
NumbersInOrder ==
    connected /\ ~lost =>
        /\ \A i \in 1..Len(replies) :
             replies[i].number = (lastNumber + skipped + i) % TimerMod
        /\ timer = (lastNumber + skipped + Len(replies) + 1) % TimerMod

\* The reply path as the console may rely on it: the console can be reached
\* while both of its channels are open.
ReplyPath == INSTANCE ReplyLine WITH
    Answers <- [number : 0..(TimerMod - 1), held : Controls],
    Room    <- ReplyQueueSize,
    line    <- replies,
    last    <- answered,
    up      <- connected /\ \A ch \in Channels : channel[ch] = "open"

\* The firmware implements that promise: no input report overtakes a reply or
\* takes its place, no failed send loses or repeats one, and each leaves in
\* the end, however handshakes and timers interleave ("Preserve the head reply
\* until L2CAP accepts it", btstack_hid.c:108).
RepliesInOrder == ReplyPath!LineSpec

\* "Preserve the head reply until L2CAP accepts it" and "retry on timer"
\* (btstack_hid.c:106-108): a reply in the queue leaves it in the end, unless a
\* channel is gone.  A host that closes only the interrupt channel and opens it
\* again, which the profile accepts, finds send_pending still set and no
\* request outstanding: the timer does not ask again.
HeadReplyIsRetried ==
    \A n \in 0..(TimerMod - 1) :
        replies # <<>> /\ Head(replies).number = n ~>
            \/ replies = <<>>
            \/ Head(replies).number # n
            \/ \E ch \in Channels : channel[ch] # "open"

\* A control that is held at the console does not stay held after the PC has
\* stopped refreshing it: the console is shown the release, unless the PC
\* presses again or a channel is gone.
ReleaseIsShown ==
    shown # Neutral ~>
        \/ shown = Neutral
        \/ age = 1
        \/ \E ch \in Channels : channel[ch] # "open"
=============================================================================
