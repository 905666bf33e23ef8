-------------------------- MODULE BtstackHidProofs --------------------------
(***************************************************************************)
(* Theorems about the firmware on its BTstack transport, for every set of  *)
(* tags, controls, lines and output reports and every size of its queues:  *)
(* what was proved of the NFC microcontroller and of the PC's commands on  *)
(* their own holds in the whole, the link's notions of "connected" agree,  *)
(* no request to send is lost while both channels are there, the reports   *)
(* are numbered without a gap, and the replies keep their order.           *)
(***************************************************************************)
EXTENDS BtstackHid, NfcMcuProofs, PcControlProofs

-----------------------------------------------------------------------------
(* The parts: what a step of the firmware is to each of them.              *)

\* An output report is a request of the microcontroller or nothing to it, and never
\* changes the tag.
LEMMA OutputToNfc ==
    ASSUME NEW o \in HostOutputs, HandleOutput(o)
    PROVE  [NfcNext]_nfcVars /\ tag' = tag
<1>1. CASE o.op = "config" /\ o.arg \in PowerStates /\ NfcConfig(o.arg)
  BY <1>1 DEF NfcNext, NfcConfig, nfcVars
<1>2. CASE o.op = "power" /\ o.arg \in {0, 1} /\ NfcPower(o.arg)
  BY <1>2 DEF NfcNext, NfcPower
<1>3. CASE o.op \in NfcRequests /\ NfcCommand(o.op)
  BY <1>3 DEF NfcNext, NfcCommand, NfcStatus, NfcStartPolling, NfcStopPolling,
              NfcPoll, NfcRead, nfcVars
<1>4. CASE UNCHANGED nfcVars
  BY <1>4 DEF nfcVars
<1> QED BY <1>1, <1>2, <1>3, <1>4 DEF HandleOutput

\* A command of the PC loads or removes a tag, or is nothing to the microcontroller.
LEMMA CommandToNfc ==
    ASSUME NEW l \in AnyLine, Command(l)
    PROVE  [NfcNext]_nfcVars
<1>1. CASE l.cmd = "load"
  BY <1>1, LineArguments DEF Command, PcLoad, NfcNext
<1>2. CASE l.cmd = "unload"
  BY <1>2 DEF Command, PcUnload, NfcNext
<1>3. CASE l.cmd \in {"state", "release", "other"}
  BY <1>3 DEF Command, ApplyState
<1> QED BY <1>1, <1>2, <1>3, LineArguments

\* What the PC's commands see of a step.
pcSees == <<pcVars, controls, tag>>

\* A step of the firmware is one of the microcontroller, or none to it; and one of
\* the PC's commands, or none to them.
LEMMA PartsStep ==
    ASSUME PcTypeOK, [Next]_vars
    PROVE  [NfcNext]_nfcVars /\ ([PcNext]_pcAll \/ UNCHANGED pcSees)
<1> USE DEF pcSees, pcAll
<1>1. ASSUME UNCHANGED <<controls, nfcVars, pcVars>>
      PROVE  [NfcNext]_nfcVars /\ ([PcNext]_pcAll \/ UNCHANGED pcSees)
  BY <1>1
<1>2. ASSUME ~polling, AppOpened
      PROVE  [NfcNext]_nfcVars /\ ([PcNext]_pcAll \/ UNCHANGED pcSees)
  BY <1>2 DEF AppOpened, ProtoReset, NfcNext, PcNext
<1>3. ASSUME ~polling, AppClosed
      PROVE  [NfcNext]_nfcVars /\ ([PcNext]_pcAll \/ UNCHANGED pcSees)
  BY <1>3 DEF AppClosed, PcNext
<1>4. ASSUME NEW ch \in Channels, Incoming(ch) \/ Opened(ch)
      PROVE  [NfcNext]_nfcVars /\ ([PcNext]_pcAll \/ UNCHANGED pcSees)
  BY <1>1, <1>2, <1>4 DEF Incoming, Opened
<1>5. ASSUME NEW S \in SUBSET Channels, Closed(S)
      PROVE  [NfcNext]_nfcVars /\ ([PcNext]_pcAll \/ UNCHANGED pcSees)
  BY <1>1, <1>3, <1>5 DEF Closed
<1>6. ASSUME NEW o \in HostOutputs, NEW w, TrackOutput(o, w)
      PROVE  [NfcNext]_nfcVars /\ ([PcNext]_pcAll \/ UNCHANGED pcSees)
  BY <1>6, OutputToNfc DEF TrackOutput
<1>7. ASSUME NEW o \in HostOutputs, ReceiveData(o) \/ ReceiveSetReport(o)
      PROVE  [NfcNext]_nfcVars /\ ([PcNext]_pcAll \/ UNCHANGED pcSees)
  BY <1>6, <1>7 DEF ReceiveData, ReceiveSetReport
<1>8. ASSUME NEW ch \in Channels, NEW ok \in BOOLEAN, CanSend(ch, ok)
      PROVE  [NfcNext]_nfcVars /\ ([PcNext]_pcAll \/ UNCHANGED pcSees)
  <2>1. UNCHANGED nfcVars \/ NfcTransmit
    BY <1>8 DEF CanSend, AppCanSend, SendNextReport, SendReply, SendInput
  <2>2. UNCHANGED <<controls, pcVars>>
    BY <1>8 DEF CanSend
  <2>3. NfcTransmit => tag' = tag
    BY DEF NfcTransmit
  <2> QED BY <2>1, <2>2, <2>3 DEF NfcNext, nfcVars
<1>9. ASSUME PcPoll
      PROVE  [NfcNext]_nfcVars /\ ([PcNext]_pcAll \/ UNCHANGED pcSees)
  <2>1. CASE PollCommand
    <3>1. Head(commands) \in AnyLine /\ Command(Head(commands))
      BY <2>1, HeadTailProperties DEF PollCommand, PcTypeOK
    <3> QED BY <2>1, <3>1, CommandToNfc DEF PcNext
  <2>2. CASE PollBegin \/ PollEnd
    BY <2>2 DEF PollBegin, PollEnd, PcNext
  <2> QED BY <1>9, <2>1, <2>2 DEF PcPoll
<1>10. ASSUME NEW l \in PcLines, PcReads(l)
       PROVE  [NfcNext]_nfcVars /\ ([PcNext]_pcAll \/ UNCHANGED pcSees)
  BY <1>10 DEF PcReads, ReaderLine, PcNext
<1>11. ASSUME ClockTick
       PROVE  [NfcNext]_nfcVars /\ ([PcNext]_pcAll \/ UNCHANGED pcSees)
  BY <1>11 DEF ClockTick, Tick, PcNext
<1>12. CASE UNCHANGED vars
  BY <1>1, <1>12 DEF vars
<1>13. CASE InputTimer \/ \E asks \in BOOLEAN : Transaction(asks)
  BY <1>1, <1>13 DEF InputTimer, Transaction
<1>14. ASSUME NEW ch \in Channels, Handshake(ch)
       PROVE  [NfcNext]_nfcVars /\ ([PcNext]_pcAll \/ UNCHANGED pcSees)
  BY <1>1, <1>14 DEF Handshake
<1> QED
  BY <1>4, <1>5, <1>7, <1>8, <1>9, <1>10, <1>11, <1>12, <1>13, <1>14
     DEF Next, HostNext, SendNext

\* What the steps of the PC's commands preserve, the others do, too.
LEMMA PcInTheWhole == Spec => [](PcTypeOK /\ Held /\ LoadedIsPresented)
<1>1. Init => PcTypeOK /\ Held /\ LoadedIsPresented
  BY PcInitTyped DEF Init, PcInit, NfcInit, LoadedIsPresented
<1>2. PcTypeOK /\ Held /\ LoadedIsPresented /\ [Next]_vars
      => (PcTypeOK /\ Held /\ LoadedIsPresented)'
  <2> SUFFICES ASSUME PcTypeOK, Held, LoadedIsPresented, [Next]_vars
               PROVE  (PcTypeOK /\ Held /\ LoadedIsPresented)'
    OBVIOUS
  <2>1. CASE [PcNext]_pcAll
    BY <2>1, PcStep, LoadedStep
  <2>2. CASE UNCHANGED pcSees
    BY <2>2 DEF pcSees, pcVars, PcTypeOK, Held, LoadedIsPresented
  <2> QED BY <2>1, <2>2, PartsStep
<1> QED BY <1>1, <1>2, PTL DEF Spec

\* The microcontroller in the firmware is used as NfcMcu says: by requests, loads,
\* removals and resets, one at a time.
THEOREM FirmwareUsesNfc == Spec => NfcSpec
<1>1. Init => NfcInit
  BY DEF Init
<1>2. PcTypeOK /\ [Next]_vars => [NfcNext]_nfcVars
  BY PartsStep
<1> QED BY <1>1, <1>2, PcInTheWhole, PTL DEF Spec, NfcSpec

\* The console receives the fragments of a read back to back and of one tag,
\* whatever the PC loads and however the reports interleave.
THEOREM FirmwareFragmentsInOrder == Spec => []FragmentsInOrder
BY FirmwareUsesNfc, FragmentsInOrderHolds

\* The dead-man's switch of the whole firmware: controls are held for a connected
\* console only, and never longer than the timeout plus the lateness of the run loop.
THEOREM FirmwareDeadMan == Spec => []DeadMan
<1>1. Held => DeadMan
  BY DEF Held, DeadMan
<1> QED BY <1>1, PcInTheWhole, PTL

\* With a console, its output reports and its reports on the other side, the firmware
\* is still the device the PC programs count on.
THEOREM FirmwareServesPc == Spec => ServesPc
<1>1. Init => Device!DeviceInit
  BY DEF Init, PcInit, ControlsInit, NfcInit, Device!DeviceInit
<1>2. PcTypeOK /\ PcTypeOK' /\ [Next]_vars
      => [Device!DeviceNext]_(Device!deviceVars)
  <2> SUFFICES ASSUME PcTypeOK, PcTypeOK', [Next]_vars
               PROVE  [Device!DeviceNext]_(Device!deviceVars)
    OBVIOUS
  <2>1. CASE [PcNext]_pcAll
    BY <2>1, DeviceStep
  <2>2. CASE UNCHANGED pcSees
    BY <2>2 DEF pcSees, pcVars, Device!deviceVars
  <2> QED BY <2>1, <2>2, PartsStep
<1> QED
  BY <1>1, <1>2, PcInTheWhole, PTL DEF Spec, ServesPc, Device!DeviceSpec

-----------------------------------------------------------------------------
(* Types.                                                                  *)

Answers == [number : 0..(TimerMod - 1), held : Controls]

\* Numbers of reports wrap within their range.
LEMMA AfterTyped == \A t \in 0..(TimerMod - 1) : After(t) \in 0..(TimerMod - 1)
BY ProtoAssumption DEF After

LEMMA InitTyped == Init => ProtoTypeOK /\ HidTypeOK /\ AppTypeOK
<1> SUFFICES ASSUME Init PROVE ProtoTypeOK /\ HidTypeOK /\ AppTypeOK
  OBVIOUS
<1> USE ProtoAssumption, ControlsAssumption, ReplyAssumption
<1>1. ProtoTypeOK
  <2>1. timer \in 0..(TimerMod - 1) /\ mode \in Modes
    BY DEF Init, ProtoInit, Modes
  <2>2. enabled \in BOOLEAN
    BY DEF Init, ProtoInit
  <2> QED BY <2>1, <2>2 DEF ProtoTypeOK
<1>2. HidTypeOK
  BY DEF Init, HidInit, HidTypeOK, Channels
<1>3. AppTypeOK
  <2>1. /\ replies \in Seq(Answers) /\ Len(replies) <= ReplyQueueSize
        /\ answered \in Answers
        /\ lastNumber \in 0..(TimerMod - 1) /\ skipped \in 0..(TimerMod - 1)
        /\ shown \in Controls
    BY DEF Init, AppInit, Answers
  <2>2. /\ connected \in BOOLEAN /\ sendPending \in BOOLEAN
        /\ timerArmed \in BOOLEAN /\ lost \in BOOLEAN
    BY DEF Init, AppInit
  <2> QED BY <2>1, <2>2 DEF AppTypeOK, Answers
<1> QED BY <1>1, <1>2, <1>3

\* The profile's part of a step.
LEMMA HidStep ==
    ASSUME HidTypeOK, [Next]_vars PROVE HidTypeOK'
<1> USE DEF HidTypeOK
<1>1. ASSUME NEW w \in [Channels -> BOOLEAN], NEW ch \in Channels
      PROVE  Await(w, ch) \in [Channels -> BOOLEAN]
  BY DEF Await
<1>2. ASSUME NEW w \in [Channels -> BOOLEAN], HidRequest(w)
      PROVE  waiting' \in [Channels -> BOOLEAN] /\ requested' \in BOOLEAN
  BY <1>1, <1>2 DEF HidRequest, Channels
<1>3. ASSUME NEW ch \in Channels, Incoming(ch) PROVE HidTypeOK'
  BY <1>3 DEF Incoming, HidIncoming
<1>4. ASSUME NEW ch \in Channels, Opened(ch) PROVE HidTypeOK'
  BY <1>4 DEF Opened, HidOpened
<1>5. ASSUME NEW S \in SUBSET Channels, Closed(S) PROVE HidTypeOK'
  BY <1>5 DEF Closed, HidClosed
<1>6. ASSUME NEW o, NEW w \in [Channels -> BOOLEAN], TrackOutput(o, w)
      PROVE  /\ waiting' \in [Channels -> BOOLEAN] /\ requested' \in BOOLEAN
             /\ UNCHANGED <<channel, hidConnected>>
  BY <1>2, <1>6 DEF TrackOutput, SendInputReport
<1>7. ASSUME NEW o, ReceiveData(o) \/ ReceiveSetReport(o) PROVE HidTypeOK'
  BY <1>1, <1>6, <1>7 DEF ReceiveData, ReceiveSetReport, Channels
<1>8. ASSUME NEW asks \in BOOLEAN, Transaction(asks) PROVE HidTypeOK'
  BY <1>1, <1>8 DEF Transaction, HidTransaction, Channels
<1>9. ASSUME NEW ch \in Channels, Handshake(ch) PROVE HidTypeOK'
  <2>1. UNCHANGED <<channel, hidConnected, requested>> /\ hidState' = "idle"
    BY <1>9 DEF Handshake, HidHandshake
  <2>2. PICK w : w = [waiting EXCEPT ![ch] = FALSE]
    OBVIOUS
  <2>3. /\ w \in [Channels -> BOOLEAN]
        /\ [c \in Channels |-> FALSE] \in [Channels -> BOOLEAN]
        /\ "control" \in Channels
    BY <2>2 DEF Channels
  <2>4. waiting' \in {w, Await(w, "control"),
                     Await([c \in Channels |-> FALSE], "control")}
    BY <1>9, <2>2, Zenon DEF Handshake, HidHandshake
  <2>5. waiting' \in [Channels -> BOOLEAN]
    BY <1>1, <2>3, <2>4, ZenonT(60)
  <2> QED BY <2>1, <2>5
<1>10. ASSUME NEW ch \in Channels, NEW ok \in BOOLEAN, CanSend(ch, ok) PROVE HidTypeOK'
  BY <1>10 DEF CanSend, HidSendNow
<1>11. ASSUME InputTimer PROVE HidTypeOK'
  BY <1>2, <1>11 DEF InputTimer
<1>12. ASSUME UNCHANGED hidVars PROVE HidTypeOK'
  BY <1>12 DEF hidVars
<1> QED
  BY <1>3, <1>4, <1>5, <1>7, <1>8, <1>9, <1>10, <1>11, <1>12
     DEF Next, HostNext, SendNext, PcPoll, PcReads, ClockTick, vars

\* The protocol's part of a step.
LEMMA ProtoStep ==
    ASSUME ProtoTypeOK, [Next]_vars PROVE ProtoTypeOK'
<1> USE DEF ProtoTypeOK
<1>1. ASSUME UNCHANGED protoVars PROVE ProtoTypeOK'
  BY <1>1 DEF protoVars
<1>2. ASSUME ProtoReset PROVE ProtoTypeOK'
  <2>1. timer' \in 0..(TimerMod - 1) /\ mode' \in Modes
    BY <1>2, ProtoAssumption DEF ProtoReset, Modes
  <2>2. enabled' \in BOOLEAN
    BY <1>2 DEF ProtoReset
  <2> QED BY <2>1, <2>2
<1>3. ASSUME NEW o, HandleOutput(o) PROVE ProtoTypeOK'
  <2>1. timer' \in 0..(TimerMod - 1)
    BY <1>3, AfterTyped DEF HandleOutput
  <2>2. mode' \in Modes
    BY <1>3 DEF HandleOutput
  <2>3. enabled' \in BOOLEAN
    BY <1>3, Zenon DEF HandleOutput
  <2> QED BY <2>1, <2>2, <2>3
<1>4. ASSUME NEW ok \in BOOLEAN, SendReply(ok) \/ SendInput(ok) PROVE ProtoTypeOK'
  BY <1>1, <1>4, AfterTyped DEF SendReply, SendInput, SpendNumber, NextTimer, protoVars
<1>5. ASSUME NEW ch \in Channels, NEW ok \in BOOLEAN, CanSend(ch, ok) PROVE ProtoTypeOK'
  BY <1>1, <1>4, <1>5 DEF CanSend, AppCanSend, SendNextReport
<1>6. ASSUME NEW ch \in Channels, Incoming(ch) \/ Opened(ch) PROVE ProtoTypeOK'
  BY <1>1, <1>2, <1>6 DEF Incoming, Opened, AppOpened
<1>7. ASSUME NEW S \in SUBSET Channels, Closed(S) PROVE ProtoTypeOK'
  BY <1>1, <1>7 DEF Closed, AppClosed
<1>8. ASSUME NEW o, ReceiveData(o) \/ ReceiveSetReport(o) PROVE ProtoTypeOK'
  BY <1>3, <1>8 DEF ReceiveData, ReceiveSetReport, TrackOutput
<1> QED
  BY <1>1, <1>5, <1>6, <1>7, <1>8
     DEF Next, HostNext, SendNext, PcPoll, PcReads, ClockTick, Transaction, Handshake,
         InputTimer, vars

\* The transport's part of a step.
LEMMA AppStep ==
    ASSUME AppTypeOK, ProtoTypeOK, PcTypeOK, [Next]_vars PROVE AppTypeOK'
<1> DEFINE Ok == /\ replies' \in Seq(Answers) /\ Len(replies') <= ReplyQueueSize
                 /\ answered' \in Answers
                 /\ lastNumber' \in 0..(TimerMod - 1)
                 /\ skipped' \in 0..(TimerMod - 1)
                 /\ shown' \in Controls
           Flags == /\ connected' \in BOOLEAN /\ sendPending' \in BOOLEAN
                    /\ timerArmed' \in BOOLEAN /\ lost' \in BOOLEAN
<1>a. /\ replies \in Seq(Answers) /\ Len(replies) <= ReplyQueueSize
      /\ answered \in Answers
      /\ lastNumber \in 0..(TimerMod - 1) /\ skipped \in 0..(TimerMod - 1)
      /\ 0 \in 0..(TimerMod - 1)
      /\ shown \in Controls /\ controls \in Controls
      /\ timer \in 0..(TimerMod - 1)
  BY ProtoAssumption DEF AppTypeOK, Answers, ProtoTypeOK, PcTypeOK
<1>b. /\ connected \in BOOLEAN /\ sendPending \in BOOLEAN
      /\ timerArmed \in BOOLEAN /\ lost \in BOOLEAN
  BY DEF AppTypeOK
<1>c. <<>> \in Seq(Answers) /\ Len(<<>>) <= ReplyQueueSize
  BY ReplyAssumption
<1>1. ASSUME UNCHANGED <<appVars, appHistory>> PROVE Ok /\ Flags
  <2>1. Ok
    BY <1>1, <1>a DEF appVars, appHistory
  <2>2. Flags
    BY <1>1, <1>b DEF appVars, appHistory
  <2> QED BY <2>1, <2>2
<1>2. ASSUME AppOpened PROVE Ok /\ Flags
  <2>1. Ok
    BY <1>2, <1>a, <1>c, ProtoAssumption, ControlsAssumption DEF AppOpened
  <2>2. Flags
    BY <1>2 DEF AppOpened
  <2> QED BY <2>1, <2>2
<1>3. ASSUME AppClosed PROVE Ok /\ Flags
  <2>1. Ok
    BY <1>3, <1>a, <1>c DEF AppClosed, appHistory
  <2>2. Flags
    BY <1>3, <1>b DEF AppClosed, appHistory
  <2> QED BY <2>1, <2>2
<1>4. ASSUME NEW w, SendInputReport(Reply, w)
      PROVE  /\ replies' \in Seq(Answers) /\ Len(replies') <= ReplyQueueSize
             /\ sendPending' \in BOOLEAN /\ lost' \in BOOLEAN
  <2>1. CASE connected /\ Len(replies) < ReplyQueueSize
    <3>1. Reply \in Answers
      BY <1>a DEF Reply, Answers
    <3>2. replies' = Append(replies, Reply) /\ sendPending' = TRUE /\ lost' = lost
      BY <1>4, <2>1, Zenon DEF SendInputReport
    <3>3. replies' \in Seq(Answers) /\ Len(replies') = Len(replies) + 1
      BY <1>a, <3>1, <3>2
    <3> QED BY <1>a, <1>b, <2>1, <3>2, <3>3, ReplyAssumption
  <2>2. CASE ~(connected /\ Len(replies) < ReplyQueueSize)
    <3>1. replies' = replies /\ sendPending' = sendPending /\ lost' = TRUE
      BY <1>4, <2>2, Zenon DEF SendInputReport
    <3> QED BY <1>a, <1>b, <3>1
  <2> QED BY <2>1, <2>2
<1>5. ASSUME NEW o, NEW w, TrackOutput(o, w) PROVE Ok /\ Flags
  <2>1. CASE Replies(o)
    <3>1. SendInputReport(Reply, w)
      BY <1>5, <2>1, Zenon DEF TrackOutput
    <3>2. UNCHANGED <<connected, timerArmed, lastNumber, skipped, answered, shown>>
      BY <1>5 DEF TrackOutput
    <3>3. Ok
      BY <1>4, <1>a, <3>1, <3>2
    <3>4. Flags
      BY <1>4, <1>b, <3>1, <3>2
    <3> QED BY <3>3, <3>4
  <2>2. CASE ~Replies(o)
    <3>1. UNCHANGED <<replies, sendPending, lost>>
      BY <1>5, <2>2, Zenon DEF TrackOutput
    <3>2. UNCHANGED <<connected, timerArmed, lastNumber, skipped, answered, shown>>
      BY <1>5 DEF TrackOutput
    <3>3. Ok
      BY <1>a, <3>1, <3>2
    <3>4. Flags
      BY <1>b, <3>1, <3>2
    <3> QED BY <3>3, <3>4
  <2> QED BY <2>1, <2>2
<1>6. ASSUME NEW ok, SendReply(ok) PROVE Ok /\ lost' = lost
  <2>1. /\ Head(replies) \in Answers /\ Tail(replies) \in Seq(Answers)
        /\ Len(Tail(replies)) = Len(replies) - 1
    BY <1>6, <1>a, HeadTailProperties DEF SendReply
  <2>2. Head(replies).number \in 0..(TimerMod - 1) /\ Head(replies).held \in Controls
    BY <2>1 DEF Answers
  <2>3. \/ /\ replies' = Tail(replies) /\ answered' = Head(replies)
           /\ lastNumber' = Head(replies).number /\ skipped' = 0
           /\ shown' = Head(replies).held
        \/ UNCHANGED <<replies, answered, lastNumber, skipped, shown>>
    BY <1>6, Zenon DEF SendReply, ConsoleReceives
  <2>4. Len(Tail(replies)) <= ReplyQueueSize
    BY <2>1, <1>a, ReplyAssumption
  <2>5. lost' = lost
    BY <1>6 DEF SendReply
  <2> QED BY <1>a, <2>1, <2>2, <2>3, <2>4, <2>5
<1>7. ASSUME NEW ok, SendInput(ok) PROVE Ok /\ lost' \in BOOLEAN
  <2>0. (skipped + 1) % TimerMod \in 0..(TimerMod - 1)
    BY <1>a, ProtoAssumption
  <2>1. Ok
    BY <1>7, <1>a, <2>0 DEF SendInput, SpendNumber
  <2>2. lost' \in BOOLEAN
    BY <1>7, <1>b, Zenon DEF SendInput, SpendNumber
  <2> QED BY <2>1, <2>2
<1>8. ASSUME NEW ch \in Channels, NEW ok \in BOOLEAN, CanSend(ch, ok)
      PROVE  Ok /\ Flags
  <2>1. CASE SendNextReport(ok)
    <3>1. sendPending' = FALSE /\ UNCHANGED <<connected, timerArmed>>
      BY <2>1 DEF SendNextReport
    <3> QED BY <1>6, <1>7, <1>b, <2>1, <3>1 DEF SendNextReport
  <2>2. CASE UNCHANGED <<appVars, appHistory>>
    BY <1>1, <2>2
  <2> QED BY <1>8, <2>1, <2>2 DEF CanSend, AppCanSend
<1>9. ASSUME InputTimer PROVE Ok /\ Flags
  <2>1. Ok
    BY <1>9, <1>a DEF InputTimer, appHistory
  <2>2. sendPending' \in BOOLEAN
    BY <1>9, <1>b, Zenon DEF InputTimer
  <2>3. UNCHANGED <<connected, timerArmed, lost>>
    BY <1>9 DEF InputTimer, appHistory
  <2> QED BY <1>b, <2>1, <2>2, <2>3
<1>10. ASSUME NEW ch \in Channels, Incoming(ch) \/ Opened(ch) PROVE Ok /\ Flags
  BY <1>1, <1>2, <1>10, Zenon DEF Incoming, Opened
<1>11. ASSUME NEW S \in SUBSET Channels, Closed(S) PROVE Ok /\ Flags
  BY <1>1, <1>3, <1>11, Zenon DEF Closed
<1>12. ASSUME NEW o, ReceiveData(o) \/ ReceiveSetReport(o) PROVE Ok /\ Flags
  BY <1>5, <1>12, Zenon DEF ReceiveData, ReceiveSetReport
<1>13. Ok /\ Flags
  <2>1. CASE UNCHANGED <<appVars, appHistory>>
    BY <1>1, <2>1
  <2>2. CASE ~UNCHANGED <<appVars, appHistory>>
    <3>1. \/ \E ch \in Channels : Incoming(ch) \/ Opened(ch)
          \/ \E S \in SUBSET Channels : Closed(S)
          \/ \E o \in HostOutputs : ReceiveData(o) \/ ReceiveSetReport(o)
          \/ \E ch \in Channels, ok \in BOOLEAN : CanSend(ch, ok)
          \/ InputTimer
      BY <2>2, Zenon DEF Next, HostNext, SendNext, PcPoll, PcReads, ClockTick, Transaction,
         Handshake, vars
    <3> HIDE DEF Ok, Flags
    <3> QED BY <1>8, <1>9, <1>10, <1>11, <1>12, <3>1
  <2> QED BY <2>1, <2>2
<1> QED BY <1>13 DEF AppTypeOK, Answers

\* The variables keep their types and every queue its bound, in the whole firmware.
THEOREM FirmwareTypeCorrect == Spec => []TypeOK
<1>1. Init => ProtoTypeOK /\ HidTypeOK /\ AppTypeOK
  BY InitTyped
<1>2. /\ PcTypeOK
      /\ ProtoTypeOK /\ HidTypeOK /\ AppTypeOK
      /\ [Next]_vars
      => (ProtoTypeOK /\ HidTypeOK /\ AppTypeOK)'
  BY HidStep, ProtoStep, AppStep
<1> QED
  BY <1>1, <1>2, PcInTheWhole, FirmwareUsesNfc, NfcTypeCorrect, PTL DEF Spec, TypeOK

-----------------------------------------------------------------------------
(* The link.                                                               *)

linkVars == <<channel, hidConnected, connected, linked, timerArmed>>

\* Only what happens to the channels changes what anyone thinks of the connection.
LEMMA LinkChanges ==
    ASSUME [Next]_vars
    PROVE  \/ \E ch \in Channels : Incoming(ch) \/ Opened(ch)
           \/ \E S \in SUBSET Channels : Closed(S)
           \/ UNCHANGED linkVars
<1> USE DEF linkVars
<1>1. ASSUME NEW o, ReceiveData(o) \/ ReceiveSetReport(o) PROVE UNCHANGED linkVars
  BY <1>1 DEF ReceiveData, ReceiveSetReport, TrackOutput, pcVars
<1>2. ASSUME NEW asks, Transaction(asks) PROVE UNCHANGED linkVars
  BY <1>2 DEF Transaction, HidTransaction, pcVars, appVars
<1>3. ASSUME NEW ch, Handshake(ch) PROVE UNCHANGED linkVars
  BY <1>3 DEF Handshake, HidHandshake, pcVars, appVars
<1>4. ASSUME NEW ch, NEW ok, CanSend(ch, ok) PROVE UNCHANGED linkVars
  BY <1>4 DEF CanSend, HidSendNow, AppCanSend, SendNextReport, pcVars, appVars
<1>5. ASSUME InputTimer PROVE UNCHANGED linkVars
  BY <1>5 DEF InputTimer, pcVars
<1>6. ASSUME PcPoll PROVE UNCHANGED linkVars
  BY <1>6 DEF PcPoll, PollBegin, PollCommand, PollEnd, hidVars, appVars
<1>7. ASSUME NEW l, PcReads(l) PROVE UNCHANGED linkVars
  BY <1>7 DEF PcReads, ReaderLine, hidVars, appVars
<1>8. ASSUME ClockTick PROVE UNCHANGED linkVars
  BY <1>8 DEF ClockTick, Tick, hidVars, appVars
<1>9. ASSUME UNCHANGED vars PROVE UNCHANGED linkVars
  BY <1>9 DEF vars, pcVars, hidVars, appVars
<1> QED
  BY <1>1, <1>2, <1>3, <1>4, <1>5, <1>6, <1>7, <1>8, <1>9 DEF Next, HostNext, SendNext

\* What an event of a channel does to it.
LEMMA LinkEvents ==
    ASSUME HidTypeOK, LinkAgreement
    PROVE  /\ \A ch \in Channels : Incoming(ch) =>
                 /\ channel[ch] = "none" /\ channel'[ch] # "none"
                 /\ \A c \in Channels : channel[c] # "none" => channel'[c] # "none"
                 /\ hidConnected' = hidConnected
                 /\ UNCHANGED <<connected, linked, timerArmed, sendPending, replies>>
           /\ \A ch \in Channels : Opened(ch) =>
                 /\ channel[ch] # "none"
                 /\ \A c \in Channels : channel'[c] = "none" <=> channel[c] = "none"
                 /\ UNCHANGED <<requested, waiting>>
                 /\ IF HidTellsOpened
                    THEN /\ hidConnected' = TRUE /\ connected' = TRUE /\ linked' = TRUE
                         /\ timerArmed' = TRUE /\ sendPending' = FALSE
                    ELSE UNCHANGED <<hidConnected, connected, linked, timerArmed,
                                     sendPending>>
           /\ \A S \in SUBSET Channels : Closed(S) =>
                 /\ \E ch \in Channels : channel'[ch] = "none"
                 /\ requested' = requested
                 /\ \/ /\ \A ch \in Channels : channel'[ch] = "none"
                       /\ hidConnected' = FALSE /\ connected' = FALSE
                       /\ linked' = FALSE /\ timerArmed' = FALSE
                    \/ /\ \E ch \in Channels : channel'[ch] # "none" /\ channel[ch] # "none"
                       /\ UNCHANGED <<hidConnected, connected, linked, timerArmed,
                                      sendPending>>
<1> USE DEF HidTypeOK
<1>1. ASSUME NEW ch \in Channels, Incoming(ch)
      PROVE  /\ channel[ch] = "none" /\ channel'[ch] # "none"
             /\ \A c \in Channels : channel[c] # "none" => channel'[c] # "none"
             /\ hidConnected' = hidConnected
             /\ UNCHANGED <<connected, linked, timerArmed, sendPending, replies>>
  <2>1. channel[ch] = "none" /\ channel' = [channel EXCEPT ![ch] = "accepted"]
    BY <1>1 DEF Incoming, HidIncoming
  <2>2. (\A c \in Channels : channel[c] = "none") => hidConnected = FALSE
    BY DEF LinkAgreement
  <2>3. hidConnected' = hidConnected
    BY <1>1, <2>2, Zenon DEF Incoming, HidIncoming
  <2> QED BY <1>1, <2>1, <2>3 DEF Incoming, appVars, pcVars
<1>2. ASSUME NEW ch \in Channels, Opened(ch)
      PROVE  /\ channel[ch] # "none"
             /\ \A c \in Channels : channel'[c] = "none" <=> channel[c] = "none"
             /\ UNCHANGED <<requested, waiting>>
             /\ IF HidTellsOpened
                THEN /\ hidConnected' = TRUE /\ connected' = TRUE /\ linked' = TRUE
                     /\ timerArmed' = TRUE /\ sendPending' = FALSE
                ELSE UNCHANGED <<hidConnected, connected, linked, timerArmed,
                                 sendPending>>
  <2>1. /\ channel[ch] = "accepted" /\ channel' = [channel EXCEPT ![ch] = "open"]
        /\ UNCHANGED <<requested, waiting>>
    BY <1>2 DEF Opened, HidOpened
  <2>2. CASE HidTellsOpened
    <3>1. AppOpened
      BY <1>2, <2>2 DEF Opened
    <3>2. hidConnected' = TRUE
      BY <1>2, <2>2, Zenon DEF Opened, HidOpened
    <3> QED BY <2>1, <2>2, <3>1, <3>2 DEF AppOpened, PcConnection
  <2>3. CASE ~HidTellsOpened
    <3>1. UNCHANGED <<connected, linked, timerArmed, sendPending>>
      BY <1>2, <2>3 DEF Opened, appVars, pcVars
    <3>2. hidConnected' = (hidConnected \/ HidTellsOpened)
      BY <1>2 DEF Opened, HidOpened
    <3>3. hidConnected' = hidConnected
      BY <2>3, <3>2, hidConnected \in BOOLEAN
    <3> QED BY <2>1, <2>3, <3>1, <3>3
  <2> QED BY <2>2, <2>3
<1>3. ASSUME NEW S \in SUBSET Channels, Closed(S)
      PROVE  /\ \E ch \in Channels : channel'[ch] = "none"
             /\ requested' = requested
             /\ \/ /\ \A ch \in Channels : channel'[ch] = "none"
                   /\ hidConnected' = FALSE /\ connected' = FALSE
                   /\ linked' = FALSE /\ timerArmed' = FALSE
                \/ /\ \E ch \in Channels : channel'[ch] # "none" /\ channel[ch] # "none"
                   /\ UNCHANGED <<hidConnected, connected, linked, timerArmed,
                                  sendPending>>
  <2>1. /\ S # {} /\ requested' = requested
        /\ channel' = [ch \in Channels |-> IF ch \in S THEN "none" ELSE channel[ch]]
    BY <1>3 DEF Closed, HidClosed
  <2>2. hidConnected' = (hidConnected /\ ~HidTellsClosed(S))
    BY <1>3 DEF Closed, HidClosed
  <2>3. CASE HidTellsClosed(S)
    <3>1. AppClosed
      BY <1>3, <2>3 DEF Closed
    <3>2. \A ch \in Channels : channel'[ch] = "none"
      BY <2>1, <2>3 DEF HidTellsClosed
    <3>3. hidConnected' = FALSE
      BY <2>2, <2>3
    <3> QED BY <2>1, <3>1, <3>2, <3>3 DEF AppClosed, PcConnection
  <2>4. CASE ~HidTellsClosed(S)
    <3>1. UNCHANGED <<connected, linked, timerArmed, sendPending>>
      BY <1>3, <2>4 DEF Closed, appVars, pcVars
    <3>2. hidConnected' = hidConnected
      BY <2>2, <2>4, hidConnected \in BOOLEAN
    <3>3. \E ch \in Channels : channel'[ch] # "none" /\ channel[ch] # "none"
      BY <2>1, <2>4 DEF HidTellsClosed
    <3> QED BY <2>1, <3>1, <3>2, <3>3
  <2> QED BY <2>3, <2>4
<1> QED BY <1>1, <1>2, <1>3

LEMMA Agreeing ==
    ASSUME connected' = hidConnected', connected' = linked', connected' = timerArmed',
           connected' => \E ch \in Channels : channel'[ch] # "none"
    PROVE  LinkAgreement'
<1>1. HidTellsOpened' => ~hidConnected'
  BY DEF HidTellsOpened
<1>2. timerArmed' = hidConnected'
  BY Zenon
<1>3. HidTellsOpened' => ~timerArmed'
  BY <1>1, <1>2
<1> QED BY <1>3 DEF LinkAgreement

\* LinkAgreement is inductive as it stands.
LEMMA LinkStep ==
    ASSUME HidTypeOK, LinkAgreement, [Next]_vars PROVE LinkAgreement'
<1>1. CASE UNCHANGED linkVars
  BY <1>1 DEF linkVars, LinkAgreement, HidTellsOpened, BothChannels
<1>2. ASSUME NEW ch \in Channels, Incoming(ch) PROVE LinkAgreement'
  <2>1. /\ \A c \in Channels : channel[c] # "none" => channel'[c] # "none"
        /\ hidConnected' = hidConnected
        /\ UNCHANGED <<connected, linked, timerArmed>>
    BY <1>2, LinkEvents
  <2>2. connected' = hidConnected' /\ connected' = linked' /\ connected' = timerArmed'
    BY <2>1 DEF LinkAgreement
  <2>3. connected' => \E c \in Channels : channel'[c] # "none"
    BY <2>1 DEF LinkAgreement
  <2> QED BY <2>2, <2>3, Agreeing
<1>3. ASSUME NEW ch \in Channels, Opened(ch) PROVE LinkAgreement'
  <2>0. channel[ch] # "none" /\ channel'[ch] # "none"
    BY <1>3, LinkEvents
  <2>1. CASE HidTellsOpened
    <3>1. /\ hidConnected' = TRUE /\ connected' = TRUE /\ linked' = TRUE
          /\ timerArmed' = TRUE
      BY <1>3, <2>1, LinkEvents
    <3> QED BY <2>0, <3>1, Agreeing
  <2>2. CASE ~HidTellsOpened
    <3>1. UNCHANGED <<hidConnected, connected, linked, timerArmed>>
      BY <1>3, <2>2, LinkEvents
    <3>2. connected' = hidConnected' /\ connected' = linked' /\ connected' = timerArmed'
      BY <3>1 DEF LinkAgreement
    <3> QED BY <2>0, <3>2, Agreeing
  <2> QED BY <2>1, <2>2
<1>4. ASSUME NEW S \in SUBSET Channels, Closed(S) PROVE LinkAgreement'
  <2>1. \/ /\ hidConnected' = FALSE /\ connected' = FALSE
           /\ linked' = FALSE /\ timerArmed' = FALSE
        \/ /\ \E ch \in Channels : channel'[ch] # "none"
           /\ UNCHANGED <<hidConnected, connected, linked, timerArmed>>
    BY <1>4, LinkEvents
  <2>2. connected' = hidConnected' /\ connected' = linked' /\ connected' = timerArmed'
    BY <2>1 DEF LinkAgreement
  <2>3. connected' => \E ch \in Channels : channel'[ch] # "none"
    BY <2>1
  <2> QED BY <2>2, <2>3, Agreeing
<1> QED BY <1>1, <1>2, <1>3, <1>4, LinkChanges

\* The profile, the transport and the PC's commands agree on whether there is a
\* console, and the timer is added to the run loop only when it is not there yet,
\* whichever channels the host opens, closes and opens again.
THEOREM LinkAgreementHolds == Spec => []LinkAgreement
<1>1. Init => LinkAgreement
  BY DEF Init, HidInit, AppInit, PcInit, LinkAgreement, HidTellsOpened, BothChannels,
     Channels
<1>2. TypeOK /\ LinkAgreement /\ [Next]_vars => LinkAgreement'
  BY LinkStep DEF TypeOK
<1> QED BY <1>1, <1>2, FirmwareTypeCorrect, PTL DEF Spec

-----------------------------------------------------------------------------
(* The request to send.                                                    *)

\* No channel stops waiting.
StillWait == \A ch \in Channels : waiting[ch] = TRUE => waiting'[ch] = TRUE

\* The four things a step can be to the request: it is made, or was outstanding;
Asked ==
    /\ connected = TRUE /\ sendPending' = TRUE
    /\ \/ /\ sendPending = FALSE
          /\ \/ channel["interrupt"] = "none" /\ requested' = requested
             \/ requested' = TRUE /\ waiting'["interrupt"] = TRUE
       \/ sendPending = TRUE /\ requested' = requested /\ StillWait

\* it is left alone;
LeftAlone == UNCHANGED <<sendPending, requested>> /\ StillWait

\* a handshake takes the moment and asks for another one;
PassedOn ==
    /\ UNCHANGED <<sendPending, requested>>
    /\ requested = TRUE => \/ channel["control"] = "none"
                           \/ waiting'["control"] = TRUE

\* the moment is there, and the application is told if it asked.
Told ==
    /\ requested' = FALSE
    /\ \/ sendPending' = FALSE
       \/ sendPending' = sendPending /\ connected = FALSE
       \/ sendPending' = sendPending /\ requested = FALSE

LEMMA RequestChanges ==
    ASSUME HidTypeOK, AppTypeOK, [Next]_vars
    PROVE  \/ \E ch \in Channels : Incoming(ch) \/ Opened(ch)
           \/ \E S \in SUBSET Channels : Closed(S)
           \/ UNCHANGED linkVars /\ (Asked \/ LeftAlone \/ PassedOn \/ Told)
<1>0. /\ waiting \in [Channels -> BOOLEAN] /\ requested \in BOOLEAN
      /\ sendPending \in BOOLEAN /\ connected \in BOOLEAN
  BY DEF HidTypeOK, AppTypeOK
<1>1. ASSUME NEW w \in [Channels -> BOOLEAN], NEW ch \in Channels
      PROVE  /\ Await(w, ch) \in [Channels -> BOOLEAN]
             /\ \A c \in Channels : w[c] = TRUE => Await(w, ch)[c] = TRUE
             /\ channel[ch] = "none" \/ Await(w, ch)[ch] = TRUE
  BY DEF Await
<1>2. ASSUME NEW w \in [Channels -> BOOLEAN], HidRequest(w)
      PROVE  \/ channel["interrupt"] = "none" /\ requested' = requested
             \/ requested' = TRUE /\ waiting'["interrupt"] = TRUE
  <2>1. "interrupt" \in Channels
    BY DEF Channels
  <2>2. \/ channel["interrupt"] = "none" /\ requested' = requested
        \/ /\ channel["interrupt"] # "none"
           /\ waiting' = Await(w, "interrupt") /\ requested' = TRUE
    BY <1>2 DEF HidRequest
  <2> QED BY <1>1, <2>1, <2>2
<1>3. ASSUME NEW o, NEW w \in [Channels -> BOOLEAN], TrackOutput(o, w),
             \A c \in Channels : waiting[c] = TRUE => w[c] = TRUE
      PROVE  Asked \/ LeftAlone
  <2>1. CASE waiting' = w /\ UNCHANGED <<sendPending, requested>>
    BY <1>3, <2>1 DEF LeftAlone, StillWait
  <2>2. CASE SendInputReport(Reply, w)
    <3>1. CASE connected /\ Len(replies) < ReplyQueueSize
      <4>1. connected = TRUE /\ sendPending' = TRUE
        BY <1>0, <2>2, <3>1, Zenon DEF SendInputReport
      <4>2. CASE sendPending = TRUE
        <5>1. waiting' = w /\ requested' = requested
          BY <2>2, <3>1, <4>2, Zenon DEF SendInputReport
        <5> QED BY <1>3, <4>1, <4>2, <5>1 DEF Asked, StillWait
      <4>3. CASE sendPending = FALSE
        <5>1. HidRequest(w)
          BY <2>2, <3>1, <4>3, Zenon DEF SendInputReport
        <5> QED BY <1>2, <4>1, <4>3, <5>1 DEF Asked
      <4> QED BY <1>0, <4>2, <4>3
    <3>2. CASE ~(connected /\ Len(replies) < ReplyQueueSize)
      BY <2>1, <2>2, <3>2, Zenon DEF SendInputReport
    <3> QED BY <3>1, <3>2
  <2> QED BY <1>3, <2>1, <2>2, Zenon DEF TrackOutput
<1>4. ASSUME NEW o, ReceiveData(o) \/ ReceiveSetReport(o) PROVE Asked \/ LeftAlone
  <2>1. TrackOutput(o, waiting) \/ TrackOutput(o, Await(waiting, "control"))
    BY <1>4 DEF ReceiveData, ReceiveSetReport
  <2>2. "control" \in Channels
    BY DEF Channels
  <2> QED BY <1>0, <1>1, <1>3, <2>1, <2>2
<1>5. ASSUME NEW asks, Transaction(asks) PROVE LeftAlone
  <2>1. waiting' \in {waiting, Await(waiting, "control")}
    BY <1>5, Zenon DEF Transaction, HidTransaction
  <2>2. UNCHANGED <<requested, sendPending>> /\ "control" \in Channels
    BY <1>5 DEF Transaction, HidTransaction, appVars, Channels
  <2>3. \A c \in Channels : waiting[c] = TRUE => Await(waiting, "control")[c] = TRUE
    BY <1>0, <1>1, <2>2
  <2> QED BY <2>1, <2>2, <2>3 DEF LeftAlone, StillWait
<1>6. ASSUME NEW ch \in Channels, Handshake(ch) PROVE PassedOn
  <2>1. UNCHANGED <<requested, sendPending>> /\ "control" \in Channels
    BY <1>6 DEF Handshake, HidHandshake, appVars, Channels
  <2>2. PICK w \in [Channels -> BOOLEAN] : w = [waiting EXCEPT ![ch] = FALSE]
    BY <1>0
  <2>3. [c \in Channels |-> FALSE] \in [Channels -> BOOLEAN]
    OBVIOUS
  <2>4. requested = TRUE =>
           waiting' \in {Await(w, "control"), Await([c \in Channels |-> FALSE], "control")}
    BY <1>6, <2>2, Zenon DEF Handshake, HidHandshake
  <2>5. requested = TRUE => channel["control"] = "none" \/ waiting'["control"] = TRUE
    BY <1>1, <2>1, <2>3, <2>4
  <2> QED BY <2>1, <2>5 DEF PassedOn
<1>7. ASSUME NEW ch \in Channels, NEW ok \in BOOLEAN, CanSend(ch, ok) PROVE Told
  <2>1. requested' = FALSE /\ hidState = "idle"
    BY <1>7 DEF CanSend, HidSendNow
  <2>2. CASE requested = FALSE
    <3>1. ~HidTellsCanSend
      BY <2>2, Zenon DEF HidTellsCanSend
    <3>2. UNCHANGED appVars
      BY <1>7, <3>1, Zenon DEF CanSend
    <3> QED BY <2>1, <2>2, <3>2 DEF Told, appVars
  <2>3. CASE requested = TRUE
    <3>1. HidTellsCanSend
      BY <2>1, <2>3, Zenon DEF HidTellsCanSend
    <3>2. AppCanSend(ok)
      BY <1>7, <3>1, Zenon DEF CanSend
    <3>3. CASE connected /\ sendPending
      <4>1. SendNextReport(ok)
        BY <3>2, <3>3, Zenon DEF AppCanSend
      <4> QED BY <2>1, <4>1 DEF SendNextReport, Told
    <3>4. CASE ~(connected /\ sendPending)
      <4>1. sendPending' = sendPending
        BY <3>2, <3>4, Zenon DEF AppCanSend, appVars
      <4>2. connected = FALSE \/ sendPending = FALSE
        BY <1>0, <3>4, Zenon
      <4> QED BY <2>1, <4>1, <4>2 DEF Told
    <3> QED BY <3>3, <3>4
  <2> QED BY <1>0, <2>2, <2>3
<1>8. ASSUME InputTimer PROVE Asked \/ LeftAlone
  <2>1. CASE connected /\ ~sendPending
    <3>1. connected = TRUE /\ sendPending = FALSE
      BY <1>0, <2>1, Zenon
    <3>2. sendPending' = TRUE /\ HidRequest(waiting)
      BY <1>8, <2>1, Zenon DEF InputTimer
    <3> QED BY <1>0, <1>2, <3>1, <3>2 DEF Asked
  <2>2. CASE ~(connected /\ ~sendPending)
    <3>1. UNCHANGED <<sendPending, waiting, requested>>
      BY <1>8, <2>2, Zenon DEF InputTimer
    <3> QED BY <3>1 DEF LeftAlone, StillWait
  <2> QED BY <2>1, <2>2
<1>9. ASSUME UNCHANGED <<hidVars, appVars>> PROVE LeftAlone
  BY <1>9 DEF hidVars, appVars, LeftAlone, StillWait
<1>10. \/ \E ch \in Channels : Incoming(ch) \/ Opened(ch)
       \/ \E S \in SUBSET Channels : Closed(S)
       \/ Asked \/ LeftAlone \/ PassedOn \/ Told
  BY <1>4, <1>5, <1>6, <1>7, <1>8, <1>9
     DEF Next, HostNext, SendNext, PcPoll, PcReads, ClockTick, vars
<1> QED BY <1>10, LinkChanges

\* A request is outstanding in a connection only: a channel of the next one clears
\* what the last one left.
FreshRequests ==
    requested = TRUE /\ connected = FALSE => \A ch \in Channels : channel[ch] = "none"

\* RequestsAgree needs FreshRequests: when the console comes back, the application
\* waits for nothing, and neither may the profile.
LEMMA RequestsStep ==
    ASSUME TypeOK, TypeOK', LinkAgreement, RequestsAgree, FreshRequests, [Next]_vars
    PROVE  RequestsAgree' /\ FreshRequests'
<1> DEFINE Agree == connected = TRUE /\ requested = TRUE => sendPending = TRUE
<1>0. /\ HidTypeOK /\ AppTypeOK
      /\ connected \in BOOLEAN /\ requested \in BOOLEAN /\ sendPending \in BOOLEAN
      /\ connected = hidConnected
  BY DEF TypeOK, HidTypeOK, AppTypeOK, LinkAgreement
<1>1. Agree
  BY DEF RequestsAgree
<1>2. Agree' => RequestsAgree'
  <2>1. connected' \in BOOLEAN /\ requested' \in BOOLEAN /\ sendPending' \in BOOLEAN
    BY DEF TypeOK, HidTypeOK, AppTypeOK
  <2> QED BY <2>1, Zenon DEF RequestsAgree
<1>3. ASSUME NEW ch \in Channels, Incoming(ch) PROVE Agree' /\ FreshRequests'
  <2>1. UNCHANGED <<connected, sendPending>>
    BY <1>0, <1>3, LinkEvents
  <2>2. CASE \A c \in Channels : channel[c] = "none"
    <3>1. requested' = FALSE
      BY <1>3, <2>2, Zenon DEF Incoming, HidIncoming
    <3> QED BY <3>1 DEF FreshRequests
  <2>3. CASE ~\A c \in Channels : channel[c] = "none"
    <3>1. requested' = requested
      BY <1>3, <2>3, Zenon DEF Incoming, HidIncoming
    <3>2. ~(requested = TRUE /\ connected = FALSE)
      BY <2>3 DEF FreshRequests
    <3> QED BY <1>1, <2>1, <3>1, <3>2 DEF FreshRequests
  <2> QED BY <2>2, <2>3
<1>4. ASSUME NEW ch \in Channels, Opened(ch) PROVE Agree' /\ FreshRequests'
  <2>1. /\ channel[ch] # "none" /\ requested' = requested
        /\ \A c \in Channels : channel'[c] = "none" <=> channel[c] = "none"
    BY <1>0, <1>4, LinkEvents
  <2>2. CASE HidTellsOpened
    <3>1. connected' = TRUE
      BY <1>0, <1>4, <2>2, LinkEvents
    <3>2. connected = FALSE
      BY <1>0, <2>2, Zenon DEF HidTellsOpened
    <3>3. requested # TRUE
      BY <2>1, <3>2 DEF FreshRequests
    <3> QED BY <2>1, <3>1, <3>3 DEF FreshRequests
  <2>3. CASE ~HidTellsOpened
    <3>1. UNCHANGED <<connected, sendPending>>
      BY <1>0, <1>4, <2>3, LinkEvents
    <3> QED BY <1>1, <2>1, <3>1 DEF FreshRequests
  <2> QED BY <2>2, <2>3
<1>5. ASSUME NEW S \in SUBSET Channels, Closed(S) PROVE Agree' /\ FreshRequests'
  <2>1. /\ requested' = requested
        /\ \/ /\ \A ch \in Channels : channel'[ch] = "none"
              /\ connected' = FALSE
           \/ /\ \E ch \in Channels : channel[ch] # "none"
              /\ UNCHANGED <<connected, sendPending>>
    BY <1>0, <1>5, LinkEvents
  <2>2. CASE connected' = FALSE /\ \A ch \in Channels : channel'[ch] = "none"
    BY <2>2 DEF FreshRequests
  <2>3. CASE /\ \E ch \in Channels : channel[ch] # "none"
             /\ UNCHANGED <<connected, sendPending>>
    BY <1>1, <2>1, <2>3 DEF FreshRequests
  <2> QED BY <2>1, <2>2, <2>3
<1>6. ASSUME UNCHANGED linkVars, Asked \/ LeftAlone \/ PassedOn \/ Told
      PROVE  Agree' /\ FreshRequests'
  <2>1. UNCHANGED <<channel, connected>>
    BY <1>6 DEF linkVars
  <2> QED BY <1>0, <1>1, <1>6, <2>1 DEF FreshRequests, Asked, LeftAlone, PassedOn, Told
<1> QED
  BY <1>0, <1>2, <1>3, <1>4, <1>5, <1>6, RequestChanges

\* The profile never tells of a moment to send an application that does not wait for
\* one, nor keeps a request of a connection that is gone.
THEOREM RequestsAgreeHolds == Spec => []RequestsAgree
<1>1. Init => RequestsAgree /\ FreshRequests
  BY DEF Init, HidInit, AppInit, RequestsAgree, FreshRequests
<1>2. /\ TypeOK /\ TypeOK' /\ LinkAgreement /\ RequestsAgree /\ FreshRequests
      /\ [Next]_vars
      => RequestsAgree' /\ FreshRequests'
  BY RequestsStep
<1> QED
  BY <1>1, <1>2, FirmwareTypeCorrect, LinkAgreementHolds, PTL DEF Spec

\* While both channels are there, what keeps a request alive is the conjunction that
\* NoLostWakeup states; it is inductive once the link's flags agree.
LEMMA WakeupStep ==
    ASSUME TypeOK, LinkAgreement, NoLostWakeup, ~HostReopens, [Next]_vars
    PROVE  NoLostWakeup'
<1>0. /\ HidTypeOK /\ AppTypeOK
      /\ connected \in BOOLEAN /\ sendPending \in BOOLEAN /\ requested \in BOOLEAN
      /\ waiting \in [Channels -> BOOLEAN]
      /\ "control" \in Channels /\ "interrupt" \in Channels
  BY DEF TypeOK, HidTypeOK, AppTypeOK, Channels
<1>1. connected = TRUE /\ sendPending = TRUE /\ BothChannels =>
         requested = TRUE /\ \E ch \in Channels : waiting[ch] = TRUE
  BY <1>0 DEF NoLostWakeup
<1>2. ASSUME requested' = TRUE, \E ch \in Channels : waiting'[ch] = TRUE
      PROVE  NoLostWakeup'
  BY <1>2 DEF NoLostWakeup
<1>3. ASSUME connected' = FALSE \/ sendPending' = FALSE \/ ~BothChannels'
      PROVE  NoLostWakeup'
  BY <1>3 DEF NoLostWakeup
<1>4. ASSUME NEW ch \in Channels, Incoming(ch) PROVE NoLostWakeup'
  <2>1. connected' = hidConnected
    BY <1>0, <1>4, LinkEvents DEF LinkAgreement
  <2>2. hidConnected = FALSE
    BY <1>4, Zenon DEF Incoming, HidIncoming, HidTypeOK, TypeOK
  <2> QED BY <1>3, <2>1, <2>2
<1>5. ASSUME NEW ch \in Channels, Opened(ch) PROVE NoLostWakeup'
  <2>1. /\ UNCHANGED <<requested, waiting>>
        /\ \A c \in Channels : channel'[c] = "none" <=> channel[c] = "none"
        /\ sendPending' = FALSE \/ UNCHANGED <<connected, sendPending>>
    BY <1>0, <1>5, LinkEvents
  <2>2. BothChannels' <=> BothChannels
    BY <2>1 DEF BothChannels
  <2>3. CASE sendPending' = FALSE
    BY <1>3, <2>3
  <2>4. CASE UNCHANGED <<connected, sendPending>>
    BY <1>0, <1>1, <1>2, <1>3, <2>1, <2>2, <2>4
  <2> QED BY <2>1, <2>3, <2>4
<1>6. ASSUME NEW S \in SUBSET Channels, Closed(S) PROVE NoLostWakeup'
  <2>1. ~BothChannels'
    BY <1>0, <1>6, LinkEvents DEF BothChannels
  <2> QED BY <1>3, <2>1
<1>7. ASSUME UNCHANGED linkVars, Asked \/ LeftAlone \/ PassedOn \/ Told
      PROVE  NoLostWakeup'
  <2>1. UNCHANGED <<channel, connected>> /\ BothChannels' = BothChannels
    BY <1>7 DEF linkVars, BothChannels
  <2>2. CASE connected = FALSE \/ ~BothChannels
    BY <1>3, <2>1, <2>2
  <2>3. CASE connected = TRUE /\ BothChannels
    <3>1. channel["control"] # "none" /\ channel["interrupt"] # "none"
      BY <1>0, <2>3 DEF BothChannels
    <3>2. CASE Asked
      BY <1>0, <1>1, <1>2, <2>3, <3>1, <3>2 DEF Asked, StillWait
    <3>3. CASE LeftAlone
      BY <1>0, <1>1, <1>2, <1>3, <2>3, <3>3 DEF LeftAlone, StillWait
    <3>4. CASE PassedOn
      BY <1>0, <1>1, <1>2, <1>3, <2>3, <3>1, <3>4 DEF PassedOn
    <3>5. CASE Told
      BY <1>0, <1>1, <1>2, <1>3, <2>3, <3>5 DEF Told
    <3> QED BY <1>7, <3>2, <3>3, <3>4, <3>5
  <2> QED BY <1>0, <2>2, <2>3
<1> QED BY <1>0, <1>4, <1>5, <1>6, <1>7, RequestChanges

\* No lost wakeup, whatever handshakes, timers and replies do to the moments L2CAP
\* gives, as long as the host does not reopen one channel while it keeps the other.
THEOREM NoLostWakeupHolds == ~HostReopens => (Spec => []NoLostWakeup)
<1> SUFFICES ASSUME ~HostReopens PROVE Spec => []NoLostWakeup
  OBVIOUS
<1>1. Init => NoLostWakeup
  BY DEF Init, HidInit, AppInit, NoLostWakeup
<1>2. TypeOK /\ LinkAgreement /\ NoLostWakeup /\ [Next]_vars => NoLostWakeup'
  BY WakeupStep
<1> QED
  BY <1>1, <1>2, FirmwareTypeCorrect, LinkAgreementHolds, PTL DEF Spec

-----------------------------------------------------------------------------
(* The replies and the numbers.                                            *)

\* The things a step can be to the reply queue and to the numbering: a reply is
\* built and queued, or dropped;
Queued ==
    /\ connected = TRUE /\ Len(replies) < ReplyQueueSize
    /\ replies' = Append(replies, Reply) /\ timer' = After(timer)
    /\ UNCHANGED <<lastNumber, skipped, lost, answered>>
Dropped == lost' = TRUE /\ UNCHANGED <<replies, answered>>

\* the oldest reply is sent;
Sent ==
    /\ replies # <<>> /\ replies' = Tail(replies)
    /\ lastNumber' = Head(replies).number /\ skipped' = 0
    /\ answered' = Head(replies)
    /\ UNCHANGED <<timer, lost>>

\* an input report spends a number, and is sent or refused;
Spent ==
    /\ replies = <<>> /\ replies' = <<>> /\ answered' = answered
    /\ lastNumber' = timer /\ skipped' = 0 /\ timer' = After(timer)
Refused ==
    /\ replies = <<>> /\ replies' = <<>> /\ answered' = answered
    /\ skipped' = (skipped + 1) % TimerMod /\ timer' = After(timer)
    /\ UNCHANGED <<lastNumber, lost>>

\* nothing;
NumbersKept == UNCHANGED <<replies, lastNumber, skipped, timer, lost, answered>>

\* a connection begins or ends.
Begun ==
    /\ connected = FALSE /\ connected' = TRUE
    /\ replies' = <<>> /\ lastNumber' = TimerMod - 1 /\ skipped' = 0
    /\ timer' = 0
    /\ answered' = answered
Ended == connected' = FALSE /\ replies' = <<>> /\ answered' = answered

LEMMA ReplyChanges ==
    ASSUME TypeOK, LinkAgreement, [Next]_vars
    PROVE  \/ Begun \/ Ended
           \/ NumbersKept /\ connected' = connected
           \/ UNCHANGED linkVars /\
              (Queued \/ Dropped \/ Sent \/ Spent \/ Refused)
<1>0. HidTypeOK /\ AppTypeOK /\ connected \in BOOLEAN
  BY DEF TypeOK, AppTypeOK
<1>1. ASSUME NEW ch \in Channels, Incoming(ch) PROVE NumbersKept /\ connected' = connected
  BY <1>1 DEF Incoming, NumbersKept, protoVars, appVars, appHistory
<1>2. ASSUME NEW ch \in Channels, Opened(ch)
      PROVE  Begun \/ (NumbersKept /\ connected' = connected)
  <2>1. CASE HidTellsOpened
    <3>1. AppOpened
      BY <1>2, <2>1 DEF Opened
    <3>2. connected = hidConnected /\ ~hidConnected
      BY <2>1 DEF HidTellsOpened, LinkAgreement
    <3>3. connected = FALSE
      BY <1>0, <3>2
    <3> QED BY <3>1, <3>3 DEF AppOpened, ProtoReset, Begun
  <2>2. CASE ~HidTellsOpened
    BY <1>2, <2>2 DEF Opened, NumbersKept, protoVars, appVars, appHistory
  <2> QED BY <2>1, <2>2
<1>3. ASSUME NEW S \in SUBSET Channels, Closed(S)
      PROVE  Ended \/ (NumbersKept /\ connected' = connected)
  BY <1>3 DEF Closed, AppClosed, Ended, NumbersKept, protoVars, appVars, appHistory
<1>4. ASSUME NEW o, NEW w, TrackOutput(o, w)
      PROVE  Queued \/ Dropped \/ NumbersKept
  <2>0. UNCHANGED <<lastNumber, skipped, answered>>
    BY <1>4 DEF TrackOutput
  <2>1. CASE Replies(o)
    <3>1. SendInputReport(Reply, w) /\ timer' = After(timer)
      BY <1>4, <2>1, Zenon DEF TrackOutput, HandleOutput
    <3>2. CASE connected /\ Len(replies) < ReplyQueueSize
      <4>1. replies' = Append(replies, Reply) /\ lost' = lost
        BY <3>1, <3>2, Zenon DEF SendInputReport
      <4>2. connected = TRUE
        BY <1>0, <3>2, Zenon
      <4> QED BY <2>0, <3>1, <3>2, <4>1, <4>2 DEF Queued
    <3>3. CASE ~(connected /\ Len(replies) < ReplyQueueSize)
      <4>1. lost' = TRUE /\ replies' = replies
        BY <3>1, <3>3, Zenon DEF SendInputReport
      <4> QED BY <2>0, <4>1 DEF Dropped
    <3> QED BY <3>2, <3>3
  <2>2. CASE ~Replies(o)
    <3>1. UNCHANGED <<replies, lost, timer>>
      BY <1>4, <2>2, Zenon DEF TrackOutput, HandleOutput
    <3> QED BY <2>0, <3>1 DEF NumbersKept
  <2> QED BY <2>1, <2>2
<1>5. ASSUME NEW o, ReceiveData(o) \/ ReceiveSetReport(o)
      PROVE  Queued \/ Dropped \/ NumbersKept
  BY <1>4, <1>5, Zenon DEF ReceiveData, ReceiveSetReport
<1>6. ASSUME NEW ok, SendReply(ok) PROVE Sent \/ NumbersKept
  <2>1. replies # <<>> /\ UNCHANGED <<timer, lost>>
    BY <1>6 DEF SendReply, protoVars
  <2>2. \/ /\ replies' = Tail(replies) /\ answered' = Head(replies)
           /\ lastNumber' = Head(replies).number /\ skipped' = 0
        \/ UNCHANGED <<replies, answered, lastNumber, skipped>>
    BY <1>6, Zenon DEF SendReply, ConsoleReceives
  <2> QED BY <2>1, <2>2 DEF Sent, NumbersKept
<1>7. ASSUME NEW ok, SendInput(ok) PROVE Spent \/ Refused \/ NumbersKept
  <2>1. replies = <<>> /\ replies' = replies /\ answered' = answered
    BY <1>7 DEF SendInput
  <2>2. CASE mode = Mode3F
    <3>1. UNCHANGED <<protoVars, lastNumber, skipped, lost>>
      BY <1>7, <2>2, Zenon DEF SendInput
    <3> QED BY <2>1, <3>1 DEF NumbersKept, protoVars
  <2>3. CASE mode # Mode3F
    <3>1. SpendNumber(ok)
      BY <1>7, <2>3, Zenon DEF SendInput
    <3>2. timer' = After(timer)
      BY <3>1 DEF SpendNumber, NextTimer
    <3>3. CASE ok
      <4>1. lastNumber' = timer /\ skipped' = 0
        BY <3>1, <3>3, Zenon DEF SpendNumber
      <4> QED BY <2>1, <3>2, <4>1 DEF Spent
    <3>4. CASE ~ok
      <4>1. skipped' = (skipped + 1) % TimerMod /\ UNCHANGED <<lastNumber, lost>>
        BY <3>1, <3>4, Zenon DEF SpendNumber
      <4> QED BY <2>1, <3>2, <4>1 DEF Refused
    <3> QED BY <3>3, <3>4
  <2> QED BY <2>2, <2>3
<1>8. ASSUME NEW ch \in Channels, NEW ok \in BOOLEAN, CanSend(ch, ok)
      PROVE  Sent \/ Spent \/ Refused \/ NumbersKept
  <2>1. CASE SendNextReport(ok)
    BY <1>6, <1>7, <2>1 DEF SendNextReport
  <2>2. CASE UNCHANGED <<protoVars, appVars, appHistory>>
    BY <2>2 DEF NumbersKept, protoVars, appVars, appHistory
  <2>3. SendNextReport(ok) \/ UNCHANGED <<protoVars, appVars, appHistory>>
    BY <1>8, Zenon DEF CanSend, AppCanSend
  <2> QED BY <2>1, <2>2, <2>3
<1>9. ASSUME InputTimer PROVE NumbersKept
  BY <1>9, Zenon DEF InputTimer, NumbersKept, protoVars, appHistory
<1>10. ASSUME UNCHANGED <<protoVars, appVars, appHistory>> PROVE NumbersKept
  BY <1>10 DEF NumbersKept, protoVars, appVars, appHistory
<1>11. \/ \E ch \in Channels : Incoming(ch) \/ Opened(ch)
       \/ \E S \in SUBSET Channels : Closed(S)
       \/ Queued \/ Dropped \/ Sent \/ Spent \/ Refused \/ NumbersKept
  BY <1>5, <1>8, <1>9, <1>10
     DEF Next, HostNext, SendNext, PcPoll, PcReads, ClockTick, Transaction, Handshake, vars
<1>12. UNCHANGED linkVars => connected' = connected
  BY DEF linkVars
<1> QED BY <1>1, <1>2, <1>3, <1>11, <1>12, LinkChanges

-----------------------------------------------------------------------------
(* Division: what the proof of the numbering needs of it.                  *)

LEMMA DivMod ==
    ASSUME NEW m \in Nat \ {0}, NEW x \in Nat
    PROVE  /\ x % m \in 0..(m - 1) /\ x \div m \in Nat
           /\ x = m * (x \div m) + (x % m)
OBVIOUS

LEMMA AtLeastOnce ==
    ASSUME NEW m \in Nat, NEW q \in Nat, NEW p \in Nat, q > p
    PROVE  m * q >= m * p + m
<1>1. PICK d \in Nat : q = p + d /\ d >= 1
  <2>1. q - p \in Nat /\ q = p + (q - p) /\ q - p >= 1
    OBVIOUS
  <2> QED BY <2>1
<1>2. m * q = m * p + m * d
  BY <1>1
<1>3. m * d >= m
  BY <1>1
<1>4. m * q \in Nat /\ m * p \in Nat /\ m * d \in Nat
  OBVIOUS
<1> QED BY <1>2, <1>3, <1>4

\* A remainder is unique.
LEMMA OneRemainder ==
    ASSUME NEW m \in Nat \ {0}, NEW q \in Nat, NEW p \in Nat,
           NEW r \in 0..(m - 1), NEW s \in 0..(m - 1), m * q + r = m * p + s
    PROVE  r = s
<1>0. m * q \in Nat /\ m * p \in Nat
  OBVIOUS
<1>1. CASE q > p
  BY <1>0, <1>1, AtLeastOnce
<1>2. CASE p > q
  BY <1>0, <1>2, AtLeastOnce
<1>3. CASE p = q
  BY <1>0, <1>3
<1> QED BY <1>1, <1>2, <1>3

\* Counting on from a remainder.
LEMMA ModSum ==
    ASSUME NEW m \in Nat \ {0}, NEW x \in Nat, NEW y \in Nat
    PROVE  ((x % m) + y) % m = (x + y) % m
<1>1. PICK q \in Nat, r \in 0..(m - 1) : x = m * q + r /\ r = x % m
  BY DivMod
<1>2. r + y \in Nat /\ x + y \in Nat
  OBVIOUS
<1>3. PICK p \in Nat, s \in 0..(m - 1) : r + y = m * p + s /\ s = (r + y) % m
  BY <1>2, DivMod
<1>4. PICK t \in Nat, u \in 0..(m - 1) : x + y = m * t + u /\ u = (x + y) % m
  BY <1>2, DivMod
<1>5. /\ m * (q + p) = m * q + m * p
      /\ m * q \in Nat /\ m * p \in Nat /\ q + p \in Nat
  OBVIOUS
<1>6. m * (q + p) + s = m * t + u
  <2>1. m * t \in Nat
    OBVIOUS
  <2> QED BY <1>1, <1>3, <1>4, <1>5, <2>1
<1>7. s = u
  BY <1>5, <1>6, OneRemainder
<1> QED BY <1>1, <1>3, <1>4, <1>7

-----------------------------------------------------------------------------

\* The last number that was spent, but for the queued replies, not yet wrapped.
Spends == lastNumber + skipped

\* NumbersInOrder is inductive with the types.
LEMMA NumbersStep ==
    ASSUME TypeOK, TypeOK', LinkAgreement, NumbersInOrder, [Next]_vars
    PROVE  NumbersInOrder'
<1> DEFINE From(n, i) == (n + i) % TimerMod
<1>0. /\ TimerMod \in Nat \ {0}
      /\ replies \in Seq(Answers) /\ replies' \in Seq(Answers)
      /\ Len(replies) \in Nat /\ Len(replies') \in Nat
      /\ lastNumber \in Nat /\ skipped \in Nat /\ Spends \in Nat
      /\ timer \in 0..(TimerMod - 1) /\ timer \in Nat
      /\ lastNumber' \in Nat /\ skipped' \in Nat /\ Spends' \in Nat
      /\ connected \in BOOLEAN /\ lost \in BOOLEAN
  <2>1. /\ TimerMod \in Nat \ {0}
        /\ replies \in Seq(Answers) /\ replies' \in Seq(Answers)
        /\ lastNumber \in 0..(TimerMod - 1) /\ skipped \in 0..(TimerMod - 1)
        /\ lastNumber' \in 0..(TimerMod - 1) /\ skipped' \in 0..(TimerMod - 1)
        /\ timer \in 0..(TimerMod - 1)
        /\ connected \in BOOLEAN /\ lost \in BOOLEAN
    BY ProtoAssumption DEF TypeOK, AppTypeOK, ProtoTypeOK, Answers
  <2>2. Len(replies) \in Nat /\ Len(replies') \in Nat
    BY <2>1
  <2>3. Spends = lastNumber + skipped /\ Spends' = lastNumber' + skipped'
    BY DEF Spends
  <2>4. ASSUME NEW n \in 0..(TimerMod - 1), NEW k \in 0..(TimerMod - 1)
        PROVE  n \in Nat /\ k \in Nat /\ n + k \in Nat
    BY <2>1
  <2>5. /\ lastNumber \in Nat /\ skipped \in Nat /\ Spends \in Nat
        /\ lastNumber' \in Nat /\ skipped' \in Nat /\ Spends' \in Nat
        /\ timer \in Nat
    BY <2>1, <2>3, <2>4
  <2> QED BY <2>1, <2>2, <2>5
<1>1. ASSUME lost' = TRUE \/ connected' = FALSE PROVE NumbersInOrder'
  BY <1>1 DEF NumbersInOrder
<1>2. ASSUME /\ \A i \in 1..Len(replies') : replies'[i].number = From(Spends', i)
             /\ timer' = From(Spends', Len(replies') + 1)
      PROVE  NumbersInOrder'
  <2>1. /\ Spends' + (Len(replies') + 1) = lastNumber' + skipped' + Len(replies') + 1
        /\ \A i \in Nat : Spends' + i = lastNumber' + skipped' + i
    BY <1>0 DEF Spends
  <2>2. timer' = (lastNumber' + skipped' + Len(replies') + 1) % TimerMod
    BY <1>2, <2>1
  <2>3. \A i \in 1..Len(replies') :
          replies'[i].number = (lastNumber' + skipped' + i) % TimerMod
    BY <1>2, <2>1
  <2> QED BY <2>2, <2>3 DEF NumbersInOrder
<1>3. ASSUME connected = TRUE, lost = FALSE
      PROVE  /\ \A i \in 1..Len(replies) : replies[i].number = From(Spends, i)
             /\ timer = From(Spends, Len(replies) + 1)
  <2>1. /\ Spends + (Len(replies) + 1) = lastNumber + skipped + Len(replies) + 1
        /\ \A i \in Nat : Spends + i = lastNumber + skipped + i
    BY <1>0 DEF Spends
  <2>2. timer = (lastNumber + skipped + Len(replies) + 1) % TimerMod
    BY <1>3 DEF NumbersInOrder
  <2>3. \A i \in 1..Len(replies) :
          replies[i].number = (lastNumber + skipped + i) % TimerMod
    BY <1>3 DEF NumbersInOrder
  <2> QED BY <2>1, <2>2, <2>3
<1>4. CASE Begun
  <2>1. Len(replies') = 0 /\ Spends' = TimerMod - 1
    BY <1>0, <1>4 DEF Begun, Spends
  <2>2. From(TimerMod - 1, 1) = 0
    BY <1>0
  <2> QED BY <1>2, <1>4, <2>1, <2>2 DEF Begun
<1>5. CASE Ended
  BY <1>1, <1>5 DEF Ended
<1>6. CASE UNCHANGED <<replies, lastNumber, skipped, timer, lost, connected>>
  BY <1>6 DEF NumbersInOrder
<1>7. CASE Dropped
  BY <1>1, <1>7 DEF Dropped
<1>8. CASE Spent
  <2>1. Len(replies') = 0 /\ Spends' = timer /\ timer' = From(timer, 1)
    BY <1>0, <1>8 DEF Spent, After, Spends
  <2> QED BY <1>2, <2>1
<1>9. ASSUME connected' = connected, Refused PROVE NumbersInOrder'
  <2>1. CASE connected = FALSE \/ lost = TRUE
    BY <1>1, <1>9, <2>1 DEF Refused
  <2>2. CASE connected = TRUE /\ lost = FALSE
    <3>1. /\ Len(replies) = 0 /\ Len(replies') = 0 /\ timer' = From(timer, 1)
          /\ lastNumber' = lastNumber /\ skipped' = (skipped + 1) % TimerMod
      BY <1>9 DEF Refused, After
    <3>2. timer = From(Spends, 1)
      <4>1. timer = From(Spends, Len(replies) + 1)
        BY <1>3, <2>2, Zenon
      <4>2. Len(replies) + 1 = 1
        BY <3>1
      <4> QED BY <4>1, <4>2
    <3>3. timer' = (Spends + 2) % TimerMod
      <4>1. Spends + 1 \in Nat /\ (Spends + 1) + 1 = Spends + 2
        BY <1>0
      <4>2. timer' = ((Spends + 1) + 1) % TimerMod
        BY <1>0, <3>1, <3>2, <4>1, ModSum, ZenonT(60)
      <4> QED BY <4>1, <4>2
    <3>4. From(Spends', 1) = (Spends + 2) % TimerMod
      <4>1. skipped + 1 \in Nat /\ lastNumber + 1 \in Nat
        BY <1>0
      <4>2. Spends' + 1 = ((skipped + 1) % TimerMod) + (lastNumber + 1)
        <5>1. (skipped + 1) % TimerMod \in Nat
          BY <1>0, <3>1
        <5> QED BY <1>0, <3>1, <5>1 DEF Spends
      <4>3. (skipped + 1) + (lastNumber + 1) = Spends + 2
        BY <1>0 DEF Spends
      <4>4. (((skipped + 1) % TimerMod) + (lastNumber + 1)) % TimerMod
              = ((skipped + 1) + (lastNumber + 1)) % TimerMod
        BY <1>0, <4>1, ModSum, ZenonT(60)
      <4> QED BY <4>2, <4>3, <4>4
    <3> QED BY <1>2, <3>1, <3>3, <3>4
  <2> QED BY <1>0, <2>1, <2>2
<1>10. ASSUME connected' = connected, Queued \/ Sent PROVE NumbersInOrder'
  <2>1. CASE connected = FALSE \/ lost = TRUE
    BY <1>1, <1>10, <2>1 DEF Queued, Sent
  <2>2. CASE connected = TRUE /\ lost = FALSE
    <3>1. /\ \A i \in 1..Len(replies) : replies[i].number = From(Spends, i)
          /\ timer = From(Spends, Len(replies) + 1)
      BY <1>3, <2>2
    <3>2. CASE Queued
      <4>1. /\ replies' = Append(replies, Reply) /\ Spends' = Spends
            /\ timer' = From(timer, 1)
        BY <3>2 DEF Queued, After, Spends
      <4>2. Reply.number = From(Spends, Len(replies) + 1)
        BY <3>1 DEF Reply
      <4>3. /\ Len(replies') = Len(replies) + 1
            /\ \A i \in 1..Len(replies) : replies'[i] = replies[i]
            /\ replies'[Len(replies) + 1] = Reply
        BY <1>0, <4>1
      <4>4. ASSUME NEW i \in 1..Len(replies')
            PROVE  replies'[i].number = From(Spends, i)
        <5>1. CASE i = Len(replies) + 1
          BY <4>2, <4>3, <5>1
        <5>2. CASE i \in 1..Len(replies)
          BY <3>1, <4>3, <5>2
        <5> QED BY <1>0, <4>3, <5>1, <5>2
      <4>5. timer' = From(Spends, Len(replies') + 1)
        <5>1. Spends + (Len(replies) + 1) \in Nat
          BY <1>0
        <5>2. timer' = ((Spends + (Len(replies) + 1)) + 1) % TimerMod
          BY <1>0, <3>1, <4>1, <5>1, ModSum, ZenonT(60)
        <5>3. (Spends + (Len(replies) + 1)) + 1 = Spends + (Len(replies') + 1)
          BY <1>0, <4>3
        <5> QED BY <5>2, <5>3
      <4> QED BY <1>2, <4>1, <4>4, <4>5
    <3>3. CASE Sent
      <4>1. /\ replies # <<>> /\ replies' = Tail(replies)
            /\ Spends' = Head(replies).number /\ timer' = timer
        BY <1>0, <3>3 DEF Sent, Spends
      <4>2. /\ Len(replies) >= 1 /\ Len(replies') = Len(replies) - 1
            /\ Head(replies) = replies[1]
            /\ \A i \in 1..Len(replies') : replies'[i] = replies[i + 1]
        BY <1>0, <4>1, HeadTailProperties
      <4>3. Spends' = (Spends + 1) % TimerMod
        BY <1>0, <3>1, <4>1, <4>2
      <4>4. ASSUME NEW i \in Nat PROVE From(Spends', i) = From(Spends, i + 1)
        <5>1. Spends + 1 \in Nat
          BY <1>0
        <5>2. From(Spends', i) = ((Spends + 1) + i) % TimerMod
          BY <1>0, <4>3, <5>1, ModSum
        <5>3. (Spends + 1) + i = Spends + (i + 1)
          BY <1>0
        <5> QED BY <5>2, <5>3
      <4>5. ASSUME NEW i \in 1..Len(replies')
            PROVE  replies'[i].number = From(Spends', i)
        <5>1. i \in Nat /\ i + 1 \in 1..Len(replies)
          BY <1>0, <4>2
        <5>2. replies'[i].number = From(Spends, i + 1)
          BY <3>1, <4>2, <5>1
        <5> QED BY <4>4, <5>1, <5>2
      <4>6. timer' = From(Spends', Len(replies') + 1)
        <5>1. Len(replies) \in Nat /\ Len(replies') + 1 = Len(replies)
          BY <1>0, <4>2
        <5>2. timer' = From(Spends, Len(replies) + 1)
          BY <3>1, <4>1
        <5> QED BY <4>4, <5>1, <5>2
      <4> QED BY <1>2, <4>5, <4>6
    <3> QED BY <1>10, <3>2, <3>3
  <2> QED BY <1>0, <2>1, <2>2
<1> QED
  BY <1>4, <1>5, <1>6, <1>7, <1>8, <1>9, <1>10, ReplyChanges DEF NumbersKept, linkVars

\* The numbers follow each other in every connection, for every range of the
\* counter: a reply that waits, is refused and tried again, or lets the timer pass
\* neither repeats a number nor leaves a gap, and the input reports L2CAP refuses
\* leave one number each, until a full queue drops a reply.
THEOREM NumbersInOrderHolds == Spec => []NumbersInOrder
<1>1. Init => NumbersInOrder
  BY DEF Init, AppInit, NumbersInOrder
<1>2. TypeOK /\ TypeOK' /\ LinkAgreement /\ NumbersInOrder /\ [Next]_vars
      => NumbersInOrder'
  BY NumbersStep
<1> QED
  BY <1>1, <1>2, FirmwareTypeCorrect, LinkAgreementHolds, PTL DEF Spec

-----------------------------------------------------------------------------
(* The replies as a line.                                                  *)

\* The console can be reached: the expression RepliesInOrder puts for "up".
Reached == connected /\ \A ch \in Channels : channel[ch] = "open"

LEMMA LineRefined ==
    ASSUME TypeOK, TypeOK', LinkAgreement, [Next]_vars
    PROVE  [ReplyPath!LineNext]_(ReplyPath!lineVars)
<1> USE DEF ReplyPath!LineNext, ReplyPath!lineVars
<1>0. /\ connected \in BOOLEAN /\ connected' \in BOOLEAN
      /\ replies \in Seq(Answers) /\ Reply \in Answers
      /\ Reached \in BOOLEAN /\ Reached' \in BOOLEAN
  BY DEF TypeOK, AppTypeOK, PcTypeOK, ProtoTypeOK, Answers, Reply, Reached
<1>1. ASSUME Reached' # Reached, replies' = replies \/ replies' = <<>>,
             answered' = answered
      PROVE  ReplyPath!LineNext
  BY <1>0, <1>1 DEF ReplyPath!Relink, Reached
<1>2. ASSUME Reached' = Reached, replies' = replies, answered' = answered
      PROVE  UNCHANGED ReplyPath!lineVars
  BY <1>2 DEF Reached
<1>3. ASSUME Reached' = FALSE, replies' = <<>>, answered' = answered
      PROVE  ReplyPath!LineNext
  <2>1. CASE Reached = TRUE
    BY <1>1, <1>3, <2>1
  <2>2. CASE Reached = FALSE
    BY <1>3, <2>2 DEF ReplyPath!Forget, Reached
  <2> QED BY <1>0, <2>1, <2>2
<1>4. CASE NumbersKept
  BY <1>0, <1>1, <1>2, <1>4 DEF NumbersKept
<1>5. CASE Begun
  <2>1. Reached = FALSE
    BY <1>0, <1>5 DEF Begun, Reached
  <2> QED BY <1>0, <1>1, <1>3, <1>5, <2>1 DEF Begun
<1>6. CASE Ended
  <2>1. Reached' = FALSE
    BY <1>0, <1>6 DEF Ended, Reached
  <2> QED BY <1>3, <1>6, <2>1 DEF Ended
<1>7. ASSUME UNCHANGED linkVars, Queued
      PROVE  ReplyPath!LineNext
  <2>1. Reached' = Reached
    BY <1>7 DEF linkVars, Reached
  <2>2. ReplyPath!Accept(Reply)
    BY <1>7, <2>1 DEF Queued, ReplyPath!Accept, Reached
  <2> QED BY <1>0, <2>2 DEF Answers
<1>8. ASSUME UNCHANGED linkVars, Sent PROVE ReplyPath!LineNext
  <2>1. Reached' = Reached
    BY <1>8 DEF linkVars, Reached
  <2>2. ReplyPath!Answer
    BY <1>8, <2>1 DEF Sent, ReplyPath!Answer, Reached
  <2> QED BY <2>2
<1>9. ASSUME UNCHANGED linkVars, Dropped \/ Spent \/ Refused
      PROVE  UNCHANGED ReplyPath!lineVars
  <2>1. Reached' = Reached
    BY <1>9 DEF linkVars, Reached
  <2> QED BY <1>2, <1>9, <2>1 DEF Dropped, Spent, Refused
<1> QED
  BY <1>4, <1>5, <1>6, <1>7, <1>8, <1>9, ReplyChanges

\* The replies as the console relies on them, in every step: those the firmware
\* accepts are answered in their order, each once, and none is lost but with the
\* connection.  That each is answered in the end is left to the model checker.
THEOREM RepliesKeepTheLine == Spec => ReplyPath!LineSafe
<1>1. Init => ReplyPath!LineInit
  <2>1. ASSUME Init PROVE [number |-> 0, held |-> Neutral] \in Answers
    BY ControlsAssumption, ProtoAssumption DEF Answers
  <2> QED BY <2>1 DEF Init, AppInit, ReplyPath!LineInit, Answers
<1>2. /\ TypeOK /\ TypeOK' /\ LinkAgreement /\ [Next]_vars
      => [ReplyPath!LineNext]_(ReplyPath!lineVars)
  BY LineRefined
<1> QED
  BY <1>1, <1>2, FirmwareTypeCorrect, LinkAgreementHolds, PTL
     DEF Spec, ReplyPath!LineSafe

=============================================================================
