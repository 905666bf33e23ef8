--------------------------- MODULE PcControlProofs ---------------------------
(***************************************************************************)
(* Proofs about the PC's commands, for every queue size, batch, timeout    *)
(* and lateness of the run loop: types, the dead-man's switch, and the     *)
(* agreement of what is loaded with what is presented.                     *)
(***************************************************************************)
EXTENDS PcControl, SequenceTheorems, TLAPS

pcAll == <<pcVars, controls, nfcVars>>

\* The arguments of a line are what its command expects.
LEMMA LineArguments ==
    \A l \in AnyLine :
        /\ l.cmd = "state" => l.arg \in Controls
        /\ l.cmd = "load" => l.arg \in Tags
        /\ l.cmd \in {"state", "release", "load", "unload", "other"}
BY DEF AnyLine, StateLine, LoadLine, ReleaseLine, UnloadLine, OtherLine

\* The controls are held only for a connected console and a state that is not
\* yet due for release; the clock's lateness is part of the bound.
Held ==
    /\ controls # Neutral => age # 0
    /\ age # 0 => linked
    /\ age # 0 => age - 1 <= Timeout + sincePoll

\* What one command does to the controls and the age of the last state.
LEMMA CommandEffect ==
    ASSUME NEW l \in AnyLine, Command(l)
    PROVE  \/ linked /\ controls' \in Controls /\ age' = 1
           \/ controls' = Neutral /\ age' = 0
           \/ controls' = controls /\ age' = age
<1>1. CASE l.cmd = "state"
  <2>1. ApplyState(l.arg)
    BY <1>1 DEF Command
  <2>2. l.arg \in Controls
    BY <1>1, LineArguments
  <2> QED
    BY <2>1, <2>2 DEF ApplyState, Release, ControlsRelease
<1>2. CASE l.cmd = "release"
  BY <1>2 DEF Command, Release, ControlsRelease
<1>3. CASE l.cmd = "load"
  BY <1>3 DEF Command, PcLoad
<1>4. CASE l.cmd = "unload"
  BY <1>4 DEF Command, PcUnload
<1>5. CASE l.cmd = "other"
  BY <1>5 DEF Command
<1> QED
  BY <1>1, <1>2, <1>3, <1>4, <1>5, LineArguments

\* The initial state has the types and holds nothing.
LEMMA PcInitTyped ==
    ASSUME PcInit, ControlsInit
    PROVE  PcTypeOK /\ Held
<1>1. commands \in Seq(AnyLine) /\ Len(commands) <= LineQueue
  BY PcAssumption DEF PcInit
<1>2. /\ polling \in BOOLEAN /\ linked \in BOOLEAN /\ tagLoaded \in BOOLEAN
      /\ left = 0 /\ age = 0 /\ sincePoll = 0 /\ controls = Neutral
  BY Zenon DEF PcInit, ControlsInit
<1> QED
  BY <1>1, <1>2, PcAssumption, ControlsAssumption DEF PcTypeOK, Held

\* A step of the PC control keeps the types and Held: one step of the proof
\* for each action.
LEMMA PcStep ==
    ASSUME PcTypeOK, Held, [PcNext]_pcAll
    PROVE  PcTypeOK' /\ Held'
<1> USE PcAssumption, ControlsAssumption
<1>1. ASSUME NEW l \in PcLines, ReaderLine(l)
      PROVE  PcTypeOK' /\ Held'
  <2>1. commands' \in Seq(AnyLine) /\ Len(commands') <= LineQueue
    BY <1>1, AppendProperties DEF ReaderLine, PcTypeOK
  <2> QED
    BY <1>1, <2>1 DEF ReaderLine, PcTypeOK, Held
<1>2. ASSUME PollBegin
      PROVE  PcTypeOK' /\ Held'
  BY <1>2 DEF PollBegin, PcTypeOK, Held
<1>3. ASSUME PollCommand
      PROVE  PcTypeOK' /\ Held'
  <2>1. Head(commands) \in AnyLine
        /\ commands' \in Seq(AnyLine) /\ Len(commands') <= LineQueue
    BY <1>3, HeadTailProperties DEF PollCommand, PcTypeOK
  <2>2. Command(Head(commands))
    BY <1>3 DEF PollCommand
  <2>3. \/ linked /\ controls' \in Controls /\ age' = 1
        \/ controls' = Neutral /\ age' = 0
        \/ controls' = controls /\ age' = age
    BY <2>1, <2>2, CommandEffect
  <2>4. tagLoaded' \in BOOLEAN
    BY <2>1, <2>2, LineArguments
       DEF Command, ApplyState, PcLoad, PcUnload, PcTypeOK
  <2>5. left' \in 0..PollBatch /\ UNCHANGED <<polling, sincePoll, linked>>
    BY <1>3 DEF PollCommand, PcTypeOK
  <2> QED
    BY <2>1, <2>3, <2>4, <2>5 DEF PcTypeOK, Held
<1>4. ASSUME PollEnd
      PROVE  PcTypeOK' /\ Held'
  <2>1. /\ polling' \in BOOLEAN /\ left' = 0 /\ sincePoll' = 0
        /\ UNCHANGED <<commands, linked, tagLoaded>>
    BY <1>4, Zenon DEF PollEnd
  <2>2. CASE Expired
    <3>1. controls' = Neutral /\ age' = 0
      BY <1>4, <2>2, Zenon DEF PollEnd, Release, ControlsRelease
    <3> QED
      BY <2>1, <3>1 DEF PcTypeOK, Held
  <2>3. CASE ~Expired
    <3>1. UNCHANGED <<age, controls>>
      BY <1>4, <2>3, Zenon DEF PollEnd
    <3> QED
      BY <2>1, <2>3, <3>1 DEF Expired, PcTypeOK, Held
  <2> QED
    BY <2>2, <2>3
<1>5. ASSUME Tick
      PROVE  PcTypeOK' /\ Held'
  BY <1>5 DEF Tick, PcTypeOK, Held
<1>6. ASSUME NEW up \in BOOLEAN, PcConnection(up)
      PROVE  PcTypeOK' /\ Held'
  BY <1>6 DEF PcConnection, Release, ControlsRelease, PcTypeOK, Held
<1>7. ASSUME UNCHANGED pcAll
      PROVE  PcTypeOK' /\ Held'
  BY <1>7 DEF pcAll, pcVars, PcTypeOK, Held
<1> QED
  BY <1>1, <1>2, <1>3, <1>4, <1>5, <1>6, <1>7 DEF PcNext

\* Types: neither the queue nor a poll ever exceeds its size, for any sizes.
THEOREM PcTypeCorrect == PcSpec => []PcTypeOK
<1>1. PcInit /\ ControlsInit => PcTypeOK /\ Held
  BY PcInitTyped
<1>2. (PcTypeOK /\ Held) /\ [PcNext]_pcAll => (PcTypeOK /\ Held)'
  BY PcStep
<1> QED
  BY <1>1, <1>2, PTL DEF PcSpec, PcStart, pcAll

\* The dead-man's switch: whatever the PC sends and whenever the console comes
\* and goes, controls are held for a connected console only, and never longer
\* than the timeout plus the lateness of the run loop.
THEOREM DeadManHolds == PcSpec => []DeadMan
<1>1. PcInit /\ ControlsInit => PcTypeOK /\ Held
  BY PcInitTyped
<1>2. (PcTypeOK /\ Held) /\ [PcNext]_pcAll => (PcTypeOK /\ Held)'
  BY PcStep
<1>3. Held => DeadMan
  BY DEF Held, DeadMan
<1> QED
  BY <1>1, <1>2, <1>3, PTL DEF PcSpec, PcStart, pcAll

-----------------------------------------------------------------------------

\* What one command does to the loaded flag and the presented tag.
LEMMA CommandLoads ==
    ASSUME NEW l \in AnyLine, Command(l)
    PROVE  \/ tagLoaded' = TRUE /\ tag' \in Tags
           \/ tagLoaded' = FALSE /\ tag' = NoTag
           \/ tagLoaded' = tagLoaded /\ tag' = tag
<1>1. CASE l.cmd = "load"
  BY <1>1, LineArguments DEF Command, PcLoad, NfcLoad
<1>2. CASE l.cmd = "unload"
  BY <1>2 DEF Command, PcUnload, NfcUnload
<1>3. CASE l.cmd \in {"state", "release", "other"}
  BY <1>3 DEF Command, ApplyState, nfcVars
<1> QED
  BY <1>1, <1>2, <1>3, LineArguments

\* A step keeps the agreement of the flag and the tag.
LEMMA LoadedStep ==
    ASSUME PcTypeOK, LoadedIsPresented, [PcNext]_pcAll
    PROVE  LoadedIsPresented'
<1>1. CASE PollCommand
  <2>1. Head(commands) \in AnyLine /\ Command(Head(commands))
    BY <1>1, HeadTailProperties DEF PollCommand, PcTypeOK
  <2>2. \/ tagLoaded' = TRUE /\ tag' \in Tags
        \/ tagLoaded' = FALSE /\ tag' = NoTag
        \/ tagLoaded' = tagLoaded /\ tag' = tag
    BY <2>1, CommandLoads
  <2> QED
    BY <2>2, NfcAssumption DEF LoadedIsPresented
<1>2. CASE ~PollCommand
  <2>1. tagLoaded' = tagLoaded /\ tag' = tag
    BY <1>2 DEF PcNext, ReaderLine, PollBegin, PollEnd, Tick, PcConnection,
                NfcReset, nfcVars, pcVars, pcAll
  <2> QED
    BY <2>1 DEF LoadedIsPresented
<1> QED
  BY <1>1, <1>2

\* The firmware tells the PC a tag is loaded exactly while the NFC
\* microcontroller presents one.
THEOREM LoadedIsPresentedHolds == PcSpec => []LoadedIsPresented
<1>1. PcInit /\ NfcInit => LoadedIsPresented
  BY DEF PcInit, NfcInit, LoadedIsPresented
<1>2. PcTypeOK /\ LoadedIsPresented /\ [PcNext]_pcAll => LoadedIsPresented'
  BY LoadedStep
<1> QED
  BY <1>1, <1>2, PcTypeCorrect, PTL DEF PcSpec, PcStart, pcAll

-----------------------------------------------------------------------------

\* What a step that presses a control must be.
Presses ==
    controls' # controls /\ controls' # Neutral =>
        linked /\ linked' /\ polling /\ Head(commands) = StateLine(controls')

\* No step but a state command of a connected PC presses a control.
LEMMA PressStep ==
    ASSUME PcTypeOK, [PcNext]_pcAll
    PROVE  Presses
<1>1. CASE PollCommand
  <2>1. Head(commands) \in AnyLine /\ Command(Head(commands))
    BY <1>1, HeadTailProperties DEF PollCommand, PcTypeOK
  <2>2. CASE Head(commands).cmd = "state"
    <3>1. ApplyState(Head(commands).arg)
      BY <2>1, <2>2 DEF Command
    <3>2. Head(commands) = StateLine(Head(commands).arg)
      BY <2>1, <2>2
         DEF AnyLine, StateLine, LoadLine, ReleaseLine, UnloadLine, OtherLine
    <3>3. polling /\ linked' = linked
      BY <1>1 DEF PollCommand
    <3> QED
      BY <3>1, <3>2, <3>3
         DEF Presses, ApplyState, Release, ControlsRelease
  <2>3. CASE Head(commands).cmd # "state"
    BY <2>1, <2>3, LineArguments
       DEF Command, PcLoad, PcUnload, Release, ControlsRelease, Presses
  <2> QED
    BY <2>2, <2>3
<1>2. CASE ~PollCommand
  <2>1. controls' = controls \/ controls' = Neutral
    BY <1>2 DEF PcNext, ReaderLine, PollBegin, PollEnd, Tick, PcConnection,
                Release, ControlsRelease, pcAll
  <2> QED
    BY <2>1 DEF Presses
<1> QED
  BY <1>1, <1>2

\* Controls leave neutral only by a state command that is applied in a poll
\* while a console is connected, for any queue, clock and connections.
THEOREM OnlyStatesPressHolds == PcSpec => OnlyStatesPress
<1>1. PcTypeOK /\ [PcNext]_pcAll => [Presses]_pcAll
  BY PressStep
<1> QED
  BY <1>1, PcTypeCorrect, PTL DEF PcSpec, PcStart, OnlyStatesPress, Presses, pcAll

-----------------------------------------------------------------------------

\* One command is a line the device executes: what it does to the tag and to what
\* is held, and whether it is done.
LEMMA CommandExecutes ==
    ASSUME NEW l \in AnyLine, Command(l), linked \in BOOLEAN
    PROVE  \E ok \in BOOLEAN : Device!Effect(l, ok)
<1>1. CASE l.cmd = "state"
  <2>1. ApplyState(l.arg)
    BY <1>1 DEF Command
  <2>2. controls' = (IF linked THEN l.arg ELSE Neutral) /\ tag' = tag
    BY <2>1 DEF ApplyState, Release, ControlsRelease, nfcVars
  <2>3. CASE linked = TRUE
    <3>1. controls' = l.arg
      BY <2>2, <2>3
    <3>2. Device!Effect(l, TRUE)
      BY <1>1, <2>2, <2>3, <3>1, Zenon DEF Device!Effect
    <3> QED BY <3>2
  <2>4. CASE linked = FALSE
    <3>1. controls' = Neutral
      BY <2>2, <2>4
    <3>2. Device!Effect(l, FALSE)
      BY <1>1, <2>2, <2>4, <3>1, Zenon DEF Device!Effect
    <3> QED BY <3>2
  <2> QED BY <2>3, <2>4
<1>2. CASE l.cmd = "release"
  <2>1. Device!Effect(l, TRUE)
    BY <1>2 DEF Command, Release, ControlsRelease, nfcVars, Device!Effect
  <2> QED BY <2>1
<1>3. CASE l.cmd = "load"
  <2>1. Device!Effect(l, TRUE)
    BY <1>3 DEF Command, PcLoad, NfcLoad, Device!Effect
  <2> QED BY <2>1
<1>4. CASE l.cmd = "unload"
  <2>1. Device!Effect(l, TRUE)
    BY <1>4 DEF Command, PcUnload, NfcUnload, Device!Effect
  <2> QED BY <2>1
<1>5. CASE l.cmd = "other"
  <2>1. Device!Effect(l, TRUE)
    BY <1>5 DEF Command, nfcVars, Device!Effect
  <2> QED BY <2>1
<1> QED
  BY <1>1, <1>2, <1>3, <1>4, <1>5, LineArguments

\* Every step of the PC control is a step of the device a PC program is checked
\* against, or one it does not see.
LEMMA DeviceStep ==
    ASSUME PcTypeOK, PcTypeOK', [PcNext]_pcAll
    PROVE  [Device!DeviceNext]_(Device!deviceVars)
<1> USE DEF Device!DeviceNext, Device!deviceVars
<1>1. ASSUME NEW l \in PcLines, ReaderLine(l) PROVE Device!Arrive(l)
  BY <1>1 DEF ReaderLine, nfcVars, Device!Arrive, Device!Receive
<1>2. ASSUME PollCommand PROVE \E ok \in BOOLEAN : Device!Execute(ok)
  <2>1. Head(commands) \in AnyLine /\ Command(Head(commands))
    BY <1>2, HeadTailProperties DEF PollCommand, PcTypeOK
  <2>2. PICK ok \in BOOLEAN : Device!Effect(Head(commands), ok)
    BY <2>1, CommandExecutes DEF PcTypeOK
  <2>3. commands # <<>> /\ commands' = Tail(commands) /\ linked' = linked
    BY <1>2 DEF PollCommand
  <2> QED BY <2>2, <2>3 DEF Device!Execute
<1>3. ASSUME PollEnd PROVE Device!LetGo \/ UNCHANGED Device!deviceVars
  BY <1>3 DEF PollEnd, Release, ControlsRelease, nfcVars, Device!LetGo
<1>4. ASSUME NEW up \in BOOLEAN, PcConnection(up), tag' = tag PROVE Device!Console
  BY <1>4 DEF PcConnection, Release, ControlsRelease, PcTypeOK, Device!Console
<1>5. CASE PollBegin \/ Tick \/ UNCHANGED pcAll
  BY <1>5 DEF PollBegin, Tick, pcAll, pcVars, nfcVars
<1> QED
  BY <1>1, <1>2, <1>3, <1>4, <1>5 DEF PcNext, NfcReset, nfcVars

\* The firmware is the device the PC programs count on, for every size of its queue
\* and whatever lines they send: lines are executed in the order in which they came
\* or are lost, and nothing is held for a console that is not there.
THEOREM ServesPcHolds == PcSpec => ServesPc
<1>1. PcStart => Device!DeviceInit
  BY DEF PcStart, PcInit, ControlsInit, NfcInit, Device!DeviceInit
<1>2. PcTypeOK /\ PcTypeOK' /\ [PcNext]_pcAll
      => [Device!DeviceNext]_(Device!deviceVars)
  BY DeviceStep
<1> QED
  BY <1>1, <1>2, PcTypeCorrect, PTL DEF PcSpec, pcAll, ServesPc, Device!DeviceSpec
=============================================================================
