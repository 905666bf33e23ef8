------------------------------ MODULE PcControl ------------------------------
(***************************************************************************)
(* The PC's serial commands, main/pc_control.c: a reader task puts the     *)
(* lines of the UART into a short FreeRTOS queue, and a 10 ms timer of the *)
(* BTstack run loop takes at most PollBatch of them, applies them and      *)
(* releases the controls when the last state is too old.                   *)
(*                                                                         *)
(* The reader is a task of its own: it may add a line between any two      *)
(* steps, also in the middle of a poll.  Time is counted in ticks; the run *)
(* loop may be late by PollSlack ticks, never by more.                     *)
(*                                                                         *)
(* A line is its command and its argument.  Lines that are refused by      *)
(* command() before it changes anything (bad JSON, ranges, CRC, UID check) *)
(* and status queries are the command "other"; lines longer than the       *)
(* buffer never reach the queue.                                           *)
(***************************************************************************)
EXTENDS NfcMcu, ControllerState

CONSTANTS
    PcLines,    \* the lines the PC may send
    LineQueue,  \* slots of the FreeRTOS queue, 4 in the code
    PollBatch,  \* commands of one poll, 4 in the code
    Timeout,    \* ticks that stand for the 500 ms
    PollSlack   \* ticks from one timeout check to the next, at most

StateLine(c) == [cmd |-> "state", arg |-> c]
LoadLine(t)  == [cmd |-> "load",  arg |-> t]
ReleaseLine  == [cmd |-> "release", arg |-> Neutral]
UnloadLine   == [cmd |-> "unload",  arg |-> NoTag]
OtherLine    == [cmd |-> "other",   arg |-> NoTag]

AnyLine == {StateLine(c) : c \in Controls} \cup {LoadLine(t) : t \in Tags}
             \cup {ReleaseLine, UnloadLine, OtherLine}

ASSUME PcAssumption ==
    /\ PcLines \subseteq AnyLine
    /\ LineQueue \in Nat \ {0}
    /\ PollBatch \in Nat \ {0}
    /\ Timeout \in Nat
    /\ PollSlack \in Nat

VARIABLES
    commands,   \* the FreeRTOS queue
    polling,    \* the run loop is inside pc_control_poll()
    left,       \* commands it may still take
    age,        \* 0: last_state is 0, otherwise 1 + the ticks since it was set
    sincePoll,  \* ticks since the last timeout check
    linked,     \* a console is connected
    tagLoaded   \* tag_loaded

pcVars == <<commands, polling, left, age, sincePoll, linked, tagLoaded>>

PcInit ==
    /\ commands = <<>>
    /\ polling = FALSE
    /\ left = 0
    /\ age = 0
    /\ sincePoll = 0
    /\ linked = FALSE
    /\ tagLoaded = FALSE

-----------------------------------------------------------------------------

\* A fault of release(): the last state is forgotten, the controls are not.
ReleaseForgets == age' = 0 /\ UNCHANGED controls

\* release(): neutral controls, and no state to grow old.
Release == ControlsRelease /\ age' = 0

\* pc_control_connection(): the queue and a poll are left as they are.
PcConnection(up) ==
    /\ linked' = up
    /\ Release
    /\ UNCHANGED <<commands, polling, left, sincePoll, tagLoaded>>

\* A fault of the reader: it does not find the queue full.
ReaderOverrun(l) ==
    /\ commands' = Append(commands, l)
    /\ UNCHANGED <<polling, left, age, sincePoll, linked, tagLoaded, controls,
                   nfcVars>>

\* A fault of the reader: a full queue loses its oldest line.
ReaderEvicts(l) ==
    /\ commands' = IF Len(commands) < LineQueue
                   THEN Append(commands, l) ELSE Append(Tail(commands), l)
    /\ UNCHANGED <<polling, left, age, sincePoll, linked, tagLoaded, controls,
                   nfcVars>>

\* The reader task has a complete line; a full queue loses it.
ReaderLine(l) ==
    /\ commands' = IF Len(commands) < LineQueue
                   THEN Append(commands, l) ELSE commands
    /\ UNCHANGED <<polling, left, age, sincePoll, linked, tagLoaded, controls,
                   nfcVars>>

\* A fault: the state is applied whether a console is connected or not.
ApplyAnyState(c) == controls' = c /\ age' = 1 /\ UNCHANGED <<tagLoaded, nfcVars>>

\* The "state" command: refused, and the controls released, while no console
\* is connected.
ApplyState(c) ==
    /\ IF linked
       THEN controls' = c /\ age' = 1
       ELSE Release
    /\ UNCHANGED <<tagLoaded, nfcVars>>

\* The "load" command, of an image that passed the checks.
PcLoad(t) == NfcLoad(t) /\ tagLoaded' = TRUE /\ UNCHANGED <<age, controls>>

\* A fault: the removal is not noted.
UnloadForgets == NfcUnload /\ UNCHANGED <<tagLoaded, age, controls>>

\* The "unload" command.
PcUnload == NfcUnload /\ tagLoaded' = FALSE /\ UNCHANGED <<age, controls>>

\* command(): one line, inside the run loop.
Command(l) ==
    \/ l.cmd = "state"   /\ ApplyState(l.arg)
    \/ l.cmd = "release" /\ Release /\ UNCHANGED <<tagLoaded, nfcVars>>
    \/ l.cmd = "load"    /\ PcLoad(l.arg)
    \/ l.cmd = "unload"  /\ PcUnload
    \/ l.cmd = "other"   /\ UNCHANGED <<age, controls, tagLoaded, nfcVars>>

\* pc_control_poll(): its start, one command, and the timeout check it ends
\* with.
PollBegin ==
    /\ ~polling
    /\ polling' = TRUE
    /\ left' = PollBatch
    /\ UNCHANGED <<commands, age, sincePoll, linked, tagLoaded, controls,
                   nfcVars>>

PollCommand ==
    /\ polling
    /\ left > 0
    /\ commands # <<>>
    /\ Command(Head(commands))
    /\ commands' = Tail(commands)
    /\ left' = left - 1
    /\ UNCHANGED <<polling, sincePoll, linked>>

\* A fault of the timeout check: it waits for the queue to be drained.
ExpiredWhenDrained == commands = <<>> /\ age # 0 /\ age - 1 > Timeout

\* The last state is older than the timeout.
Expired == age # 0 /\ age - 1 > Timeout

PollEnd ==
    /\ polling
    /\ left = 0 \/ commands = <<>>
    /\ IF Expired THEN Release ELSE UNCHANGED <<age, controls>>
    /\ polling' = FALSE
    /\ left' = 0
    /\ sincePoll' = 0
    /\ UNCHANGED <<commands, linked, tagLoaded, nfcVars>>

\* A tick of esp_timer_get_time(), at any moment.
Tick ==
    /\ sincePoll < PollSlack
    /\ sincePoll' = sincePoll + 1
    /\ age' = IF age = 0 THEN 0 ELSE age + 1
    /\ UNCHANGED <<commands, polling, left, linked, tagLoaded, controls,
                   nfcVars>>

\* A new connection also resets the microcontroller (btstack_hid.c:258-259).
PcNext ==
    \/ \E l \in PcLines : ReaderLine(l)
    \/ PollBegin
    \/ PollCommand
    \/ PollEnd
    \/ Tick
    \/ /\ ~polling
       /\ \E up \in BOOLEAN :
             PcConnection(up) /\ IF up THEN NfcReset ELSE UNCHANGED nfcVars

PcStart == PcInit /\ ControlsInit /\ NfcInit

PcSpec == PcStart /\ [][PcNext]_<<pcVars, controls, nfcVars>>

-----------------------------------------------------------------------------

\* Types: the queue and a poll never exceed their sizes.
PcTypeOK ==
    /\ controls \in Controls
    /\ commands \in Seq(AnyLine)
    /\ Len(commands) <= LineQueue
    /\ polling \in BOOLEAN
    /\ left \in 0..PollBatch
    /\ age \in Nat
    /\ sincePoll \in 0..PollSlack
    /\ linked \in BOOLEAN
    /\ tagLoaded \in BOOLEAN

\* The dead-man's switch ("a missing state refresh releases after 500ms",
\* pc_control.c:141): whatever the PC sends, however full the queue is and
\* whenever the console comes and goes, controls are held only for a connected
\* console and for at most the timeout plus the lateness of the run loop.
DeadMan ==
    controls # Neutral =>
        linked /\ age # 0 /\ age - 1 <= Timeout + sincePoll

\* What the firmware tells the PC is presented is what the NFC microcontroller
\* presents: tag_loaded of one file and `present' of the other, through loads,
\* removals and reconnections.
LoadedIsPresented == tagLoaded <=> tag # NoTag

\* A console that disconnects takes the held controls with it, and a state
\* still queued from before does not bring them back until a console is there:
\* controls change away from neutral only by a state command of a connected
\* PC, never by the clock, the NFC commands or the connection itself.
OnlyStatesPress ==
    [][controls' # controls /\ controls' # Neutral =>
         /\ linked /\ linked'
         /\ polling
         /\ Head(commands) = StateLine(controls')]_<<pcVars, controls, nfcVars>>

\* What a PC program may count on: lines are executed in the order in which
\* they came or are lost, the tag follows the loads and removals, and nothing
\* is held for a console that is not there.
Device ==
    INSTANCE PcDevice WITH lines <- commands, tag <- tag, up <- linked,
                           held <- controls, Lines <- PcLines

ServesPc == Device!DeviceSpec
=============================================================================
