------------------------------- MODULE PcDevice -------------------------------
(***************************************************************************)
(* The device as a PC program sees it through the serial line: lines that  *)
(* wait in a short queue and are lost when it is full, a tag, a console    *)
(* that may be there, and the controls held for it.  main/pc_control.c,    *)
(* modelled in PcControl, implements it (PcControl!ServesPc); the programs *)
(* of pc/ are checked against it.                                          *)
(***************************************************************************)
EXTENDS Sequences, Naturals

CONSTANTS
    LineQueue,  \* lines that wait in the device
    Lines,      \* the lines a PC may send: records with a cmd and an arg
    NoTag,      \* no tag is loaded
    Neutral     \* nothing is held

VARIABLES
    lines,      \* lines received and not executed yet
    tag,        \* the image loaded
    up,         \* a console is connected
    held        \* the controls the console is shown

deviceVars == <<lines, tag, up, held>>

DeviceInit == lines = <<>> /\ tag = NoTag /\ up = FALSE /\ held = Neutral

\* A line arrives; one that finds the queue full is lost.
Receive(queue, l) == IF Len(queue) < LineQueue THEN Append(queue, l) ELSE queue
Arrive(l) == lines' = Receive(lines, l) /\ UNCHANGED <<tag, up, held>>

\* What a line does, and whether it is answered as done: a state is refused
\* while no console is there, a load when it was damaged on its way.
Effect(l, ok) ==
    \/ /\ l.cmd = "state"
       /\ ok = up
       /\ held' = IF up THEN l.arg ELSE Neutral
       /\ UNCHANGED tag
    \/ /\ l.cmd = "load"
       /\ tag' = IF ok THEN l.arg ELSE tag
       /\ UNCHANGED held
    \/ l.cmd = "unload"  /\ ok /\ tag' = NoTag /\ UNCHANGED held
    \/ l.cmd = "release" /\ ok /\ held' = Neutral /\ UNCHANGED tag
    \/ l.cmd \in {"status", "other"} /\ ok /\ UNCHANGED <<tag, held>>

Execute(ok) ==
    /\ lines # <<>>
    /\ Effect(Head(lines), ok)
    /\ lines' = Tail(lines)
    /\ UNCHANGED up

\* No state for too long: the device lets go of the controls.
LetGo == held' = Neutral /\ UNCHANGED <<lines, tag, up>>

\* The console connects or goes.
Console == up' \in BOOLEAN /\ held' = Neutral /\ UNCHANGED <<lines, tag>>

\* The device loses its power, and with it all it had in memory.
Restart == lines' = <<>> /\ tag' = NoTag /\ up' = FALSE /\ held' = Neutral

DeviceNext ==
    \/ \E l \in Lines : Arrive(l)
    \/ \E ok \in BOOLEAN : Execute(ok)
    \/ LetGo
    \/ Console
    \/ Restart

DeviceSpec == DeviceInit /\ [][DeviceNext]_deviceVars
=============================================================================
