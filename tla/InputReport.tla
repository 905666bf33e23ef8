----------------------------- MODULE InputReport -----------------------------
(***************************************************************************)
(* The controls on their way from the PC to the console: the table BUTTONS *)
(* of pc/protocol.py, the fields of controller_state_t and the builders of *)
(* main/input_report.c, which show them in two layouts: the header of full *)
(* reports and the short report 0x3F.  A byte of buttons is the set of its *)
(* bits; sticks are packed as in the code.  The IMU frames are constant    *)
(* and left out, and so is the virtual grip, which no caller ever turns on *)
(* (btstack_hid.c:78, 254, 269, pc_control.c:35).                          *)
(***************************************************************************)
EXTENDS Integers, FiniteSets

CONSTANTS
    Axis,       \* positions of an axis, some of 0..4095
    MaxHeld     \* bound: buttons held at once

ASSUME ReportAssumption == Axis \subseteq 0..4095 /\ MaxHeld \in Nat

VARIABLES
    pressed,    \* names of buttons held on the PC
    lx, ly      \* the left stick; the right one is packed in the same way

reportVars == <<pressed, lx, ly>>

\* BUTTONS of protocol.py: the field and the bit of each name.
Bit(field, n) == [field |-> field, n |-> n]
BUTTONS ==
    [Y |-> Bit("r", 0), X |-> Bit("r", 1), B |-> Bit("r", 2), A |-> Bit("r", 3),
     R |-> Bit("r", 6), ZR |-> Bit("r", 7), L |-> Bit("l", 6), ZL |-> Bit("l", 7),
     Down |-> Bit("l", 0), Up |-> Bit("l", 1), Right |-> Bit("l", 2),
     Left |-> Bit("l", 3), Minus |-> Bit("s", 0), Plus |-> Bit("s", 1),
     RS |-> Bit("s", 2), LS |-> Bit("s", 3), Home |-> Bit("s", 4),
     Capture |-> Bit("s", 5)]
Names == DOMAIN BUTTONS

\* state_for(pressed, axes), a field of the state command.
StateFor(field) == {BUTTONS[b].n : b \in {x \in pressed : BUTTONS[x].field = field}}

-----------------------------------------------------------------------------
(* The builders.  On the console's side of the line the fields hold the      *)
(* masks BTN_* of controller_state.h.                                        *)

\* input_report_fill_header(): bytes 3 to 5.
FullRight  == StateFor("r")
FullShared == StateFor("s")
FullLeft   == StateFor("l")

\* A fault of the short report: the masks of the sticks' buttons are swapped.
SwappedMask ==
    << Bit("r", 0), Bit("r", 2), Bit("r", 3), Bit("r", 1), Bit("l", 6), Bit("r", 6),
       Bit("l", 7), Bit("r", 7), Bit("s", 0), Bit("s", 1), Bit("s", 2), Bit("s", 3),
       Bit("s", 4), Bit("s", 5) >>

\* input_report_build_0x3F(): where each of the bits of bytes 1 and 2 comes from.
ShortMask ==
    << Bit("r", 0), Bit("r", 2), Bit("r", 3), Bit("r", 1), Bit("l", 6), Bit("r", 6),
       Bit("l", 7), Bit("r", 7), Bit("s", 0), Bit("s", 1), Bit("s", 3), Bit("s", 2),
       Bit("s", 4), Bit("s", 5) >>
ShortButtons == {n \in 0..13 : ShortMask[n + 1].n \in StateFor(ShortMask[n + 1].field)}

\* The hat switch, byte 3: opposite directions cancel; 8 is neutral.
Hat(left) ==
    LET bit(n) == IF n \in left THEN 1 ELSE 0
        x == bit(2) - bit(3)
        y == bit(0) - bit(1)
    IN  CASE y = -1 -> (IF x = -1 THEN 7 ELSE IF x = 1 THEN 1 ELSE 0)
          [] y = 1  -> (IF x = -1 THEN 5 ELSE IF x = 1 THEN 3 ELSE 4)
          [] y = 0  -> (IF x = -1 THEN 6 ELSE IF x = 1 THEN 2 ELSE 8)

\* pack_stick(): two numbers of 12 bits in three bytes.
PackStick(x, y) == <<x % 256, (x \div 256) + (y % 16) * 16, y \div 16>>

\* The sticks of the short report, bytes 4 to 11: two bytes for an axis, the low
\* one first, as the report's descriptor says (btstack_hid.c:62).  The right stick is
\* at rest.
ShortSticks ==
    LET axes == <<lx, ly, 2048, 2048>>
        value(i) == axes[i] * 16
    IN [b \in 4..11 |-> IF b % 2 = 0 THEN value((b - 2) \div 2) % 256
                                    ELSE value((b - 3) \div 2) \div 256]

-----------------------------------------------------------------------------

\* Keys and buttons, and sticks.
Toggle(b) ==
    /\ pressed' = IF b \in pressed THEN pressed \ {b} ELSE pressed \cup {b}
    /\ Cardinality(pressed') <= MaxHeld
    /\ UNCHANGED <<lx, ly>>

Move(x, y) == lx' = x /\ ly' = y /\ UNCHANGED pressed

ReportInit == pressed = {} /\ lx = 2048 /\ ly = 2048

ReportNext ==
    \/ \E b \in Names : Toggle(b)
    \/ \E x, y \in Axis : Move(x, y)

ReportSpec == ReportInit /\ [][ReportNext]_reportVars

-----------------------------------------------------------------------------
(* How a console reads the reports: the tables of buttons in the comments at *)
(* input_report.c:14-16 (full) and :121-123 (short).  Two other comments     *)
(* disagree with these and with the code: controller_state.h:49 lists the    *)
(* shared byte as "- + LS RS Home Capture", although the masks above it have *)
(* the right stick's button first (:29-30), and input_report.c:124-126 gives *)
(* the short report's sticks one byte for an axis, where the loop at :165    *)
(* and the descriptor (btstack_hid.c:62) have two.                           *)

ReadsRight  == <<"Y", "X", "B", "A", "R-SR", "R-SL", "R", "ZR">>
ReadsShared == <<"Minus", "Plus", "RS", "LS", "Home", "Capture">>
ReadsLeft   == <<"Down", "Up", "Right", "Left", "L-SR", "L-SL", "L", "ZL">>
ReadsShort  == <<"Y", "B", "A", "X", "L", "R", "ZL", "ZR", "Minus", "Plus", "LS",
                 "RS", "Home", "Capture">>
ReadsHat    == <<{"Up"}, {"Up", "Right"}, {"Right"}, {"Down", "Right"}, {"Down"},
                 {"Down", "Left"}, {"Left"}, {"Up", "Left"}, {}>>

Decoded(table, bits) == {table[n + 1] : n \in bits}

InFull ==
    Decoded(ReadsRight, FullRight) \cup Decoded(ReadsShared, FullShared)
        \cup Decoded(ReadsLeft, FullLeft)
InShort ==
    Decoded(ReadsShort, ShortButtons) \cup ReadsHat[Hat(StateFor("l")) + 1]

Directions == {"Up", "Down", "Left", "Right"}
Opposite == [Up |-> "Down", Down |-> "Up", Left |-> "Right", Right |-> "Left"]

\* What is pressed by its name on the PC is what the console reads in a full
\* report: the bits of protocol.py:4-10 and the layout of input_report.c:14-16
\* agree, through builders that copy the bytes.
FullShowsPressed == InFull = pressed

\* The short report, converted by the masks of controller_state.h:17-42, shows the
\* same buttons in the layout of input_report.c:121-123 and the same directions, of
\* which opposite ones cancel (input_report.c:134-162).
ShortShowsPressed ==
    /\ InShort \ Directions = InFull \ Directions
    /\ InShort \cap Directions =
         {d \in InFull \cap Directions : Opposite[d] \notin InFull}

\* A stick packed into three bytes is read back, at the edges of the 12 bits and
\* of the bytes and in any combination, and in the short report as 16 bits
\* (input_report.c:61, 166).
StickSurvives ==
    LET p == PackStick(lx, ly)
    IN /\ \A i \in 1..3 : p[i] \in 0..255
       /\ p[1] + (p[2] % 16) * 256 = lx
       /\ (p[2] \div 16) + p[3] * 16 = ly
       /\ ShortSticks[4] + ShortSticks[5] * 256 = lx * 16
       /\ ShortSticks[6] + ShortSticks[7] * 256 = ly * 16

\* Whatever mode the console chose, it reads the controls the PC holds: the bits of
\* protocol.py:4, the masks, the layouts of input_report.c:14 and :121 and the two
\* packings of a stick, all written by hand, agree.
ShowsControls == FullShowsPressed /\ ShortShowsPressed /\ StickSurvives
=============================================================================
