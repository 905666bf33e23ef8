--------------------------- MODULE ControllerState ---------------------------
(***************************************************************************)
(* The one controller_state_t of main/controller_state.c: buttons and      *)
(* sticks, written by the PC's commands and read by every report the       *)
(* console is sent.  A value stands for a setting of all of them.          *)
(***************************************************************************)
CONSTANTS
    Controls,   \* the settings a PC may ask for
    Neutral     \* no button pressed, both sticks centred

ASSUME ControlsAssumption == Neutral \in Controls

VARIABLE controls   \* s_ctrl_state

\* The zero-initialised static has its sticks at 0 until the first connection
\* initialises it; no report is built before that, so it starts as Neutral.
ControlsInit == controls = Neutral

\* controller_state_init()
ControlsRelease == controls' = Neutral
=============================================================================
