----------------------------- MODULE SwitchProto -----------------------------
(***************************************************************************)
(* The Switch protocol of main/switch_proto.c: the output reports of the   *)
(* console, the input report mode they select, and the timer byte that     *)
(* numbers every report the controller builds.                             *)
(*                                                                         *)
(* An output report is what it asks for and a number, 0 if none matters:   *)
(*   "ack"     a subcommand that is acknowledged and changes nothing, with *)
(*             data or without (device info, flash reads, lights, IMU,     *)
(*             vibration, and every subcommand the code does not know)     *)
(*   "mode"    0x03, the input report mode                                 *)
(*   "config"  0x21, the MCU mode        "power"  0x22, the MCU's power    *)
(*   a request of NfcRequests, in report 0x11                              *)
(*   "rumble"  report 0x10, an unknown report or one that is too short     *)
(* Contents of a reply that depend on nothing that changes are left out.   *)
(***************************************************************************)
EXTENDS NfcMcu, ControllerState

CONSTANTS
    HostOutputs,    \* the output reports the console may send
    TimerMod        \* values of the timer byte, 256 in the code

Mode30 == 48    \* full reports
Mode31 == 49    \* full reports with an MCU packet
Mode3F == 63    \* short reports, without a timer byte
Modes  == {Mode30, Mode31, Mode3F}

Output(op, arg) == [op |-> op, arg |-> arg]

\* Arguments the handlers ignore (mode 0) or reject (2) are there, too.
AnyOutput ==
    {Output(op, 0) : op \in {"ack", "rumble"} \cup NfcRequests}
      \cup {Output("mode", m) : m \in Modes \cup {0}}
      \cup {Output("config", m) : m \in PowerStates \cup {2}}
      \cup {Output("power", v) : v \in {0, 1, 2}}

ASSUME ProtoAssumption ==
    /\ HostOutputs \subseteq AnyOutput
    /\ TimerMod \in Nat /\ TimerMod > 1

VARIABLES
    mode,       \* s_stream_mode
    enabled,    \* s_stream_enabled
    timer       \* s_timer, the number of the next report

protoVars == <<mode, enabled, timer>>

ProtoInit ==
    /\ mode = Mode30
    /\ enabled = FALSE
    /\ timer = 0

After(t) == (t + 1) % TimerMod

-----------------------------------------------------------------------------

\* A fault of switch_proto_init(): the numbers of the last connection go on.
ResetKeepsTimer ==
    /\ NfcReset
    /\ mode' = Mode30
    /\ enabled' = FALSE
    /\ UNCHANGED timer

\* switch_proto_init(), for every connection.
ProtoReset ==
    /\ NfcReset
    /\ mode' = Mode30
    /\ enabled' = FALSE
    /\ timer' = 0

\* The reply report: its number and the controls of the moment it is built.
Reply == [number |-> timer, held |-> controls]

\* Whether an output report is answered by a 0x21 reply.  MCU configurations
\* and power states that are rejected are not, nor is report 0x11.
Replies(o) ==
    \/ o.op \in {"ack", "mode"}
    \/ o.op = "config" /\ o.arg \in PowerStates
    \/ o.op = "power" /\ o.arg \in {0, 1}

\* switch_proto_handle_output() and the handlers it dispatches to, up to the
\* sending of the reply, whose number is spent even if it cannot be queued.
HandleOutput(o) ==
    /\ timer' = IF Replies(o) THEN After(timer) ELSE timer
    /\ IF o.op = "mode" /\ o.arg \in Modes
       THEN mode' = o.arg /\ enabled' = TRUE
       ELSE UNCHANGED <<mode, enabled>>
    /\ \/ o.op = "config" /\ o.arg \in PowerStates /\ NfcConfig(o.arg)
       \/ o.op = "power" /\ o.arg \in {0, 1} /\ NfcPower(o.arg)
       \/ o.op \in NfcRequests /\ NfcCommand(o.op)
       \/ /\ o.op \in {"ack", "mode", "rumble"} \/ o.arg = 2
          /\ UNCHANGED nfcVars

\* switch_proto_next_timer()
NextTimer == timer' = After(timer)

-----------------------------------------------------------------------------

\* Types: the timer byte wraps.
ProtoTypeOK ==
    /\ mode \in Modes
    /\ enabled \in BOOLEAN
    /\ timer \in 0..(TimerMod - 1)

\* What the header says of switch_proto_stream_enabled(): "Returns true after
\* the host explicitly selects input mode 0x30." (switch_proto.h:52).  The code
\* sets it for modes 0x31 and 0x3F as well.
EnabledByMode30 == [][~enabled /\ enabled' => mode' = Mode30]_protoVars
=============================================================================
