---------------------------- MODULE MCBtstackHid ----------------------------
(* Instances of the firmware, one set of stimuli for each run.               *)
EXTENDS BtstackHid, TLC

CONSTANTS a, neutral, t1

MCControls == {a, neutral}

\* Replies: subcommands that are answered, rejected ones, the report modes.
ReplyOutputs ==
    {Output("ack", 0), Output("power", 2)}
      \cup {Output("mode", m) : m \in {Mode30, Mode3F}}

NoLines == {}

\* The dead-man's switch up to the console: one setting, and its removal.
PressLines == {StateLine(a), ReleaseLine}
AckOutputs == {Output("ack", 0)}
NoOutputs == {}

\* A tag read in mode 0x31, step by step.
NfcOutputs ==
    {Output("mode", Mode31), Output("power", 1), Output("config", 4),
     Output("status", 0), Output("read", 0)}
TagLines == {LoadLine(t1)}

\* Numbers are only compared by their distance, modulo TimerMod, and no step or
\* property of that run looks at `answered': states that differ in no more than
\* where the numbers begin are one.
FromLast(n) == (n + TimerMod - lastNumber) % TimerMod
LinkView ==
    << controls, nfcVars, pcVars, mode, enabled, FromLast(timer), hidVars,
       connected, sendPending, timerArmed, skipped, lost, shown,
       [i \in DOMAIN replies |->
          [replies[i] EXCEPT !.number = FromLast(@)]] >>
=============================================================================
