------------------------------- MODULE Heartbeat -------------------------------
(***************************************************************************)
(* The state commands as a heartbeat, in time: tick() of pc/controller.py  *)
(* every 50 ms, its timeouts of 250 ms for a state and of 3 s for the      *)
(* link, and the 500 ms after which main/pc_control.c lets go of the       *)
(* controls.  PcApp has all the logic without the clock; here is only the  *)
(* steady state, a console connected and a button held, with a clock of    *)
(* units of 10 ms.  Commands and answers take up to MaxDelay each, the wait   *)
(* for the link's thread and the device's poll included.                   *)
(***************************************************************************)
EXTENDS Naturals

CONSTANTS
    Period,     \* of tick(), 5
    Lag,        \* what after() may add to it
    Expiry,     \* a state without a reply expires after it, 25
    Release,    \* the device lets go after it, 50
    Dead,       \* a link without replies is given up after it, 300
    MaxDelay,   \* a line or an answer takes no longer
    MaxLosses,  \* lines and answers lost in a row, until a reply is handled
    None        \* no age

ASSUME HeartbeatAssumption ==
    /\ Period \in Nat \ {0} /\ Lag \in Nat
    /\ Expiry \in Nat /\ Release \in Nat /\ Dead \in Nat /\ MaxLosses \in Nat
    /\ None \notin Nat
    /\ MaxDelay \in Nat /\ 2 * MaxDelay < Expiry

\* From a state to the one that takes its place, when neither it nor its answer
\* came through.
Resend == Expiry + Period + Lag

\* The margins of the timeouts: with the times of the code, 49 of 50 units, and
\* 50 of 300.
ASSUME MarginAssumption ==
    /\ 2 * MaxDelay + Period + Lag + MaxLosses * Resend <= Release
    /\ 2 * MaxDelay + Period + 2 * Lag + MaxLosses * Resend <= Dead

VARIABLES
    pending,    \* the age of the state that waits for its reply, None without
    command,    \* the age of a command on its way
    answer,     \* the age of an answer on its way
    arrived,    \* a reply waits for the tick
    since,      \* the age of the last state the device applied
    quiet,      \* the time since the last reply was handled
    losses,     \* lost in a row
    phase       \* the time since the last tick

beatVars == <<pending, command, answer, arrived, since, quiet, losses, phase>>

BeatInit ==
    /\ pending = None /\ command = None /\ answer = None
    /\ arrived = FALSE
    /\ since = 0 /\ quiet = 0 /\ losses = 0
    /\ phase = Period

-----------------------------------------------------------------------------

\* A fault of the timeouts: a state expires as late as a status.
ExpiredAsStatus(age) == age > 4 * Expiry

Expired(age) == age > Expiry

\* tick(): the replies, the timeouts, the next state when none is waited for.
Tick ==
    /\ phase >= Period
    /\ phase' = 0
    /\ arrived' = FALSE
    /\ quiet' = IF arrived THEN 0 ELSE quiet
    /\ losses' = IF arrived THEN 0 ELSE losses
    /\ LET waits == ~arrived /\ pending # None /\ ~Expired(pending)
       IN IF waits THEN UNCHANGED <<pending, command>>
                   ELSE pending' = 0 /\ command' = 0
    /\ UNCHANGED <<answer, since>>

\* The device applies a state: last_state is now.
Applies ==
    /\ command # None
    /\ command' = None
    /\ since' = 0
    /\ answer' = 0
    /\ UNCHANGED <<pending, arrived, quiet, losses, phase>>

Arrives ==
    /\ answer # None
    /\ answer' = None
    /\ arrived' = TRUE
    /\ UNCHANGED <<pending, command, since, quiet, losses, phase>>

\* A line is lost, or an answer.
Loses ==
    /\ losses < MaxLosses
    /\ losses' = losses + 1
    /\ \/ command # None /\ command' = None /\ UNCHANGED answer
       \/ answer # None  /\ answer' = None  /\ UNCHANGED command
    /\ UNCHANGED <<pending, arrived, since, quiet, phase>>

\* A unit passes: tick() is not overdue, and nothing is on its way for too long.
\* Beyond its limit an age counts no further.
UpTo(limit, age) == IF age > limit THEN limit ELSE age
Older(age) == IF age = None THEN None ELSE age + 1
Passes ==
    /\ phase < Period + Lag
    /\ command # None => command < MaxDelay
    /\ answer  # None => answer < MaxDelay
    /\ phase' = phase + 1
    /\ pending' = Older(pending)
    /\ command' = Older(command)
    /\ answer'  = Older(answer)
    /\ since' = UpTo(Release + 1, since + 1)
    /\ quiet' = UpTo(Dead + 1, quiet + 1)
    /\ UNCHANGED <<arrived, losses>>

BeatNext == Tick \/ Applies \/ Arrives \/ Loses \/ Passes

BeatSpec == BeatInit /\ [][BeatNext]_beatVars

-----------------------------------------------------------------------------

\* One lost command or answer, however late in its turn, does not make the device
\* let go of a button that is held (pc_control.c:126): the state that takes the
\* place of the lost one (controller.py:377) is there within 500 ms of the last.
\* Nor does the application give the link up: "an isolated missing controller
\* reply no longer ... disconnects a device that continues answering"
\* (PC_CONTROL.md:84).
StaysHeld == since <= Release /\ quiet <= Dead
=============================================================================
