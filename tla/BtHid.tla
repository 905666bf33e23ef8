-------------------------------- MODULE BtHid --------------------------------
(***************************************************************************)
(* The Bluedroid transport, main/bt_hid.c: two tasks send reports, the     *)
(* esp_timer task one every 15 ms and Bluedroid's BTC task, which runs the *)
(* callbacks, the replies to the console's output reports.  A flag that    *)
(* both test and set without the mutex lets a report go only when the one  *)
(* before is done; a report that finds it set is dropped.  The number of   *)
(* a report, s_timer, is read and written by both tasks, too.              *)
(*                                                                         *)
(* A task is modelled from one access to shared memory to the next.  The   *)
(* stack (external) takes reports, refuses them, and tells the end of each *)
(* it took, also when it could not send it; a connection that goes takes   *)
(* its reports with it.  Modes, discovery and pairing are left out.        *)
(***************************************************************************)
EXTENDS Naturals

CONSTANTS
    TimerMod,   \* values of the timer byte, 256 in the code
    StackRoom   \* bound: reports in the stack

ASSUME BtAssumption == TimerMod \in Nat \ {0} /\ StackRoom \in Nat \ {0}

VARIABLES
    s_connected,
    s_send_in_progress,
    s_timer,        \* s_timer of switch_proto.c
    s_input_timer,  \* the esp_timer exists
    task,           \* for "timer" and "btc", where it is and the number it read
    stack           \* the link, and reports taken: input reports, and the
                    \* answers to GET_REPORT

btVars == <<s_connected, s_send_in_progress, s_timer, s_input_timer, task, stack>>

Tasks == {"timer", "btc"}
At(step, number) == [at |-> step, number |-> number]

BtInit ==
    /\ s_connected = FALSE
    /\ s_send_in_progress = FALSE
    /\ s_timer = 0
    /\ s_input_timer = FALSE
    /\ task = [t \in Tasks |-> At("idle", 0)]
    /\ stack = [up |-> FALSE, taken |-> 0, asked |-> 0]

Goes(t, step, number) == task' = [task EXCEPT ![t] = At(step, number)]

-----------------------------------------------------------------------------
(* The two senders.                                                          *)

\* input_report_timer_cb(): a report is built.
TimerFires ==
    /\ s_input_timer
    /\ task["timer"].at = "idle"
    /\ s_connected
    /\ Goes("timer", "numbers", s_timer)
    /\ UNCHANGED <<s_connected, s_send_in_progress, s_timer, s_input_timer, stack>>

\* INTR_DATA and SET_REPORT: an output report that is answered with a reply.
OutputArrives ==
    /\ stack.up
    /\ task["btc"].at = "idle"
    /\ Goes("btc", "numbers", s_timer)
    /\ UNCHANGED <<s_connected, s_send_in_progress, s_timer, s_input_timer, stack>>

\* switch_proto_next_timer() and send_subcmd_reply(): the number is written back.
Numbers(t) ==
    /\ task[t].at = "numbers"
    /\ s_timer' = (task[t].number + 1) % TimerMod
    /\ Goes(t, "checks", task[t].number)
    /\ UNCHANGED <<s_connected, s_send_in_progress, s_input_timer, stack>>

\* bt_hid_send_input_report(): no connection, or a report under way, and the
\* report is dropped.
Checks(t) ==
    /\ task[t].at = "checks"
    /\ Goes(t, IF ~s_connected \/ s_send_in_progress THEN "idle" ELSE "marks",
            task[t].number)
    /\ UNCHANGED <<s_connected, s_send_in_progress, s_timer, s_input_timer, stack>>

Marks(t) ==
    /\ task[t].at = "marks"
    /\ s_send_in_progress' = TRUE
    /\ Goes(t, "sends", task[t].number)
    /\ UNCHANGED <<s_connected, s_timer, s_input_timer, stack>>

\* A fault of the error path: the flag stays.
SendsOnly(t, accepted) ==
    /\ task[t].at = "sends"
    /\ accepted => stack.taken < StackRoom
    /\ stack' = [stack EXCEPT !.taken = IF accepted THEN @ + 1 ELSE @]
    /\ Goes(t, "idle", 0)
    /\ UNCHANGED <<s_connected, s_send_in_progress, s_timer, s_input_timer>>

\* The stack takes the report or refuses it.
Sends(t, accepted) ==
    /\ task[t].at = "sends"
    /\ accepted => stack.taken < StackRoom
    /\ stack' = [stack EXCEPT !.taken = IF accepted THEN @ + 1 ELSE @]
    /\ s_send_in_progress' = (accepted /\ s_send_in_progress)
    /\ Goes(t, "idle", 0)
    /\ UNCHANGED <<s_connected, s_timer, s_input_timer>>

-----------------------------------------------------------------------------
(* The other callbacks, in the BTC task.                                     *)

\* GET_REPORT: a report is sent past the flag.
GetReport ==
    /\ stack.up
    /\ task["btc"].at = "idle"
    /\ stack.asked < StackRoom
    /\ stack' = [stack EXCEPT !.asked = @ + 1]
    /\ UNCHANGED <<s_connected, s_send_in_progress, s_timer, s_input_timer, task>>

\* SEND_REPORT: a report of either kind is done, sent or not.
ReportSent ==
    /\ task["btc"].at = "idle"
    /\ \/ stack.taken > 0 /\ stack' = [stack EXCEPT !.taken = @ - 1]
       \/ stack.asked > 0 /\ stack' = [stack EXCEPT !.asked = @ - 1]
    /\ s_send_in_progress' = FALSE
    /\ UNCHANGED <<s_connected, s_timer, s_input_timer, task>>

\* OPEN: the flag and the protocol start anew, and the timer if there is none.
Open ==
    /\ task["btc"].at = "idle"
    /\ stack.up
    /\ ~s_connected
    /\ s_connected' = TRUE
    /\ s_send_in_progress' = FALSE
    /\ s_timer' = 0
    /\ s_input_timer' = TRUE
    /\ UNCHANGED <<task, stack>>

\* CLOSE: the timer is stopped, which does not wait for a callback that runs.
Close ==
    /\ task["btc"].at = "idle"
    /\ ~stack.up
    /\ s_connected
    /\ s_connected' = FALSE
    /\ s_send_in_progress' = FALSE
    /\ s_input_timer' = FALSE
    /\ UNCHANGED <<s_timer, task, stack>>

\* The console connects, or goes: reports on their way may end without a word.
LinkUp ==
    /\ ~stack.up /\ ~s_connected
    /\ stack' = [stack EXCEPT !.up = TRUE]
    /\ UNCHANGED <<s_connected, s_send_in_progress, s_timer, s_input_timer, task>>

LinkDown ==
    /\ stack.up /\ s_connected
    /\ \E n \in 0..stack.taken, m \in 0..stack.asked :
          stack' = [up |-> FALSE, taken |-> n, asked |-> m]
    /\ UNCHANGED <<s_connected, s_send_in_progress, s_timer, s_input_timer, task>>

BtNext ==
    \/ TimerFires
    \/ OutputArrives
    \/ \E t \in Tasks : Numbers(t) \/ Checks(t) \/ Marks(t)
    \/ \E t \in Tasks, accepted \in BOOLEAN : Sends(t, accepted)
    \/ GetReport
    \/ ReportSent
    \/ Open
    \/ Close
    \/ LinkUp
    \/ LinkDown

\* The tasks run, the timer fires, the stack tells what it did and the link's
\* events reach the BTC task; nothing makes the console connect or stay.
BtFairness ==
    /\ WF_btVars(TimerFires)
    /\ \A t \in Tasks : WF_btVars(Numbers(t) \/ Checks(t) \/ Marks(t))
    /\ \A t \in Tasks : WF_btVars(\E accepted \in BOOLEAN : Sends(t, accepted))
    /\ SF_btVars(ReportSent)
    /\ SF_btVars(Open)
    /\ SF_btVars(Close)

BtSpec == BtInit /\ [][BtNext]_btVars /\ BtFairness

-----------------------------------------------------------------------------

\* Types, and the timer of reports exists just while a connection does.
BtTypeOK ==
    /\ s_connected \in BOOLEAN /\ s_send_in_progress \in BOOLEAN
    /\ s_timer \in 0..(TimerMod - 1)
    /\ s_input_timer = s_connected
    /\ task \in [Tasks -> [at : {"idle", "numbers", "checks", "marks", "sends"},
                           number : 0..(TimerMod - 1)]]
    /\ stack \in [up : BOOLEAN, taken : 0..StackRoom, asked : 0..StackRoom]

\* The flag is never set with nobody left to clear it: neither two tasks that both
\* found it clear (bt_hid.c:719-724), nor a refused report, nor a connection that
\* goes in between leave the controller silent for good.
SomeoneClears ==
    s_send_in_progress =>
        \/ stack.taken + stack.asked > 0
        \/ \E t \in Tasks : task[t].at = "sends"
        \/ ~stack.up \/ ~s_connected

\* Reports go on while the console is there: again and again one is taken or
\* refused by the stack, whatever is dropped in between.
KeepsSending ==
    []<>(~s_connected \/ ~stack.up \/ \E t \in Tasks : task[t].at = "sends")

\* "If the Bluedroid stack is still processing the previous report, drop this
\* report. This avoids a backlog in the L2CAP buffer" (bt_hid.c:713-715).
NoBacklog == stack.taken <= 1
=============================================================================
