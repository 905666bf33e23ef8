------------------------------ MODULE PcSession ------------------------------
(***************************************************************************)
(* The command-line session of pc/session.py on the device of PcDevice:    *)
(* the main thread sends a command, waits up to three seconds for the      *)
(* reply with its id and drops all others; a reader thread fills the       *)
(* queue of replies and, when it is full, removes the oldest.              *)
(*                                                                         *)
(* Every method is cut where it waits: run_session(), press() and send()   *)
(* are the program point `doing' and what the thread waits for.  Time is   *)
(* abstracted: the deadline may pass whenever the queue was found empty.   *)
(* Ctrl-C may come at any point.  The log file is not modelled.            *)
(***************************************************************************)
EXTENDS PcDevice

CONSTANTS
    Controls,       \* what press may press, Neutral excepted
    Images,         \* what load may load
    Faults,         \* what may go wrong: "noise" on the line, the "port"
    Slots,          \* sizes of the queue of replies, 128 in the code
    Transit,        \* answers on their way that the reader has not read
    MaxSeq          \* bound: commands sent before the last release

ASSUME SessionAssumption ==
    /\ LineQueue \in Nat \ {0}
    /\ Transit \in Nat \ {0}
    /\ Slots \subseteq Nat \ {0}
    /\ Neutral \notin Controls
    /\ MaxSeq \in Nat

VARIABLES
    session,    \* the main thread
    reader,     \* the reader thread, and the reply it has in hand
    replies,    \* the queue between the two
    answers     \* answers of the device on their way

sessionVars == <<session, reader, replies, answers>>
vars == <<session, reader, replies, answers, lines, tag, up, held>>

\* Where run_session() is: the first status, the prompt, a command, the loop of
\* press(), its release, the last release, the end.
Points == {"first", "prompt", "single", "pressing", "releasing", "last", "closed"}

\* `slots' is the size of the queue; `waits' says what send() is at: "no" command
\* is on its way, it waits for the "reply", or found the queue "empty"; `freed' is
\* history: the last release was confirmed and nothing was pressed since;
\* `interrupted', that Ctrl-C waits for the release of press() to end.
SessionInit ==
    /\ \E n \in Slots :
          session = [slots |-> n, doing |-> "first", waits |-> "no", seq |-> 0,
                     cmd |-> "status", freed |-> FALSE, interrupted |-> FALSE]
    /\ reader = [at |-> "reads", reply |-> [id |-> 0, ok |-> FALSE]]
    /\ replies = <<>>
    /\ answers = <<>>

SessionStart == SessionInit /\ DeviceInit

-----------------------------------------------------------------------------
(* The main thread. *)

\* How send() ends, and where its caller `doing' is then: an error of the first
\* status ends the session, and so does Ctrl-C or a write that fails, after the
\* release of press(); when that release ends with an error of its own, this one
\* takes the place of the other, and the session goes on.
After(doing, how) ==
    CASE doing = "first" ->
           IF how = "ok" THEN "prompt" ELSE "last"
      [] doing = "single" ->
           IF how = "interrupt" THEN "last" ELSE "prompt"
      [] doing = "pressing" ->
           IF how = "ok" THEN "pressing" ELSE "releasing"
      [] doing = "releasing" ->
           IF how = "interrupt" \/ (how = "ok" /\ session.interrupted)
           THEN "last" ELSE "prompt"
      [] doing = "last" -> "closed"

\* send() of `doing' ends in the session s.
Ended(s, doing, how) ==
    [s EXCEPT !.doing = After(doing, how), !.waits = "no",
              !.freed = @ \/ (how = "ok" /\ session.cmd = "release"),
              !.interrupted = doing = "pressing" /\ how = "interrupt"]

Ends(how) == session' = Ended(session, session.doing, how)

\* send(), up to the loop: the line is written; noise makes it a line that the
\* device does not understand and answers with the id 0, or loses it.  A write
\* that fails, whatever the device received, ends send() as Ctrl-C does: nobody
\* catches its error (session.py:121).
Send(doing, cmd, arg) ==
    /\ session.waits = "no"
    /\ LET sent == [session EXCEPT !.doing = doing, !.waits = "reply", !.seq = @ + 1,
                                   !.cmd = cmd, !.freed = @ /\ cmd # "state"]
           line == [id |-> sent.seq, cmd |-> cmd, arg |-> arg]
       IN \/ /\ session' = sent
             /\ \/ lines' = Receive(lines, line)
                \/ /\ "noise" \in Faults
                   /\ lines' \in {Receive(lines, [id |-> 0, cmd |-> "other", arg |-> arg]),
                                 lines}
          \/ /\ "port" \in Faults
             /\ session' = Ended(sent, doing, "interrupt")
             /\ lines' \in {Receive(lines, line), lines}
    /\ UNCHANGED <<reader, replies, answers, tag, up, held>>

\* The commands: the first status, then what the user types.
First == session.doing = "first" /\ Send("first", "status", Neutral)

Single(cmd, arg) ==
    /\ session.doing = "prompt"
    /\ session.seq < MaxSeq
    /\ Send("single", cmd, arg)

\* A fault of press(): states are sent without a look at the replies.
PressBlindly(c) ==
    /\ session.doing \in {"prompt", "pressing"}
    /\ session.waits = "no"
    /\ session.seq < MaxSeq
    /\ session' = [session EXCEPT !.doing = "pressing", !.seq = @ + 1,
                                 !.cmd = "state", !.freed = FALSE]
    /\ lines' = Receive(lines, [id |-> session'.seq, cmd |-> "state", arg |-> c])
    /\ UNCHANGED <<reader, replies, answers, tag, up, held>>

\* press(): states while it lasts, then a release.
Press(c) ==
    /\ session.doing \in {"prompt", "pressing"}
    /\ session.seq < MaxSeq
    /\ Send("pressing", "state", c)

EndPress ==
    /\ session.doing \in {"pressing", "releasing"}
    /\ Send("releasing", "release", Neutral)

Quit ==
    /\ session.doing = "prompt"
    /\ session' = [session EXCEPT !.doing = "last"]
    /\ UNCHANGED <<reader, replies, answers, deviceVars>>

LastRelease == session.doing = "last" /\ Send("last", "release", Neutral)

\* A fault of send(): it takes any reply for its own.
TakeAny ==
    /\ session.waits # "no"
    /\ replies # <<>>
    /\ replies' = Tail(replies)
    /\ Ends(IF Head(replies).ok THEN "ok" ELSE "error")
    /\ UNCHANGED <<reader, answers, deviceVars>>

\* replies.get(): a reply with another id is dropped.
Take ==
    /\ session.waits # "no"
    /\ replies # <<>>
    /\ replies' = Tail(replies)
    /\ IF Head(replies).id # session.seq
       THEN session' = [session EXCEPT !.waits = "reply"]
       ELSE Ends(IF Head(replies).ok THEN "ok" ELSE "error")
    /\ UNCHANGED <<reader, answers, deviceVars>>

\* replies.get() finds nothing; the loop goes on, or the deadline has passed.
FindsNone ==
    /\ session.waits = "reply"
    /\ replies = <<>>
    /\ session' = [session EXCEPT !.waits = "empty"]
    /\ UNCHANGED <<reader, replies, answers, deviceVars>>

Deadline ==
    /\ session.waits = "empty"
    /\ Ends("error")
    /\ UNCHANGED <<reader, replies, answers, deviceVars>>

\* send() finds the error of the reader.
SeesError ==
    /\ session.waits # "no"
    /\ reader.at = "dead"
    /\ Ends("error")
    /\ UNCHANGED <<reader, replies, answers, deviceVars>>

\* Ctrl-C: in a method, also before it writes its line, at the prompt, or between
\* the loop of press() and the release.
Interrupt ==
    /\ \/ session.doing \notin {"prompt", "closed"} /\ Ends("interrupt")
       \/ /\ session.waits = "no"
          /\ session.doing \in {"prompt", "pressing"}
          /\ session' = [session EXCEPT !.doing = "last"]
    /\ UNCHANGED <<reader, replies, answers, deviceVars>>

-----------------------------------------------------------------------------
(* The reader thread, and the device. *)

\* A fault of the reader: the queue takes any number of replies.
ReadsAnyway ==
    /\ reader.at = "reads"
    /\ answers # <<>>
    /\ answers' = Tail(answers)
    /\ replies' = Append(replies, Head(answers))
    /\ UNCHANGED <<session, reader, deviceVars>>

\* A line is read and put into the queue if there is room.
Reads ==
    /\ reader.at = "reads"
    /\ answers # <<>>
    /\ answers' = Tail(answers)
    /\ IF Len(replies) < session.slots
       THEN replies' = Append(replies, Head(answers)) /\ UNCHANGED reader
       ELSE /\ reader' = [at |-> "full", reply |-> Head(answers)]
            /\ UNCHANGED replies
    /\ UNCHANGED <<session, deviceVars>>

\* The queue was full: get_nowait(), which fails if it is empty by now, and
\* put_nowait().
MakesRoom ==
    /\ reader.at = "full"
    /\ IF replies = <<>>
       THEN reader' = [reader EXCEPT !.at = "dead"] /\ UNCHANGED replies
       ELSE reader' = [reader EXCEPT !.at = "room"] /\ replies' = Tail(replies)
    /\ UNCHANGED <<session, answers, deviceVars>>

Puts ==
    /\ reader.at = "room"
    /\ replies' = Append(replies, reader.reply)
    /\ reader' = [reader EXCEPT !.at = "reads"]
    /\ UNCHANGED <<session, answers, deviceVars>>

\* Reading from the port fails.
PortFails ==
    /\ "port" \in Faults
    /\ reader' = [reader EXCEPT !.at = "dead"]
    /\ UNCHANGED <<session, replies, answers, deviceVars>>

\* The device executes a line; its answer may be lost.
Answers(ok, lost) ==
    /\ Execute(ok)
    /\ IF lost THEN "noise" \in Faults /\ UNCHANGED answers
       ELSE /\ Len(answers) < Transit
            /\ answers' = Append(answers, [id |-> Head(lines).id, ok |-> ok])
    /\ UNCHANGED <<session, reader, replies>>

DeviceChanges == (LetGo \/ Console \/ Restart) /\ UNCHANGED sessionVars

SessionNext ==
    \/ First
    \/ \E cmd \in {"status", "unload", "release"} : Single(cmd, Neutral)
    \/ \E i \in Images : Single("load", i)
    \/ \E c \in Controls : Press(c)
    \/ EndPress
    \/ Quit
    \/ LastRelease
    \/ Take
    \/ FindsNone
    \/ Deadline
    \/ SeesError
    \/ Interrupt
    \/ Reads
    \/ PortFails
    \/ \E ok, lost \in BOOLEAN : Answers(ok, lost)
    \/ DeviceChanges
    \/ MakesRoom
    \/ Puts

SessionSpec == SessionStart /\ [][SessionNext]_vars

-----------------------------------------------------------------------------

Answer == [id : Nat, ok : BOOLEAN]
SentLine == [id : Nat, cmd : {"state", "load", "unload", "release", "status", "other"},
             arg : Controls \cup Images \cup {Neutral}]

\* Types; the queues keep their bounds, and no reply is for a command to come.
SessionTypeOK ==
    /\ session \in [slots : Slots, doing : Points, waits : {"no", "reply", "empty"},
                    seq : Nat, freed : BOOLEAN, interrupted : BOOLEAN,
                    cmd : {"status", "state", "load", "unload", "release"}]
    /\ reader \in [at : {"reads", "full", "room", "dead"}, reply : Answer]
    /\ replies \in Seq(Answer) /\ Len(replies) <= session.slots
    /\ answers \in Seq(Answer) /\ Len(answers) <= Transit
    /\ lines \in Seq(SentLine) /\ Len(lines) <= LineQueue
    /\ \A i \in DOMAIN replies : replies[i].id <= session.seq
    /\ \A i \in DOMAIN answers : answers[i].id <= session.seq
    /\ \A i \in DOMAIN lines : lines[i].id <= session.seq

\* What `Botones liberados.' tells (session.py:118): once a release was confirmed,
\* no state of the press before it, lost, late or given up, holds a button any
\* more or still may.
Released ==
    session.freed =>
        /\ held = Neutral
        /\ \A i \in DOMAIN lines : lines[i].cmd # "state"

\* The reader never has to remove a reply (session.py:64), and never dies of a
\* queue that the caller emptied meanwhile: send() takes what the commands
\* given up before left behind, so that no more replies wait than are on their
\* way at once, and two.
NothingDropped ==
    session.slots > LineQueue + Transit + 2 => reader.at \notin {"full", "room"}
=============================================================================
