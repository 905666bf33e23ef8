--------------------------- MODULE PcSessionProofs ---------------------------
(***************************************************************************)
(* Theorems of PcSession.  What Released and NothingDropped rest on is     *)
(* that everything between the two programs keeps its order: lines, the    *)
(* answers to them, the reply in the reader's hand and the queue of        *)
(* replies are one line, and the reply with the number of the last command *)
(* is the last thing in it.                                                *)
(***************************************************************************)
EXTENDS PcSession, SequenceTheorems, TLAPS

Commands == {"status", "state", "load", "unload", "release"}
Arguments == Controls \cup Images \cup {Neutral}

\* The reader holds a reply that found no room.
InHand == reader.at \in {"full", "room"}

\* The number n is in the sequence s; it is nowhere but at its end.
Has(s, n) == \E i \in DOMAIN s : s[i].id = n
OnlyLast(s, n) == \A i \in DOMAIN s : s[i].id = n => i = Len(s)

\* What types need: send() has a caller, the reader's reply is not for a command
\* to come, and there is room when it made some.
Sound ==
    /\ session.waits # "no" => session.doing \notin {"prompt", "closed"}
    /\ reader.reply.id <= session.seq
    /\ reader.at = "room" => Len(replies) < session.slots

\* Nothing is behind the last command, nor behind the reply to it.
InOrder ==
    /\ OnlyLast(lines, session.seq)
    /\ OnlyLast(answers, session.seq)
    /\ OnlyLast(replies, session.seq)
    /\ Has(answers, session.seq) => lines = <<>>
    /\ InHand /\ reader.reply.id = session.seq => lines = <<>> /\ answers = <<>>
    /\ Has(replies, session.seq) =>
          lines = <<>> /\ answers = <<>> /\ ~InHand

\* The last command is what its line says, and if it was a release that has been
\* answered, the device has let go.
Answered ==
    \/ Has(answers, session.seq)
    \/ Has(replies, session.seq)
    \/ InHand /\ reader.reply.id = session.seq
LetsGo ==
    /\ \A i \in DOMAIN lines :
          lines[i].id = session.seq => lines[i].cmd = session.cmd
    /\ Answered /\ session.cmd = "release" => held = Neutral

\* How much may be on its way: what fits into the queues of the device and of the
\* line, a command that send() waits for, and those given up since it last found
\* the queue empty, by Ctrl-C in press(), in its release, and in the last one.
OnTheWay == Len(replies) + Len(answers) + Len(lines)
GivenUp ==
    CASE session.doing = "releasing" -> 1
      [] session.doing = "last"      -> 2
      [] session.doing = "closed"    -> 3
      [] OTHER                       -> 0
Asked == IF session.waits = "reply" THEN 1 ELSE 0
Wide == session.slots > LineQueue + Transit + 2
Bounded ==
    Wide /\ reader.at # "dead" =>
        /\ reader.at = "reads"
        /\ OnTheWay <= LineQueue + Transit + GivenUp + Asked
        /\ session.waits = "empty" => OnTheWay <= LineQueue + Transit

-----------------------------------------------------------------------------
(* Sequences of numbered records.                                          *)

LEMMA TailNumbers ==
    ASSUME NEW S, NEW s \in Seq(S), s # <<>>, NEW n
    PROVE  /\ Has(Tail(s), n) => Has(s, n)
           /\ OnlyLast(s, n) => OnlyLast(Tail(s), n)
           /\ OnlyLast(s, n) /\ Head(s).id = n => Tail(s) = <<>>
           /\ Head(s).id = n => Has(s, n)
           /\ Tail(s) \in Seq(S) /\ Head(s) \in S
           /\ Len(s) \in Nat /\ Len(Tail(s)) = Len(s) - 1
<1>1. /\ Tail(s) \in Seq(S) /\ Len(s) \in Nat /\ Len(s) >= 1
      /\ Len(Tail(s)) = Len(s) - 1 /\ Head(s) = s[1] /\ Head(s) \in S
      /\ DOMAIN s = 1..Len(s) /\ DOMAIN Tail(s) = 1..(Len(s) - 1)
      /\ \A i \in 1..(Len(s) - 1) : Tail(s)[i] = s[i + 1]
  BY HeadTailProperties
<1>2. \A i \in DOMAIN Tail(s) : i + 1 \in DOMAIN s /\ Tail(s)[i] = s[i + 1]
  BY <1>1
<1>3. Has(Tail(s), n) => Has(s, n)
  BY <1>2 DEF Has
<1>4. OnlyLast(s, n) => OnlyLast(Tail(s), n)
  BY <1>1, <1>2 DEF OnlyLast
<1>5. Head(s).id = n => Has(s, n)
  BY <1>1 DEF Has
<1>6. OnlyLast(s, n) /\ Head(s).id = n => Tail(s) = <<>>
  <2>1. ASSUME OnlyLast(s, n), Head(s).id = n PROVE Len(s) = 1
    BY <1>1, <2>1 DEF OnlyLast
  <2> QED BY <1>1, <2>1, EmptySeq
<1> QED BY <1>1, <1>3, <1>4, <1>5, <1>6

LEMMA AppendNumbers ==
    ASSUME NEW S, NEW s \in Seq(S), NEW e \in S, NEW n
    PROVE  /\ Has(Append(s, e), n) <=> Has(s, n) \/ e.id = n
           /\ ~Has(s, n) => OnlyLast(Append(s, e), n)
           /\ Append(s, e) \in Seq(S) /\ Len(s) \in Nat
           /\ Len(Append(s, e)) = Len(s) + 1 /\ Append(s, e) # <<>>
<1>1. /\ Append(s, e) \in Seq(S) /\ Len(s) \in Nat
      /\ Len(Append(s, e)) = Len(s) + 1
      /\ DOMAIN s = 1..Len(s) /\ DOMAIN Append(s, e) = 1..(Len(s) + 1)
      /\ \A i \in 1..Len(s) : Append(s, e)[i] = s[i]
      /\ Append(s, e)[Len(s) + 1] = e
  BY AppendProperties
<1>2. \A i \in DOMAIN Append(s, e) : i \in DOMAIN s \/ i = Len(s) + 1
  BY <1>1
<1>3. Len(s) + 1 \in DOMAIN Append(s, e) /\ \A i \in DOMAIN s : i \in DOMAIN Append(s, e)
  BY <1>1
<1>4. Has(Append(s, e), n) <=> Has(s, n) \/ e.id = n
  BY <1>1, <1>2, <1>3 DEF Has
<1>5. ~Has(s, n) => OnlyLast(Append(s, e), n)
  BY <1>1, <1>2 DEF Has, OnlyLast
<1>6. Append(s, e) # <<>>
  BY <1>1
<1> QED BY <1>1, <1>4, <1>5, <1>6

LEMMA EmptyNumbers == \A n : ~Has(<<>>, n) /\ OnlyLast(<<>>, n)
BY DEF Has, OnlyLast

\* Numbers up to n.
UpTo(s, n) == \A i \in DOMAIN s : s[i].id <= n

LEMMA NumbersUpTo ==
    ASSUME NEW S, NEW s \in Seq(S), NEW n \in Nat, UpTo(s, n)
    PROVE  /\ s # <<>> => UpTo(Tail(s), n) /\ Head(s).id <= n
           /\ \A e \in S : e.id <= n => UpTo(Append(s, e), n)
<1>1. ASSUME s # <<>> PROVE UpTo(Tail(s), n) /\ Head(s).id <= n
  <2>1. /\ Len(s) \in Nat /\ Len(s) >= 1 /\ Head(s) = s[1]
        /\ DOMAIN s = 1..Len(s) /\ DOMAIN Tail(s) = 1..(Len(s) - 1)
        /\ \A i \in 1..(Len(s) - 1) : Tail(s)[i] = s[i + 1]
    BY <1>1, HeadTailProperties
  <2>2. \A i \in DOMAIN Tail(s) : i + 1 \in DOMAIN s /\ Tail(s)[i] = s[i + 1]
    BY <2>1
  <2> QED BY <2>1, <2>2 DEF UpTo
<1>2. ASSUME NEW e \in S, e.id <= n PROVE UpTo(Append(s, e), n)
  <2>1. /\ Len(s) \in Nat
        /\ DOMAIN s = 1..Len(s) /\ DOMAIN Append(s, e) = 1..(Len(s) + 1)
        /\ \A i \in 1..Len(s) : Append(s, e)[i] = s[i]
        /\ Append(s, e)[Len(s) + 1] = e
    BY AppendProperties
  <2>2. \A i \in DOMAIN Append(s, e) : i \in DOMAIN s \/ i = Len(s) + 1
    BY <2>1
  <2> QED BY <1>2, <2>1, <2>2 DEF UpTo
<1> QED BY <1>1, <1>2

\* A number to come is not there yet.
LEMMA NextIsNew ==
    ASSUME NEW S, NEW s \in Seq(S), \A e \in S : e.id \in Nat,
           NEW n \in Nat, UpTo(s, n)
    PROVE  UpTo(s, n + 1) /\ ~Has(s, n + 1) /\ OnlyLast(s, n + 1)
<1>1. \A i \in DOMAIN s : s[i] \in S
  BY LenProperties
<1>2. \A i \in DOMAIN s : s[i].id \in Nat /\ s[i].id <= n
  BY <1>1 DEF UpTo
<1> QED BY <1>2 DEF UpTo, Has, OnlyLast

-----------------------------------------------------------------------------
(* What the steps do.                                                      *)

Sessions ==
    [slots : Slots, doing : Points, waits : {"no", "reply", "empty"},
     seq : Nat, freed : BOOLEAN, interrupted : BOOLEAN, cmd : Commands]
Hows == {"ok", "error", "interrupt"}

\* The main thread goes on, with its last command and all queues as they are.
SameCommand ==
    /\ session'.seq = session.seq
    /\ session'.cmd = session.cmd
    /\ session'.slots = session.slots
Turns ==
    /\ SameCommand
    /\ session'.freed = session.freed
    /\ UNCHANGED <<reader, replies, answers, lines, held>>

\* A command, sent by the loop that sent the last one, from the prompt, or as the
\* release of press().
Sending ==
    \E doing \in Points \ {"prompt", "closed"}, cmd \in Commands, arg \in Arguments :
        /\ session.doing \in {doing, "prompt"}
             \/ (session.doing = "pressing" /\ doing = "releasing")
        /\ Send(doing, cmd, arg)

LEMMA SendsTyped ==
    ASSUME session \in Sessions,
           NEW doing \in Points \ {"prompt", "closed"}, NEW cmd \in Commands,
           NEW arg, Send(doing, cmd, arg)
    PROVE  /\ session' \in Sessions
           /\ session'.slots = session.slots /\ session'.seq = session.seq + 1
           /\ session'.cmd = cmd
           /\ session'.freed = (session.freed /\ cmd # "state")
           /\ \/ session'.waits = "reply" /\ session'.doing = doing
              \/ session'.waits = "no" /\ session'.doing = After(doing, "interrupt")
<1> DEFINE freed == session.freed /\ cmd # "state"
           next == session.seq + 1
           sent == [session EXCEPT !.doing = doing, !.waits = "reply", !.seq = next,
                                   !.cmd = cmd, !.freed = freed]
           later == After(doing, "interrupt")
           stopped == doing = "pressing"
           failed == [sent EXCEPT !.doing = later, !.waits = "no",
                                  !.freed = sent.freed, !.interrupted = stopped]
<1>1. freed \in BOOLEAN /\ stopped \in BOOLEAN
  OBVIOUS
<1>2. next \in Nat
  BY DEF Sessions
<1>3. /\ doing \in Points /\ later \in Points
      /\ "reply" \in {"no", "reply", "empty"} /\ "no" \in {"no", "reply", "empty"}
  BY DEF After, Points
<1>4. session' = sent \/ session' = failed
  BY DEF Send, Ended
<1> HIDE DEF freed, next, later, stopped
<1>5. /\ sent \in Sessions
      /\ sent.slots = session.slots /\ sent.seq = next /\ sent.cmd = cmd
      /\ sent.doing = doing /\ sent.waits = "reply" /\ sent.freed = freed
  BY <1>1, <1>2, <1>3 DEF Sessions
<1>6. /\ failed \in Sessions
      /\ failed.slots = sent.slots /\ failed.seq = sent.seq /\ failed.cmd = sent.cmd
      /\ failed.doing = later /\ failed.waits = "no" /\ failed.freed = sent.freed
  <2> HIDE DEF sent
  <2>1. sent.freed \in BOOLEAN
    BY <1>1, <1>5
  <2> QED BY <1>1, <1>3, <1>5, <2>1 DEF Sessions
<1> QED
  <2> HIDE DEF sent, failed
  <2> QED BY <1>4, <1>5, <1>6 DEF freed, next, later

\* What the device may get of a line.
LEMMA WritesLine ==
    ASSUME session \in Sessions, NEW doing, NEW cmd, NEW arg, Send(doing, cmd, arg)
    PROVE  \/ lines' = Receive(lines, [id |-> session.seq + 1, cmd |-> cmd, arg |-> arg])
           \/ lines' = Receive(lines, [id |-> 0, cmd |-> "other", arg |-> arg])
           \/ lines' = lines
<1> DEFINE sent == [session EXCEPT !.doing = doing, !.waits = "reply", !.seq = @ + 1,
                                   !.cmd = cmd, !.freed = @ /\ cmd # "state"]
           line == [id |-> sent.seq, cmd |-> cmd, arg |-> arg]
<1>1. sent.seq = session.seq + 1
  BY DEF Sessions
<1>2. \/ lines' = Receive(lines, line)
      \/ lines' = Receive(lines, [id |-> 0, cmd |-> "other", arg |-> arg])
      \/ lines' = lines
  BY Zenon DEF Send
<1> QED BY <1>1, <1>2

LEMMA EndsTyped ==
    ASSUME session \in Sessions, session.doing \notin {"prompt", "closed"},
           NEW how \in Hows, Ends(how)
    PROVE  /\ session' \in Sessions /\ SameCommand
           /\ session'.waits = "no"
           /\ session'.doing = After(session.doing, how)
           /\ session'.freed = (session.freed \/ (how = "ok" /\ session.cmd = "release"))
<1>1. After(session.doing, how) \in Points
  BY DEF After, Sessions, Points, Hows
<1> QED BY <1>1 DEF Ends, Ended, Sessions, SameCommand

LEMMA Steps ==
    ASSUME [SessionNext]_vars
    PROVE  \/ Sending \/ Take
           \/ Quit \/ FindsNone \/ Deadline \/ SeesError \/ Interrupt
           \/ Reads \/ MakesRoom \/ Puts \/ PortFails
           \/ \E ok, lost \in BOOLEAN : Answers(ok, lost)
           \/ DeviceChanges
           \/ UNCHANGED vars
<1>1. ASSUME First \/ EndPress \/ LastRelease PROVE Sending
  BY <1>1 DEF First, EndPress, LastRelease, Sending, Points, Commands, Arguments
<1>2. ASSUME NEW cmd \in {"status", "unload", "release"}, Single(cmd, Neutral)
      PROVE  Sending
  BY <1>2 DEF Single, Sending, Points, Commands, Arguments
<1>3. ASSUME NEW i \in Images, Single("load", i) PROVE Sending
  BY <1>3 DEF Single, Sending, Points, Commands, Arguments
<1>4. ASSUME NEW c \in Controls, Press(c) PROVE Sending
  BY <1>4 DEF Press, Sending, Points, Commands, Arguments
<1> QED BY <1>1, <1>2, <1>3, <1>4 DEF SessionNext

LEMMA Changes ==
    ASSUME SessionTypeOK, Sound, [SessionNext]_vars
    PROVE  \/ Sending \/ Turns \/ Take
           \/ Reads \/ MakesRoom \/ Puts \/ PortFails
           \/ \E ok, lost \in BOOLEAN : Answers(ok, lost)
           \/ DeviceChanges
<1>0. session \in Sessions
  BY DEF SessionTypeOK, Sessions, Commands
<1>5. ASSUME session.doing \notin {"prompt", "closed"},
             NEW how \in {"error", "interrupt"}, Ends(how),
             UNCHANGED <<reader, replies, answers, deviceVars>>
      PROVE  Turns
  <2>1. how \in Hows /\ how # "ok"
    BY DEF Hows
  <2>2. SameCommand /\ session'.freed = (session.freed \/ FALSE)
    BY <1>0, <1>5, <2>1, EndsTyped
  <2>3. session.freed \in BOOLEAN
    BY <1>0 DEF Sessions
  <2> QED BY <1>5, <2>2, <2>3 DEF Turns, deviceVars
<1>6. ASSUME Deadline \/ SeesError PROVE Turns
  BY <1>5, <1>6 DEF Deadline, SeesError, Sound
<1>7. ASSUME Quit \/ FindsNone PROVE Turns
  BY <1>0, <1>7 DEF Quit, FindsNone, Turns, SameCommand, deviceVars, Sessions
<1>8. ASSUME Interrupt PROVE Turns
  <2>1. CASE session.doing \notin {"prompt", "closed"} /\ Ends("interrupt")
    BY <1>5, <1>8, <2>1 DEF Interrupt
  <2>2. CASE session' = [session EXCEPT !.doing = "last"]
    BY <1>0, <1>8, <2>2
       DEF Interrupt, Turns, SameCommand, deviceVars, Sessions
  <2> QED BY <1>8, <2>1, <2>2 DEF Interrupt
<1>9. ASSUME UNCHANGED vars PROVE Turns
  BY <1>9 DEF vars, Turns, SameCommand
<1> QED
  BY <1>6, <1>7, <1>8, <1>9, Steps

-----------------------------------------------------------------------------
(* Types.                                                                  *)

\* The main thread's part of a step.
LEMMA SessionStep ==
    ASSUME SessionTypeOK, Sound, [SessionNext]_vars
    PROVE  /\ session' \in Sessions
           /\ session'.waits # "no" => session'.doing \notin {"prompt", "closed"}
<1> DEFINE Goal == /\ session' \in Sessions
                   /\ session'.waits # "no" => session'.doing \notin {"prompt", "closed"}
<1>0. /\ session \in Sessions
      /\ session.waits # "no" => session.doing \notin {"prompt", "closed"}
  BY DEF SessionTypeOK, Sessions, Commands, Sound
<1>1. ASSUME session' = session PROVE Goal
  BY <1>0, <1>1
<1>2. ASSUME NEW doing \in Points \ {"prompt", "closed"}, NEW cmd \in Commands, NEW arg,
             Send(doing, cmd, arg)
      PROVE  Goal
  BY <1>0, <1>2, SendsTyped
<1>3. ASSUME session.doing \notin {"prompt", "closed"}, NEW how \in Hows, Ends(how)
      PROVE  Goal
  BY <1>0, <1>3, EndsTyped
<1>4. ASSUME session.waits = "no", NEW doing \in Points,
             session' = [session EXCEPT !.doing = doing]
      PROVE  Goal
  BY <1>0, <1>4 DEF Sessions
<1>5. ASSUME session.waits # "no", NEW waits \in {"reply", "empty"},
             session' = [session EXCEPT !.waits = waits]
      PROVE  Goal
  BY <1>0, <1>5 DEF Sessions
<1>6. CASE Sending
  BY <1>2, <1>6 DEF Sending
<1>7. CASE Take
  <2>1. CASE Head(replies).id # session.seq
    BY <1>5, <1>7, <2>1 DEF Take
  <2>2. CASE Head(replies).id = session.seq
    <3>1. Ends("ok") \/ Ends("error")
      BY <1>7, <2>2 DEF Take
    <3> QED BY <1>0, <1>3, <1>7, <3>1 DEF Take, Hows
  <2> QED BY <2>1, <2>2
<1>8. ASSUME Quit \/ FindsNone PROVE Goal
  <2>1. ASSUME Quit PROVE Goal
    <3>1. session.waits = "no" /\ "last" \in Points
      BY <1>0, <2>1 DEF Quit, Points
    <3> QED BY <1>4, <2>1, <3>1 DEF Quit
  <2>2. ASSUME FindsNone PROVE Goal
    BY <1>5, <2>2 DEF FindsNone
  <2> QED BY <1>8, <2>1, <2>2
<1>9. ASSUME Deadline \/ SeesError PROVE Goal
  BY <1>0, <1>3, <1>9 DEF Deadline, SeesError, Hows
<1>10. ASSUME Interrupt PROVE Goal
  BY <1>3, <1>4, <1>10 DEF Interrupt, Hows, Points
<1>11. ASSUME \/ Reads \/ MakesRoom \/ Puts \/ PortFails \/ DeviceChanges
              \/ \E ok, lost \in BOOLEAN : Answers(ok, lost)
              \/ UNCHANGED vars
       PROVE  Goal
  BY <1>1, <1>11
     DEF Reads, MakesRoom, Puts, PortFails, DeviceChanges, Answers, vars, sessionVars
<1> QED
  BY <1>6, <1>7, <1>8, <1>9, <1>10, <1>11, Steps

\* The parts of SessionTypeOK and Sound: the reader and its queue, the answers, the
\* lines, under the last number n.
Readers == [at : {"reads", "full", "room", "dead"}, reply : Answer]
RepliesFine(r, q, n) ==
    /\ r \in Readers /\ r.reply.id <= n
    /\ q \in Seq(Answer) /\ Len(q) <= session.slots /\ UpTo(q, n)
    /\ r.at = "room" => Len(q) < session.slots
AnswersFine(a, n) == a \in Seq(Answer) /\ Len(a) <= Transit /\ UpTo(a, n)
LinesFine(l, n) == l \in Seq(SentLine) /\ Len(l) <= LineQueue /\ UpTo(l, n)

LEMMA ReceiveFine ==
    ASSUME NEW n \in Nat, NEW l \in SentLine, l.id <= n, LinesFine(lines, n)
    PROVE  LinesFine(Receive(lines, l), n)
<1>1. CASE Len(lines) < LineQueue
  <2>1. Receive(lines, l) = Append(lines, l)
    BY <1>1 DEF Receive
  <2>2. UpTo(Append(lines, l), n)
    BY NumbersUpTo DEF LinesFine
  <2>3. /\ Append(lines, l) \in Seq(SentLine) /\ Len(lines) \in Nat
        /\ Len(Append(lines, l)) = Len(lines) + 1
    BY DEF LinesFine
  <2> QED BY <1>1, <2>1, <2>2, <2>3, SessionAssumption DEF LinesFine
<1>2. CASE ~(Len(lines) < LineQueue)
  BY <1>2 DEF Receive
<1> QED BY <1>1, <1>2

LEMMA TypeStep ==
    ASSUME SessionTypeOK, Sound, [SessionNext]_vars
    PROVE  SessionTypeOK' /\ Sound'
<1> DEFINE n == session.seq
           Good == /\ n' \in Nat /\ session'.slots = session.slots
                   /\ RepliesFine(reader', replies', n')
                   /\ AnswersFine(answers', n') /\ LinesFine(lines', n')
<1>0. /\ session \in Sessions /\ n \in Nat /\ session.slots \in Nat \ {0}
      /\ RepliesFine(reader, replies, n)
      /\ AnswersFine(answers, n) /\ LinesFine(lines, n)
  BY SessionAssumption
     DEF SessionTypeOK, Sound, Sessions, Commands, UpTo, Readers, RepliesFine,
         AnswersFine, LinesFine
<1>ids. /\ \A e \in Answer : e.id \in Nat
        /\ \A e \in SentLine : e.id \in Nat
  BY DEF Answer, SentLine
<1> SUFFICES Good
  BY SessionStep
     DEF SessionTypeOK, Sound, Sessions, Commands, UpTo, Readers, RepliesFine,
         AnswersFine, LinesFine
<1>1. ASSUME NEW doing \in Points \ {"prompt", "closed"}, NEW cmd \in Commands,
             NEW arg \in Arguments, Send(doing, cmd, arg)
      PROVE  Good
  <2>1. /\ n' = n + 1 /\ n' \in Nat /\ session'.slots = session.slots
        /\ UNCHANGED <<reader, replies, answers>>
    <3>1. n' = n + 1 /\ session'.slots = session.slots
      BY <1>0, <1>1, SendsTyped
    <3>2. UNCHANGED <<reader, replies, answers>>
      BY <1>1 DEF Send
    <3> QED BY <1>0, <3>1, <3>2
  <2>2. /\ RepliesFine(reader, replies, n + 1) /\ AnswersFine(answers, n + 1)
        /\ LinesFine(lines, n + 1)
    <3>1. reader.reply.id \in Nat /\ reader.reply.id <= n + 1
      BY <1>0, <1>ids DEF RepliesFine, Readers
    <3>2. UpTo(replies, n + 1) /\ UpTo(answers, n + 1)
      BY <1>0, <1>ids, NextIsNew DEF RepliesFine, AnswersFine
    <3>3. UpTo(lines, n + 1)
      BY <1>0, <1>ids, NextIsNew DEF LinesFine
    <3> QED BY <1>0, <3>1, <3>2, <3>3 DEF RepliesFine, AnswersFine, LinesFine
  <2>3. /\ [id |-> n', cmd |-> cmd, arg |-> arg] \in SentLine
        /\ [id |-> 0, cmd |-> "other", arg |-> arg] \in SentLine
    BY <2>1 DEF SentLine, Commands, Arguments
  <2>4. LinesFine(lines', n')
    <3>1. CASE lines' = Receive(lines, [id |-> n', cmd |-> cmd, arg |-> arg])
      BY <2>1, <2>2, <2>3, <3>1, ReceiveFine
    <3>2. CASE lines' = Receive(lines, [id |-> 0, cmd |-> "other", arg |-> arg])
      BY <2>1, <2>2, <2>3, <3>2, ReceiveFine
    <3>3. CASE lines' = lines
      BY <2>1, <2>2, <3>3
    <3> QED BY <1>0, <1>1, <2>1, <3>1, <3>2, <3>3, WritesLine
  <2> QED BY <2>1, <2>2, <2>4
<1>2. CASE Turns
  BY <1>0, <1>2 DEF Turns, SameCommand
<1> HIDE DEF n
<1>take. ASSUME replies # <<>>
         PROVE  /\ RepliesFine(reader, Tail(replies), n)
                /\ Len(Tail(replies)) < session.slots
  <2>1. /\ Tail(replies) \in Seq(Answer) /\ Len(replies) \in Nat
        /\ Len(Tail(replies)) = Len(replies) - 1 /\ UpTo(Tail(replies), n)
    BY <1>0, <1>take, NumbersUpTo DEF RepliesFine
  <2> QED BY <1>0, <2>1 DEF RepliesFine
<1>put. ASSUME NEW e \in Answer, e.id <= n, NEW r \in Readers, r.reply.id <= n,
               r.at # "room", Len(replies) < session.slots
        PROVE  RepliesFine(r, Append(replies, e), n)
  <2>1. /\ Append(replies, e) \in Seq(Answer) /\ Len(replies) \in Nat
        /\ Len(Append(replies, e)) = Len(replies) + 1 /\ UpTo(Append(replies, e), n)
    BY <1>0, <1>put, NumbersUpTo DEF RepliesFine
  <2>2. Len(Append(replies, e)) <= session.slots
    BY <1>0, <1>put, <2>1
  <2> QED BY <1>put, <2>1, <2>2 DEF RepliesFine
<1>same. ASSUME SameCommand PROVE n' = n /\ session'.slots = session.slots
  BY <1>same DEF SameCommand, n
<1>3. CASE Take
  <2>1. SameCommand
    <3>1. CASE Head(replies).id # n
      BY <1>0, <1>3, <3>1 DEF Take, SameCommand, Sessions, n
    <3>2. CASE Head(replies).id = n
      <4>1. Ends("ok") \/ Ends("error")
        BY <1>3, <3>2 DEF Take, n
      <4>2. session.doing \notin {"prompt", "closed"}
        BY <1>3 DEF Take, Sound
      <4> QED BY <1>0, <4>1, <4>2, EndsTyped DEF Hows
    <3> QED BY <3>1, <3>2
  <2> QED BY <1>0, <1>3, <1>take, <1>same, <2>1 DEF Take, deviceVars
<1>4. CASE Reads
  <2>0. n' = n /\ session'.slots = session.slots /\ lines' = lines
    BY <1>4 DEF Reads, deviceVars, n
  <2>1. /\ AnswersFine(Tail(answers), n) /\ Head(answers) \in Answer
        /\ Head(answers).id <= n
    <3>1. answers # <<>> /\ answers \in Seq(Answer) /\ Len(answers) \in Nat
      BY <1>0, <1>4 DEF Reads, AnswersFine
    <3>2. /\ UpTo(Tail(answers), n) /\ Head(answers).id <= n
          /\ Tail(answers) \in Seq(Answer) /\ Head(answers) \in Answer
          /\ Len(Tail(answers)) = Len(answers) - 1
      BY <1>0, <3>1, NumbersUpTo DEF AnswersFine
    <3> QED BY <1>0, <3>1, <3>2, SessionAssumption DEF AnswersFine
  <2>2. CASE Len(replies) < session.slots
    <3>1. /\ reader \in Readers /\ reader.reply.id <= n /\ reader.at # "room"
      BY <1>0, <1>4 DEF RepliesFine, Reads
    <3>2. RepliesFine(reader, Append(replies, Head(answers)), n)
      BY <1>put, <2>1, <2>2, <3>1
    <3> QED BY <1>0, <1>4, <2>0, <2>1, <2>2, <3>2 DEF Reads
  <2>3. CASE ~(Len(replies) < session.slots)
    <3>1. RepliesFine([at |-> "full", reply |-> Head(answers)], replies, n)
      BY <1>0, <2>1 DEF RepliesFine, Readers
    <3> QED BY <1>0, <1>4, <2>0, <2>1, <2>3, <3>1 DEF Reads
  <2> QED BY <2>2, <2>3
<1>5. CASE MakesRoom
  <2>0. /\ n' = n /\ session'.slots = session.slots
        /\ lines' = lines /\ answers' = answers
    BY <1>5 DEF MakesRoom, deviceVars, n
  <2>1. \A at \in {"room", "dead"} :
          /\ [reader EXCEPT !.at = at] \in Readers
          /\ [reader EXCEPT !.at = at].reply = reader.reply
          /\ [reader EXCEPT !.at = at].at = at
    BY <1>0 DEF RepliesFine, Readers
  <2>2. CASE replies = <<>>
    BY <1>0, <1>5, <2>0, <2>1, <2>2 DEF MakesRoom, RepliesFine
  <2>3. CASE replies # <<>>
    BY <1>0, <1>5, <1>take, <2>0, <2>1, <2>3 DEF MakesRoom, RepliesFine
  <2> QED BY <2>2, <2>3
<1>6. CASE Puts
  <2>0. /\ n' = n /\ session'.slots = session.slots
        /\ lines' = lines /\ answers' = answers
    BY <1>6 DEF Puts, deviceVars, n
  <2>1. /\ reader' \in Readers /\ reader'.reply = reader.reply
        /\ reader'.at # "room" /\ reader.reply \in Answer
        /\ reader.reply.id <= n /\ Len(replies) < session.slots
    BY <1>0, <1>6 DEF Puts, RepliesFine, Readers
  <2>2. RepliesFine(reader', Append(replies, reader.reply), n)
    BY <1>put, <2>1
  <2> QED BY <1>0, <1>6, <2>0, <2>2 DEF Puts
<1>7. CASE PortFails
  <2>1. /\ reader' \in Readers /\ reader'.reply = reader.reply /\ reader'.at = "dead"
    BY <1>0, <1>7 DEF PortFails, RepliesFine, Readers
  <2>2. RepliesFine(reader', replies, n)
    BY <1>0, <2>1 DEF RepliesFine
  <2> QED BY <1>0, <1>7, <2>2 DEF PortFails, deviceVars, n
<1>8. ASSUME NEW ok \in BOOLEAN, NEW lost \in BOOLEAN, Answers(ok, lost) PROVE Good
  <2>0. /\ n' = n /\ session'.slots = session.slots
        /\ reader' = reader /\ replies' = replies
        /\ lines # <<>> /\ lines' = Tail(lines)
    BY <1>8 DEF Answers, Execute, n
  <2>1. /\ LinesFine(Tail(lines), n) /\ Head(lines).id <= n /\ Head(lines).id \in Nat
    <3>1. /\ UpTo(Tail(lines), n) /\ Head(lines).id <= n
          /\ Tail(lines) \in Seq(SentLine) /\ Head(lines) \in SentLine
          /\ Len(lines) \in Nat /\ Len(Tail(lines)) = Len(lines) - 1
      BY <1>0, <2>0, NumbersUpTo DEF LinesFine
    <3> QED BY <1>0, <1>ids, <3>1, SessionAssumption DEF LinesFine
  <2>2. CASE answers' = answers
    BY <1>0, <2>0, <2>1, <2>2
  <2>3. CASE /\ Len(answers) < Transit
             /\ answers' = Append(answers, [id |-> Head(lines).id, ok |-> ok])
    <3>1. [id |-> Head(lines).id, ok |-> ok] \in Answer
      BY <2>1 DEF Answer
    <3>2. /\ UpTo(answers', n) /\ answers' \in Seq(Answer)
          /\ Len(answers) \in Nat /\ Len(answers') = Len(answers) + 1
      BY <1>0, <2>1, <2>3, <3>1, NumbersUpTo DEF AnswersFine
    <3>3. AnswersFine(answers', n)
      BY <2>3, <3>2, SessionAssumption DEF AnswersFine
    <3> QED BY <1>0, <2>0, <2>1, <3>3
  <2> QED BY <1>8, <2>2, <2>3 DEF Answers
<1>9. CASE DeviceChanges
  <2>1. /\ n' = n /\ session'.slots = session.slots
        /\ UNCHANGED <<reader, replies, answers>>
        /\ lines' = lines \/ lines' = <<>>
    BY <1>9 DEF DeviceChanges, sessionVars, LetGo, Console, Restart, n
  <2>2. LinesFine(<<>>, n)
    BY SessionAssumption DEF LinesFine, UpTo
  <2> QED BY <1>0, <2>1, <2>2
<1> QED
  BY <1>1, <1>2, <1>3, <1>4, <1>5, <1>6, <1>7, <1>8, <1>9, Changes DEF Sending

\* The queues of the session keep their bounds, and no line, answer or reply has the
\* number of a command to come, whatever is lost, garbled, late or interrupted.
THEOREM SessionTypeCorrect == SessionSpec => [](SessionTypeOK /\ Sound)
<1>1. SessionStart => SessionTypeOK /\ Sound
  BY SessionAssumption
     DEF SessionStart, SessionInit, DeviceInit, SessionTypeOK, Sound, Points, Answer,
         SentLine
<1>2. SessionTypeOK /\ Sound /\ [SessionNext]_vars => SessionTypeOK' /\ Sound'
  BY TypeStep
<1> QED BY <1>1, <1>2, PTL DEF SessionSpec

-----------------------------------------------------------------------------
(* Order.                                                                  *)

\* What the types say of numbers and sequences.
LEMMA Typed ==
    ASSUME SessionTypeOK, Sound
    PROVE  /\ session \in Sessions /\ session.seq \in Nat
           /\ replies \in Seq(Answer) /\ answers \in Seq(Answer) /\ lines \in Seq(SentLine)
           /\ UpTo(replies, session.seq) /\ UpTo(answers, session.seq)
           /\ UpTo(lines, session.seq)
           /\ reader.reply \in Answer /\ reader.reply.id \in Nat
           /\ reader.reply.id <= session.seq
           /\ \A e \in Answer : e.id \in Nat
           /\ \A e \in SentLine : e.id \in Nat
BY DEF SessionTypeOK, Sound, Sessions, Commands, UpTo, Answer, SentLine

\* What send() writes, and what it does to the numbers on their way: none of them
\* is the new one, and only the line that arrives has it.
LEMMA NewNumber ==
    ASSUME SessionTypeOK, Sound,
           NEW doing \in Points \ {"prompt", "closed"}, NEW cmd \in Commands,
           NEW arg \in Arguments, Send(doing, cmd, arg)
    PROVE  /\ session'.seq = session.seq + 1 /\ session'.cmd = cmd
           /\ UNCHANGED <<reader, replies, answers, held>>
           /\ ~Has(replies, session'.seq) /\ ~Has(answers, session'.seq)
           /\ ~Has(lines, session'.seq) /\ reader.reply.id # session'.seq
           /\ \/ lines' = lines
              \/ \E l \in SentLine :
                    /\ lines' = Append(lines, l)
                    /\ \/ l.id = session'.seq /\ l.cmd = cmd
                       \/ l.id = 0 /\ l.cmd = "other"
<1> DEFINE n == session.seq
<1>1. n' = n + 1 /\ session'.cmd = cmd /\ UNCHANGED <<reader, replies, answers, held>>
  <2>1. n' = n + 1 /\ session'.cmd = cmd
    BY Typed, SendsTyped
  <2>2. UNCHANGED <<reader, replies, answers, held>>
    BY DEF Send
  <2> QED BY <2>1, <2>2
<1>2. ~Has(replies, n + 1) /\ ~Has(answers, n + 1) /\ ~Has(lines, n + 1)
  <2>1. ~Has(replies, n + 1)
    BY Typed, NextIsNew
  <2>2. ~Has(answers, n + 1)
    BY Typed, NextIsNew
  <2>3. ~Has(lines, n + 1)
    BY Typed, NextIsNew
  <2> QED BY <2>1, <2>2, <2>3
<1>3. reader.reply.id # n + 1
  BY Typed
<1>4. \A l : Receive(lines, l) = lines \/ Receive(lines, l) = Append(lines, l)
  BY DEF Receive
<1>5. /\ [id |-> n', cmd |-> cmd, arg |-> arg] \in SentLine
      /\ [id |-> 0, cmd |-> "other", arg |-> arg] \in SentLine
  <2>1. n' \in Nat
    BY <1>1, Typed
  <2> QED BY <2>1 DEF SentLine, Commands, Arguments
<1>6. \/ lines' = lines
      \/ \E l \in SentLine :
            /\ lines' = Append(lines, l)
            /\ \/ l.id = n' /\ l.cmd = cmd
               \/ l.id = 0 /\ l.cmd = "other"
  <2> DEFINE a == [id |-> n', cmd |-> cmd, arg |-> arg]
             b == [id |-> 0, cmd |-> "other", arg |-> arg]
  <2>1. lines' = Receive(lines, a) \/ lines' = Receive(lines, b) \/ lines' = lines
    BY <1>1, Typed, WritesLine
  <2>2. lines' = Append(lines, a) \/ lines' = Append(lines, b) \/ lines' = lines
    BY <1>4, <2>1
  <2>3. /\ a \in SentLine /\ a.id = n' /\ a.cmd = cmd
        /\ b \in SentLine /\ b.id = 0 /\ b.cmd = "other"
    BY <1>5
  <2> HIDE DEF a, b
  <2> QED BY <2>2, <2>3
<1> QED BY <1>1, <1>2, <1>3, <1>6

\* A step of the main thread that takes a reply.
LEMMA Takes ==
    ASSUME SessionTypeOK, Sound, Take
    PROVE  /\ SameCommand /\ replies # <<>> /\ replies' = Tail(replies)
           /\ UNCHANGED <<reader, answers, lines, held>>
           /\ session'.freed = session.freed
                \/ (Head(replies).id = session.seq /\ session.cmd = "release")
<1>1. /\ session \in Sessions /\ session.doing \notin {"prompt", "closed"}
      /\ session.freed \in BOOLEAN
  BY Typed DEF Take, Sound, Sessions
<1>2. CASE Head(replies).id # session.seq
  BY <1>1, <1>2 DEF Take, SameCommand, Sessions, deviceVars
<1>3. CASE Head(replies).id = session.seq
  <2>1. PICK how \in {"ok", "error"} : Ends(how)
    BY <1>3 DEF Take
  <2>2. how \in Hows
    BY DEF Hows
  <2>3. /\ SameCommand
        /\ session'.freed = (session.freed \/ (how = "ok" /\ session.cmd = "release"))
    BY <1>1, <2>1, <2>2, EndsTyped
  <2>4. session'.freed = session.freed \/ session.cmd = "release"
    BY <1>1, <2>3
  <2> QED BY <1>3, <2>3, <2>4 DEF Take, deviceVars
<1> QED BY <1>2, <1>3

LEMMA OrderStep ==
    ASSUME SessionTypeOK, Sound, InOrder, [SessionNext]_vars
    PROVE  InOrder'
<1> DEFINE n == session.seq
<1>0. /\ OnlyLast(lines, n) /\ OnlyLast(answers, n) /\ OnlyLast(replies, n)
      /\ Has(answers, n) => lines = <<>>
      /\ InHand /\ reader.reply.id = n => lines = <<>> /\ answers = <<>>
      /\ Has(replies, n) => lines = <<>> /\ answers = <<>> /\ ~InHand
      /\ n \in Nat
      /\ replies \in Seq(Answer) /\ answers \in Seq(Answer) /\ lines \in Seq(SentLine)
      /\ reader.reply \in Answer
  BY Typed DEF InOrder
<1>1. ASSUME NEW doing \in Points \ {"prompt", "closed"}, NEW cmd \in Commands,
             NEW arg \in Arguments, Send(doing, cmd, arg)
      PROVE  InOrder'
  <2>1. /\ UNCHANGED <<reader, replies, answers>>
        /\ ~Has(replies, n') /\ ~Has(answers, n') /\ ~Has(lines, n')
        /\ reader.reply.id # n'
        /\ lines' = lines \/ \E l \in SentLine : lines' = Append(lines, l)
    BY <1>1, NewNumber
  <2>2. OnlyLast(lines', n')
    <3>1. OnlyLast(lines, n')
      BY <2>1 DEF Has, OnlyLast
    <3>2. \A l \in SentLine : OnlyLast(Append(lines, l), n')
      BY <1>0, <2>1, AppendNumbers
    <3> QED BY <2>1, <3>1, <3>2
  <2>3. OnlyLast(replies, n') /\ OnlyLast(answers, n')
    BY <2>1 DEF Has, OnlyLast
  <2> QED BY <2>1, <2>2, <2>3 DEF InOrder, InHand
<1> HIDE DEF n
<1>same. ASSUME SameCommand PROVE n' = n
  BY <1>same DEF SameCommand, n
<1>2. ASSUME n' = n, UNCHANGED <<reader, replies, answers>>,
             lines' = lines \/ lines' = <<>>
      PROVE  InOrder'
  BY <1>0, <1>2, EmptyNumbers DEF InOrder, InHand, n
<1>3. CASE Turns
  BY <1>2, <1>3, <1>same DEF Turns
<1>4. CASE Take
  <2>1. /\ n' = n /\ replies # <<>> /\ replies' = Tail(replies)
        /\ UNCHANGED <<reader, answers, lines>>
    BY <1>4, <1>same, Takes
  <2>2. /\ OnlyLast(Tail(replies), n)
        /\ Has(Tail(replies), n) => Has(replies, n)
    BY <1>0, <2>1, TailNumbers
  <2> QED BY <1>0, <2>1, <2>2 DEF InOrder, InHand, n
<1>5. CASE Reads
  <2>1. /\ n' = n /\ lines' = lines /\ answers # <<>> /\ answers' = Tail(answers)
        /\ ~InHand
    BY <1>5 DEF Reads, deviceVars, InHand, n
  <2>2. /\ OnlyLast(Tail(answers), n)
        /\ Has(Tail(answers), n) => Has(answers, n)
        /\ Head(answers).id = n => Tail(answers) = <<>> /\ Has(answers, n)
        /\ Head(answers) \in Answer
    BY <1>0, <2>1, TailNumbers
  <2>3. ~Has(replies, n)
    BY <1>0, <2>1
  <2>4. /\ Has(Append(replies, Head(answers)), n) => Head(answers).id = n
        /\ OnlyLast(Append(replies, Head(answers)), n)
    BY <1>0, <2>2, <2>3, AppendNumbers
  <2>5. CASE /\ replies' = Append(replies, Head(answers)) /\ reader' = reader
    <3>1. ~InHand' /\ OnlyLast(replies', n) /\ OnlyLast(answers', n)
      BY <2>1, <2>2, <2>4, <2>5 DEF InHand
    <3>2. Has(replies', n) => lines' = <<>> /\ answers' = <<>>
      BY <1>0, <2>1, <2>2, <2>4, <2>5
    <3>3. OnlyLast(lines', n) /\ (Has(answers', n) => lines' = <<>>)
      BY <1>0, <2>1, <2>2
    <3> QED BY <2>1, <3>1, <3>2, <3>3 DEF InOrder, n
  <2>6. CASE /\ reader' = [at |-> "full", reply |-> Head(answers)]
             /\ replies' = replies
    <3>1. reader'.reply = Head(answers)
      BY <2>6
    <3>2. ~Has(replies', n) /\ OnlyLast(replies', n) /\ OnlyLast(answers', n)
      BY <1>0, <2>1, <2>2, <2>3, <2>6
    <3>3. reader'.reply.id = n => lines' = <<>> /\ answers' = <<>>
      BY <1>0, <2>1, <2>2, <3>1
    <3>4. OnlyLast(lines', n) /\ (Has(answers', n) => lines' = <<>>)
      BY <1>0, <2>1, <2>2
    <3> QED BY <2>1, <3>2, <3>3, <3>4 DEF InOrder, n
  <2> QED BY <1>5, <2>5, <2>6 DEF Reads
<1>6. CASE MakesRoom
  <2>1. /\ n' = n /\ lines' = lines /\ answers' = answers /\ InHand
        /\ reader'.reply = reader.reply
    <3>1. /\ n' = n /\ lines' = lines /\ answers' = answers /\ InHand
      BY <1>6 DEF MakesRoom, deviceVars, InHand, n
    <3>2. reader'.reply = reader.reply
      BY <1>6 DEF MakesRoom, SessionTypeOK
    <3> QED BY <3>1, <3>2
  <2>2. ~Has(replies, n)
    BY <1>0, <2>1
  <2>3. ~Has(replies', n) /\ OnlyLast(replies', n)
    <3>1. CASE replies = <<>>
      BY <1>0, <1>6, <2>2, <3>1 DEF MakesRoom
    <3>2. CASE replies # <<>>
      <4>1. /\ OnlyLast(Tail(replies), n)
            /\ Has(Tail(replies), n) => Has(replies, n)
        BY <1>0, <3>2, TailNumbers
      <4> QED BY <1>6, <2>2, <3>2, <4>1 DEF MakesRoom
    <3> QED BY <3>1, <3>2
  <2> QED BY <1>0, <2>1, <2>3 DEF InOrder, n
<1>7. CASE Puts
  <2>1. /\ n' = n /\ lines' = lines /\ answers' = answers /\ InHand /\ ~InHand'
        /\ replies' = Append(replies, reader.reply)
    <3>1. /\ n' = n /\ lines' = lines /\ answers' = answers /\ InHand
          /\ replies' = Append(replies, reader.reply)
      BY <1>7 DEF Puts, deviceVars, InHand, n
    <3>2. ~InHand'
      BY <1>7 DEF Puts, SessionTypeOK, InHand
    <3> QED BY <3>1, <3>2
  <2>2. ~Has(replies, n)
    BY <1>0, <2>1
  <2>3. /\ Has(replies', n) => reader.reply.id = n
        /\ OnlyLast(replies', n)
    BY <1>0, <2>1, <2>2, AppendNumbers
  <2> QED BY <1>0, <2>1, <2>3 DEF InOrder, n
<1>8. CASE PortFails
  <2>1. /\ n' = n /\ UNCHANGED <<replies, answers, lines>> /\ ~InHand'
    <3>1. /\ n' = n /\ UNCHANGED <<replies, answers, lines>>
      BY <1>8 DEF PortFails, deviceVars, n
    <3>2. ~InHand'
      BY <1>8 DEF PortFails, SessionTypeOK, InHand
    <3> QED BY <3>1, <3>2
  <2> QED BY <1>0, <2>1 DEF InOrder, n
<1>9. ASSUME NEW ok \in BOOLEAN, NEW lost \in BOOLEAN, Answers(ok, lost) PROVE InOrder'
  <2>1. /\ n' = n /\ reader' = reader /\ replies' = replies
        /\ lines # <<>> /\ lines' = Tail(lines)
    BY <1>9 DEF Answers, Execute, n
  <2>2. ~Has(answers, n) /\ ~Has(replies, n) /\ ~(InHand /\ reader.reply.id = n)
    BY <1>0, <2>1
  <2>3. /\ OnlyLast(Tail(lines), n)
        /\ Head(lines).id = n => Tail(lines) = <<>>
        /\ Head(lines) \in SentLine
    BY <1>0, <2>1, TailNumbers
  <2>4. /\ OnlyLast(answers', n)
        /\ Has(answers', n) => Head(lines).id = n
    <3>1. CASE answers' = answers
      BY <1>0, <2>2, <3>1
    <3>2. CASE answers' = Append(answers, [id |-> Head(lines).id, ok |-> ok])
      <4>1. [id |-> Head(lines).id, ok |-> ok] \in Answer
        BY <2>3, Typed DEF Answer
      <4>2. /\ OnlyLast(answers', n)
            /\ Has(answers', n) => [id |-> Head(lines).id, ok |-> ok].id = n
        BY <1>0, <2>2, <3>2, <4>1, AppendNumbers
      <4> QED BY <4>2
    <3> QED BY <1>9, <3>1, <3>2 DEF Answers
  <2> QED BY <1>0, <2>1, <2>2, <2>3, <2>4 DEF InOrder, InHand, n
<1>10. CASE DeviceChanges
  <2>1. /\ n' = n /\ UNCHANGED <<reader, replies, answers>>
        /\ lines' = lines \/ lines' = <<>>
    BY <1>10 DEF DeviceChanges, sessionVars, LetGo, Console, Restart, n
  <2> QED BY <1>2, <2>1
<1> QED
  BY <1>1, <1>3, <1>4, <1>5, <1>6, <1>7, <1>8, <1>9, <1>10, Changes DEF Sending

-----------------------------------------------------------------------------
(* The release.                                                            *)

\* The lines with the number n have the command c; no line is a state.
Says(s, n, c) == \A i \in DOMAIN s : s[i].id = n => s[i].cmd = c
NoState(s) == \A i \in DOMAIN s : s[i].cmd # "state"

LEMMA LineCommands ==
    ASSUME NEW s \in Seq(SentLine), NEW n, NEW c
    PROVE  /\ s # <<>> =>
                 /\ Says(s, n, c) => Says(Tail(s), n, c) /\ (Head(s).id = n => Head(s).cmd = c)
                 /\ NoState(s) => NoState(Tail(s)) /\ Head(s).cmd # "state"
           /\ \A l \in SentLine :
                 /\ Says(s, n, c) /\ (l.id = n => l.cmd = c) => Says(Append(s, l), n, c)
                 /\ NoState(s) /\ l.cmd # "state" => NoState(Append(s, l))
<1>1. ASSUME s # <<>>
      PROVE  /\ Says(s, n, c) => Says(Tail(s), n, c) /\ (Head(s).id = n => Head(s).cmd = c)
             /\ NoState(s) => NoState(Tail(s)) /\ Head(s).cmd # "state"
  <2>1. /\ Head(s) = s[1] /\ 1 \in DOMAIN s
        /\ \A i \in DOMAIN Tail(s) : i + 1 \in DOMAIN s /\ Tail(s)[i] = s[i + 1]
    <3>1. /\ Len(s) \in Nat /\ Len(s) >= 1 /\ Head(s) = s[1]
          /\ DOMAIN s = 1..Len(s) /\ DOMAIN Tail(s) = 1..(Len(s) - 1)
          /\ \A i \in 1..(Len(s) - 1) : Tail(s)[i] = s[i + 1]
      BY <1>1, HeadTailProperties
    <3> QED BY <3>1
  <2> QED BY <2>1, Zenon DEF Says, NoState
<1>2. ASSUME NEW l \in SentLine
      PROVE  /\ Says(s, n, c) /\ (l.id = n => l.cmd = c) => Says(Append(s, l), n, c)
             /\ NoState(s) /\ l.cmd # "state" => NoState(Append(s, l))
  <2>1. \A i \in DOMAIN Append(s, l) :
           Append(s, l)[i] = l \/ (i \in DOMAIN s /\ Append(s, l)[i] = s[i])
    <3>1. /\ Len(s) \in Nat
          /\ DOMAIN s = 1..Len(s) /\ DOMAIN Append(s, l) = 1..(Len(s) + 1)
          /\ \A i \in 1..Len(s) : Append(s, l)[i] = s[i]
          /\ Append(s, l)[Len(s) + 1] = l
      BY AppendProperties
    <3> QED BY <3>1
  <2>2. Says(s, n, c) /\ (l.id = n => l.cmd = c) => Says(Append(s, l), n, c)
    BY <2>1, Zenon DEF Says
  <2>3. NoState(s) /\ l.cmd # "state" => NoState(Append(s, l))
    BY <2>1, Zenon DEF NoState
  <2> QED BY <2>2, <2>3
<1> QED BY <1>1, <1>2

\* An answer is on its way only where one was, or where a line is executed.
LEMMA StillAnswered ==
    ASSUME SessionTypeOK, Sound,
           Take \/ Reads \/ MakesRoom \/ Puts \/ PortFails
    PROVE  /\ UNCHANGED <<lines, held>> /\ SameCommand
           /\ Answered' => Answered
<1> DEFINE n == session.seq
<1>0. /\ replies \in Seq(Answer) /\ answers \in Seq(Answer)
      /\ reader.reply \in Answer
  BY Typed
<1>1. CASE Take
  <2>1. /\ UNCHANGED <<reader, answers, lines, held>> /\ SameCommand
        /\ replies # <<>> /\ replies' = Tail(replies)
    BY <1>1, Takes
  <2>2. Has(Tail(replies), n) => Has(replies, n)
    BY <1>0, <2>1, TailNumbers
  <2> QED BY <2>1, <2>2 DEF Answered, InHand, SameCommand
<1>2. ASSUME Reads \/ MakesRoom \/ Puts \/ PortFails
      PROVE  session' = session /\ UNCHANGED <<lines, held>>
  BY <1>2 DEF Reads, MakesRoom, Puts, PortFails, deviceVars
<1>3. CASE Reads
  <2>1. /\ answers # <<>> /\ answers' = Tail(answers) /\ Head(answers) \in Answer
        /\ Has(Tail(answers), n) => Has(answers, n)
        /\ Head(answers).id = n => Has(answers, n)
    BY <1>0, <1>3, TailNumbers DEF Reads
  <2>2. Has(Append(replies, Head(answers)), n) <=> Has(replies, n) \/ Head(answers).id = n
    BY <1>0, <2>1, AppendNumbers
  <2>3. \/ replies' = Append(replies, Head(answers)) /\ reader' = reader
        \/ reader'.reply = Head(answers) /\ replies' = replies
    BY <1>3 DEF Reads
  <2> QED BY <1>2, <1>3, <2>1, <2>2, <2>3 DEF Answered, InHand, SameCommand
<1>4. CASE MakesRoom
  <2>1. /\ InHand /\ reader'.reply = reader.reply /\ answers' = answers
    <3>1. InHand /\ answers' = answers
      BY <1>4 DEF MakesRoom, InHand
    <3>2. reader'.reply = reader.reply
      BY <1>4 DEF MakesRoom, SessionTypeOK
    <3> QED BY <3>1, <3>2
  <2>2. Has(replies', n) => Has(replies, n)
    <3>1. CASE replies = <<>>
      BY <1>4, <3>1 DEF MakesRoom
    <3>2. CASE replies # <<>>
      BY <1>0, <1>4, <3>2, TailNumbers DEF MakesRoom
    <3> QED BY <3>1, <3>2
  <2> QED BY <1>2, <1>4, <2>1, <2>2 DEF Answered, SameCommand
<1>5. CASE Puts
  <2>1. /\ InHand /\ ~InHand' /\ answers' = answers
        /\ replies' = Append(replies, reader.reply)
    <3>1. InHand /\ answers' = answers /\ replies' = Append(replies, reader.reply)
      BY <1>5 DEF Puts, InHand
    <3>2. ~InHand'
      BY <1>5 DEF Puts, SessionTypeOK, InHand
    <3> QED BY <3>1, <3>2
  <2>2. Has(replies', n) <=> Has(replies, n) \/ reader.reply.id = n
    BY <1>0, <2>1, AppendNumbers
  <2> QED BY <1>2, <1>5, <2>1, <2>2 DEF Answered, SameCommand
<1>6. CASE PortFails
  <2>1. ~InHand'
    BY <1>6 DEF PortFails, SessionTypeOK, InHand
  <2>2. UNCHANGED <<replies, answers>>
    BY <1>6 DEF PortFails
  <2> QED BY <1>2, <1>6, <2>1, <2>2 DEF Answered, SameCommand
<1> QED BY <1>1, <1>3, <1>4, <1>5, <1>6

LEMMA ReleaseStep ==
    ASSUME SessionTypeOK, Sound, InOrder, LetsGo, Released, [SessionNext]_vars
    PROVE  LetsGo' /\ Released'
<1> DEFINE n == session.seq
           c == session.cmd
<1>0. /\ n \in Nat /\ lines \in Seq(SentLine)
      /\ Says(lines, n, c)
      /\ Answered /\ c = "release" => held = Neutral
      /\ session.freed \in BOOLEAN
      /\ session.freed => held = Neutral /\ NoState(lines)
      /\ lines # <<>> => ~Answered
  BY Typed DEF LetsGo, Released, Says, NoState, InOrder, Answered, Sessions
<1>1. ASSUME /\ Says(lines', n', c')
             /\ Answered' /\ c' = "release" => held' = Neutral
             /\ session'.freed => held' = Neutral /\ NoState(lines')
      PROVE  LetsGo' /\ Released'
  BY <1>1 DEF LetsGo, Released, Says, NoState
<1>2. ASSUME NEW doing \in Points \ {"prompt", "closed"}, NEW cmd \in Commands,
             NEW arg \in Arguments, Send(doing, cmd, arg)
      PROVE  LetsGo' /\ Released'
  <2>1. /\ n' = n + 1 /\ c' = cmd /\ UNCHANGED <<reader, replies, answers, held>>
        /\ ~Has(replies, n') /\ ~Has(answers, n') /\ ~Has(lines, n')
        /\ reader.reply.id # n'
        /\ \/ lines' = lines
           \/ \E l \in SentLine :
                 /\ lines' = Append(lines, l)
                 /\ \/ l.id = n' /\ l.cmd = cmd
                    \/ l.id = 0 /\ l.cmd = "other"
    BY <1>2, NewNumber
  <2>2. ~Answered'
    BY <2>1 DEF Answered
  <2>3. session'.freed => session.freed /\ cmd # "state"
    <3>1. session'.freed = (session.freed /\ cmd # "state")
      BY <1>2, Typed, SendsTyped
    <3> QED BY <3>1
  <2>4. Says(lines, n', cmd)
    BY <2>1 DEF Says, Has
  <2>5. n' # 0
    BY <1>0, <2>1
  <2>6. \A l \in SentLine :
           /\ (l.id = n' => l.cmd = cmd) => Says(Append(lines, l), n', cmd)
           /\ NoState(lines) /\ l.cmd # "state" => NoState(Append(lines, l))
    BY <1>0, <2>4, LineCommands
  <2>7. Says(lines', n', cmd)
    BY <2>1, <2>4, <2>5, <2>6
  <2>8. session'.freed => held' = Neutral /\ NoState(lines')
    BY <1>0, <2>1, <2>3, <2>6
  <2> QED BY <1>1, <2>1, <2>2, <2>7, <2>8
<1> HIDE DEF n, c
<1>same. ASSUME SameCommand PROVE n' = n /\ c' = c
  BY <1>same DEF SameCommand, n, c
<1>3. CASE Turns
  <2>1. n' = n /\ c' = c /\ Answered' = Answered
    BY <1>3, <1>same DEF Turns, Answered, InHand, SameCommand
  <2> QED BY <1>0, <1>1, <1>3, <2>1 DEF Turns
<1>4. CASE Take
  <2>1. /\ replies # <<>> /\ UNCHANGED <<lines, held>> /\ n' = n /\ c' = c
        /\ session'.freed = session.freed \/ (Head(replies).id = n /\ c = "release")
    BY <1>4, <1>same, Takes DEF n, c
  <2>2. Answered' => Answered
    BY <1>4, StillAnswered
  <2>3. ASSUME Head(replies).id = n, c = "release"
        PROVE  held = Neutral /\ lines = <<>>
    <3>1. Has(replies, n)
      BY <2>1, <2>3, Typed, TailNumbers
    <3> QED BY <1>0, <2>3, <3>1 DEF Answered, n
  <2>4. NoState(<<>>)
    BY DEF NoState
  <2> QED BY <1>0, <1>1, <2>1, <2>2, <2>3, <2>4
<1>5. ASSUME Reads \/ MakesRoom \/ Puts \/ PortFails PROVE LetsGo' /\ Released'
  <2>1. /\ UNCHANGED <<lines, held>> /\ n' = n /\ c' = c /\ (Answered' => Answered)
    BY <1>5, <1>same, StillAnswered
  <2>2. session' = session
    BY <1>5 DEF Reads, MakesRoom, Puts, PortFails
  <2> QED BY <1>0, <1>1, <2>1, <2>2
<1>6. ASSUME NEW ok \in BOOLEAN, NEW lost \in BOOLEAN, Answers(ok, lost)
      PROVE  LetsGo' /\ Released'
  <2>1. /\ n' = n /\ c' = c /\ session' = session /\ UNCHANGED <<reader, replies>>
        /\ lines # <<>> /\ lines' = Tail(lines) /\ Effect(Head(lines), ok)
        /\ \/ answers' = answers
           \/ answers' = Append(answers, [id |-> Head(lines).id, ok |-> ok])
    BY <1>6 DEF Answers, Execute, n, c
  <2>2. /\ Says(Tail(lines), n, c) /\ (Head(lines).id = n => Head(lines).cmd = c)
        /\ NoState(lines) => NoState(Tail(lines)) /\ Head(lines).cmd # "state"
    BY <1>0, <2>1, LineCommands
  <2>3. Answered' => Head(lines).id = n
    <3>1. ~Answered
      BY <1>0, <2>1
    <3>2. Has(answers', n) => Head(lines).id = n
      <4>1. CASE answers' = answers
        BY <3>1, <4>1 DEF Answered, n
      <4>2. CASE answers' = Append(answers, [id |-> Head(lines).id, ok |-> ok])
        <5>1. Head(lines) \in SentLine
          BY <1>0, <2>1, TailNumbers
        <5>2. [id |-> Head(lines).id, ok |-> ok] \in Answer
          BY <5>1, Typed DEF Answer
        <5>3. Has(answers', n) <=> Has(answers, n) \/ [id |-> Head(lines).id, ok |-> ok].id = n
          BY <4>2, <5>2, Typed, AppendNumbers
        <5> QED BY <3>1, <5>3 DEF Answered, n
      <4> QED BY <2>1, <4>1, <4>2
    <3> QED BY <2>1, <3>1, <3>2 DEF Answered, InHand, n
  <2>4. Head(lines).cmd = "release" => held' = Neutral
    BY <2>1 DEF Effect
  <2>5. Head(lines).cmd # "state" => held' = held \/ held' = Neutral
    BY <2>1 DEF Effect
  <2> QED BY <1>0, <1>1, <2>1, <2>2, <2>3, <2>4, <2>5
<1>7. CASE DeviceChanges
  <2>1. /\ n' = n /\ c' = c /\ session' = session /\ UNCHANGED <<reader, replies, answers>>
    BY <1>7 DEF DeviceChanges, sessionVars, LetGo, Console, Restart, n, c
  <2>2. Says(<<>>, n, c) /\ NoState(<<>>)
    BY DEF Says, NoState
  <2>3. held' = Neutral
    BY <1>7 DEF DeviceChanges, LetGo, Console, Restart
  <2>4. lines' = lines \/ lines' = <<>>
    BY <1>7 DEF DeviceChanges, LetGo, Console, Restart
  <2> QED BY <1>0, <1>1, <2>1, <2>2, <2>3, <2>4
<1> QED
  BY <1>2, <1>3, <1>4, <1>5, <1>6, <1>7, Changes DEF Sending

\* `Botones liberados.' holds for every size of the queues, every number of commands
\* and every loss: a confirmed release has no state behind it.
THEOREM ReleasedHolds == SessionSpec => []Released
<1>1. SessionStart => InOrder /\ LetsGo /\ Released
  BY DEF SessionStart, SessionInit, DeviceInit, InOrder, LetsGo, Released, Has, OnlyLast
<1>2. /\ SessionTypeOK /\ Sound /\ InOrder /\ LetsGo /\ Released /\ [SessionNext]_vars
      => InOrder' /\ LetsGo' /\ Released'
  BY OrderStep, ReleaseStep
<1> QED BY <1>1, <1>2, SessionTypeCorrect, PTL DEF SessionSpec

-----------------------------------------------------------------------------
(* The bound of the queue.                                                 *)

Room == LineQueue + Transit

\* The numbers that the bound is made of.
LEMMA BoundNumbers ==
    ASSUME SessionTypeOK, Sound
    PROVE  /\ Room \in Nat /\ OnTheWay \in Nat /\ session.slots \in Nat
           /\ GivenUp \in 0..3 /\ Asked \in 0..1
           /\ Len(replies) \in Nat /\ Len(answers) \in Nat /\ Len(lines) \in Nat
           /\ Len(answers) <= Transit /\ Len(lines) <= LineQueue
<1>1. GivenUp \in 0..3 /\ Asked \in 0..1
  BY DEF GivenUp, Asked
<1>2. session.slots \in Nat /\ Room \in Nat
  <2>1. session.slots \in Slots
    BY Typed DEF Sessions
  <2>2. session.slots \in Nat
    BY <2>1, SessionAssumption
  <2> QED BY <2>2, SessionAssumption DEF Room
<1>3. Len(replies) \in Nat /\ Len(answers) \in Nat /\ Len(lines) \in Nat
  BY Typed
<1>4. Len(answers) <= Transit /\ Len(lines) <= LineQueue
  BY DEF SessionTypeOK
<1> QED BY <1>1, <1>2, <1>3, <1>4 DEF OnTheWay

\* What a step does to the commands given up and to the one that is waited for.
LEMMA GivesUp ==
    ASSUME SessionTypeOK, Sound
    PROVE  /\ GivenUp = 3 => Asked = 0
           /\ Sending => GivenUp' + Asked' >= GivenUp + Asked + 1
                         /\ session'.waits # "empty"
           /\ Interrupt => GivenUp' >= GivenUp + Asked /\ Asked' = 0
                           /\ session'.waits # "empty"
           /\ Quit => GivenUp' >= GivenUp /\ Asked = 0 /\ Asked' = 0
                      /\ session'.waits # "empty"
<1>0. /\ session \in Sessions
      /\ session.waits # "no" => session.doing \notin {"prompt", "closed"}
  BY Typed DEF Sound
<1>1. GivenUp = 3 => Asked = 0
  BY <1>0 DEF GivenUp, Asked
<1>2. ASSUME NEW doing \in Points \ {"prompt", "closed"}, NEW cmd \in Commands, NEW arg,
             session.doing \in {doing, "prompt"}
               \/ (session.doing = "pressing" /\ doing = "releasing"),
             Send(doing, cmd, arg)
      PROVE  GivenUp' + Asked' >= GivenUp + Asked + 1 /\ session'.waits # "empty"
  <2>1. /\ session.waits = "no"
        /\ \/ session'.waits = "reply" /\ session'.doing = doing
           \/ session'.waits = "no" /\ session'.doing = After(doing, "interrupt")
    <3>1. session.waits = "no"
      BY <1>2 DEF Send
    <3> QED BY <1>0, <1>2, <3>1, SendsTyped
  <2>2. CASE session'.waits = "reply" /\ session'.doing = doing
    BY <1>2, <2>1, <2>2 DEF GivenUp, Asked
  <2>3. CASE session'.waits = "no" /\ session'.doing = After(doing, "interrupt")
    <3>1. Asked = 0 /\ Asked' = 0
      BY <2>1, <2>3 DEF Asked
    <3>2. doing \in {"first", "single", "pressing", "releasing", "last"}
      BY DEF Points
    <3>3. CASE doing \in {"first", "single"}
      BY <1>2, <2>3, <3>1, <3>3 DEF After, GivenUp
    <3>4. CASE doing = "pressing"
      BY <1>2, <2>3, <3>1, <3>4 DEF After, GivenUp
    <3>5. CASE doing = "releasing"
      BY <1>2, <2>3, <3>1, <3>5 DEF After, GivenUp
    <3>6. CASE doing = "last"
      BY <1>2, <2>3, <3>1, <3>6 DEF After, GivenUp
    <3> QED BY <2>3, <3>2, <3>3, <3>4, <3>5, <3>6
  <2> QED BY <2>1, <2>2, <2>3
<1>3. ASSUME Interrupt
      PROVE  GivenUp' >= GivenUp + Asked /\ Asked' = 0 /\ session'.waits # "empty"
  <2>1. CASE session.doing \notin {"prompt", "closed"} /\ Ends("interrupt")
    <3>1. /\ session'.doing = After(session.doing, "interrupt")
          /\ session'.waits = "no"
      BY <1>0, <2>1, EndsTyped DEF Hows
    <3>2. session.doing \in {"first", "single", "pressing", "releasing", "last"}
      BY <1>0, <2>1 DEF Sessions, Points
    <3>3. CASE session.doing \in {"first", "single"}
      BY <3>1, <3>3 DEF After, GivenUp, Asked
    <3>4. CASE session.doing = "pressing"
      BY <3>1, <3>4 DEF After, GivenUp, Asked
    <3>5. CASE session.doing = "releasing"
      BY <3>1, <3>5 DEF After, GivenUp, Asked
    <3>6. CASE session.doing = "last"
      BY <3>1, <3>6 DEF After, GivenUp, Asked
    <3> QED BY <3>2, <3>3, <3>4, <3>5, <3>6
  <2>2. CASE /\ session.waits = "no" /\ session.doing \in {"prompt", "pressing"}
             /\ session' = [session EXCEPT !.doing = "last"]
    BY <1>0, <2>2 DEF GivenUp, Asked, Sessions
  <2> QED BY <1>3, <2>1, <2>2 DEF Interrupt
<1>4. ASSUME Quit
      PROVE  GivenUp' >= GivenUp /\ Asked = 0 /\ Asked' = 0 /\ session'.waits # "empty"
  <2>1. /\ session.waits = "no" /\ session.doing = "prompt"
        /\ session'.waits = "no" /\ session'.doing = "last"
    BY <1>0, <1>4 DEF Quit, Sessions
  <2> QED BY <2>1 DEF GivenUp, Asked
<1> QED BY <1>1, <1>2, <1>3, <1>4 DEF Sending

\* What a step does to what is on its way: a line more for a command, nothing once
\* the reply to the last command is taken.
LEMMA OnTheWayChanges ==
    ASSUME SessionTypeOK, Sound, InOrder
    PROVE  /\ Sending => OnTheWay' <= OnTheWay + 1
           /\ Take /\ Head(replies).id # session.seq => OnTheWay' <= OnTheWay
           /\ Take /\ Head(replies).id = session.seq /\ reader.at = "reads"
                => OnTheWay' = 0
           /\ Reads /\ Len(replies) < session.slots => OnTheWay' = OnTheWay
           /\ Reads => Len(replies) < OnTheWay
           /\ \A ok, lost \in BOOLEAN : Answers(ok, lost) => OnTheWay' <= OnTheWay
           /\ DeviceChanges => OnTheWay' <= OnTheWay
<1>0. /\ replies \in Seq(Answer) /\ answers \in Seq(Answer) /\ lines \in Seq(SentLine)
      /\ Len(replies) \in Nat /\ Len(answers) \in Nat /\ Len(lines) \in Nat
  BY Typed
<1>1. ASSUME NEW doing \in Points \ {"prompt", "closed"}, NEW cmd \in Commands,
             NEW arg \in Arguments, Send(doing, cmd, arg)
      PROVE  OnTheWay' <= OnTheWay + 1
  <2>1. UNCHANGED <<replies, answers>>
    BY <1>1, NewNumber
  <2>2. \/ lines' = lines
        \/ \E l \in SentLine : lines' = Append(lines, l)
    BY <1>1, NewNumber
  <2>3. Len(lines') = Len(lines) \/ Len(lines') = Len(lines) + 1
    BY <1>0, <2>2, AppendNumbers
  <2> QED BY <1>0, <2>1, <2>3 DEF OnTheWay
<1>2. ASSUME Take
      PROVE  /\ OnTheWay' = OnTheWay - 1
             /\ Head(replies).id = session.seq /\ reader.at = "reads" => OnTheWay' = 0
  <2>1. /\ UNCHANGED <<answers, lines>> /\ replies # <<>> /\ replies' = Tail(replies)
    BY <1>2, Takes
  <2>2. /\ Len(replies') = Len(replies) - 1
        /\ Head(replies).id = session.seq =>
              /\ Has(replies, session.seq)
              /\ OnlyLast(replies, session.seq) => replies' = <<>>
    BY <1>0, <2>1, TailNumbers
  <2>3. OnTheWay' = OnTheWay - 1
    BY <1>0, <2>1, <2>2 DEF OnTheWay
  <2>4. ASSUME Head(replies).id = session.seq PROVE OnTheWay' = 0
    <3>1. replies' = <<>> /\ answers' = <<>> /\ lines' = <<>>
      BY <2>1, <2>2, <2>4 DEF InOrder
    <3> QED BY <3>1 DEF OnTheWay
  <2> QED BY <2>3, <2>4
<1>3. ASSUME Reads
      PROVE  /\ Len(replies) < OnTheWay
             /\ Len(replies) < session.slots => OnTheWay' = OnTheWay
  <2>1. /\ lines' = lines /\ answers # <<>> /\ answers' = Tail(answers)
    BY <1>3 DEF Reads, deviceVars
  <2>2. /\ Len(answers') = Len(answers) - 1 /\ Head(answers) \in Answer
        /\ Len(answers) >= 1
    BY <1>0, <2>1, TailNumbers
  <2>3. Len(replies) < OnTheWay
    BY <1>0, <2>2 DEF OnTheWay
  <2>4. ASSUME Len(replies) < session.slots PROVE OnTheWay' = OnTheWay
    <3>1. replies' = Append(replies, Head(answers))
      BY <1>3, <2>4 DEF Reads
    <3>2. Len(replies') = Len(replies) + 1
      BY <1>0, <2>2, <3>1, AppendNumbers
    <3> QED BY <1>0, <2>1, <2>2, <3>2 DEF OnTheWay
  <2> QED BY <2>3, <2>4
<1>4. ASSUME NEW ok \in BOOLEAN, NEW lost \in BOOLEAN, Answers(ok, lost)
      PROVE  OnTheWay' <= OnTheWay
  <2>1. /\ replies' = replies /\ lines # <<>> /\ lines' = Tail(lines)
        /\ \/ answers' = answers
           \/ answers' = Append(answers, [id |-> Head(lines).id, ok |-> ok])
    BY <1>4 DEF Answers, Execute
  <2>2. /\ Len(lines') = Len(lines) - 1 /\ Head(lines) \in SentLine
    BY <1>0, <2>1, TailNumbers
  <2>3. [id |-> Head(lines).id, ok |-> ok] \in Answer
    BY <2>2, Typed DEF Answer
  <2>4. Len(answers') = Len(answers) \/ Len(answers') = Len(answers) + 1
    BY <1>0, <2>1, <2>3, AppendNumbers
  <2> QED BY <1>0, <2>1, <2>2, <2>4 DEF OnTheWay
<1>5. ASSUME DeviceChanges PROVE OnTheWay' <= OnTheWay
  <2>1. /\ UNCHANGED <<replies, answers>>
        /\ lines' = lines \/ lines' = <<>>
    BY <1>5 DEF DeviceChanges, sessionVars, LetGo, Console, Restart
  <2>2. Len(lines') <= Len(lines) /\ Len(lines') \in Nat
    BY <1>0, <2>1
  <2> QED BY <1>0, <2>1, <2>2 DEF OnTheWay
<1>6. OnTheWay \in Nat
  BY <1>0 DEF OnTheWay
<1> QED BY <1>1, <1>2, <1>3, <1>4, <1>5, <1>6 DEF Sending

LEMMA BoundStep ==
    ASSUME SessionTypeOK, SessionTypeOK', Sound, Sound', InOrder, Bounded,
           [SessionNext]_vars
    PROVE  Bounded'
<1> DEFINE w == OnTheWay
           g == GivenUp
           a == Asked
<1>0. /\ Room \in Nat
      /\ w \in Nat /\ g \in 0..3 /\ a \in 0..1
      /\ w' \in Nat /\ g' \in 0..3 /\ a' \in 0..1
      /\ g = 3 => a = 0
  <2>1. /\ Room \in Nat /\ w \in Nat /\ g \in 0..3 /\ a \in 0..1
    BY BoundNumbers
  <2>2. g' \in 0..3 /\ a' \in 0..1
    BY DEF GivenUp, Asked
  <2>3. w' \in Nat
    <3>1. /\ replies' \in Seq(Answer) /\ answers' \in Seq(Answer)
          /\ lines' \in Seq(SentLine)
      BY DEF SessionTypeOK
    <3> QED BY <3>1 DEF OnTheWay
  <2>4. g = 3 => a = 0
    BY GivesUp
  <2> QED BY <2>1, <2>2, <2>3, <2>4
\* The numbers by names of their own: the provers know more of a constant than of the
\* value an expression has in the next state.
<1>nat. PICK w0 \in Nat, g0 \in 0..3, a0 \in 0..1, w1 \in Nat, g1 \in 0..3, a1 \in 0..1 :
          /\ w = w0 /\ g = g0 /\ a = a0
          /\ w' = w1 /\ g' = g1 /\ a' = a1
          /\ Room \in Nat
  BY <1>0
<1>1. session'.slots = session.slots /\ (Wide' <=> Wide)
  <2>1. session'.slots = session.slots
    <3>1. CASE Sending
      BY <3>1, Typed, SendsTyped DEF Sending
    <3>2. CASE Take
      BY <3>2, Takes DEF SameCommand
    <3>3. CASE Turns
      BY <3>3 DEF Turns, SameCommand
    <3>4. ASSUME \/ Reads \/ MakesRoom \/ Puts \/ PortFails \/ DeviceChanges
                 \/ \E ok, lost \in BOOLEAN : Answers(ok, lost)
          PROVE  session' = session
      BY <3>4 DEF Reads, MakesRoom, Puts, PortFails, DeviceChanges, sessionVars, Answers
    <3> QED BY <3>1, <3>2, <3>3, <3>4, Changes
  <2> QED BY <2>1 DEF Wide
<1>2. CASE ~Wide \/ reader'.at = "dead"
  BY <1>1, <1>2 DEF Bounded
<1>3. CASE Wide /\ reader.at = "dead"
  <2>1. ASSUME \/ Sending \/ Turns \/ Take \/ DeviceChanges
               \/ \E ok, lost \in BOOLEAN : Answers(ok, lost)
        PROVE  reader' = reader
    BY <2>1 DEF Sending, Send, Turns, Take, DeviceChanges, sessionVars, Answers
  <2>2. PortFails => reader'.at = "dead"
    BY DEF PortFails, SessionTypeOK
  <2>3. ~Reads /\ ~MakesRoom /\ ~Puts
    BY <1>3 DEF Reads, MakesRoom, Puts
  <2>4. reader'.at = "dead"
    BY <1>3, <2>1, <2>2, <2>3, Changes
  <2> QED BY <2>4 DEF Bounded
<1>4. CASE Wide /\ reader.at # "dead" /\ reader'.at # "dead"
  <2>0. /\ reader.at = "reads" /\ w <= Room + g + a
        /\ session.waits = "empty" => w <= Room
    BY <1>4 DEF Bounded, Room
  <2>limit. w <= Room + g + a
    BY <2>0
  <2>1. ASSUME reader' = reader, w' <= Room + g' + a', session'.waits # "empty"
        PROVE  Bounded'
    BY <2>0, <2>1 DEF Bounded, Room
  <2>2. ASSUME reader' = reader, session' = session, w' <= w PROVE Bounded'
    <3>1. g' = g /\ a' = a /\ session'.waits = session.waits
      BY <2>2 DEF GivenUp, Asked
    <3>2. w' <= Room + g' + a' /\ (session'.waits = "empty" => w' <= Room)
      BY <1>0, <2>0, <2>2, <3>1
    <3> QED BY <2>0, <2>2, <3>2 DEF Bounded, Room
  <2>3. CASE Sending
    <3>1. g' + a' >= g + a + 1 /\ w' <= w + 1
      BY <2>3, GivesUp, OnTheWayChanges
    <3>2. reader' = reader /\ session'.waits # "empty"
      BY <2>3, GivesUp DEF Sending, Send
    <3>3. w' <= Room + g' + a'
      BY <1>nat, <2>limit, <3>1
    <3> QED BY <2>1, <3>1, <3>2, <3>3
  <2>4. CASE Take
    <3>0. reader' = reader
      BY <2>4 DEF Take
    <3>1. CASE Head(replies).id # session.seq
      <4>1. w' <= w
        BY <2>4, <3>1, OnTheWayChanges
      <4>2. session'.waits = "reply" /\ session'.doing = session.doing
        BY <2>4, <3>1, Typed DEF Take, Sessions
      <4>3. g' = g /\ a' = 1
        BY <4>2 DEF GivenUp, Asked
      <4>4. w' <= Room + g' + a'
        BY <1>nat, <2>limit, <4>1, <4>3
      <4> QED BY <2>1, <3>0, <4>2, <4>4
    <3>2. CASE Head(replies).id = session.seq
      <4>1. w' = 0
        BY <2>0, <2>4, <3>2, OnTheWayChanges
      <4>2. session'.waits = "no"
        <5>1. Ends("ok") \/ Ends("error")
          BY <2>4, <3>2 DEF Take
        <5>2. session.doing \notin {"prompt", "closed"}
          BY <2>4 DEF Take, Sound
        <5> QED BY <5>1, <5>2, Typed, EndsTyped DEF Hows
      <4>3. w' <= Room + g' + a'
        BY <1>nat, <4>1
      <4> QED BY <2>1, <3>0, <4>2, <4>3
    <3> QED BY <3>1, <3>2
  <2>5. CASE Quit \/ Interrupt
    <3>1. g' >= g + a /\ a' = 0
      BY <1>0, <2>5, GivesUp
    <3>2. reader' = reader /\ session'.waits # "empty"
      BY <2>5, GivesUp DEF Quit, Interrupt
    <3>3. w' = w
      BY <2>5 DEF Quit, Interrupt, OnTheWay, deviceVars
    <3>4. w' <= Room + g' + a'
      BY <1>nat, <2>limit, <3>1, <3>3
    <3> QED BY <2>1, <3>2, <3>4
  <2>6. CASE FindsNone
    <3>1. w' <= Room
      <4>1. Len(replies) = 0 /\ w' = w
        BY <2>6 DEF FindsNone, OnTheWay, deviceVars
      <4>2. /\ Len(answers) \in Nat /\ Len(lines) \in Nat
            /\ Len(answers) <= Transit /\ Len(lines) <= LineQueue
        BY BoundNumbers
      <4>3. w = Len(answers) + Len(lines)
        BY <4>1, <4>2 DEF OnTheWay
      <4> QED BY <4>1, <4>2, <4>3, SessionAssumption DEF Room
    <3>2. reader' = reader
      BY <2>6 DEF FindsNone
    <3>3. w' <= Room + g' + a'
      BY <1>nat, <3>1
    <3> QED BY <2>0, <3>1, <3>2, <3>3 DEF Bounded, Room
  <2>7. CASE Deadline
    <3>1. w <= Room
      BY <2>0, <2>7 DEF Deadline
    <3>2. reader' = reader /\ w' = w
      BY <2>7 DEF Deadline, OnTheWay, deviceVars
    <3>3. session'.waits = "no"
      <4>1. session.doing \notin {"prompt", "closed"}
        BY <2>7 DEF Deadline, Sound
      <4> QED BY <2>7, <4>1, Typed, EndsTyped DEF Deadline, Hows
    <3>4. w' <= Room + g' + a'
      BY <1>nat, <3>1, <3>2
    <3> QED BY <2>1, <3>2, <3>3, <3>4
  <2>8. CASE Reads
    <3>1. Len(replies) < w /\ Len(replies) \in Nat
      BY <2>8, OnTheWayChanges, BoundNumbers
    <3>2. Len(replies) < session.slots
      <4>1. w <= Room + 3 /\ session.slots > Room + 2
        BY <1>0, <1>4, <2>0 DEF Wide, Room
      <4>2. session.slots \in Nat /\ Room \in Nat
        BY BoundNumbers
      <4> QED BY <3>1, <4>1, <4>2, <1>nat
    <3>3. w' = w
      BY <2>8, <3>2, OnTheWayChanges
    <3>4. reader' = reader /\ session' = session
      BY <2>8, <3>2 DEF Reads
    <3> QED BY <1>0, <2>2, <3>3, <3>4
  <2>9. CASE \E ok, lost \in BOOLEAN : Answers(ok, lost)
    <3>1. w' <= w
      BY <2>9, OnTheWayChanges
    <3>2. reader' = reader /\ session' = session
      BY <2>9 DEF Answers
    <3> QED BY <2>2, <3>1, <3>2
  <2>10. CASE DeviceChanges
    <3>1. w' <= w
      BY <2>10, OnTheWayChanges
    <3>2. reader' = reader /\ session' = session
      BY <2>10 DEF DeviceChanges, sessionVars
    <3> QED BY <2>2, <3>1, <3>2
  <2>11. CASE UNCHANGED vars
    <3>1. w' = w /\ reader' = reader /\ session' = session
      BY <2>11 DEF vars, OnTheWay
    <3> QED BY <1>0, <2>2, <3>1
  <2>12. ~SeesError /\ ~MakesRoom /\ ~Puts /\ ~PortFails
    BY <1>4, <2>0 DEF SeesError, MakesRoom, Puts, PortFails, SessionTypeOK
  <2> QED
    BY <2>3, <2>4, <2>5, <2>6, <2>7, <2>8, <2>9, <2>10, <2>11, <2>12, Steps
<1> QED BY <1>2, <1>3, <1>4

\* For a queue of any size beyond what is on its way at once and two, the reader never
\* finds it full, however often commands are given up.
THEOREM NothingDroppedHolds == SessionSpec => []NothingDropped
<1>1. SessionStart => InOrder /\ Bounded
  <2>1. SessionStart => InOrder
    BY DEF SessionStart, SessionInit, DeviceInit, InOrder, Has, OnlyLast
  <2>2. ASSUME SessionStart PROVE Bounded
    <3>1. /\ reader.at = "reads" /\ session.waits = "no" /\ session.doing = "first"
          /\ OnTheWay = 0
      BY <2>2 DEF SessionStart, SessionInit, DeviceInit, OnTheWay
    <3>2. GivenUp = 0 /\ Asked = 0
      BY <3>1 DEF GivenUp, Asked
    <3> QED BY <3>1, <3>2, SessionAssumption DEF Bounded
  <2> QED BY <2>1, <2>2
<1>2. /\ SessionTypeOK /\ SessionTypeOK' /\ Sound /\ Sound' /\ InOrder /\ Bounded
      /\ [SessionNext]_vars
      => InOrder' /\ Bounded'
  BY OrderStep, BoundStep
<1>3. Bounded => NothingDropped
  BY DEF Bounded, NothingDropped, Wide
<1> QED BY <1>1, <1>2, <1>3, SessionTypeCorrect, PTL DEF SessionSpec

=============================================================================
