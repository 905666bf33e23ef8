---------------------------- MODULE NfcMcuProofs ----------------------------
(***************************************************************************)
(* Proofs about the NFC MCU for every set of tags and every queue of at    *)
(* least three slots.                                                      *)
(***************************************************************************)
EXTENDS NfcMcu, SequenceTheorems, TLAPS

-----------------------------------------------------------------------------
(* What the packet constructors and the queue operations return.           *)

\* Every packet the MCU builds is a packet.
LEMMA PacketsTyped ==
    /\ Idle \in Packet
    /\ \A pw \in PowerStates : StatusPacket(pw) \in Packet
    /\ \A t \in Tags \cup {NoTag}, pl \in PollStates : PollPacket(t, pl) \in Packet
    /\ \A k \in Fragments, t \in Tags \cup {NoTag} : Fragment(k, t) \in Packet
  BY DEF Packet, Idle, StatusPacket, PollPacket, Fragment, Fragments,
         PowerStates, PollStates

\* reserve(): the queue stays a sequence of packets within its slots, and its
\* earlier packets stay where they are.
LEMMA ReserveKeeps ==
    ASSUME NEW q \in Seq(Packet), NEW p \in Packet, Len(q) <= QueueSize
    PROVE  /\ Reserve(q, p) \in Seq(Packet)
           /\ Len(Reserve(q, p)) <= QueueSize
           /\ Len(Reserve(q, p)) \in {Len(q), Len(q) + 1}
           /\ \A i \in 1..Len(q) : Reserve(q, p)[i] = q[i]
           /\ \A i \in 1..Len(Reserve(q, p)) : i > Len(q) => Reserve(q, p)[i] = p
  BY NfcAssumption DEF Reserve

\* nfc_commit(): what is left is the queue without its oldest packet.
LEMMA CommitKeeps ==
    ASSUME NEW q \in Seq(Packet), q # <<>>
    PROVE  /\ Head(q) = q[1]
           /\ Head(q) \in Packet
           /\ Tail(q) \in Seq(Packet)
           /\ Len(Tail(q)) = Len(q) - 1
           /\ \A i \in 1..Len(Tail(q)) : Tail(q)[i] = q[i + 1]
  OBVIOUS

\* A queue of one packet.
LEMMA SingletonQueue ==
    ASSUME NEW p \in Packet
    PROVE  /\ <<p>> \in Seq(Packet)
           /\ Len(<<p>>) = 1
           /\ <<p>>[1] = p
           /\ Append(<<>>, p) = <<p>>
  OBVIOUS

-----------------------------------------------------------------------------

\* The packet poll() builds is a poll packet, of the tag if of any.
LEMMA PollAnswerShape ==
    ASSUME NEW t \in Tags \cup {NoTag}, NEW s, NEW pl \in PollStates
    PROVE  /\ PollAnswer(t, s, pl) \in Packet
           /\ PollAnswer(t, s, pl).state \in PollStates
           /\ PollAnswer(t, s, pl).kind = "poll"
           /\ PollAnswer(t, s, pl).tag \in {NoTag, t}
  BY DEF PollAnswer, PollPacket, Packet, PollStates

\* poll() keeps the types whatever it is called with.
LEMMA AnswerPollTyped ==
    ASSUME NEW t \in Tags \cup {NoTag}, NEW s,
           NEW pl \in PollStates, NEW q \in Seq(Packet), Len(q) <= QueueSize,
           AnswerPoll(t, s, pl, q)
    PROVE  /\ poll' \in PollStates
           /\ queue' \in Seq(Packet)
           /\ Len(queue') <= QueueSize
  <1>1. CASE Len(q) = QueueSize
    BY <1>1 DEF AnswerPoll
  <1>2. CASE Len(q) # QueueSize
    <2>1. PollAnswer(t, s, pl) \in Packet /\ PollAnswer(t, s, pl).state \in PollStates
      BY PollAnswerShape
    <2>2. poll' = PollAnswer(t, s, pl).state /\ queue' = Append(q, PollAnswer(t, s, pl))
      BY <1>2, Zenon DEF AnswerPoll
    <2>3. queue' \in Seq(Packet) /\ Len(queue') = Len(q) + 1
      BY <2>1, <2>2
    <2> QED
      BY <1>2, <2>1, <2>2, <2>3, NfcAssumption
  <1> QED
    BY <1>1, <1>2

\* The two flags stay Boolean.
LEMMA FlagsStep ==
    ASSUME NfcTypeOK, [NfcNext]_nfcVars
    PROVE  seen' \in BOOLEAN /\ announced' \in BOOLEAN
  <1>1. seen \in BOOLEAN /\ announced \in BOOLEAN
    BY DEF NfcTypeOK
  <1>2. ASSUME NEW t, NEW s \in BOOLEAN, NEW pl, NEW q, AnswerPoll(t, s, pl, q)
        PROVE  seen' \in BOOLEAN
    BY <1>2, Zenon DEF AnswerPoll
  <1>3. CASE NfcReset
    BY <1>3, Zenon DEF NfcReset
  <1>4. ASSUME NEW t \in Tags, NfcLoad(t)
        PROVE  seen' \in BOOLEAN /\ announced' \in BOOLEAN
    BY <1>2, <1>4, Zenon DEF NfcLoad
  <1>5. CASE NfcUnload
    BY <1>2, <1>5, Zenon DEF NfcUnload
  <1>6. ASSUME NEW v \in {0, 1}, NfcPower(v)
        PROVE  seen' \in BOOLEAN /\ announced' \in BOOLEAN
    BY <1>6, Zenon DEF NfcPower
  <1>7. ASSUME NEW m \in PowerStates, NfcConfig(m)
        PROVE  seen' \in BOOLEAN /\ announced' \in BOOLEAN
    BY <1>1, <1>7, Zenon DEF NfcConfig, nfcVars
  <1>8. ASSUME NEW r \in NfcRequests, NfcCommand(r)
        PROVE  seen' \in BOOLEAN /\ announced' \in BOOLEAN
    BY <1>1, <1>2, <1>8, Zenon
       DEF NfcCommand, NfcStatus, NfcStartPolling, NfcStopPolling, NfcPoll,
           NfcRead, nfcVars, nfcHistory
  <1>9. CASE NfcTransmit
    BY <1>1, <1>9, Zenon DEF NfcTransmit
  <1>10. CASE UNCHANGED nfcVars
    BY <1>1, <1>10, Zenon DEF nfcVars
  <1> QED
    BY <1>3, <1>4, <1>5, <1>6, <1>7, <1>8, <1>9, <1>10 DEF NfcNext

\* The other variables keep their types.
DataTyped ==
    /\ tag \in Tags \cup {NoTag}
    /\ power \in PowerStates
    /\ poll \in PollStates
    /\ queue \in Seq(Packet)
    /\ Len(queue) <= QueueSize
    /\ wire \in Packet

\* One step of the proof for each action of the MCU.
LEMMA DataStep ==
    ASSUME NfcTypeOK, [NfcNext]_nfcVars
    PROVE  DataTyped'
  <1> USE NfcAssumption
  <1>a. DataTyped /\ seen \in BOOLEAN
    BY DEF NfcTypeOK, DataTyped
  <1>e. /\ <<>> \in Seq(Packet) /\ Len(<<>>) <= QueueSize
        /\ 0 \in PollStates /\ 1 \in PollStates
        /\ NoTag \in Tags \cup {NoTag} /\ Tags \subseteq Tags \cup {NoTag}
    BY DEF PollStates
  <1>1. CASE NfcReset
    BY <1>1, <1>a, <1>e DEF DataTyped, NfcReset, PowerStates, PollStates
  <1>2. ASSUME NEW t \in Tags, NfcLoad(t)
        PROVE  DataTyped'
    <2>1. CASE power = 4 /\ poll # 0
      <3>1. AnswerPoll(t, FALSE, 1, <<>>)
        BY <1>2, <2>1 DEF NfcLoad
      <3>2. poll' \in PollStates /\ queue' \in Seq(Packet) /\ Len(queue') <= QueueSize
        BY <3>1, <1>e, AnswerPollTyped, Zenon
      <3> QED
        BY <1>2, <3>2, <1>a DEF DataTyped, NfcLoad
    <2>2. CASE ~(power = 4 /\ poll # 0)
      <3>1. StatusPacket(power) \in Packet
        BY <1>a, PacketsTyped DEF DataTyped
      <3>2. /\ tag' = t /\ UNCHANGED <<power, poll, wire>>
            /\ queue' = <<StatusPacket(power)>> \/ queue' = <<>>
        BY <1>2, <2>2, Zenon DEF NfcLoad
      <3>3. queue' \in Seq(Packet) /\ Len(queue') <= QueueSize
        <4>1. <<StatusPacket(power)>> \in Seq(Packet) /\ Len(<<StatusPacket(power)>>) <= QueueSize
          BY <3>1, SingletonQueue
        <4> QED
          BY <3>2, <4>1, <1>e, Zenon
      <3> QED
        BY <3>2, <3>3, <1>a DEF DataTyped
    <2> QED
      BY <2>1, <2>2
  <1>3. CASE NfcUnload
    <2>1. CASE poll # 0 /\ power = 4
      <3>1. AnswerPoll(NoTag, FALSE, 1, <<>>)
        BY <1>3, <2>1 DEF NfcUnload
      <3>2. poll' \in PollStates /\ queue' \in Seq(Packet) /\ Len(queue') <= QueueSize
        BY <3>1, <1>e, AnswerPollTyped, Zenon
      <3> QED
        BY <1>3, <3>2, <1>a DEF DataTyped, NfcUnload
    <2>2. CASE ~(poll # 0 /\ power = 4)
      <3>1. /\ tag' = NoTag /\ queue' = <<>> /\ UNCHANGED <<power, wire>>
            /\ poll' = 1 \/ poll' = 0
        BY <1>3, <2>2, Zenon DEF NfcUnload
      <3> QED
        BY <3>1, <1>a, <1>e DEF DataTyped
    <2> QED
      BY <2>1, <2>2
  <1>4. ASSUME NEW v \in {0, 1}, NfcPower(v)
        PROVE  DataTyped'
    <2>1. v \in PowerStates /\ StatusPacket(v) \in Packet
      BY PacketsTyped DEF PowerStates
    <2> QED
      BY <1>4, <2>1, <1>a DEF DataTyped, NfcPower, PollStates
  <1>5. ASSUME NEW m \in PowerStates, NfcConfig(m)
        PROVE  DataTyped'
    <2>1. StatusPacket(m) \in Packet
      BY PacketsTyped
    <2>2. CASE power # 0 /\ m # 0
      <3>1. /\ power' = m /\ poll' = 0 /\ queue' = <<StatusPacket(m)>>
            /\ UNCHANGED <<tag, wire>>
        BY <1>5, <2>2, Zenon DEF NfcConfig
      <3> QED
        BY <2>1, <3>1, <1>a, <1>e DEF DataTyped
    <2>3. CASE ~(power # 0 /\ m # 0)
      BY <1>5, <2>3, <1>a DEF DataTyped, NfcConfig, nfcVars
    <2> QED
      BY <2>2, <2>3
  <1>6. ASSUME NEW r \in NfcRequests, NfcCommand(r)
        PROVE  DataTyped'
    <2>1. CASE NfcStatus
      <3>1. StatusPacket(power) \in Packet
        BY <1>a, PacketsTyped DEF DataTyped
      <3> QED
        BY <2>1, <3>1, <1>a, ReserveKeeps DEF DataTyped, NfcStatus, nfcHistory
    <2>2. CASE NfcStartPolling
      BY <2>2, <1>a DEF DataTyped, NfcStartPolling, nfcHistory, PollStates
    <2>3. CASE NfcStopPolling
      BY <2>3, <1>a, <1>e DEF DataTyped, NfcStopPolling, PollStates
    <2>4. CASE NfcPoll
      <3>1. AnswerPoll(tag, seen, poll, queue)
        BY <2>4 DEF NfcPoll
      <3>2. poll' \in PollStates /\ queue' \in Seq(Packet) /\ Len(queue') <= QueueSize
        BY <3>1, <1>a, AnswerPollTyped DEF DataTyped
      <3> QED
        BY <2>4, <3>2, <1>a DEF DataTyped, NfcPoll, nfcHistory
    <2>5. CASE NfcRead
      <3>1. /\ Fragment("first", tag) \in Packet
            /\ Fragment("second", tag) \in Packet
            /\ Fragment("tail", tag) \in Packet
        BY <1>a, PacketsTyped DEF DataTyped, Fragments
      <3>2. queue' \in Seq(Packet) /\ Len(queue') = 3
        BY <2>5, <3>1 DEF NfcRead
      <3> QED
        BY <2>5, <3>2, <1>a DEF DataTyped, NfcRead, nfcHistory
    <2>6. CASE UNCHANGED nfcVars
      BY <2>6, <1>a DEF DataTyped, nfcVars
    <2> QED
      BY <1>6, <2>1, <2>2, <2>3, <2>4, <2>5, <2>6 DEF NfcCommand
  <1>7. CASE NfcTransmit
    <2>1. CASE queue = <<>>
      BY <1>7, <2>1, <1>a, PacketsTyped DEF DataTyped, NfcTransmit, NfcPeek
    <2>2. CASE queue # <<>>
      <3>1. Head(queue) \in Packet /\ Tail(queue) \in Seq(Packet)
            /\ Len(Tail(queue)) = Len(queue) - 1
        BY <2>2, <1>a, CommitKeeps DEF DataTyped
      <3> QED
        BY <1>7, <2>2, <3>1, <1>a DEF DataTyped, NfcTransmit, NfcPeek
    <2> QED
      BY <2>1, <2>2
  <1>8. CASE UNCHANGED nfcVars
    BY <1>8, <1>a DEF DataTyped, nfcVars
  <1> QED
    BY <1>1, <1>2, <1>3, <1>4, <1>5, <1>6, <1>7, <1>8 DEF NfcNext

\* The MCU's variables keep their types and the ring never holds more packets
\* than its slots, for every number of slots from three on.
THEOREM NfcTypeCorrect == NfcSpec => []NfcTypeOK
  <1>1. NfcInit => NfcTypeOK
    <2>1. NfcInit => seen \in BOOLEAN /\ announced \in BOOLEAN
      BY Zenon DEF NfcInit
    <2>2. NfcInit => DataTyped
      BY PacketsTyped, NfcAssumption DEF NfcInit, DataTyped, PowerStates, PollStates
    <2> QED
      BY <2>1, <2>2 DEF NfcTypeOK, DataTyped
  <1>2. NfcTypeOK /\ [NfcNext]_nfcVars => NfcTypeOK'
    BY FlagsStep, DataStep DEF NfcTypeOK, DataTyped
  <1> QED
    BY <1>1, <1>2, PTL DEF NfcSpec
-----------------------------------------------------------------------------
(* What a step does to the queue.  Every operation is one of six shapes,   *)
(* and the safety invariants follow from the shapes alone.                 *)

\* A packet queued by poll() or status(): no fragment, of the tag and in the
\* power state of the moment.
Sound(p) ==
    /\ p.kind \notin Fragments
    /\ p.tag \in {NoTag, tag'}
    /\ Carries(p) => power' = 4

\* The six things a step can do to the queue: empty it;
Emptied == queue' = <<>> /\ wire' = wire /\ ~seen'

\* start it again with one packet that is no fragment;
Restarted ==
    \E p \in Packet :
        /\ Sound(p) /\ p.state # 9
        /\ queue' = <<p>> /\ wire' = wire
        /\ seen' => Carries(p)

\* add one such packet at its end;
Extended ==
    \E p \in Packet :
        /\ Sound(p) /\ (p.state = 9 => seen)
        /\ queue' = Append(queue, p)
        /\ UNCHANGED <<tag, power, wire>>
        /\ announced => announced'
        /\ seen' => seen \/ Carries(p)

\* replace it by the three fragments of a read;
ReadQueued ==
    /\ power = 4 /\ tag # NoTag
    /\ queue' = <<Fragment("first", tag), Fragment("second", tag),
                  Fragment("tail", tag)>>
    /\ UNCHANGED <<tag, power, wire>>

\* send its head (or the idle packet);
Committed ==
    /\ queue # <<>>
    /\ wire' = Head(queue) /\ queue' = Tail(queue)
    /\ UNCHANGED <<tag, power>>
    /\ announced \/ Carries(Head(queue)) => announced'
    /\ seen' => seen

\* leave it, and everything the packets depend on, alone.
Kept ==
    /\ UNCHANGED <<queue, tag, power>>
    /\ wire' = wire \/ queue = <<>>
    /\ announced => announced'
    /\ seen' => seen

\* A poll state of 9 is only ever set for a tag the console was told of.
HeldIsSeen == poll = 9 => seen

\* Polling, and so tag data, needs NFC mode.
PollingInNfcMode == poll # 0 => power = 4

\* Every step of the MCU does one of the six: the safety lemmas below reason
\* about these and not about the actions.
LEMMA NfcShapes ==
    ASSUME NfcTypeOK, HeldIsSeen, PollingInNfcMode, [NfcNext]_nfcVars
    PROVE  Emptied \/ Restarted \/ Extended \/ ReadQueued \/ Committed \/ Kept
  <1> USE NfcAssumption
  <1>a. DataTyped
    BY DEF NfcTypeOK, DataTyped
  <1>e. /\ <<>> \in Seq(Packet) /\ Len(<<>>) # QueueSize
        /\ 0 \in PollStates /\ 1 \in PollStates
    BY DEF PollStates
  <1>s. \A pw \in PowerStates :
          /\ StatusPacket(pw) \in Packet /\ StatusPacket(pw).state # 9
          /\ StatusPacket(pw).kind \notin Fragments /\ ~Carries(StatusPacket(pw))
          /\ StatusPacket(pw).tag = NoTag
    BY DEF StatusPacket, Idle, Fragments, Carries, Packet, PowerStates
  <1>1. CASE NfcReset
    BY <1>1, Zenon DEF NfcReset, Emptied
  <1>2. ASSUME NEW t \in Tags, NfcLoad(t)
        PROVE  Emptied \/ Restarted
    <2>1. CASE power = 4 /\ poll # 0
      <3>1. AnswerPoll(t, FALSE, 1, <<>>) /\ wire' = wire /\ tag' = t /\ power' = power
        BY <1>2, <2>1, Zenon DEF NfcLoad
      <3> DEFINE p == PollAnswer(t, FALSE, 1)
      <3>2. p \in Packet /\ p.kind = "poll" /\ p.tag \in {NoTag, t} /\ p.state # 9
        BY PacketsTyped, <1>e DEF PollAnswer, PollPacket
      <3>3. queue' = Append(<<>>, p) /\ (seen' => Carries(p))
        BY <3>1, <1>e, Zenon DEF AnswerPoll
      <3> HIDE DEF p
      <3>4. Sound(p) /\ p.state # 9 /\ queue' = <<p>>
        BY <3>1, <3>2, <3>3, <2>1 DEF Sound, Fragments
      <3> QED
        BY <3>1, <3>2, <3>3, <3>4, Zenon DEF Restarted
    <2>2. CASE ~(power = 4 /\ poll # 0)
      <3>1. /\ ~seen' /\ UNCHANGED wire
            /\ queue' = <<StatusPacket(power)>> \/ queue' = <<>>
        BY <1>2, <2>2, Zenon DEF NfcLoad
      <3>2. StatusPacket(power) \in Packet /\ Sound(StatusPacket(power))
            /\ StatusPacket(power).state # 9
        BY <1>a, <1>s DEF Sound, DataTyped
      <3> QED
        BY <3>1, <3>2, Zenon DEF Emptied, Restarted
    <2> QED
      BY <2>1, <2>2
  <1>3. CASE NfcUnload
    <2>1. CASE poll # 0 /\ power = 4
      <3>1. AnswerPoll(NoTag, FALSE, 1, <<>>) /\ wire' = wire /\ power' = power
        BY <1>3, <2>1, Zenon DEF NfcUnload
      <3> DEFINE p == PollAnswer(NoTag, FALSE, 1)
      <3>2. /\ p \in Packet /\ p.kind = "poll" /\ p.tag = NoTag
            /\ p.state # 9
        BY PacketsTyped, <1>e DEF PollAnswer, PollPacket
      <3>3. queue' = Append(<<>>, p) /\ (seen' => Carries(p))
        BY <3>1, <1>e, Zenon DEF AnswerPoll
      <3> HIDE DEF p
      <3>4. Sound(p) /\ queue' = <<p>>
        BY <3>1, <3>2, <3>3 DEF Sound, Fragments, Carries
      <3> QED
        BY <3>1, <3>2, <3>3, <3>4, Zenon DEF Restarted
    <2>2. CASE ~(poll # 0 /\ power = 4)
      BY <1>3, <2>2, Zenon DEF NfcUnload, Emptied
    <2> QED
      BY <2>1, <2>2
  <1>4. ASSUME NEW v \in {0, 1}, NfcPower(v)
        PROVE  Restarted
    <2>1. StatusPacket(v) \in Packet /\ Sound(StatusPacket(v))
          /\ StatusPacket(v).state # 9
      BY <1>s DEF Sound, PowerStates
    <2> QED
      BY <1>4, <2>1, Zenon DEF NfcPower, Restarted
  <1>5. ASSUME NEW m \in PowerStates, NfcConfig(m)
        PROVE  Restarted \/ Kept
    <2>1. StatusPacket(m) \in Packet /\ Sound(StatusPacket(m))
          /\ StatusPacket(m).state # 9
      BY <1>s DEF Sound
    <2> QED
      BY <1>5, <2>1, Zenon DEF NfcConfig, nfcVars, Restarted, Kept
  <1>6. ASSUME NEW r \in NfcRequests, NfcCommand(r)
        PROVE  Emptied \/ Extended \/ ReadQueued \/ Kept
    <2>1. CASE NfcStatus
      <3>1. /\ queue' = queue \/ queue' = Append(queue, StatusPacket(power))
            /\ UNCHANGED <<tag, seen, power, poll, wire, announced>>
        BY <2>1 DEF NfcStatus, Reserve, nfcHistory
      <3>2. StatusPacket(power) \in Packet /\ Sound(StatusPacket(power))
            /\ StatusPacket(power).state # 9
        BY <1>a, <1>s DEF Sound, DataTyped
      <3> QED
        BY <3>1, <3>2, Zenon DEF Extended, Kept
    <2>2. CASE NfcStartPolling
      BY <2>2, Zenon DEF NfcStartPolling, nfcHistory, Kept
    <2>3. CASE NfcStopPolling
      BY <2>3, Zenon DEF NfcStopPolling, Emptied
    <2>4. CASE NfcPoll
      <3>1. /\ AnswerPoll(tag, seen, poll, queue) /\ power = 4
            /\ UNCHANGED <<tag, power, wire, announced>>
        BY <2>4, Zenon DEF NfcPoll, nfcHistory
      <3>2. CASE Len(queue) = QueueSize
        BY <3>1, <3>2, Zenon DEF AnswerPoll, Kept
      <3>3. CASE Len(queue) # QueueSize
        <4> DEFINE p == PollAnswer(tag, seen, poll)
        <4>0. tag \in Tags \cup {NoTag} /\ poll \in PollStates
          BY <1>a DEF DataTyped
        <4>1. /\ p \in Packet /\ p.kind = "poll" /\ p.tag \in {NoTag, tag}
              /\ p.state = 9 => seen \/ poll = 9
          BY <4>0 DEF PollAnswer, PollPacket, Packet, PollStates
        <4>4. queue' = Append(queue, p) /\ (seen' => seen \/ Carries(p))
          BY <3>1, <3>3, Zenon DEF AnswerPoll
        <4> HIDE DEF p
        <4>2. Sound(p)
          BY <3>1, <4>1 DEF Sound, Fragments
        <4>3. p.state = 9 => seen
          BY <4>1 DEF HeldIsSeen
        <4> QED
          BY <3>1, <4>1, <4>2, <4>3, <4>4, Zenon DEF Extended
      <3> QED
        BY <3>2, <3>3
    <2>5. CASE NfcRead
      BY <2>5, Zenon DEF NfcRead, nfcHistory, ReadQueued
    <2>6. CASE UNCHANGED nfcVars
      BY <2>6, Zenon DEF nfcVars, Kept
    <2> QED
      BY <1>6, <2>1, <2>2, <2>3, <2>4, <2>5, <2>6 DEF NfcCommand
  <1>7. CASE NfcTransmit
    BY <1>7, Zenon DEF NfcTransmit, NfcPeek, Committed, Kept
  <1>8. CASE UNCHANGED nfcVars
    BY <1>8, Zenon DEF nfcVars, Kept
  <1> QED
    BY <1>1, <1>2, <1>3, <1>4, <1>5, <1>6, <1>7, <1>8 DEF NfcNext
-----------------------------------------------------------------------------

\* A step keeps polling within NFC mode.
LEMMA PollingStep ==
    ASSUME NfcTypeOK, PollingInNfcMode, [NfcNext]_nfcVars
    PROVE  PollingInNfcMode'
  <1>1. CASE NfcReset
    BY <1>1, Zenon DEF NfcReset, PollingInNfcMode
  <1>2. ASSUME NEW t \in Tags, NfcLoad(t)
        PROVE  PollingInNfcMode'
    BY <1>2, Zenon DEF NfcLoad, PollingInNfcMode
  <1>3. CASE NfcUnload
    BY <1>3, Zenon DEF NfcUnload, PollingInNfcMode
  <1>4. ASSUME NEW v \in {0, 1}, NfcPower(v)
        PROVE  PollingInNfcMode'
    BY <1>4, Zenon DEF NfcPower, PollingInNfcMode
  <1>5. ASSUME NEW m \in PowerStates, NfcConfig(m)
        PROVE  PollingInNfcMode'
    BY <1>5, Zenon DEF NfcConfig, nfcVars, PollingInNfcMode
  <1>6. ASSUME NEW r \in NfcRequests, NfcCommand(r)
        PROVE  PollingInNfcMode'
    BY <1>6, Zenon
       DEF NfcCommand, NfcStatus, NfcStartPolling, NfcStopPolling, NfcPoll,
           NfcRead, nfcVars, nfcHistory, PollingInNfcMode
  <1>7. CASE NfcTransmit
    BY <1>7, Zenon DEF NfcTransmit, PollingInNfcMode
  <1>8. CASE UNCHANGED nfcVars
    BY <1>8, Zenon DEF nfcVars, PollingInNfcMode
  <1> QED
    BY <1>1, <1>2, <1>3, <1>4, <1>5, <1>6, <1>7, <1>8 DEF NfcNext

\* A step reaches poll state 9 only with a tag that was seen.
LEMMA HeldStep ==
    ASSUME NfcTypeOK, HeldIsSeen, PollingInNfcMode, [NfcNext]_nfcVars
    PROVE  HeldIsSeen'
  <1>0. 0 # 9 /\ 1 # 9
    OBVIOUS
  <1>1. CASE NfcReset
    BY <1>0, <1>1, Zenon DEF NfcReset, HeldIsSeen
  <1>2. ASSUME NEW t \in Tags, NfcLoad(t)
        PROVE  HeldIsSeen'
    <2>1. CASE power = 4 /\ poll # 0
      <3>1. Len(<<>>) # QueueSize
        BY NfcAssumption
      <3>2. poll' = PollAnswer(t, FALSE, 1).state
        BY <1>2, <2>1, <3>1, Zenon DEF NfcLoad, AnswerPoll
      <3>3. PollAnswer(t, FALSE, 1).state # 9
        BY DEF PollAnswer, PollPacket
      <3> QED
        BY <3>2, <3>3, Zenon DEF HeldIsSeen
    <2>2. CASE ~(power = 4 /\ poll # 0)
      <3>1. poll' = poll /\ poll = 0
        BY <1>2, <2>2, Zenon DEF NfcLoad, PollingInNfcMode
      <3> QED
        BY <1>0, <3>1, Zenon DEF HeldIsSeen
    <2> QED
      BY <2>1, <2>2
  <1>3. CASE NfcUnload
    <2>1. CASE poll # 0 /\ power = 4
      <3>1. Len(<<>>) # QueueSize
        BY NfcAssumption
      <3>2. poll' = PollAnswer(NoTag, FALSE, 1).state
        BY <1>3, <2>1, <3>1, Zenon DEF NfcUnload, AnswerPoll
      <3>3. PollAnswer(NoTag, FALSE, 1).state # 9
        BY DEF PollAnswer, PollPacket
      <3> QED
        BY <3>2, <3>3, Zenon DEF HeldIsSeen
    <2>2. CASE ~(poll # 0 /\ power = 4)
      BY <1>0, <1>3, <2>2, Zenon DEF NfcUnload, HeldIsSeen
    <2> QED
      BY <2>1, <2>2
  <1>4. ASSUME NEW v \in {0, 1}, NfcPower(v)
        PROVE  HeldIsSeen'
    BY <1>0, <1>4, Zenon DEF NfcPower, HeldIsSeen
  <1>5. ASSUME NEW m \in PowerStates, NfcConfig(m)
        PROVE  HeldIsSeen'
    BY <1>0, <1>5, Zenon DEF NfcConfig, nfcVars, HeldIsSeen
  <1>6. ASSUME NEW r \in NfcRequests, NfcCommand(r)
        PROVE  HeldIsSeen'
    <2>1. CASE NfcPoll
      <3>1. AnswerPoll(tag, seen, poll, queue)
        BY <2>1 DEF NfcPoll
      <3>2. CASE Len(queue) = QueueSize
        BY <3>1, <3>2, Zenon DEF AnswerPoll, HeldIsSeen
      <3>3. CASE Len(queue) # QueueSize
        <4>1. poll' = PollAnswer(tag, seen, poll).state /\ (seen => seen')
          BY <3>1, <3>3, Zenon DEF AnswerPoll
        <4>2. PollAnswer(tag, seen, poll).state = 9 => seen \/ poll = 9
          BY DEF PollAnswer, PollPacket
        <4> QED
          BY <4>1, <4>2 DEF HeldIsSeen
      <3> QED
        BY <3>2, <3>3
    <2>2. CASE ~NfcPoll
      BY <1>0, <1>6, <2>2, Zenon
         DEF NfcCommand, NfcStatus, NfcStartPolling, NfcStopPolling,
             NfcRead, nfcVars, nfcHistory, HeldIsSeen
    <2> QED
      BY <2>1, <2>2
  <1>7. CASE NfcTransmit
    BY <1>7, Zenon DEF NfcTransmit, HeldIsSeen
  <1>8. CASE UNCHANGED nfcVars
    BY <1>8, Zenon DEF nfcVars, HeldIsSeen
  <1> QED
    BY <1>1, <1>2, <1>3, <1>4, <1>5, <1>6, <1>7, <1>8 DEF NfcNext

-----------------------------------------------------------------------------
(* The safety invariants, one lemma each, over the six shapes.             *)

\* The tag-carrying packets of the queue are current and need NFC mode.
TagDataSound ==
    \A i \in 1..Len(queue) :
        Carries(queue[i]) => queue[i].tag = tag /\ power = 4

\* A step leaves no tag packet of another tag, or outside NFC mode, behind.
LEMMA TagDataStep ==
    ASSUME DataTyped, DataTyped', TagDataSound,
           Emptied \/ Restarted \/ Extended \/ ReadQueued \/ Committed \/ Kept
    PROVE  TagDataSound'
  <1> USE DEF DataTyped, TagDataSound
  <1>1. CASE Emptied
    BY <1>1 DEF Emptied
  <1>2. CASE Restarted
    BY <1>2 DEF Restarted, Sound, Carries
  <1>3. CASE Extended
    BY <1>3 DEF Extended, Sound, Carries
  <1>4. CASE ReadQueued
    BY <1>4 DEF ReadQueued, Fragment
  <1>5. CASE Committed
    BY <1>5, CommitKeeps DEF Committed
  <1>6. CASE Kept
    BY <1>6 DEF Kept
  <1> QED
    BY <1>1, <1>2, <1>3, <1>4, <1>5, <1>6

\* A step keeps each fragment right behind the one it follows.
LEMMA FragmentsStep ==
    ASSUME DataTyped, DataTyped', FragmentsInOrder,
           Emptied \/ Restarted \/ Extended \/ ReadQueued \/ Committed \/ Kept
    PROVE  FragmentsInOrder'
  <1> USE DEF DataTyped, FragmentsInOrder, FollowsOn
  <1>1. CASE Emptied
    BY <1>1 DEF Emptied
  <1>2. CASE Restarted
    BY <1>2 DEF Restarted, Sound, Fragments
  <1>3. CASE Extended
    BY <1>3 DEF Extended, Sound, Fragments
  <1>4. CASE ReadQueued
    BY <1>4 DEF ReadQueued, Fragment
  <1>5. CASE Committed
    BY <1>5, CommitKeeps DEF Committed
  <1>6. CASE Kept
    BY <1>6 DEF Kept
  <1> QED
    BY <1>1, <1>2, <1>3, <1>4, <1>5, <1>6

\* A seen tag is one the console was sent, or will be sent from the queue.
SeenIsTold ==
    seen => announced \/ \E j \in 1..Len(queue) : Carries(queue[j])

\* A step keeps a "held" packet behind one that told of the tag, and the seen
\* flag true only of a tag that was told of.
LEMMA HeldPacketsStep ==
    ASSUME DataTyped, DataTyped', SeenIsTold, DetectedBeforeHeld,
           Emptied \/ Restarted \/ Extended \/ ReadQueued \/ Committed \/ Kept
    PROVE  SeenIsTold' /\ DetectedBeforeHeld'
  <1> USE DEF DataTyped, SeenIsTold, DetectedBeforeHeld
  <1>1. CASE Emptied
    BY <1>1 DEF Emptied
  <1>2. CASE Restarted
    BY <1>2 DEF Restarted, Carries
  <1>3. CASE Extended
    BY <1>3 DEF Extended, Carries
  <1>4. CASE ReadQueued
    <2>1. /\ Len(queue') = 3 /\ Carries(queue'[1])
          /\ \A i \in 1..3 : queue'[i].kind \in Fragments
      BY <1>4 DEF ReadQueued, Fragment, Fragments, Carries
    <2>2. DetectedBeforeHeld'
      BY <2>1 DEF Fragments
    <2>3. SeenIsTold'
      BY <2>1
    <2> QED
      BY <2>2, <2>3
  <1>5. CASE Committed
    <2>1. /\ Head(queue) = queue[1] /\ Len(queue') = Len(queue) - 1
          /\ \A i \in 1..Len(queue') : queue'[i] = queue[i + 1]
      BY <1>5, CommitKeeps DEF Committed
    <2>2. announced \/ Carries(queue[1]) => announced'
      BY <1>5, <2>1 DEF Committed
    <2>3. ASSUME NEW n \in 1..Len(queue), NEW j \in 1..n, Carries(queue[j])
          PROVE  announced' \/ \E k \in 1..(n - 1) : Carries(queue'[k])
      <3>1. CASE j = 1
        BY <2>2, <2>3, <3>1
      <3>2. CASE j # 1
        <4>1. j - 1 \in 1..(n - 1) /\ j - 1 \in 1..Len(queue')
          BY <2>1, <3>2
        <4>2. queue'[j - 1] = queue[j]
          BY <2>1, <4>1
        <4> QED
          BY <2>3, <4>1, <4>2 DEF Carries
      <3> QED
        BY <3>1, <3>2
    <2>4. SeenIsTold'
      <3>1. (seen' => seen) /\ Len(queue) \in 1..Len(queue)
        BY <1>5 DEF Committed
      <3> QED
        BY <2>1, <2>2, <2>3, <3>1
    <2>5. DetectedBeforeHeld'
      <3> SUFFICES ASSUME NEW i \in 1..Len(queue'),
                          queue'[i].kind = "poll", queue'[i].state = 9
                   PROVE  announced' \/ \E k \in 1..(i - 1) : Carries(queue'[k])
        OBVIOUS
      <3>1. i + 1 \in 1..Len(queue) /\ queue[i + 1] = queue'[i]
        BY <2>1
      <3>2. announced \/ \E j \in 1..i : Carries(queue[j])
        BY <3>1
      <3>3. i \in 1..Len(queue)
        BY <3>1
      <3> QED
        BY <2>2, <2>3, <3>2, <3>3
    <2> QED
      BY <2>4, <2>5
  <1>6. CASE Kept
    BY <1>6 DEF Kept
  <1> QED
    BY <1>1, <1>2, <1>3, <1>4, <1>5, <1>6

\* The inductive invariant: the properties below and what they rest on.
NfcSafety ==
    /\ NfcTypeOK /\ HeldIsSeen /\ PollingInNfcMode
    /\ TagDataSound /\ FragmentsInOrder
    /\ SeenIsTold /\ DetectedBeforeHeld

\* The invariant holds initially and is kept by every step.
LEMMA NfcSafetyInductive == NfcSpec => []NfcSafety
  <1>1. NfcInit => HeldIsSeen /\ PollingInNfcMode /\ TagDataSound
                   /\ FragmentsInOrder /\ SeenIsTold /\ DetectedBeforeHeld
    BY DEF NfcInit, HeldIsSeen, PollingInNfcMode, TagDataSound,
           FragmentsInOrder, SeenIsTold, DetectedBeforeHeld
  <1>2. ASSUME NfcSafety, NfcTypeOK', [NfcNext]_nfcVars
        PROVE  NfcSafety'
    <2>1. Emptied \/ Restarted \/ Extended \/ ReadQueued \/ Committed \/ Kept
      BY <1>2, NfcShapes DEF NfcSafety
    <2>2. DataTyped /\ DataTyped'
      BY <1>2 DEF NfcSafety, NfcTypeOK, DataTyped
    <2> QED
      BY <1>2, <2>1, <2>2, PollingStep, HeldStep, TagDataStep, FragmentsStep,
         HeldPacketsStep DEF NfcSafety
  <1> QED
    BY <1>1, <1>2, NfcTypeCorrect, PTL DEF NfcSpec, NfcSafety

\* Whatever the PC loads or removes, no packet of another tag waits in the
\* queue, for every set of tags and every queue size.
THEOREM NoStaleTagHolds == NfcSpec => []NoStaleTag
  <1>1. NfcSafety => NoStaleTag
    BY DEF NfcSafety, TagDataSound, NoStaleTag
  <1> QED
    BY <1>1, NfcSafetyInductive, PTL

\* Tag data is queued, and polling on, only in NFC mode.
THEOREM TagDataOnlyInNfcModeHolds == NfcSpec => []TagDataOnlyInNfcMode
  <1>1. NfcSafety => TagDataOnlyInNfcMode
    BY DEF NfcSafety, TagDataSound, PollingInNfcMode, TagDataOnlyInNfcMode
  <1> QED
    BY <1>1, NfcSafetyInductive, PTL

\* The three fragments of a read leave back to back and are of one tag.
THEOREM FragmentsInOrderHolds == NfcSpec => []FragmentsInOrder
  BY NfcSafetyInductive, PTL DEF NfcSafety

\* "Held" is never the first the console hears of a tag.
THEOREM DetectedBeforeHeldHolds == NfcSpec => []DetectedBeforeHeld
  BY NfcSafetyInductive, PTL DEF NfcSafety
=============================================================================
