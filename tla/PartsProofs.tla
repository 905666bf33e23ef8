----------------------------- MODULE PartsProofs -----------------------------
(***************************************************************************)
(* Theorems about the small parts that MCParts checks beside each other,   *)
(* one section each: the rings of the firmware are queues, the settings    *)
(* file survives, the heartbeat keeps a button held, a read of the flash   *)
(* image gives its memory, the reports show the controls, and the flag of  *)
(* the Bluedroid transport is cleared in every order of its two tasks.     *)
(***************************************************************************)
EXTENDS Ring, Settings, Heartbeat, SpiFlash, InputReport, BtHid, TLAPS

-----------------------------------------------------------------------------
(* The rings.                                                              *)

\* The index arithmetic: one turn around the ring at most.
LEMMA OneTurn ==
    ASSUME NEW x \in 0..(2 * Size - 1)
    PROVE  x % Size = IF x < Size THEN x ELSE x - Size
BY RingAssumption DEF RingAssumption

\* The i-th slot from the next head on is the one after the i-th from this head.
LEMMA NextIndex ==
    ASSUME NEW h \in 0..(Size - 1), NEW i \in 1..(Size - 1)
    PROVE  (((h + 1) % Size) + i - 1) % Size = (h + (i + 1) - 1) % Size
<1> USE RingAssumption DEF RingAssumption
<1>1. (h + 1) % Size = IF h + 1 < Size THEN h + 1 ELSE 0
  BY OneTurn
<1>2. CASE h + 1 < Size
  <2>1. ((h + 1) % Size) + i - 1 = h + (i + 1) - 1
    BY <1>1, <1>2
  <2> QED BY <2>1
<1>3. CASE h + 1 = Size
  <2>1. ((h + 1) % Size) + i - 1 = i - 1 /\ i - 1 \in 0..(2 * Size - 1)
    BY <1>1, <1>3
  <2>2. (i - 1) % Size = i - 1
    BY <2>1, OneTurn
  <2>3. h + (i + 1) - 1 \in 0..(2 * Size - 1) /\ h + (i + 1) - 1 = Size + (i - 1)
    BY <1>3
  <2>4. (h + (i + 1) - 1) % Size = i - 1
    BY <2>3, OneTurn
  <2> QED BY <2>1, <2>2, <2>4
<1> QED BY <1>2, <1>3

\* The indices stay in the ring.
RingTypeOK ==
    /\ slots \in [0..(Size - 1) -> Items \cup {Zero}]
    /\ head \in 0..(Size - 1)
    /\ count \in 0..Size

\* What it needs of the index arithmetic is OneTurn.
LEMMA RingTypeCorrect == RingSpec => []RingTypeOK
<1> USE RingAssumption DEF RingAssumption, RingTypeOK
<1>1. RingInit => RingTypeOK
  BY DEF RingInit
<1>2. RingTypeOK /\ [RingNext]_ringVars => RingTypeOK'
  <2> SUFFICES ASSUME RingTypeOK, [RingNext]_ringVars PROVE RingTypeOK'
    OBVIOUS
  <2>1. ASSUME NEW x \in Items, RingPut(x) PROVE RingTypeOK'
    <3>1. RingTail \in 0..(Size - 1)
      BY OneTurn DEF RingTail
    <3> QED BY <2>1, <3>1 DEF RingPut
  <2>2. CASE RingGet
    <3>1. (head + 1) % Size \in 0..(Size - 1)
      BY OneTurn
    <3> QED BY <2>2, <3>1 DEF RingGet
  <2>3. CASE RingFlush
    BY <2>3 DEF RingFlush
  <2>4. CASE UNCHANGED ringVars
    BY <2>4 DEF ringVars
  <2> QED BY <2>1, <2>2, <2>3, <2>4 DEF RingNext
<1> QED BY <1>1, <1>2, PTL DEF RingSpec

\* What is in a ring, read from its head on, is a sequence of count items.
LEMMA ContentsTyped ==
    ASSUME NEW s \in [0..(Size - 1) -> Items \cup {Zero}],
           NEW h \in 0..(Size - 1), NEW c \in 0..Size
    PROVE  /\ c \in Nat
           /\ [i \in 1..c |-> s[(h + i - 1) % Size]] \in [1..c -> Items \cup {Zero}]
<1> USE RingAssumption DEF RingAssumption
<1>1. \A i \in 1..c : (h + i - 1) % Size \in 0..(Size - 1)
  BY OneTurn
<1>2. \A i \in 1..c : s[(h + i - 1) % Size] \in Items \cup {Zero}
  BY <1>1
<1> QED BY <1>2

\* A ring is a queue: every step of its indices is a step of BoundedQueue.
THEOREM RingIsAQueue == RingSpec => ActsAsQueue
<1> USE RingAssumption DEF RingAssumption
<1>1. RingInit => Queue!QueueInit
  BY DEF RingInit, Queue!QueueInit, Live
<1>2. RingTypeOK /\ RingTypeOK' /\ [RingNext]_ringVars => [Queue!QueueNext]_Live
  <2> SUFFICES ASSUME RingTypeOK, RingTypeOK', [RingNext]_ringVars
               PROVE  [Queue!QueueNext]_Live
    OBVIOUS
  <2>1. /\ Live \in Seq(Items \cup {Zero})
        /\ Len(Live) = count
        /\ \A i \in 1..count : Live[i] = slots[(head + i - 1) % Size]
    <3>1. count \in Nat /\ Live \in [1..count -> Items \cup {Zero}]
      BY ContentsTyped DEF Live, RingTypeOK
    <3> QED BY <3>1 DEF Live
  <2>2. /\ Live' \in Seq(Items \cup {Zero})
        /\ Len(Live') = count'
        /\ \A i \in 1..count' : Live'[i] = slots'[(head' + i - 1) % Size]
    <3>1. count' \in Nat /\ Live' \in [1..count' -> Items \cup {Zero}]
      BY ContentsTyped DEF Live, RingTypeOK
    <3> QED BY <3>1 DEF Live
  <2>3. ASSUME NEW x \in Items, RingPut(x) PROVE Queue!Put(x)
    <3>1. CASE count = Size
      BY <2>1, <2>3, <3>1 DEF RingPut, Queue!Put, Live
    <3>2. CASE count # Size
      <4>1. /\ count' = count + 1 /\ head' = head /\ count < Size
            /\ slots' = [slots EXCEPT ![RingTail] = x]
        BY <2>3, <3>2 DEF RingPut, RingTypeOK
      <4>2. ASSUME NEW i \in 1..count
            PROVE  Live'[i] = Live[i]
        <5>1. /\ (head + i - 1) % Size # RingTail
              /\ (head + i - 1) % Size \in 0..(Size - 1)
          BY <4>1, OneTurn DEF RingTail, RingTypeOK
        <5>2. slots'[(head + i - 1) % Size] = slots[(head + i - 1) % Size]
          BY <4>1, <5>1 DEF RingTypeOK
        <5>3. i \in 1..count'
          BY <4>1 DEF RingTypeOK
        <5>4. Live[i] = slots[(head + i - 1) % Size]
          BY <2>1
        <5>5. Live'[i] = slots'[(head' + i - 1) % Size]
          BY <2>2, <5>3
        <5> QED BY <4>1, <5>2, <5>4, <5>5
      <4>3. Live'[count + 1] = x
        <5>1. RingTail \in 0..(Size - 1) /\ head + (count + 1) - 1 = head + count
          BY OneTurn DEF RingTail, RingTypeOK
        <5> QED BY <2>2, <4>1, <5>1 DEF RingTail, RingTypeOK
      <4>4. Live' = Append(Live, x)
        BY <2>1, <2>2, <4>1, <4>2, <4>3 DEF RingTypeOK
      <4> QED BY <2>1, <4>1, <4>4 DEF Queue!Put
    <3> QED BY <3>1, <3>2
  <2>4. ASSUME RingGet PROVE Queue!Get
    <3>1. /\ count > 0 /\ count' = count - 1 /\ slots' = slots
          /\ head' = (head + 1) % Size
      BY <2>4 DEF RingGet, RingTypeOK
    <3>2. ASSUME NEW i \in 1..count'
          PROVE  Live'[i] = Live[i + 1]
      <4>1. head \in 0..(Size - 1) /\ i \in 1..(Size - 1) /\ i + 1 \in 1..count
        BY <3>1 DEF RingTypeOK
      <4>2. (head' + i - 1) % Size = (head + (i + 1) - 1) % Size
        BY <3>1, <4>1, NextIndex
      <4>3. Live'[i] = slots'[(head' + i - 1) % Size]
        BY <2>2
      <4>4. Live[i + 1] = slots[(head + (i + 1) - 1) % Size]
        BY <2>1, <4>1
      <4> QED BY <3>1, <4>2, <4>3, <4>4, Zenon
    <3>3. Live' = Tail(Live)
      BY <2>1, <2>2, <3>1, <3>2
    <3> QED BY <2>1, <3>1, <3>3 DEF Queue!Get
  <2>5. ASSUME RingFlush PROVE Queue!Clear
    <3>1. Live' = <<>>
      BY <2>2, <2>5 DEF RingFlush
    <3> QED BY <3>1 DEF Queue!Clear
  <2>6. CASE UNCHANGED ringVars
    BY <2>6 DEF ringVars, Live
  <2> QED BY <2>3, <2>4, <2>5, <2>6 DEF RingNext, Queue!QueueNext
<1> QED
  BY <1>1, <1>2, RingTypeCorrect, PTL DEF RingSpec, ActsAsQueue, Queue!QueueSpec

-----------------------------------------------------------------------------
(* The settings file.                                                      *)

SettingsTypeOK ==
    /\ library \in Values
    /\ saved \in Values
    /\ doing \in {"idle", "opens", "writes", "replaces"}

\* Wherever a step of save() fails or the program ends, the file holds what was
\* saved last; it is inductive once the settings in memory are known to be some.
THEOREM SettingsSurviveHolds == SettingsSpec => []SettingsSurvive
<1> DEFINE Inv == SettingsTypeOK /\ SettingsSurvive
<1> USE SettingsAssumption DEF SettingsAssumption, SettingsTypeOK, SettingsSurvive
<1>1. SettingsInit => Inv
  BY DEF SettingsInit
<1>2. Inv /\ [SettingsNext]_settingsVars => Inv'
  <2> SUFFICES ASSUME Inv, [SettingsNext]_settingsVars PROVE Inv'
    OBVIOUS
  <2>1. ASSUME NEW v \in Values, Change(v) PROVE Inv'
    BY <2>1 DEF Change
  <2>2. CASE Opens
    BY <2>2 DEF Opens
  <2>3. CASE Writes
    BY <2>3 DEF Writes
  <2>4. CASE Replaces
    BY <2>4 DEF Replaces
  <2>5. CASE Fails
    BY <2>5 DEF Fails
  <2>6. CASE Restarts
    BY <2>6 DEF Restarts, Loads
  <2>7. CASE UNCHANGED settingsVars
    BY <2>7 DEF settingsVars
  <2> QED BY <2>1, <2>2, <2>3, <2>4, <2>5, <2>6, <2>7 DEF SettingsNext
<1>3. Inv => SettingsSurvive
  OBVIOUS
<1> QED BY <1>1, <1>2, <1>3, PTL DEF SettingsSpec

-----------------------------------------------------------------------------
(* The heartbeat.                                                          *)

\* How much later a state is for n losses in a row.
Debt(n) == n * Resend

\* Its arithmetic, apart since the provers are poor at products.
LEMMA DebtGrows ==
    /\ Resend \in Nat
    /\ Debt(0) = 0
    /\ \A n \in Nat : Debt(n) \in Nat /\ Debt(n + 1) = Debt(n) + Resend
    /\ \A n \in 0..MaxLosses : Debt(n) <= Debt(MaxLosses)
<1> USE HeartbeatAssumption DEF HeartbeatAssumption, Debt
<1>1. Resend \in Nat
  BY DEF Resend
<1> QED BY <1>1

Turn == Period + Lag

BeatTypeOK ==
    /\ pending \in Nat \cup {None}
    /\ command \in Nat \cup {None}
    /\ answer \in Nat \cup {None}
    /\ arrived \in BOOLEAN
    /\ since \in Nat /\ quiet \in Nat
    /\ losses \in 0..MaxLosses
    /\ phase \in 0..Turn

\* Where the state that tick() sent last is, and how long ago the device can have
\* applied the one before.
Unsent ==
    /\ pending = None /\ command = None /\ answer = None /\ ~arrived
    /\ losses = 0 /\ phase >= Period
    /\ since <= phase - Period /\ quiet <= phase - Period
OnItsWay ==
    /\ command # None /\ answer = None /\ ~arrived
    /\ pending = command /\ command <= MaxDelay
    /\ since <= MaxDelay + Turn + Debt(losses) + pending
    /\ quiet <= Lag + Debt(losses) + pending
Applied ==
    /\ answer # None /\ command = None /\ ~arrived /\ pending # None
    /\ answer <= MaxDelay /\ pending <= MaxDelay + answer
    /\ since <= answer
    /\ quiet <= Lag + Debt(losses) + pending
Replied ==
    /\ arrived /\ command = None /\ answer = None /\ pending # None
    /\ since <= MaxDelay + phase
    /\ quiet <= Lag + Debt(losses) + 2 * MaxDelay + phase
Lost ==
    /\ command = None /\ answer = None /\ ~arrived /\ pending # None
    /\ losses > 0 /\ pending <= Expiry + phase
    /\ since <= MaxDelay + Turn + Debt(losses - 1) + pending
    /\ quiet <= Lag + Debt(losses - 1) + pending

BeatInv == BeatTypeOK /\ (Unsent \/ OnItsWay \/ Applied \/ Replied \/ Lost)

\* Each step leads from one of these places to another, in time.
LEMMA BeatInvariant == BeatSpec => []BeatInv
<1> USE HeartbeatAssumption DEF HeartbeatAssumption
<1>1. BeatInit => BeatInv
  <2> SUFFICES ASSUME BeatInit PROVE BeatInv
    OBVIOUS
  <2>1. arrived \in BOOLEAN /\ ~arrived
    BY Zenon DEF BeatInit
  <2>2. /\ pending = None /\ command = None /\ answer = None
        /\ since = 0 /\ quiet = 0 /\ losses = 0 /\ phase = Period
    BY Zenon DEF BeatInit
  <2> QED BY <2>1, <2>2 DEF BeatInv, BeatTypeOK, Unsent, Turn
<1>2. BeatInv /\ [BeatNext]_beatVars => BeatInv'
  <2> SUFFICES ASSUME BeatInv, [BeatNext]_beatVars PROVE BeatInv'
    OBVIOUS
  <2> USE DEF BeatTypeOK, Turn
  <2>0. /\ BeatTypeOK
        /\ Unsent \/ OnItsWay \/ Applied \/ Replied \/ Lost
        /\ Resend = Expiry + Turn
        /\ Debt(losses) \in Nat
        /\ losses > 0 => /\ Debt(losses - 1) \in Nat
                         /\ Debt(losses) = Debt(losses - 1) + Resend
    BY DebtGrows DEF BeatInv, Resend
  <2>1. CASE Tick
    <3>1. /\ arrived' \in BOOLEAN /\ ~arrived'
          /\ UNCHANGED <<answer, since>> /\ phase' = 0
      BY <2>1, Zenon DEF Tick
    <3>2. ASSUME ~arrived, pending # None, ~Expired(pending)
          PROVE  UNCHANGED <<pending, command, quiet, losses>>
      BY <2>1, <3>2 DEF Tick
    <3>3. ASSUME arrived \/ pending = None \/ Expired(pending)
          PROVE  pending' = 0 /\ command' = 0
      BY <2>1, <3>3 DEF Tick
    <3>4. /\ arrived => quiet' = 0 /\ losses' = 0
          /\ ~arrived => UNCHANGED <<quiet, losses>>
      BY <2>1 DEF Tick
    <3>5. CASE Unsent
      <4>1. OnItsWay'
        BY <2>0, <3>1, <3>3, <3>4, <3>5 DEF Unsent, OnItsWay
      <4> QED BY <2>0, <3>1, <3>3, <3>4, <3>5, <4>1 DEF BeatInv, Unsent
    <3>6. CASE OnItsWay
      <4>1. ~Expired(pending)
        BY <2>0, <3>6 DEF OnItsWay, Expired
      <4>2. OnItsWay'
        BY <2>0, <3>1, <3>2, <3>6, <4>1 DEF OnItsWay
      <4> QED BY <2>0, <3>1, <3>2, <3>6, <4>1, <4>2 DEF BeatInv, OnItsWay
    <3>7. CASE Applied
      <4>1. ~Expired(pending)
        BY <2>0, <3>7 DEF Applied, Expired
      <4>2. Applied'
        BY <2>0, <3>1, <3>2, <3>7, <4>1 DEF Applied
      <4> QED BY <2>0, <3>1, <3>2, <3>7, <4>1, <4>2 DEF BeatInv, Applied
    <3>8. CASE Replied
      <4>1. /\ since' <= MaxDelay + Turn /\ quiet' = 0 /\ losses' = 0
            /\ Debt(losses') = 0
        BY <2>0, <3>1, <3>4, <3>8, DebtGrows DEF Replied
      <4>2. OnItsWay'
        BY <2>0, <3>1, <3>3, <3>8, <4>1 DEF Replied, OnItsWay
      <4> QED BY <2>0, <3>1, <3>3, <3>8, <4>1, <4>2 DEF BeatInv, Replied
    <3>9. CASE Lost /\ Expired(pending)
      <4>1. OnItsWay'
        BY <2>0, <3>1, <3>3, <3>4, <3>9 DEF Lost, OnItsWay
      <4> QED BY <2>0, <3>1, <3>3, <3>4, <3>9, <4>1 DEF BeatInv, Lost
    <3>10. CASE Lost /\ ~Expired(pending)
      <4>1. Lost'
        BY <2>0, <3>1, <3>2, <3>10 DEF Lost, Expired
      <4> QED BY <2>0, <3>1, <3>2, <3>10, <4>1 DEF BeatInv, Lost
    <3> QED BY <2>0, <3>5, <3>6, <3>7, <3>8, <3>9, <3>10
  <2>2. CASE Applies
    <3>1. OnItsWay
      BY <2>0, <2>2 DEF Applies, Unsent, Applied, Replied, Lost
    <3>2. Applied' /\ BeatTypeOK'
      BY <2>0, <2>2, <3>1 DEF Applies, OnItsWay, Applied
    <3> QED BY <3>2 DEF BeatInv
  <2>3. CASE Arrives
    <3>1. Applied
      BY <2>0, <2>3 DEF Arrives, Unsent, OnItsWay, Replied, Lost
    <3>2. Replied' /\ BeatTypeOK'
      BY <2>0, <2>3, <3>1 DEF Arrives, Applied, Replied
    <3> QED BY <3>2 DEF BeatInv
  <2>4. CASE Loses
    <3>1. OnItsWay \/ Applied
      BY <2>0, <2>4 DEF Loses, Unsent, Replied, Lost
    <3>2. Debt(losses' - 1) = Debt(losses)
      BY <2>0, <2>4 DEF Loses
    <3>3. Lost' /\ BeatTypeOK'
      BY <2>0, <2>4, <3>1, <3>2 DEF Loses, OnItsWay, Applied, Lost
    <3> QED BY <3>3 DEF BeatInv
  <2>5. CASE Passes
    <3>1. /\ since' \in Nat /\ since' <= since + 1
          /\ quiet' \in Nat /\ quiet' <= quiet + 1
      BY <2>0, <2>5 DEF Passes, UpTo
    <3>2. /\ UNCHANGED <<arrived, losses>> /\ phase' = phase + 1
          /\ phase' <= Turn
      BY <2>0, <2>5 DEF Passes
    <3>3. /\ pending' = IF pending = None THEN None ELSE pending + 1
          /\ command' = IF command = None THEN None ELSE command + 1
          /\ answer' = IF answer = None THEN None ELSE answer + 1
          /\ command # None => command < MaxDelay
          /\ answer # None => answer < MaxDelay
      BY <2>5 DEF Passes, Older
    <3>4. BeatTypeOK'
      BY <2>0, <3>1, <3>2, <3>3
    <3>5. CASE Unsent
      BY <2>0, <3>1, <3>2, <3>3, <3>4, <3>5 DEF Unsent, BeatInv
    <3>6. CASE OnItsWay
      BY <2>0, <3>1, <3>2, <3>3, <3>4, <3>6 DEF OnItsWay, BeatInv
    <3>7. CASE Applied
      BY <2>0, <3>1, <3>2, <3>3, <3>4, <3>7 DEF Applied, BeatInv
    <3>8. CASE Replied
      BY <2>0, <3>1, <3>2, <3>3, <3>4, <3>8 DEF Replied, BeatInv
    <3>9. CASE Lost
      BY <2>0, <3>1, <3>2, <3>3, <3>4, <3>9 DEF Lost, BeatInv
    <3> QED BY <2>0, <3>5, <3>6, <3>7, <3>8, <3>9
  <2>6. CASE UNCHANGED beatVars
    BY <2>6 DEF beatVars, BeatInv, Unsent, OnItsWay, Applied, Replied, Lost
  <2> QED BY <2>1, <2>2, <2>3, <2>4, <2>5, <2>6 DEF BeatNext
<1> QED BY <1>1, <1>2, PTL DEF BeatSpec

\* Some losses in a row do not make the device let go of a button that is held, nor
\* the application give the link up, whatever the times are, as long as they meet
\* the margins.
THEOREM StaysHeldHolds == BeatSpec => []StaysHeld
<1>1. BeatInv => StaysHeld
  <2> SUFFICES ASSUME BeatInv PROVE StaysHeld
    OBVIOUS
  <2> USE HeartbeatAssumption DEF HeartbeatAssumption, BeatTypeOK, Turn
  <2>1. /\ BeatTypeOK
        /\ Resend = Expiry + Turn
        /\ Debt(losses) \in Nat /\ Debt(losses) <= Debt(MaxLosses)
        /\ losses > 0 => /\ Debt(losses - 1) \in Nat
                         /\ Debt(losses) = Debt(losses - 1) + Resend
    BY DebtGrows DEF BeatInv, Resend
  <2>2. /\ 2 * MaxDelay + Turn + Debt(MaxLosses) <= Release
        /\ 2 * MaxDelay + Lag + Turn + Debt(MaxLosses) <= Dead
        /\ Debt(MaxLosses) \in Nat
    BY MarginAssumption, DebtGrows DEF MarginAssumption, Debt
  <2>3. CASE Unsent
    BY <2>1, <2>2, <2>3 DEF Unsent, StaysHeld
  <2>4. CASE OnItsWay
    BY <2>1, <2>2, <2>4 DEF OnItsWay, StaysHeld
  <2>5. CASE Applied
    BY <2>1, <2>2, <2>5 DEF Applied, StaysHeld
  <2>6. CASE Replied
    BY <2>1, <2>2, <2>6 DEF Replied, StaysHeld
  <2>7. CASE Lost
    BY <2>1, <2>2, <2>7 DEF Lost, StaysHeld
  <2> QED BY <2>3, <2>4, <2>5, <2>6, <2>7 DEF BeatInv
<1> QED BY <1>1, BeatInvariant, PTL

-----------------------------------------------------------------------------
(* The flash image.                                                        *)

\* A byte of data lies at b in region r.
DataAt(b, r) ==
    /\ b \in Regions[r].start..Regions[r].end
    /\ b - Regions[r].start < Len(Regions[r].data)

\* The types and the place of a region of the table.
LEMMA RegionIs ==
    ASSUME NEW r \in DOMAIN Regions
    PROVE  /\ Regions[r].start \in Nat /\ Regions[r].end \in Nat
           /\ Regions[r].data \in Seq(0..255)
           /\ MaxLen < Regions[r].start /\ Regions[r].start <= Regions[r].end
           /\ Regions[r].end + MaxLen < AddrMod
<1> DEFINE R == [start : Nat, end : Nat, data : Seq(0..255)]
<1>1. Regions \in Seq(R)
  BY FlashAssumption DEF FlashAssumption
<1>2. Regions[r] \in R
  <2> HIDE DEF R
  <2> QED BY <1>1
<1> QED BY <1>2, FlashAssumption DEF FlashAssumption

\* An address is in one region at most.
LEMMA OneRegion ==
    ASSUME NEW r \in DOMAIN Regions, NEW s \in DOMAIN Regions, NEW b \in Int,
           b \in Regions[r].start..Regions[r].end,
           b \in Regions[s].start..Regions[s].end
    PROVE  r = s
<1>1. r \in Int /\ s \in Int
  <2> DEFINE R == [start : Nat, end : Nat, data : Seq(0..255)]
  <2>1. Regions \in Seq(R)
    BY FlashAssumption DEF FlashAssumption
  <2> HIDE DEF R
  <2>2. Len(Regions) \in Nat /\ DOMAIN Regions = 1..Len(Regions)
    BY <2>1
  <2> QED BY <2>2
<1>2. /\ r < s => Regions[r].end < Regions[s].start
      /\ s < r => Regions[s].end < Regions[r].start
  BY FlashAssumption DEF FlashAssumption
<1> QED BY <1>1, <1>2, RegionIs

\* The test of an overlap and the intersection, in arithmetic that wraps, find just the
\* data at the addresses asked for.
LEMMA CopiesTheData ==
    ASSUME NEW addr \in 0..(AddrMod - 1), NEW len \in 0..MaxLen, addr + len > 0,
           NEW r \in DOMAIN Regions, NEW b
    PROVE  r \in Overlapping(addr, len) /\ b \in Copied(addr, len, r)
             <=> b \in addr..(addr + len - 1) /\ DataAt(b, r)
<1> DEFINE last == addr + len - 1
<1>1. /\ AddrMod \in Nat /\ MaxLen \in Nat /\ MaxLen < AddrMod
      /\ last \in 0..(2 * AddrMod - 1)
  BY FlashAssumption DEF FlashAssumption
<1>2. Last(addr, len) = IF last < AddrMod THEN last ELSE last - AddrMod
  BY <1>1 DEF Last
<1>3. Len(Regions[r].data) \in Nat
  BY RegionIs
<1>4. CASE last < AddrMod
  BY <1>1, <1>2, <1>3, <1>4, RegionIs DEF Overlapping, Copied, DataAt
<1>5. CASE ~(last < AddrMod)
  <2>1. r \notin Overlapping(addr, len)
    BY <1>1, <1>2, <1>5, RegionIs DEF Overlapping
  <2>2. Regions[r].end < addr
    BY <1>1, <1>5, RegionIs
  <2>3. ASSUME b \in addr..last, DataAt(b, r)
        PROVE  FALSE
    BY <1>1, <2>2, <2>3, RegionIs DEF DataAt
  <2> QED BY <2>1, <2>3
<1> QED BY <1>4, <1>5

\* What the memory holds at an address of a region, and elsewhere.
LEMMA MemoryIs ==
    ASSUME NEW b \in Int
    PROVE  /\ \A r \in DOMAIN Regions : DataAt(b, r) =>
                 Memory(b) = Regions[r].data[b - Regions[r].start + 1]
           /\ (\A r \in DOMAIN Regions : ~DataAt(b, r)) => Memory(b) = Erased
<1>1. ASSUME NEW r \in DOMAIN Regions, DataAt(b, r)
      PROVE  Memory(b) = Regions[r].data[b - Regions[r].start + 1]
  <2> DEFINE s == CHOOSE s \in DOMAIN Regions : b \in Regions[s].start..Regions[s].end
  <2>1. s \in DOMAIN Regions /\ b \in Regions[s].start..Regions[s].end
    BY <1>1 DEF DataAt
  <2>2. s = r
    BY <1>1, <2>1, OneRegion DEF DataAt
  <2>3. Memory(b) = Regions[s].data[b - Regions[s].start + 1]
    BY <1>1 DEF Memory, DataAt
  <2> QED BY <2>2, <2>3
<1>2. ASSUME \A r \in DOMAIN Regions : ~DataAt(b, r)
      PROVE  Memory(b) = Erased
  BY <1>2 DEF Memory, DataAt
<1> QED BY <1>1, <1>2

\* The addresses wrap where the table has no region.
LEMMA MemoryWraps ==
    ASSUME NEW addr \in 0..(AddrMod - 1), NEW i \in 0..(MaxLen - 1)
    PROVE  Memory((addr + i) % AddrMod) = Memory(addr + i)
<1>1. AddrMod \in Nat /\ MaxLen \in Nat /\ MaxLen < AddrMod
  BY FlashAssumption DEF FlashAssumption
<1>2. (addr + i) % AddrMod
        = IF addr + i < AddrMod THEN addr + i ELSE addr + i - AddrMod
  BY <1>1
<1>3. CASE ~(addr + i < AddrMod)
  <2>1. \A r \in DOMAIN Regions : ~DataAt(addr + i, r)
    BY <1>1, <1>3, RegionIs DEF DataAt
  <2>2. \A r \in DOMAIN Regions : ~DataAt(addr + i - AddrMod, r)
    BY <1>1, <1>3, RegionIs DEF DataAt
  <2>3. addr + i \in Int /\ addr + i - AddrMod \in Int
    BY <1>1
  <2>4. Memory(addr + i) = Erased /\ Memory(addr + i - AddrMod) = Erased
    BY <2>1, <2>2, <2>3, MemoryIs
  <2> QED BY <1>2, <1>3, <2>4
<1> QED BY <1>2, <1>3

\* The bytes written over the answer are the data at the addresses asked for.
LEMMA WrittenIs ==
    ASSUME NEW addr \in 0..(AddrMod - 1), NEW len \in 0..MaxLen, addr + len > 0
    PROVE  /\ \A w \in Written(addr, len) :
                 /\ w[1] \in 0..(len - 1)
                 /\ w[2] = Memory(addr + w[1])
           /\ \A i \in 0..(len - 1), r \in DOMAIN Regions : DataAt(addr + i, r) =>
                 \E w \in Written(addr, len) : w[1] = i
<1>1. AddrMod \in Nat /\ MaxLen \in Nat
  BY FlashAssumption DEF FlashAssumption
<1>2. ASSUME NEW w \in Written(addr, len)
      PROVE  w[1] \in 0..(len - 1) /\ w[2] = Memory(addr + w[1])
  <2>1. PICK r \in Overlapping(addr, len) : \E b \in Copied(addr, len, r) :
            w = <<b - addr, Regions[r].data[b - Regions[r].start + 1]>>
    BY <1>2 DEF Written
  <2>2. r \in DOMAIN Regions
    BY DEF Overlapping
  <2> PICK b \in Copied(addr, len, r) :
            w = <<b - addr, Regions[r].data[b - Regions[r].start + 1]>>
    BY <2>1
  <2>3. b \in addr..(addr + len - 1) /\ DataAt(b, r)
    BY <2>2, CopiesTheData
  <2>4. w[1] = b - addr /\ w[2] = Memory(b)
    BY <1>1, <2>1, <2>2, <2>3, MemoryIs
  <2>5. addr + w[1] = b
    BY <1>1, <2>3, <2>4
  <2> QED BY <1>1, <2>3, <2>4, <2>5
<1>3. ASSUME NEW i \in 0..(len - 1), NEW r \in DOMAIN Regions, DataAt(addr + i, r)
      PROVE  \E w \in Written(addr, len) : w[1] = i
  <2> DEFINE b == addr + i
             w == <<b - addr, Regions[r].data[b - Regions[r].start + 1]>>
  <2>1. b \in addr..(addr + len - 1) /\ b - addr = i
    BY <1>1
  <2>2. r \in Overlapping(addr, len) /\ b \in Copied(addr, len, r)
    BY <1>3, <2>1, CopiesTheData
  <2>3. w \in Written(addr, len)
    BY <2>2 DEF Written
  <2>4. w[1] = i
    BY <2>1
  <2> QED BY <2>3, <2>4
<1> QED BY <1>2, <1>3

\* A read gives the memory that the table describes.
LEMMA ReadIsMemory ==
    ASSUME NEW addr \in 0..(AddrMod - 1), NEW len \in 0..MaxLen, addr + len > 0
    PROVE  FlashRead(addr, len)
             = [i \in 0..(len - 1) |-> Memory((addr + i) % AddrMod)]
<1> DEFINE written == Written(addr, len)
           byte(i) == IF \E w \in written : w[1] = i
                      THEN (CHOOSE w \in written : w[1] = i)[2] ELSE Erased
<1>1. FlashRead(addr, len)
        = [i \in (0..(len - 1)) \cup {w[1] : w \in written} |-> byte(i)]
  BY DEF FlashRead
<1>2. (0..(len - 1)) \cup {w[1] : w \in written} = 0..(len - 1)
  BY WrittenIs
<1>3. ASSUME NEW i \in 0..(len - 1)
      PROVE  byte(i) = Memory((addr + i) % AddrMod)
  <2>1. i \in 0..(MaxLen - 1) /\ addr + i \in Int
    BY FlashAssumption DEF FlashAssumption
  <2>2. Memory((addr + i) % AddrMod) = Memory(addr + i)
    BY <2>1, MemoryWraps
  <2>3. CASE \E w \in written : w[1] = i
    <3> DEFINE c == CHOOSE w \in written : w[1] = i
    <3>1. c \in written /\ c[1] = i
      BY <2>3
    <3>2. c[2] = Memory(addr + i)
      BY <3>1, WrittenIs
    <3> QED BY <2>2, <2>3, <3>2
  <2>4. CASE ~\E w \in written : w[1] = i
    <3>1. \A r \in DOMAIN Regions : ~DataAt(addr + i, r)
      BY <2>4, WrittenIs
    <3> QED BY <2>1, <2>2, <2>4, <3>1, MemoryIs
  <2> QED BY <2>3, <2>4
<1> HIDE DEF byte
<1> QED BY <1>1, <1>2, <1>3

\* A read gives just the bytes asked for, each the one the flash has at its address, for
\* any table of ordered regions, across any number of them and where addresses wrap
\* (spi_flash.c:140-183).  It is false of one read, of length 0 at address 0, and the
\* statement leaves out just that one.
THEOREM ReadsMemoryHolds == FlashSpec => []ReadsMemory
<1> DEFINE Answered(addr, len) ==
             /\ asked.addr = addr /\ asked.len = len
             /\ out = [i \in 0..(len - 1) |-> Memory((addr + i) % AddrMod)]
           Inv == /\ asked.addr \in Nat /\ asked.len \in Nat
                  /\ asked.done /\ ~WrapsToEverything => Answered(asked.addr, asked.len)
<1>1. FlashInit => Inv
  BY DEF FlashInit
<1>2. Inv /\ [FlashNext]_flashVars => Inv'
  <2> SUFFICES ASSUME Inv, [FlashNext]_flashVars PROVE Inv'
    OBVIOUS
  <2>1. ASSUME NEW addr \in Addresses, NEW n \in 0..(MaxLen + 1), Read(addr, n)
        PROVE  Inv'
    <3> DEFINE len == IF n > MaxLen THEN MaxLen ELSE n
    <3>1. MaxLen \in Nat \ {0} /\ addr \in 0..(AddrMod - 1) /\ AddrMod \in Nat
      BY FlashAssumption DEF FlashAssumption
    <3>2. len \in 0..MaxLen
      BY <3>1
    <3>3. asked' = [addr |-> addr, len |-> len, done |-> TRUE]
          /\ out' = FlashRead(addr, len)
      BY <2>1 DEF Read
    <3> HIDE DEF len
    <3>4. asked'.addr = addr /\ asked'.len = len
      BY <3>3
    <3>5. asked'.addr \in Nat /\ asked'.len \in Nat
      BY <3>1, <3>2, <3>4
    <3>6. ASSUME WrapsToEverything' = FALSE PROVE Answered(asked.addr, asked.len)'
      <4>1. addr + len > 0
        BY <3>1, <3>2, <3>4, <3>6 DEF WrapsToEverything
      <4>2. out' = [i \in 0..(len - 1) |-> Memory((addr + i) % AddrMod)]
        BY <3>1, <3>2, <3>3, <4>1, ReadIsMemory
      <4> QED BY <3>4, <4>2
    <3> HIDE DEF Answered
    <3>7. WrapsToEverything' \in BOOLEAN
      BY DEF WrapsToEverything
    <3> QED BY <3>5, <3>6, <3>7
  <2>2. CASE Sent
    BY <2>2 DEF Sent
  <2>3. CASE UNCHANGED flashVars
    BY <2>3 DEF flashVars, WrapsToEverything
  <2> QED BY <2>1, <2>2, <2>3 DEF FlashNext
<1>3. Inv => ReadsMemory
  BY DEF ReadsMemory
<1> QED BY <1>1, <1>2, <1>3, PTL DEF FlashSpec

-----------------------------------------------------------------------------
(* The reports.                                                            *)

ReportTyped == pressed \subseteq Names /\ lx \in 0..4095 /\ ly \in 0..4095

\* The names of the buttons of the PC's table.
LEMMA NamesAre ==
    Names = {"Y", "X", "B", "A", "R", "ZR", "L", "ZL", "Down", "Up", "Right", "Left",
             "Minus", "Plus", "RS", "LS", "Home", "Capture"}
BY DEF Names, BUTTONS

\* The table of the PC and the console's tables of the full report are inverse to each
\* other.
LEMMA TablesAgree ==
    ASSUME NEW b \in Names
    PROVE  LET bit == BUTTONS[b]
           IN \/ bit.field = "r" /\ bit.n \in 0..7 /\ ReadsRight[bit.n + 1] = b
              \/ bit.field = "s" /\ bit.n \in 0..5 /\ ReadsShared[bit.n + 1] = b
              \/ bit.field = "l" /\ bit.n \in 0..7 /\ ReadsLeft[bit.n + 1] = b
BY NamesAre DEF BUTTONS, Bit, ReadsRight, ReadsShared, ReadsLeft

\* A bit of a field is set just if the name it stands for is pressed.
LEMMA BitIsSet ==
    ASSUME pressed \subseteq Names, NEW b \in Names
    PROVE  BUTTONS[b].n \in StateFor(BUTTONS[b].field) <=> b \in pressed
<1>1. ASSUME NEW c \in Names, BUTTONS[c].n = BUTTONS[b].n,
             BUTTONS[c].field = BUTTONS[b].field
      PROVE  c = b
  BY <1>1, TablesAgree
<1> QED BY <1>1 DEF StateFor

\* A console reads from the full layout just the buttons that are pressed.
LEMMA FullIsPressed ==
    ASSUME pressed \subseteq Names
    PROVE  FullShowsPressed
<1>1. ASSUME NEW x \in InFull PROVE x \in pressed
  BY <1>1, TablesAgree
  DEF InFull, Decoded, FullRight, FullShared, FullLeft, StateFor
<1>2. ASSUME NEW x \in pressed PROVE x \in InFull
  BY <1>2, TablesAgree
  DEF InFull, Decoded, FullRight, FullShared, FullLeft, StateFor
<1> QED BY <1>1, <1>2 DEF FullShowsPressed

\* The masks of the short report stand for the names that the console reads there.
LEMMA MasksAgree ==
    /\ \A n \in 0..13 : /\ ReadsShort[n + 1] \in Names \ Directions
                        /\ ShortMask[n + 1] = BUTTONS[ReadsShort[n + 1]]
    /\ \A b \in Names \ Directions : \E n \in 0..13 : ReadsShort[n + 1] = b
<1>1. ASSUME NEW n \in 0..13
      PROVE  /\ ReadsShort[n + 1] \in Names \ Directions
             /\ ShortMask[n + 1] = BUTTONS[ReadsShort[n + 1]]
  BY NamesAre DEF ReadsShort, ShortMask, BUTTONS, Bit, Directions
<1>2. ASSUME NEW b \in Names \ Directions
      PROVE  \E n \in 0..13 : ReadsShort[n + 1] = b
  BY NamesAre DEF ReadsShort, Directions
<1> QED BY <1>1, <1>2

\* The short layout shows the buttons that are no directions.
LEMMA ShortNames ==
    ASSUME pressed \subseteq Names
    PROVE  Decoded(ReadsShort, ShortButtons) = pressed \ Directions
<1>1. ASSUME NEW n \in 0..13
      PROVE  n \in ShortButtons <=> ReadsShort[n + 1] \in pressed
  <2>1. ShortMask[n + 1] = BUTTONS[ReadsShort[n + 1]] /\ ReadsShort[n + 1] \in Names
    BY MasksAgree
  <2> QED BY <2>1, BitIsSet DEF ShortButtons
<1>2. ShortButtons \subseteq 0..13
  BY DEF ShortButtons
<1>3. ASSUME NEW x \in Decoded(ReadsShort, ShortButtons)
      PROVE  x \in pressed \ Directions
  BY <1>1, <1>2, <1>3, MasksAgree DEF Decoded
<1>4. ASSUME NEW x \in pressed \ Directions
      PROVE  x \in Decoded(ReadsShort, ShortButtons)
  BY <1>1, <1>4, MasksAgree DEF Decoded
<1> QED BY <1>3, <1>4

\* The hat shows the directions pressed whose opposite is not.
LEMMA HatNames ==
    ASSUME pressed \subseteq Names
    PROVE  ReadsHat[Hat(StateFor("l")) + 1]
             = {d \in pressed \cap Directions : Opposite[d] \notin pressed}
<1> DEFINE left == StateFor("l")
           shown == {d \in pressed \cap Directions : Opposite[d] \notin pressed}
           x == (IF 2 \in left THEN 1 ELSE 0) - (IF 3 \in left THEN 1 ELSE 0)
           y == (IF 0 \in left THEN 1 ELSE 0) - (IF 1 \in left THEN 1 ELSE 0)
<1>1. /\ 0 \in left <=> "Down" \in pressed
      /\ 1 \in left <=> "Up" \in pressed
      /\ 2 \in left <=> "Right" \in pressed
      /\ 3 \in left <=> "Left" \in pressed
  <2>1. /\ BUTTONS["Down"] = [field |-> "l", n |-> 0]
        /\ BUTTONS["Up"] = [field |-> "l", n |-> 1]
        /\ BUTTONS["Right"] = [field |-> "l", n |-> 2]
        /\ BUTTONS["Left"] = [field |-> "l", n |-> 3]
    BY DEF BUTTONS, Bit
  <2>2. {"Down", "Up", "Right", "Left"} \subseteq Names
    BY NamesAre
  <2> QED BY <2>1, <2>2, BitIsSet
<1>2. Hat(left) = CASE y = -1 -> (IF x = -1 THEN 7 ELSE IF x = 1 THEN 1 ELSE 0)
                    [] y = 1  -> (IF x = -1 THEN 5 ELSE IF x = 1 THEN 3 ELSE 4)
                    [] y = 0  -> (IF x = -1 THEN 6 ELSE IF x = 1 THEN 2 ELSE 8)
  BY DEF Hat
<1>3. \A d : d \in shown <=>
         \/ d = "Down" /\ y = 1
         \/ d = "Up" /\ y = -1
         \/ d = "Right" /\ x = 1
         \/ d = "Left" /\ x = -1
  BY <1>1 DEF Directions, Opposite
<1>4. x \in {-1, 0, 1} /\ y \in {-1, 0, 1}
  OBVIOUS
<1> HIDE DEF x, y, shown, left
<1>5. ReadsHat[Hat(left) + 1] =
         {d \in Directions : \/ d = "Down" /\ y = 1
                             \/ d = "Up" /\ y = -1
                             \/ d = "Right" /\ x = 1
                             \/ d = "Left" /\ x = -1}
  <2>1. CASE y = -1
    BY <1>2, <1>4, <2>1 DEF ReadsHat, Directions
  <2>2. CASE y = 0
    BY <1>2, <1>4, <2>2 DEF ReadsHat, Directions
  <2>3. CASE y = 1
    BY <1>2, <1>4, <2>3 DEF ReadsHat, Directions
  <2> QED BY <1>4, <2>1, <2>2, <2>3
<1>6. ReadsHat[Hat(left) + 1] = shown
  BY <1>3, <1>5 DEF Directions
<1> QED BY <1>6 DEF left, shown

\* So does it from the short layout, but for opposite directions, which cancel.
LEMMA ShortIsPressed ==
    ASSUME pressed \subseteq Names
    PROVE  ShortShowsPressed
<1> DEFINE hat == ReadsHat[Hat(StateFor("l")) + 1]
<1>1. InFull = pressed
  BY FullIsPressed DEF FullShowsPressed
<1>2. InShort = (pressed \ Directions) \cup hat
  BY ShortNames DEF InShort
<1>3. hat = {d \in pressed \cap Directions : Opposite[d] \notin pressed}
  BY HatNames
<1> HIDE DEF hat
<1> QED BY <1>1, <1>2, <1>3 DEF ShortShowsPressed

\* Two axes of 12 bits in three bytes, and each in two.
LEMMA SticksAreRead ==
    ASSUME lx \in 0..4095, ly \in 0..4095
    PROVE  StickSurvives
<1>1. /\ PackStick(lx, ly)[1] = lx % 256
      /\ PackStick(lx, ly)[2] = (lx \div 256) + (ly % 16) * 16
      /\ PackStick(lx, ly)[3] = ly \div 16
  BY DEF PackStick
<1>2. /\ lx % 256 \in 0..255 /\ lx \div 256 \in 0..15
      /\ lx = (lx % 256) + 256 * (lx \div 256)
      /\ ly % 16 \in 0..15 /\ ly \div 16 \in 0..255
      /\ ly = (ly % 16) + 16 * (ly \div 16)
  OBVIOUS
<1>3. ASSUME NEW h \in 0..15, NEW l \in 0..15
      PROVE  (h + l * 16) % 16 = h /\ (h + l * 16) \div 16 = l
  OBVIOUS
<1>4. /\ PackStick(lx, ly)[2] % 16 = lx \div 256
      /\ PackStick(lx, ly)[2] \div 16 = ly % 16
  BY <1>1, <1>2, <1>3
<1>5. /\ ShortSticks[4] = (lx * 16) % 256 /\ ShortSticks[5] = (lx * 16) \div 256
      /\ ShortSticks[6] = (ly * 16) % 256 /\ ShortSticks[7] = (ly * 16) \div 256
  BY DEF ShortSticks
<1>6. ASSUME NEW v \in Nat
      PROVE  (v % 256) + (v \div 256) * 256 = v
  OBVIOUS
<1>7. /\ ShortSticks[4] + ShortSticks[5] * 256 = lx * 16
      /\ ShortSticks[6] + ShortSticks[7] * 256 = ly * 16
  BY <1>5, <1>6
<1>8. \A i \in 1..3 : PackStick(lx, ly)[i] \in 0..255
  BY <1>1, <1>2
<1> QED BY <1>1, <1>2, <1>4, <1>7, <1>8 DEF StickSurvives

\* Whatever buttons are held, any number of them, and wherever the stick is, the console
\* reads the same controls in both layouts (input_report.c:15-110, 118-180).
THEOREM ShowsControlsHolds == ReportSpec => []ShowsControls
<1>1. ReportInit => ReportTyped
  BY DEF ReportInit, ReportTyped
<1>2. ReportTyped /\ [ReportNext]_reportVars => ReportTyped'
  <2> SUFFICES ASSUME ReportTyped, [ReportNext]_reportVars PROVE ReportTyped'
    OBVIOUS
  <2>1. ASSUME NEW b \in Names, Toggle(b) PROVE ReportTyped'
    BY <2>1 DEF Toggle, ReportTyped
  <2>2. ASSUME NEW x \in Axis, NEW y \in Axis, Move(x, y) PROVE ReportTyped'
    BY <2>2, ReportAssumption DEF ReportAssumption, Move, ReportTyped
  <2>3. CASE UNCHANGED reportVars
    BY <2>3 DEF reportVars, ReportTyped
  <2> QED BY <2>1, <2>2, <2>3 DEF ReportNext
<1>3. ReportTyped => ShowsControls
  BY FullIsPressed, ShortIsPressed, SticksAreRead DEF ReportTyped, ShowsControls
<1> QED BY <1>1, <1>2, <1>3, PTL DEF ReportSpec

-----------------------------------------------------------------------------
(* The Bluedroid transport.  SomeoneClears is inductive once the types are *)
(* known.                                                                  *)

\* Where a task goes; the record that Goes() writes.
LEMMA GoesTyped ==
    ASSUME NEW t \in Tasks, NEW step \in {"idle", "numbers", "checks", "marks", "sends"},
           NEW number \in 0..(TimerMod - 1), BtTypeOK, Goes(t, step, number)
    PROVE  /\ task' \in [Tasks -> [at : {"idle", "numbers", "checks", "marks", "sends"},
                                   number : 0..(TimerMod - 1)]]
           /\ task'[t].at = step
           /\ \A u \in Tasks \ {t} : task'[u] = task[u]
BY BtAssumption DEF BtAssumption, Goes, At, BtTypeOK, Tasks

\* The types hold, and the timer of reports exists just while a connection does:
\* OPEN and CLOSE, the only ones that start and stop it (bt_hid.c:568, 593), are
\* told in turn.
THEOREM BtTypeCorrect == BtSpec => []BtTypeOK
<1>1. BtInit => BtTypeOK
  <2> SUFFICES ASSUME BtInit PROVE BtTypeOK
    OBVIOUS
  <2>1. task \in [Tasks -> [at : {"idle", "numbers", "checks", "marks", "sends"},
                           number : 0..(TimerMod - 1)]]
    BY BtAssumption DEF BtAssumption, BtInit, At
  <2>2. stack \in [up : BOOLEAN, taken : 0..StackRoom, asked : 0..StackRoom]
    BY BtAssumption DEF BtAssumption, BtInit
  <2>3. s_timer \in 0..(TimerMod - 1)
    BY BtAssumption DEF BtAssumption, BtInit
  <2>4. s_connected \in BOOLEAN /\ s_send_in_progress \in BOOLEAN
        /\ s_input_timer = s_connected
    BY Zenon DEF BtInit
  <2> QED BY <2>1, <2>2, <2>3, <2>4 DEF BtTypeOK
<1>2. BtTypeOK /\ [BtNext]_btVars => BtTypeOK'
  <2> SUFFICES ASSUME BtTypeOK, [BtNext]_btVars PROVE BtTypeOK'
    OBVIOUS
  <2> USE BtAssumption DEF BtAssumption
  <2>1. CASE TimerFires
    BY <2>1, GoesTyped DEF TimerFires, BtTypeOK, Tasks
  <2>2. CASE OutputArrives
    BY <2>2, GoesTyped DEF OutputArrives, BtTypeOK, Tasks
  <2>3. ASSUME NEW t \in Tasks, Numbers(t) PROVE BtTypeOK'
    BY <2>3, GoesTyped DEF Numbers, BtTypeOK
  <2>4. ASSUME NEW t \in Tasks, Checks(t) PROVE BtTypeOK'
    <3>1. task[t].number \in 0..(TimerMod - 1)
      BY DEF BtTypeOK
    <3>2. CASE ~s_connected \/ s_send_in_progress
      BY <2>4, <3>1, <3>2, GoesTyped DEF Checks, BtTypeOK
    <3>3. CASE ~(~s_connected \/ s_send_in_progress)
      BY <2>4, <3>1, <3>3, GoesTyped DEF Checks, BtTypeOK
    <3> QED BY <3>2, <3>3
  <2>5. ASSUME NEW t \in Tasks, Marks(t) PROVE BtTypeOK'
    BY <2>5, GoesTyped DEF Marks, BtTypeOK
  <2>6. ASSUME NEW t \in Tasks, NEW accepted \in BOOLEAN, Sends(t, accepted)
        PROVE  BtTypeOK'
    <3>1. Goes(t, "idle", 0)
      BY <2>6 DEF Sends
    <3>2. stack' \in [up : BOOLEAN, taken : 0..StackRoom, asked : 0..StackRoom]
      BY <2>6 DEF Sends, BtTypeOK
    <3>3. task' \in [Tasks -> [at : {"idle", "numbers", "checks", "marks", "sends"},
                              number : 0..(TimerMod - 1)]]
      BY <3>1, GoesTyped
    <3>4. /\ UNCHANGED <<s_connected, s_timer, s_input_timer>>
          /\ s_send_in_progress' \in BOOLEAN
      BY <2>6, Zenon DEF Sends, BtTypeOK
    <3> QED BY <3>2, <3>3, <3>4 DEF BtTypeOK
  <2>7. CASE GetReport
    BY <2>7 DEF GetReport, BtTypeOK
  <2>8. CASE ReportSent
    <3>1. stack' \in [up : BOOLEAN, taken : 0..StackRoom, asked : 0..StackRoom]
      BY <2>8 DEF ReportSent, BtTypeOK
    <3>2. /\ UNCHANGED <<s_connected, s_timer, s_input_timer, task>>
          /\ s_send_in_progress' = FALSE
      BY <2>8 DEF ReportSent
    <3> QED BY <3>1, <3>2 DEF BtTypeOK
  <2>9. CASE Open
    <3>1. s_timer' \in 0..(TimerMod - 1)
      BY <2>9 DEF Open
    <3>2. /\ s_connected' = TRUE /\ s_input_timer' = TRUE
          /\ s_send_in_progress' = FALSE
          /\ UNCHANGED <<task, stack>>
      BY <2>9 DEF Open
    <3> QED BY <3>1, <3>2 DEF BtTypeOK
  <2>10. CASE Close
    BY <2>10 DEF Close, BtTypeOK
  <2>11. CASE LinkUp
    BY <2>11 DEF LinkUp, BtTypeOK
  <2>12. CASE LinkDown
    BY <2>12 DEF LinkDown, BtTypeOK
  <2>13. CASE UNCHANGED btVars
    BY <2>13 DEF btVars, BtTypeOK
  <2> QED
    BY <2>1, <2>2, <2>3, <2>4, <2>5, <2>6, <2>7, <2>8, <2>9, <2>10, <2>11, <2>12,
       <2>13 DEF BtNext
<1> QED BY <1>1, <1>2, PTL DEF BtSpec

\* The step that clears the flag is never lost: whatever order the two tasks test
\* and set it in (bt_hid.c:719-724), a report in the stack, a task about to give
\* it one, or the end of the connection will clear it.
THEOREM SomeoneClearsHolds == BtSpec => []SomeoneClears
<1>1. BtInit => SomeoneClears
  BY DEF BtInit, SomeoneClears
<1>2. BtTypeOK /\ SomeoneClears /\ [BtNext]_btVars => SomeoneClears'
  <2> SUFFICES ASSUME BtTypeOK, SomeoneClears, [BtNext]_btVars
               PROVE  SomeoneClears'
    OBVIOUS
  <2> USE BtAssumption DEF BtAssumption
  <2>1. ASSUME NEW t \in Tasks, task[t].at # "sends",
               \A u \in Tasks \ {t} : task'[u] = task[u],
               s_send_in_progress' = s_send_in_progress,
               UNCHANGED <<s_connected, stack>>
        PROVE  SomeoneClears'
    BY <2>1 DEF SomeoneClears
  <2>2. CASE TimerFires
    BY <2>1, <2>2, GoesTyped DEF TimerFires, BtTypeOK, Tasks
  <2>3. CASE OutputArrives
    BY <2>1, <2>3, GoesTyped DEF OutputArrives, BtTypeOK, Tasks
  <2>4. ASSUME NEW t \in Tasks, Numbers(t) PROVE SomeoneClears'
    BY <2>1, <2>4, GoesTyped DEF Numbers, BtTypeOK
  <2>5. ASSUME NEW t \in Tasks, Checks(t) PROVE SomeoneClears'
    <3>1. \A u \in Tasks \ {t} : task'[u] = task[u]
      BY <2>5 DEF Checks, Goes, BtTypeOK
    <3> QED BY <2>1, <2>5, <3>1 DEF Checks
  <2>6. ASSUME NEW t \in Tasks, Marks(t) PROVE SomeoneClears'
    <3>1. task'[t].at = "sends"
      BY <2>6, GoesTyped DEF Marks, BtTypeOK
    <3> QED BY <3>1 DEF SomeoneClears
  <2>7. ASSUME NEW t \in Tasks, NEW accepted \in BOOLEAN, Sends(t, accepted)
        PROVE  SomeoneClears'
    <3>1. CASE accepted
      <4>1. stack'.taken > 0 /\ stack'.asked >= 0
        BY <2>7, <3>1 DEF Sends, BtTypeOK
      <4>2. stack'.taken + stack'.asked > 0
        <5>1. stack'.taken \in Nat /\ stack'.asked \in Nat
          BY <2>7, <3>1 DEF Sends, BtTypeOK
        <5> QED BY <4>1, <5>1
      <4> QED BY <4>2 DEF SomeoneClears
    <3>2. CASE ~accepted
      BY <2>7, <3>2 DEF Sends, SomeoneClears
    <3> QED BY <3>1, <3>2
  <2>8. CASE GetReport
    <3>1. stack'.taken + stack'.asked > 0
      BY <2>8 DEF GetReport, BtTypeOK
    <3> QED BY <3>1 DEF SomeoneClears
  <2>9. CASE ReportSent
    BY <2>9 DEF ReportSent, SomeoneClears
  <2>10. CASE Open
    BY <2>10 DEF Open, SomeoneClears
  <2>11. CASE Close
    BY <2>11 DEF Close, SomeoneClears
  <2>12. CASE LinkUp
    BY <2>12 DEF LinkUp, SomeoneClears
  <2>13. CASE LinkDown
    BY <2>13 DEF LinkDown, SomeoneClears
  <2>14. CASE UNCHANGED btVars
    BY <2>14 DEF btVars, SomeoneClears
  <2> QED
    BY <2>2, <2>3, <2>4, <2>5, <2>6, <2>7, <2>8, <2>9, <2>10, <2>11, <2>12, <2>13,
       <2>14 DEF BtNext
<1> QED BY <1>1, <1>2, BtTypeCorrect, PTL DEF BtSpec
=============================================================================
