----------------------------- MODULE PcAppProofs -----------------------------
(***************************************************************************)
(* Theorems of PcApp.  A step of the application is a chain of methods, so *)
(* the invariant is an operator on the record that they hand on, with the  *)
(* lines in the device, the events and the tag; each method keeps it, and  *)
(* a step ends with it in force for whatever a closed link still wrote.    *)
(***************************************************************************)
EXTENDS PcApp, FiniteSetTheorems, SequenceTheorems, TLAPS

Commands == {"status", "state", "load", "unload", "release"}
Arguments == (SUBSET Buttons) \cup P!Images \cup {NoTag}
LineType == [id : Nat, cmd : Commands, arg : Arguments]
ReplyType == [id : Nat, ok : BOOLEAN, connected : BOOLEAN,
              image : P!Images \cup {NoTag}]
EventType == [link : Nat, reply : ReplyType]
PendingType == [id : Nat, cmd : Commands, callback : SUBSET P!Callback]
PresenterType ==
    [busy : BOOLEAN, phase : P!Phases,
     path : Files \cup {NoFile}, lastPath : Files \cup {NoFile},
     crc : P!Images \cup {NoTag},
     loaded : {"unknown", "yes", "no"}, generation : Nat]
AppType ==
    [link : Nat, writer : {"none", "running", "failed"}, out : Seq(LineType),
     ready : BOOLEAN, connected : BOOLEAN, pending : SUBSET PendingType,
     pressed : SUBSET Buttons, presenter : PresenterType,
     gaps : SUBSET P!Callback, made : Nat, said : P!Images \cup {NoTag},
     quiet : BOOLEAN, ticking : BOOLEAN, endings : SUBSET Seq(LineType)]

\* A line of the application is a command with a number, or a last release, and
\* loads an image.
LineFine(l) ==
    /\ l.id = 0 => l.cmd = "release"
    /\ l.cmd = "load" => l.arg \in P!Images

\* No load among the lines of s; at most one; none behind the command n.
NoLoad(s) == \A i \in DOMAIN s : s[i].cmd # "load"
OneLoad(s) ==
    \A i, j \in DOMAIN s : s[i].cmd = "load" /\ s[j].cmd = "load" => i = j
NoneBehind(s, n) ==
    \A i, j \in DOMAIN s : s[i].id = n /\ i < j => s[j].cmd # "load"
Has(s, n) == \E i \in DOMAIN s : s[i].id = n

\* The link.
LinkSound(a) ==
    /\ a.link \in {None, a.made}
    /\ a.link = None <=> a.writer = "none"
    /\ Len(a.out) <= OutSlots
    /\ a.link = None =>
          a.pending = {} /\ a.out = <<>> /\ a.ready = FALSE /\ a.presenter.busy = FALSE
    /\ IsFiniteSet(a.pending)

\* The callback that a phase of a request waits for, when a reply brings it.
Waits(phase, c) ==
    \/ phase = "removing" /\ c.step = "removed" /\ c.file \in Files
    \/ phase = "loading" /\ c.step = "loaded" /\ c.file \in Files
    \/ phase = "retiring" /\ c.step = "retired" /\ c.file = NoFile

\* The only callback that waits for a reply is the one of the request under way.
CallsSound(a) ==
    /\ a.presenter.busy = FALSE <=> a.presenter.phase = ""
    /\ \A e \in a.pending :
          /\ e.id # 0
          /\ e.callback # {} =>
                /\ e.cmd \in {"load", "unload"}
                /\ \E c \in e.callback :
                      /\ e.callback = {c}
                      /\ P!InTime(a.presenter, c)
                      /\ Waits(a.presenter.phase, c)
    /\ \A e, f \in a.pending :
          /\ e.callback # {} /\ f.callback # {} => e = f
          /\ e.id = f.id => e = f

\* So is the only timer that runs and is not late.
GapsSound(a) ==
    /\ \A g \in a.gaps :
          /\ g.step = "load" /\ g.file \in Files
          /\ g.gen <= a.presenter.generation
          /\ P!InTime(a.presenter, g) => a.presenter.phase = "gap"
    /\ \A g, h \in a.gaps :
          P!InTime(a.presenter, g) /\ P!InTime(a.presenter, h) => g = h

\* Events are of links made, and a failure of the link open now is true.
EventsSound(a, es) ==
    \A i \in DOMAIN es :
       /\ es[i].link \in 1..a.made
       /\ es[i].reply = Broken /\ es[i].link = a.link => a.writer = "failed"

\* No load is on its way.
Clear(a, ls) == NoLoad(ls) /\ NoLoad(a.out)

\* A load on its way is the only one, and meets no tag and no name; while the
\* application waits for the gap's end none is.  What answers a callback's command
\* tells the tag that is there, with no load behind it.
LoadsSound(a, ls, es, t) ==
    /\ OneLoad(ls) /\ OneLoad(a.out)
    /\ NoLoad(ls) \/ NoLoad(a.out)
    /\ Clear(a, ls) \/ (t = NoTag /\ a.presenter.path = NoFile)
    /\ a.presenter.phase = "gap" =>
          Clear(a, ls) /\ t = NoTag /\ a.presenter.path = NoFile
    /\ \A e \in a.pending : e.callback # {} =>
          /\ NoneBehind(ls, e.id) /\ NoneBehind(a.out, e.id)
          /\ Has(ls, e.id) => NoLoad(a.out)
          /\ \A i \in DOMAIN es : es[i].reply.id = e.id =>
                Clear(a, ls) /\ t \in {es[i].reply.image, NoTag}
    /\ a.presenter.path # NoFile => t \in {Image[a.presenter.path], NoTag}

LinesSound(a, ls) ==
    /\ \A i \in DOMAIN ls : LineFine(ls[i])
    /\ \A i \in DOMAIN a.out : LineFine(a.out[i])

Sound(a, ls, es, t) ==
    /\ LinkSound(a) /\ CallsSound(a) /\ GapsSound(a)
    /\ EventsSound(a, es) /\ LinesSound(a, ls)
    /\ LoadsSound(a, ls, es, t)

\* How many generations of the presenter the links made so far allow.
Counted(a) ==
    a.presenter.generation
        <= MaxGeneration + 2 * a.made - (IF a.link = None THEN 0 ELSE 1)

StateTyped ==
    /\ app \in AppType /\ app.endings = {<<>>}
    /\ app.made <= MaxLinks
    /\ lines \in Seq(LineType) /\ Len(lines) <= LineQueue
    /\ events \in Seq(EventType) /\ Len(events) <= EventSlots
    /\ tag \in P!Images \cup {NoTag}
    /\ up \in BOOLEAN

AppInv == StateTyped /\ Sound(app, lines, events, tag)

-----------------------------------------------------------------------------
(* Sequences of lines.                                                     *)

LEMMA AppendLines ==
    ASSUME NEW s \in Seq(LineType), NEW l \in LineType
    PROVE  /\ Append(s, l) \in Seq(LineType) /\ Len(Append(s, l)) = Len(s) + 1
           /\ NoLoad(s) /\ l.cmd # "load" => NoLoad(Append(s, l))
           /\ OneLoad(s) /\ (l.cmd # "load" \/ NoLoad(s)) => OneLoad(Append(s, l))
           /\ \A n : NoneBehind(s, n) /\ (l.cmd # "load" \/ ~Has(s, n))
                        => NoneBehind(Append(s, l), n)
           /\ \A n : Has(Append(s, l), n) => Has(s, n) \/ l.id = n
           /\ (\A i \in DOMAIN s : LineFine(s[i])) /\ LineFine(l)
                 => \A i \in DOMAIN Append(s, l) : LineFine(Append(s, l)[i])
<1> DEFINE u == Append(s, l)
<1>1. /\ Len(s) \in Nat /\ DOMAIN s = 1..Len(s)
      /\ u \in Seq(LineType) /\ Len(u) = Len(s) + 1
      /\ DOMAIN u = 1..(Len(s) + 1)
      /\ \A i \in 1..Len(s) : u[i] = s[i]
      /\ u[Len(s) + 1] = l
  BY AppendProperties, LenProperties
<1> HIDE DEF u
<1>2. \A i \in DOMAIN u : \/ i \in DOMAIN s /\ u[i] = s[i]
                          \/ i = Len(s) + 1 /\ u[i] = l
  BY <1>1
<1>3. NoLoad(s) /\ l.cmd # "load" => NoLoad(u)
  BY <1>2 DEF NoLoad
<1>4. OneLoad(s) /\ (l.cmd # "load" \/ NoLoad(s)) => OneLoad(u)
  BY <1>2 DEF NoLoad, OneLoad
<1>5. ASSUME NEW n, NoneBehind(s, n), l.cmd # "load" \/ ~Has(s, n)
      PROVE  NoneBehind(u, n)
  <2> SUFFICES ASSUME NEW i \in DOMAIN u, NEW j \in DOMAIN u,
                      u[i].id = n, i < j
               PROVE  u[j].cmd # "load"
    BY DEF NoneBehind
  <2>1. i \in DOMAIN s /\ u[i] = s[i]
    BY <1>1, <1>2
  <2>2. CASE j \in DOMAIN s /\ u[j] = s[j]
    BY <1>5, <2>1, <2>2 DEF NoneBehind
  <2>3. CASE j = Len(s) + 1 /\ u[j] = l
    BY <1>5, <2>1, <2>3 DEF Has
  <2> QED BY <1>2, <2>2, <2>3
<1>6. \A n : Has(u, n) => Has(s, n) \/ l.id = n
  BY <1>2 DEF Has
<1>7. (\A i \in DOMAIN s : LineFine(s[i])) /\ LineFine(l)
         => \A i \in DOMAIN u : LineFine(u[i])
  BY <1>2
<1> QED BY <1>1, <1>3, <1>4, <1>5, <1>6, <1>7 DEF u

LEMMA TailLines ==
    ASSUME NEW s \in Seq(LineType), s # <<>>
    PROVE  /\ Tail(s) \in Seq(LineType) /\ Len(Tail(s)) = Len(s) - 1
           /\ Head(s) \in LineType /\ Has(s, Head(s).id)
           /\ NoLoad(s) => NoLoad(Tail(s)) /\ Head(s).cmd # "load"
           /\ OneLoad(s) => OneLoad(Tail(s))
           /\ OneLoad(s) /\ Head(s).cmd = "load" => NoLoad(Tail(s))
           /\ \A n : NoneBehind(s, n) => NoneBehind(Tail(s), n)
           /\ NoneBehind(s, Head(s).id) => NoLoad(Tail(s))
           /\ \A n : Has(Tail(s), n) => Has(s, n)
           /\ (\A i \in DOMAIN s : LineFine(s[i]))
                 => /\ LineFine(Head(s))
                    /\ \A i \in DOMAIN Tail(s) : LineFine(Tail(s)[i])
<1> DEFINE u == Tail(s)
<1>1. /\ Len(s) \in Nat /\ DOMAIN s = 1..Len(s) /\ Len(s) # 0
      /\ Head(s) \in LineType /\ Head(s) = s[1]
      /\ u \in Seq(LineType) /\ Len(u) = Len(s) - 1
      /\ DOMAIN u = 1..(Len(s) - 1)
      /\ \A i \in 1..(Len(s) - 1) : u[i] = s[i + 1]
  BY HeadTailProperties, LenProperties, EmptySeq
<1> HIDE DEF u
<1>2. \A i \in DOMAIN u : i + 1 \in DOMAIN s /\ u[i] = s[i + 1] /\ 1 < i + 1
  BY <1>1
<1>3. 1 \in DOMAIN s
  BY <1>1
<1>4. NoLoad(s) => NoLoad(u) /\ Head(s).cmd # "load"
  BY <1>1, <1>2, <1>3 DEF NoLoad
<1>5. OneLoad(s) => OneLoad(u)
  <2> SUFFICES ASSUME OneLoad(s), NEW i \in DOMAIN u, NEW j \in DOMAIN u,
                      u[i].cmd = "load", u[j].cmd = "load"
               PROVE  i = j
    BY DEF OneLoad
  <2>1. i + 1 = j + 1
    BY <1>2 DEF OneLoad
  <2> QED BY <1>1, <2>1
<1>6. OneLoad(s) /\ Head(s).cmd = "load" => NoLoad(u)
  <2> SUFFICES ASSUME OneLoad(s), Head(s).cmd = "load", NEW i \in DOMAIN u
               PROVE  u[i].cmd # "load"
    BY DEF NoLoad
  <2>1. i + 1 # 1
    BY <1>1
  <2> QED BY <1>1, <1>2, <1>3, <2>1 DEF OneLoad
<1>7. \A n : NoneBehind(s, n) => NoneBehind(u, n)
  <2> SUFFICES ASSUME NEW n, NoneBehind(s, n), NEW i \in DOMAIN u,
                      NEW j \in DOMAIN u, u[i].id = n, i < j
               PROVE  u[j].cmd # "load"
    BY DEF NoneBehind
  <2>1. i + 1 < j + 1
    BY <1>1
  <2> QED BY <1>2, <2>1 DEF NoneBehind
<1>8. NoneBehind(s, Head(s).id) => NoLoad(u)
  BY <1>1, <1>2, <1>3 DEF NoneBehind, NoLoad
<1>9. \A n : Has(u, n) => Has(s, n)
  BY <1>2 DEF Has
<1>10. (\A i \in DOMAIN s : LineFine(s[i]))
         => LineFine(Head(s)) /\ \A i \in DOMAIN u : LineFine(u[i])
  BY <1>1, <1>2, <1>3
<1>11. Has(s, Head(s).id)
  BY <1>1, <1>3 DEF Has
<1> QED
  BY <1>1, <1>4, <1>5, <1>6, <1>7, <1>8, <1>9, <1>10, <1>11 DEF u

\* A line arrives, or finds the queue full.
LEMMA Received ==
    ASSUME NEW s \in Seq(LineType), NEW l \in LineType, Len(s) <= LineQueue
    PROVE  /\ Receive(s, l) \in {s, Append(s, l)}
           /\ Receive(s, l) \in Seq(LineType) /\ Len(Receive(s, l)) <= LineQueue
BY AppendLines, LenProperties, AppAssumption DEF Receive, AppAssumption

-----------------------------------------------------------------------------
(* The number of a new command.                                            *)

LEMMA FiniteIds ==
    ASSUME NEW s, Len(s) \in Nat, DOMAIN s = 1..Len(s)
    PROVE  IsFiniteSet(Ids(s))
<1> DEFINE f == [i \in 1..Len(s) |-> s[i].id]
<1>1. f \in Surjection(1..Len(s), Ids(s))
  BY DEF Surjection, Ids
<1>2. IsFiniteSet(1..Len(s))
  BY FS_Interval
<1> QED BY <1>1, <1>2, FS_Surjection

\* Among one more number than there are in flight one is free.
LEMMA SomeNumberIsFree ==
    ASSUME NEW S, IsFiniteSet(S)
    PROVE  \E n \in 1..(Cardinality(S) + 1) : n \notin S
<1> SUFFICES ASSUME 1..(Cardinality(S) + 1) \subseteq S PROVE FALSE
  OBVIOUS
<1>1. Cardinality(S) \in Nat
  BY FS_CardinalityType
<1>2. Cardinality(1..(Cardinality(S) + 1)) = Cardinality(S) + 1
  BY <1>1, FS_Interval
<1>3. Cardinality(1..(Cardinality(S) + 1)) <= Cardinality(S)
  BY FS_Subset
<1> QED BY <1>1, <1>2, <1>3

\* Nothing in flight has the number of the next command.
LEMMA NextSeqIsNew ==
    ASSUME NEW a \in AppType, IsFiniteSet(a.pending), StateTyped
    PROVE  /\ NextSeq(a) \in Nat \ {0}
           /\ \A e \in a.pending : e.id # NextSeq(a)
           /\ ~Has(a.out, NextSeq(a)) /\ ~Has(lines, NextSeq(a))
           /\ \A i \in DOMAIN events : events[i].reply.id # NextSeq(a)
<1> DEFINE waiting == {e.id : e \in a.pending}
           told == {events[i].reply.id : i \in DOMAIN events}
<1>1. IsFiniteSet(waiting)
  <2> DEFINE f == [e \in a.pending |-> e.id]
  <2>1. f \in Surjection(a.pending, waiting)
    BY DEF Surjection
  <2> QED BY <2>1, FS_Surjection
<1>2. IsFiniteSet(told)
  <2> DEFINE f == [i \in 1..Len(events) |-> events[i].reply.id]
  <2>1. Len(events) \in Nat /\ DOMAIN events = 1..Len(events)
    BY LenProperties DEF StateTyped
  <2>2. f \in Surjection(1..Len(events), told)
    BY <2>1 DEF Surjection
  <2> QED BY <2>1, <2>2, FS_Interval, FS_Surjection
<1>3. IsFiniteSet(Ids(a.out)) /\ IsFiniteSet(Ids(lines))
  <2>1. a.out \in Seq(LineType) /\ lines \in Seq(LineType)
    BY DEF AppType, StateTyped
  <2> QED BY <2>1, LenProperties, FiniteIds
<1>4. IsFiniteSet(InFlight(a))
  <2>1. IsFiniteSet(waiting \cup Ids(a.out) \cup Ids(lines) \cup told)
    BY <1>1, <1>2, <1>3, FS_Union
  <2> QED BY <2>1 DEF InFlight
<1>5. NextSeq(a) \in 1..(Cardinality(InFlight(a)) + 1) /\ NextSeq(a) \notin InFlight(a)
  BY <1>4, SomeNumberIsFree DEF NextSeq
<1>6. NextSeq(a) \in Nat \ {0}
  BY <1>4, <1>5, FS_CardinalityType
<1>7. /\ NextSeq(a) \notin waiting /\ NextSeq(a) \notin told
      /\ NextSeq(a) \notin Ids(a.out) /\ NextSeq(a) \notin Ids(lines)
  BY <1>5 DEF InFlight
<1> HIDE DEF NextSeq
<1> QED BY <1>6, <1>7 DEF Ids, Has

-----------------------------------------------------------------------------
(* How a method may change the record, and what that keeps.                *)

\* The fields the invariant speaks of besides those a change names.
SameLink(a, b) == b.link = a.link /\ b.writer = a.writer /\ b.made = a.made

\* Commands are forgotten, and attributes set that nothing here depends on.
LEMMA Forgets ==
    ASSUME NEW a \in AppType, NEW b \in AppType, NEW ls, NEW es, NEW t,
           Sound(a, ls, es, t), SameLink(a, b),
           b.out = a.out, b.pending \subseteq a.pending,
           b.ready = a.ready \/ a.link # None,
           b.presenter = a.presenter, b.gaps = a.gaps
    PROVE  Sound(b, ls, es, t)
<1>1. LinkSound(b)
  <2>1. IsFiniteSet(b.pending)
    BY FS_Subset DEF Sound, LinkSound
  <2>2. b.link = None => b.pending = {}
    BY DEF Sound, LinkSound, SameLink
  <2> QED BY <2>1, <2>2 DEF Sound, LinkSound, SameLink
<1>2. CallsSound(b)
  BY DEF Sound, CallsSound
<1>3. GapsSound(b) /\ EventsSound(b, es) /\ LinesSound(b, ls)
  BY DEF Sound, GapsSound, EventsSound, LinesSound, SameLink
<1>4. LoadsSound(b, ls, es, t)
  BY DEF Sound, LoadsSound, Clear
<1> QED BY <1>1, <1>2, <1>3, <1>4 DEF Sound

\* observe(): the name shown may go.
LEMMA Observed ==
    ASSUME NEW a \in AppType, NEW b \in AppType, NEW ls, NEW es, NEW t,
           Sound(a, ls, es, t), SameLink(a, b),
           b.out = a.out, b.pending = a.pending, b.ready = a.ready,
           b.gaps = a.gaps,
           b.presenter.busy = a.presenter.busy,
           b.presenter.phase = a.presenter.phase,
           b.presenter.generation = a.presenter.generation,
           b.presenter.path \in {a.presenter.path, NoFile}
    PROVE  Sound(b, ls, es, t)
<1>1. \A c : P!InTime(b.presenter, c) <=> P!InTime(a.presenter, c)
  BY DEF P!InTime
<1>2. LinkSound(b)
  BY DEF Sound, LinkSound, SameLink
<1>3. CallsSound(b)
  BY <1>1 DEF Sound, CallsSound
<1>4. GapsSound(b)
  BY <1>1 DEF Sound, GapsSound
<1>5. EventsSound(b, es) /\ LinesSound(b, ls)
  BY DEF Sound, EventsSound, LinesSound, SameLink
<1>6. LoadsSound(b, ls, es, t)
  <2>1. b.presenter.path # NoFile => b.presenter.path = a.presenter.path
    OBVIOUS
  <2> QED BY <2>1 DEF Sound, LoadsSound, Clear
<1> QED BY <1>2, <1>3, <1>4, <1>5, <1>6 DEF Sound

\* A command goes into the outgoing queue; a load only when nothing stands in its way.
LEMMA Posted ==
    ASSUME NEW a \in AppType, NEW b \in AppType,
           NEW ls \in Seq(LineType), NEW es, NEW t,
           Sound(a, ls, es, t), SameLink(a, b), a.link # None,
           NEW l \in LineType, LineFine(l), l.id # 0, Len(a.out) < OutSlots,
           \A e \in a.pending : e.id # l.id,
           ~Has(a.out, l.id), ~Has(ls, l.id),
           \A i \in DOMAIN es : es[i].reply.id # l.id,
           NEW k \in PendingType, k.id = l.id, k.cmd = l.cmd,
           b.out = Append(a.out, l), b.pending = a.pending \cup {k},
           b.presenter = a.presenter, b.gaps = a.gaps,
           \/ k.callback = {} /\ l.cmd # "load"
           \/ /\ \A e \in a.pending : e.callback = {}
              /\ l.cmd \in {"load", "unload"}
              /\ \E c \in k.callback : /\ k.callback = {c}
                                       /\ P!InTime(a.presenter, c)
                                       /\ Waits(a.presenter.phase, c)
              /\ l.cmd = "load" => /\ Clear(a, ls) /\ t = NoTag
                                   /\ a.presenter.path = NoFile
                                   /\ a.presenter.phase # "gap"
    PROVE  Sound(b, ls, es, t)
<1> DEFINE u == Append(a.out, l)
<1>0. a.out \in Seq(LineType) /\ ls \in Seq(LineType)
  BY DEF AppType
<1>1. /\ Len(u) = Len(a.out) + 1
      /\ NoLoad(a.out) /\ l.cmd # "load" => NoLoad(u)
      /\ OneLoad(a.out) /\ (l.cmd # "load" \/ NoLoad(a.out)) => OneLoad(u)
      /\ \A n : NoneBehind(a.out, n) /\ (l.cmd # "load" \/ ~Has(a.out, n))
                  => NoneBehind(u, n)
      /\ \A n : Has(u, n) => Has(a.out, n) \/ l.id = n
      /\ (\A i \in DOMAIN a.out : LineFine(a.out[i])) /\ LineFine(l)
            => \A i \in DOMAIN u : LineFine(u[i])
  BY <1>0, AppendLines
<1> HIDE DEF u
<1>2. b.out = u
  BY DEF u
<1>3. LinkSound(b)
  <2>1. IsFiniteSet(b.pending)
    BY FS_AddElement DEF Sound, LinkSound
  <2>2. Len(a.out) \in Nat /\ OutSlots \in Nat
    BY <1>0, LenProperties, AppAssumption DEF AppAssumption
  <2>3. Len(b.out) <= OutSlots
    BY <1>1, <1>2, <2>2
  <2> QED BY <2>1, <2>3 DEF Sound, LinkSound, SameLink
<1>4. CallsSound(b)
  <2>1. \A e \in b.pending : e \in a.pending \/ e = k
    OBVIOUS
  <2>2. \A e \in b.pending :
          /\ e.id # 0
          /\ e.callback # {} =>
                /\ e.cmd \in {"load", "unload"}
                /\ \E c \in e.callback :
                      /\ e.callback = {c}
                      /\ P!InTime(b.presenter, c)
                      /\ Waits(b.presenter.phase, c)
    BY <2>1 DEF Sound, CallsSound
  <2>3. ASSUME NEW e \in b.pending, NEW f \in b.pending
        PROVE  /\ e.callback # {} /\ f.callback # {} => e = f
               /\ e.id = f.id => e = f
    <3>1. CASE e \in a.pending /\ f \in a.pending
      BY <3>1 DEF Sound, CallsSound
    <3>2. CASE e = k /\ f = k
      BY <3>2
    <3>3. CASE e \in a.pending /\ f = k
      BY <3>3
    <3>4. CASE e = k /\ f \in a.pending
      BY <3>4
    <3> QED BY <2>1, <3>1, <3>2, <3>3, <3>4
  <2>4. b.presenter.busy = FALSE <=> b.presenter.phase = ""
    BY DEF Sound, CallsSound
  <2> QED BY <2>2, <2>3, <2>4 DEF CallsSound
<1>5. GapsSound(b) /\ EventsSound(b, es)
  BY DEF Sound, GapsSound, EventsSound, SameLink
<1>6. LinesSound(b, ls)
  BY <1>1, <1>2 DEF Sound, LinesSound
<1>7. LoadsSound(b, ls, es, t)
  <2>1. /\ OneLoad(ls) /\ OneLoad(a.out)
        /\ NoLoad(ls) \/ NoLoad(a.out)
        /\ Clear(a, ls) \/ (t = NoTag /\ a.presenter.path = NoFile)
        /\ a.presenter.phase = "gap" =>
              Clear(a, ls) /\ t = NoTag /\ a.presenter.path = NoFile
        /\ a.presenter.path # NoFile => t \in {Image[a.presenter.path], NoTag}
    BY DEF Sound, LoadsSound
  <2>2. l.cmd # "load" => (Clear(a, ls) => Clear(b, ls))
    BY <1>1, <1>2 DEF Clear
  <2>3. /\ OneLoad(b.out)
        /\ NoLoad(ls) \/ NoLoad(b.out)
        /\ Clear(b, ls) \/ (t = NoTag /\ b.presenter.path = NoFile)
        /\ b.presenter.phase = "gap" =>
              Clear(b, ls) /\ t = NoTag /\ b.presenter.path = NoFile
    BY <1>1, <1>2, <2>1, <2>2 DEF Clear
  <2>4. ASSUME NEW e \in b.pending, e.callback # {}
        PROVE  /\ NoneBehind(ls, e.id) /\ NoneBehind(b.out, e.id)
               /\ Has(ls, e.id) => NoLoad(b.out)
               /\ \A i \in DOMAIN es : es[i].reply.id = e.id =>
                     Clear(b, ls) /\ t \in {es[i].reply.image, NoTag}
    <3>1. CASE e \in a.pending
      <4>1. l.cmd # "load"
        BY <2>4, <3>1
      <4>2. /\ NoneBehind(ls, e.id) /\ NoneBehind(a.out, e.id)
            /\ Has(ls, e.id) => NoLoad(a.out)
            /\ \A i \in DOMAIN es : es[i].reply.id = e.id =>
                  Clear(a, ls) /\ t \in {es[i].reply.image, NoTag}
        BY <2>4, <3>1 DEF Sound, LoadsSound
      <4> QED BY <1>1, <1>2, <2>2, <4>1, <4>2
    <3>2. CASE e = k
      <4>1. NoneBehind(ls, e.id) /\ NoneBehind(a.out, e.id)
        BY <3>2 DEF Has, NoneBehind
      <4> QED BY <1>1, <1>2, <3>2, <4>1
    <3> QED BY <3>1, <3>2
  <2> QED BY <2>1, <2>3, <2>4 DEF LoadsSound
<1> QED BY <1>3, <1>4, <1>5, <1>6, <1>7 DEF Sound

\* The record of a link that was closed, and of a presenter that was reset.
Closed(b) ==
    /\ b.link = None /\ b.writer = "none" /\ b.out = <<>> /\ b.ready = FALSE
    /\ b.pending = {}
    /\ b.presenter.busy = FALSE /\ b.presenter.phase = ""
    /\ b.presenter.path = NoFile

LEMMA Closes ==
    ASSUME NEW a \in AppType, NEW b \in AppType,
           NEW ls \in Seq(LineType), NEW es, NEW t,
           Sound(a, ls, es, t), Closed(b), b.made >= a.made,
           b.gaps \subseteq a.gaps,
           b.presenter.generation > a.presenter.generation
    PROVE  Sound(b, ls, es, t)
<1>0. DOMAIN b.out = {} /\ Len(b.out) = 0
  <2>1. b.out \in Seq(LineType) /\ b.out = <<>>
    BY DEF AppType, Closed
  <2> QED BY <2>1, EmptySeq, LenProperties
<1>1. NoLoad(b.out) /\ OneLoad(b.out)
  BY <1>0 DEF NoLoad, OneLoad
<1>2. LinkSound(b)
  <2>1. IsFiniteSet(b.pending)
    BY FS_EmptySet DEF Closed
  <2>2. Len(b.out) <= OutSlots
    BY <1>0, AppAssumption DEF AppAssumption
  <2> QED BY <2>1, <2>2 DEF Closed, LinkSound
<1>3. CallsSound(b)
  BY DEF Closed, CallsSound
<1>4. GapsSound(b)
  <2>1. /\ a.presenter.generation \in Nat /\ b.presenter.generation \in Nat
        /\ \A g \in b.gaps : g.gen \in Nat
    BY DEF AppType, PresenterType, P!Callback
  <2>2. \A g \in b.gaps : /\ g.step = "load" /\ g.file \in Files
                          /\ g.gen <= a.presenter.generation
    BY DEF Sound, GapsSound
  <2>3. \A g \in b.gaps : g.gen <= b.presenter.generation
                            /\ g.gen # b.presenter.generation
    BY <2>1, <2>2
  <2> QED BY <2>2, <2>3 DEF GapsSound, P!InTime
<1>5. EventsSound(b, es)
  <2>1. a.made \in Nat /\ b.made \in Nat
    BY DEF AppType
  <2>2. \A i \in DOMAIN es : es[i].link \in 1..a.made
    BY DEF Sound, EventsSound
  <2>3. \A i \in DOMAIN es : es[i].link \in 1..b.made /\ es[i].link # None
    BY <2>1, <2>2 DEF None
  <2> QED BY <2>3 DEF EventsSound, Closed
<1>6. LinesSound(b, ls)
  BY <1>0 DEF Sound, LinesSound
<1>7. LoadsSound(b, ls, es, t)
  <2>1. OneLoad(ls) /\ (NoLoad(ls) \/ t = NoTag)
    BY DEF Sound, LoadsSound, Clear
  <2> QED BY <1>1, <2>1 DEF LoadsSound, Closed, Clear
<1> QED BY <1>2, <1>3, <1>4, <1>5, <1>6, <1>7 DEF Sound

\* What the device receives of a link that is closed.
LEMMA ClosedReceives ==
    ASSUME NEW b \in AppType, NEW ls \in Seq(LineType), NEW es, NEW t,
           Len(ls) <= LineQueue, NEW l \in LineType,
           Sound(b, ls, es, t), Closed(b), LineFine(l),
           l.cmd = "load" => NoLoad(ls) /\ t = NoTag
    PROVE  Sound(b, Receive(ls, l), es, t)
<1> DEFINE u == Append(ls, l)
<1>1. /\ NoLoad(ls) /\ l.cmd # "load" => NoLoad(u)
      /\ OneLoad(ls) /\ (l.cmd # "load" \/ NoLoad(ls)) => OneLoad(u)
      /\ (\A i \in DOMAIN ls : LineFine(ls[i])) /\ LineFine(l)
            => \A i \in DOMAIN u : LineFine(u[i])
  BY AppendLines
<1>2. Receive(ls, l) \in {ls, u}
  BY Received
<1> HIDE DEF u
<1>3. NoLoad(b.out)
  <2>1. b.out \in Seq(LineType) /\ b.out = <<>>
    BY DEF AppType, Closed
  <2>2. DOMAIN b.out = {}
    BY <2>1, EmptySeq, LenProperties
  <2> QED BY <2>2 DEF NoLoad
<1>4. LinesSound(b, u)
  BY <1>1 DEF Sound, LinesSound
<1>5. LoadsSound(b, u, es, t)
  <2>1. OneLoad(ls) /\ (NoLoad(ls) \/ t = NoTag) /\ OneLoad(b.out)
    BY DEF Sound, LoadsSound, Clear
  <2>2. OneLoad(u) /\ (NoLoad(u) \/ t = NoTag)
    BY <1>1, <2>1
  <2> QED BY <1>3, <2>1, <2>2 DEF LoadsSound, Closed, Clear
<1>6. Sound(b, u, es, t)
  BY <1>4, <1>5 DEF Sound
<1> QED BY <1>2, <1>6

\* The link's thread takes the first line of the outgoing queue, and it arrives or not.
LEMMA Written ==
    ASSUME NEW a \in AppType, NEW b \in AppType,
           NEW ls \in Seq(LineType), NEW es, NEW t, Len(ls) <= LineQueue,
           Sound(a, ls, es, t), SameLink(a, b), a.out # <<>>,
           b.out = Tail(a.out), b.pending = a.pending, b.ready = a.ready,
           b.presenter = a.presenter, b.gaps = a.gaps, a.link # None
    PROVE  Sound(b, ls, es, t) /\ Sound(b, Receive(ls, Head(a.out)), es, t)
<1> DEFINE h == Head(a.out)
           u == Append(ls, h)
<1>0. a.out \in Seq(LineType)
  BY DEF AppType
<1>1. /\ Len(b.out) = Len(a.out) - 1
      /\ h \in LineType /\ Has(a.out, h.id)
      /\ NoLoad(a.out) => NoLoad(b.out) /\ h.cmd # "load"
      /\ OneLoad(a.out) => OneLoad(b.out)
      /\ OneLoad(a.out) /\ h.cmd = "load" => NoLoad(b.out)
      /\ \A n : NoneBehind(a.out, n) => NoneBehind(b.out, n)
      /\ NoneBehind(a.out, h.id) => NoLoad(b.out)
      /\ (\A i \in DOMAIN a.out : LineFine(a.out[i]))
            => LineFine(h) /\ \A i \in DOMAIN b.out : LineFine(b.out[i])
  BY <1>0, TailLines
<1> HIDE DEF h
<1>2. /\ NoLoad(ls) /\ h.cmd # "load" => NoLoad(u)
      /\ OneLoad(ls) /\ (h.cmd # "load" \/ NoLoad(ls)) => OneLoad(u)
      /\ \A n : NoneBehind(ls, n) /\ (h.cmd # "load" \/ ~Has(ls, n))
                  => NoneBehind(u, n)
      /\ \A n : Has(u, n) => Has(ls, n) \/ h.id = n
      /\ (\A i \in DOMAIN ls : LineFine(ls[i])) /\ LineFine(h)
            => \A i \in DOMAIN u : LineFine(u[i])
  BY <1>1, AppendLines
<1>3. Receive(ls, h) \in {ls, u}
  BY <1>1, Received
<1> HIDE DEF u
<1>4. LinkSound(b)
  <2>1. Len(a.out) \in Nat /\ OutSlots \in Nat
    BY <1>0, LenProperties, AppAssumption DEF AppAssumption
  <2>2. Len(b.out) <= OutSlots
    BY <1>1, <2>1 DEF Sound, LinkSound
  <2> QED BY <2>2 DEF Sound, LinkSound, SameLink
<1>5. CallsSound(b) /\ GapsSound(b) /\ EventsSound(b, es)
  BY DEF Sound, CallsSound, GapsSound, EventsSound, SameLink
<1>6. LinesSound(b, ls) /\ LinesSound(b, u)
  BY <1>1, <1>2 DEF Sound, LinesSound
<1>7. /\ OneLoad(ls) /\ OneLoad(a.out)
      /\ NoLoad(ls) \/ NoLoad(a.out)
      /\ Clear(a, ls) \/ (t = NoTag /\ a.presenter.path = NoFile)
      /\ a.presenter.phase = "gap" =>
            Clear(a, ls) /\ t = NoTag /\ a.presenter.path = NoFile
      /\ a.presenter.path # NoFile => t \in {Image[a.presenter.path], NoTag}
  BY DEF Sound, LoadsSound
<1>8. Clear(a, ls) => Clear(b, ls) /\ Clear(b, u)
  BY <1>1, <1>2 DEF Clear
<1>9. /\ OneLoad(b.out) /\ OneLoad(u)
      /\ NoLoad(ls) \/ NoLoad(b.out)
      /\ NoLoad(u) \/ NoLoad(b.out)
  <2>1. CASE h.cmd = "load"
    BY <1>1, <1>2, <1>7, <2>1
  <2>2. CASE h.cmd # "load"
    BY <1>1, <1>2, <1>7, <2>2
  <2> QED BY <2>1, <2>2
<1>10. ASSUME NEW e \in b.pending, e.callback # {}
       PROVE  /\ NoneBehind(ls, e.id) /\ NoneBehind(b.out, e.id)
              /\ NoneBehind(u, e.id)
              /\ Has(ls, e.id) => NoLoad(b.out)
              /\ Has(u, e.id) => NoLoad(b.out)
              /\ \A i \in DOMAIN es : es[i].reply.id = e.id =>
                    /\ Clear(b, ls) /\ Clear(b, u)
                    /\ t \in {es[i].reply.image, NoTag}
  <2>1. /\ NoneBehind(ls, e.id) /\ NoneBehind(a.out, e.id)
        /\ Has(ls, e.id) => NoLoad(a.out)
        /\ \A i \in DOMAIN es : es[i].reply.id = e.id =>
              Clear(a, ls) /\ t \in {es[i].reply.image, NoTag}
    BY <1>10 DEF Sound, LoadsSound
  <2>2. NoneBehind(b.out, e.id) /\ (Has(ls, e.id) => NoLoad(b.out))
    BY <1>1, <2>1
  <2>3. NoneBehind(u, e.id)
    BY <1>1, <1>2, <2>1
  <2>4. Has(u, e.id) => NoLoad(b.out)
    BY <1>1, <1>2, <2>1
  <2> QED BY <1>8, <2>1, <2>2, <2>3, <2>4
<1>11. LoadsSound(b, ls, es, t)
  BY <1>7, <1>8, <1>9, <1>10 DEF LoadsSound
<1>12. LoadsSound(b, u, es, t)
  BY <1>7, <1>8, <1>9, <1>10 DEF LoadsSound
<1>13. Sound(b, ls, es, t)
  BY <1>4, <1>5, <1>6, <1>11 DEF Sound
<1>14. Sound(b, u, es, t)
  BY <1>4, <1>5, <1>6, <1>12 DEF Sound
<1> QED BY <1>3, <1>13, <1>14 DEF h

\* A callback is told a reply, or a failure: the request moves on, or ends.
LEMMA Told ==
    ASSUME NEW a \in AppType, NEW b \in AppType, NEW ls, NEW es, NEW t,
           Sound(a, ls, es, t), SameLink(a, b), a.link # None,
           b.out = a.out, b.pending = a.pending, b.ready = a.ready,
           \A e \in a.pending : e.callback = {},
           NEW c \in P!Callback, NEW r,
           P!InTime(a.presenter, c), Waits(a.presenter.phase, c),
           P!Confirms(c, r) => Clear(a, ls) /\ t \in {r.image, NoTag},
           b.presenter = P!CallBack(a.presenter, c, r),
           b.gaps = a.gaps \cup P!Scheduled(a.presenter, c, r)
    PROVE  Sound(b, ls, es, t)
<1> DEFINE p == a.presenter
           q == b.presenter
<1>0. /\ p \in PresenterType /\ q \in PresenterType
      /\ c.gen = p.generation
      /\ p.phase # "gap" /\ p.phase # ""
  BY DEF AppType, P!InTime, Waits
<1>1. \A g \in a.gaps : ~P!InTime(p, g)
  BY <1>0 DEF Sound, GapsSound
<1>2. /\ q.generation = p.generation
      /\ \/ /\ c.step = "removed" /\ P!Confirms(c, r) /\ c.file \in Files
            /\ q.busy = p.busy /\ q.phase = "gap" /\ q.path = NoFile
            /\ b.gaps = a.gaps \cup {P!Step("load", c.gen, c.file)}
         \/ /\ q.busy = FALSE /\ q.phase = "" /\ b.gaps = a.gaps
            /\ \/ q.path \in {p.path, NoFile}
               \/ /\ c.step = "loaded" /\ P!Confirms(c, r)
                  /\ c.file \in Files /\ q.path = c.file
  <2>1. CASE ~P!Confirms(c, r)
    BY <1>0, <2>1 DEF P!CallBack, P!Scheduled, P!Finish, PresenterType
  <2>2. CASE P!Confirms(c, r) /\ c.step = "removed"
    <3>1. c.file \in Files
      BY <2>2 DEF Waits
    <3> QED
      BY <1>0, <2>2, <3>1 DEF P!CallBack, P!Scheduled, P!Proceed, PresenterType
  <2>3. CASE P!Confirms(c, r) /\ c.step = "loaded"
    <3>1. c.file \in Files
      BY <2>3 DEF Waits
    <3> QED
      BY <1>0, <2>3, <3>1
      DEF P!CallBack, P!Scheduled, P!Proceed, P!Finish, PresenterType
  <2>4. CASE P!Confirms(c, r) /\ c.step = "retired"
    BY <1>0, <2>4
    DEF P!CallBack, P!Scheduled, P!Proceed, P!Finish, PresenterType
  <2> QED BY <2>1, <2>2, <2>3, <2>4 DEF Waits
<1>3. p.busy = TRUE
  <2>1. p.busy \in BOOLEAN
    BY <1>0 DEF PresenterType
  <2> QED BY <1>0, <2>1 DEF Sound, CallsSound
<1>4. LinkSound(b)
  BY DEF Sound, LinkSound, SameLink
<1>5. CallsSound(b)
  <2>1. q.busy = FALSE <=> q.phase = ""
    BY <1>2, <1>3
  <2> QED BY <2>1 DEF Sound, CallsSound
<1>6. GapsSound(b)
  <2>1. \A g \in a.gaps : /\ g.step = "load" /\ g.file \in Files
                          /\ g.gen <= q.generation /\ ~P!InTime(q, g)
    BY <1>1, <1>2 DEF Sound, GapsSound, P!InTime
  <2>2. CASE b.gaps = a.gaps
    BY <2>1, <2>2 DEF GapsSound
  <2>3. CASE /\ c.file \in Files /\ q.phase = "gap"
             /\ b.gaps = a.gaps \cup {P!Step("load", c.gen, c.file)}
    <3> DEFINE g == P!Step("load", c.gen, c.file)
    <3>1. g.step = "load" /\ g.file \in Files /\ g.gen = q.generation
      BY <1>0, <1>2, <2>3 DEF P!Step
    <3>2. q.generation \in Nat
      BY <1>0 DEF PresenterType
    <3> HIDE DEF g
    <3>3. b.gaps = a.gaps \cup {g}
      BY <2>3 DEF g
    <3>4. g.gen <= q.generation
      BY <3>1, <3>2
    <3> QED BY <2>1, <2>3, <3>1, <3>3, <3>4 DEF GapsSound
  <2> QED BY <1>2, <2>2, <2>3
<1>7. EventsSound(b, es) /\ LinesSound(b, ls)
  BY DEF Sound, EventsSound, LinesSound, SameLink
<1>8. LoadsSound(b, ls, es, t)
  <2>1. /\ OneLoad(ls) /\ OneLoad(b.out)
        /\ NoLoad(ls) \/ NoLoad(b.out)
        /\ Clear(b, ls) \/ (t = NoTag /\ p.path = NoFile)
        /\ p.path # NoFile => t \in {Image[p.path], NoTag}
        /\ \A e \in b.pending : e.callback = {}
    BY DEF Sound, LoadsSound, Clear
  <2>2. P!Confirms(c, r) => Clear(b, ls)
    BY DEF Clear
  <2>3. CASE /\ c.step = "removed" /\ P!Confirms(c, r)
             /\ q.phase = "gap" /\ q.path = NoFile
    <3>1. r.image = NoTag
      BY <2>3 DEF P!Confirms
    <3>2. t = NoTag
      BY <2>3, <3>1
    <3> QED BY <2>1, <2>2, <2>3, <3>2 DEF LoadsSound
  <2>4. CASE q.phase = "" /\ q.path \in {p.path, NoFile}
    BY <2>1, <2>4 DEF LoadsSound
  <2>5. CASE /\ c.step = "loaded" /\ P!Confirms(c, r)
             /\ q.phase = "" /\ q.path = c.file
    <3>1. r.image = Image[c.file]
      BY <2>5 DEF P!Confirms
    <3> QED BY <2>1, <2>2, <2>5, <3>1 DEF LoadsSound
  <2> QED BY <1>2, <2>3, <2>4, <2>5
<1> QED BY <1>4, <1>5, <1>6, <1>7, <1>8 DEF Sound

-----------------------------------------------------------------------------
(* The methods.                                                            *)

LEMMA ReceivesAll ==
    ASSUME NEW ls \in Seq(LineType), NEW w \in Seq(LineType), Len(ls) <= LineQueue
    PROVE  ReceiveAll(ls, w) \in Seq(LineType) /\ Len(ReceiveAll(ls, w)) <= LineQueue
<1>1. CASE w = <<>>
  BY <1>1 DEF ReceiveAll
<1>2. CASE w # <<>> /\ Len(w) = 1
  <2>1. w[1] \in LineType
    BY <1>2, LenProperties
  <2> QED BY <1>2, <2>1, Received DEF ReceiveAll
<1>3. CASE w # <<>> /\ Len(w) # 1
  <2>1. PICK n \in Nat : n = Len(w)
    BY LenProperties
  <2>4. n # 0 /\ n # 1
    BY <1>3, <2>1, EmptySeq
  <2>5. 1 \in 1..n /\ 2 \in 1..n
    BY <2>4
  <2>3. w[1] \in LineType /\ w[2] \in LineType
    BY <2>1, <2>5, ElementOfSeq
  <2>2. /\ Receive(ls, w[1]) \in Seq(LineType)
        /\ Len(Receive(ls, w[1])) <= LineQueue
    BY <2>3, Received
  <2> QED BY <1>3, <2>3, <2>2, Received DEF ReceiveAll
<1> QED BY <1>1, <1>2, <1>3

\* The invariant of a record that a step may end with.
Fine(a) ==
    /\ a \in AppType
    /\ \A w \in a.endings : Sound(a, ReceiveAll(lines, w), events, tag)

\* The link is as it was: nothing more to be written but from the queue.
Live(a) == a.endings = {<<>>}

LEMMA LiveIsSound ==
    ASSUME NEW a \in AppType, Live(a)
    PROVE  Fine(a) <=> Sound(a, lines, events, tag)
BY DEF Fine, Live, ReceiveAll

LEMMA LastReleaseFine ==
    /\ LastRelease \in LineType /\ LineFine(LastRelease)
    /\ LastRelease.cmd # "load" /\ Neutral \in Arguments
BY AppAssumption
DEF AppAssumption, LastRelease, Line, LineType, LineFine, Commands, Arguments

\* What the thread of a closed link may write.
LEMMA EndingsAre ==
    ASSUME NEW a \in AppType, NEW w \in Endings(a)
    PROVE  /\ w \in Seq(LineType)
           /\ \/ w = <<>>
              \/ w = <<LastRelease>>
              \/ a.out # <<>> /\ w = <<Head(a.out)>>
              \/ a.out # <<>> /\ w = <<Head(a.out), LastRelease>>
<1>1. a.out \in Seq(LineType) /\ LastRelease \in LineType
  BY LastReleaseFine DEF AppType
<1>2. a.out # <<>> => Head(a.out) \in LineType
  BY <1>1, TailLines
<1>3. <<>> \o <<LastRelease>> = <<LastRelease>>
  BY <1>1
<1>4. a.out # <<>> =>
         <<Head(a.out)>> \o <<LastRelease>> = <<Head(a.out), LastRelease>>
  <2> SUFFICES ASSUME NEW h \in LineType, NEW l \in LineType
               PROVE  <<h>> \o <<l>> = <<h, l>>
    BY <1>1, <1>2
  <2> DEFINE u == <<h>> \o <<l>>
             v == <<h, l>>
  <2>1. <<h>> \in Seq(LineType) /\ <<l>> \in Seq(LineType)
    OBVIOUS
  <2>2. /\ u \in Seq(LineType) /\ Len(u) = 2
        /\ \A i \in 1..2 : u[i] = IF i <= 1 THEN <<h>>[i] ELSE <<l>>[i - 1]
    BY <2>1, ConcatProperties
  <2>3. v \in Seq(LineType) /\ Len(v) = 2 /\ v[1] = h /\ v[2] = l
    OBVIOUS
  <2> HIDE DEF u, v
  <2>4. u[1] = h /\ u[2] = l
    BY <2>2
  <2>5. u = v
    BY <2>2, <2>3, <2>4, SeqEqual
  <2> QED BY <2>5 DEF u, v
<1>5. \/ w = <<>>
      \/ w = <<LastRelease>>
      \/ a.out # <<>> /\ w = <<Head(a.out)>>
      \/ a.out # <<>> /\ w = <<Head(a.out), LastRelease>>
  <2>1. CASE a.writer # "running"
    BY <2>1 DEF Endings
  <2>2. CASE a.writer = "running" /\ a.out = <<>>
    BY <1>3, <2>2 DEF Endings
  <2>3. CASE a.writer = "running" /\ a.out # <<>>
    BY <1>3, <1>4, <2>3 DEF Endings
  <2> QED BY <2>1, <2>2, <2>3
<1>6. /\ <<>> \in Seq(LineType) /\ <<LastRelease>> \in Seq(LineType)
      /\ a.out # <<>> => /\ <<Head(a.out)>> \in Seq(LineType)
                         /\ <<Head(a.out), LastRelease>> \in Seq(LineType)
  BY <1>1, <1>2
<1> QED BY <1>5, <1>6

LEMMA ResetIs ==
    ASSUME NEW p \in PresenterType
    PROVE  /\ P!Reset(p) \in PresenterType
           /\ P!Reset(p).busy = FALSE /\ P!Reset(p).phase = ""
           /\ P!Reset(p).path = NoFile
           /\ P!Reset(p).generation = p.generation + 1
<1>1. PICK g \in Nat : g = p.generation + 1
  BY DEF PresenterType
<1>2. P!Reset(p) = [p EXCEPT !.generation = g, !.busy = FALSE, !.phase = "",
                            !.path = NoFile, !.crc = NoTag, !.loaded = "unknown"]
  BY <1>1 DEF P!Reset
<1>3. P!Reset(p) \in PresenterType
  BY <1>2 DEF PresenterType, P!Phases
<1>4. /\ P!Reset(p).busy = FALSE /\ P!Reset(p).phase = ""
      /\ P!Reset(p).path = NoFile /\ P!Reset(p).generation = g
  BY <1>2 DEF PresenterType
<1> QED BY <1>1, <1>3, <1>4

LEMMA DisconnectIs ==
    ASSUME NEW a \in AppType
    PROVE  /\ Disconnect(a) \in AppType
           /\ Closed(Disconnect(a))
           /\ Disconnect(a).made = a.made /\ Disconnect(a).gaps = a.gaps
           /\ Disconnect(a).presenter = P!Reset(a.presenter)
           /\ Disconnect(a).said = NoTag
           /\ Disconnect(a).endings = Endings(a)
           /\ Disconnect(a).presenter.generation = a.presenter.generation + 1
<1>1. Endings(a) \in SUBSET Seq(LineType)
  BY EndingsAre
<1>2. a.presenter \in PresenterType
  BY DEF AppType
<1>3. /\ P!Reset(a.presenter) \in PresenterType
      /\ P!Reset(a.presenter).busy = FALSE
      /\ P!Reset(a.presenter).phase = ""
      /\ P!Reset(a.presenter).path = NoFile
      /\ P!Reset(a.presenter).generation = a.presenter.generation + 1
  BY <1>2, ResetIs
<1>4. <<>> \in Seq(LineType)
  BY EmptySeq
<1>5. Disconnect(a) \in AppType
  BY <1>1, <1>3, <1>4 DEF Disconnect, AppType, None
<1>6. /\ Disconnect(a).link = None /\ Disconnect(a).writer = "none"
      /\ Disconnect(a).out = <<>> /\ Disconnect(a).ready = FALSE
      /\ Disconnect(a).pending = {}
      /\ Disconnect(a).made = a.made /\ Disconnect(a).gaps = a.gaps
      /\ Disconnect(a).presenter = P!Reset(a.presenter)
      /\ Disconnect(a).said = NoTag
      /\ Disconnect(a).endings = Endings(a)
  BY DEF Disconnect, AppType
<1> QED BY <1>3, <1>5, <1>6 DEF Closed

\* disconnect() keeps the invariant whatever the link's thread still writes.
LEMMA DisconnectFine ==
    ASSUME NEW a \in AppType, StateTyped, Sound(a, lines, events, tag)
    PROVE  Fine(Disconnect(a))
<1> DEFINE d == Disconnect(a)
<1>1. /\ d \in AppType /\ Closed(d) /\ d.made = a.made /\ d.gaps = a.gaps
      /\ d.endings = Endings(a)
      /\ d.presenter.generation = a.presenter.generation + 1
  BY DisconnectIs
<1> HIDE DEF d
<1>2. lines \in Seq(LineType) /\ Len(lines) <= LineQueue
  BY DEF StateTyped
<1>3. Sound(d, lines, events, tag)
  <2>1. d.made >= a.made /\ d.presenter.generation > a.presenter.generation
    BY <1>1 DEF AppType, PresenterType
  <2> QED BY <1>1, <1>2, <2>1, Closes
<1>4. Sound(d, Receive(lines, LastRelease), events, tag)
  BY <1>1, <1>2, <1>3, LastReleaseFine, ClosedReceives
<1>5. ASSUME a.out # <<>>
      PROVE  /\ Sound(d, Receive(lines, Head(a.out)), events, tag)
             /\ Sound(d, Receive(Receive(lines, Head(a.out)), LastRelease),
                      events, tag)
  <2>1. a.out \in Seq(LineType)
    BY DEF AppType
  <2>2. /\ Head(a.out) \in LineType
        /\ NoLoad(a.out) => Head(a.out).cmd # "load"
        /\ LineFine(Head(a.out))
    BY <1>5, <2>1, TailLines DEF Sound, LinesSound
  <2>3. Head(a.out).cmd = "load" => NoLoad(lines) /\ tag = NoTag
    BY <2>2 DEF Sound, LoadsSound, Clear
  <2>4. Sound(d, Receive(lines, Head(a.out)), events, tag)
    BY <1>1, <1>2, <1>3, <2>2, <2>3, ClosedReceives
  <2>5. /\ Receive(lines, Head(a.out)) \in Seq(LineType)
        /\ Len(Receive(lines, Head(a.out))) <= LineQueue
    BY <1>2, <2>2, Received
  <2> QED BY <1>1, <2>4, <2>5, LastReleaseFine, ClosedReceives
<1>6. ASSUME NEW w \in d.endings
      PROVE  Sound(d, ReceiveAll(lines, w), events, tag)
  <2>1. \/ w = <<>>
        \/ w = <<LastRelease>>
        \/ a.out # <<>> /\ w = <<Head(a.out)>>
        \/ a.out # <<>> /\ w = <<Head(a.out), LastRelease>>
    BY <1>1, <1>6, EndingsAre
  <2>2. CASE w = <<>>
    BY <1>3, <2>2 DEF ReceiveAll
  <2>3. CASE w = <<LastRelease>>
    <3>1. w # <<>> /\ Len(w) = 1 /\ w[1] = LastRelease
      BY <2>3
    <3> QED BY <1>4, <3>1 DEF ReceiveAll
  <2>4. CASE a.out # <<>> /\ w = <<Head(a.out)>>
    <3>1. w # <<>> /\ Len(w) = 1 /\ w[1] = Head(a.out)
      BY <2>4
    <3> QED BY <1>5, <2>4, <3>1 DEF ReceiveAll
  <2>5. CASE a.out # <<>> /\ w = <<Head(a.out), LastRelease>>
    <3>1. w # <<>> /\ Len(w) = 2 /\ w[1] = Head(a.out) /\ w[2] = LastRelease
      BY <2>5
    <3> QED BY <1>5, <2>5, <3>1 DEF ReceiveAll
  <2> QED BY <2>1, <2>2, <2>3, <2>4, <2>5
<1> QED BY <1>1, <1>6 DEF Fine, d

\* One more command is on its way, without a callback and without a load.
Sent(a, b) ==
    /\ SameLink(a, b) /\ Live(b)
    /\ b.ready = a.ready /\ b.connected = a.connected
    /\ b.presenter = a.presenter /\ b.gaps = a.gaps /\ b.said = a.said
    /\ \E k \in PendingType : k.callback = {} /\ b.pending = a.pending \cup {k}
    /\ Clear(a, lines) => Clear(b, lines)

\* What send() does with a command, once there is a link.
LEMMA SendIs ==
    ASSUME NEW a \in AppType, a.link # None,
           NEW cmd \in Commands, NEW arg \in Arguments,
           NEW cb \in SUBSET P!Callback,
           IsFiniteSet(a.pending), StateTyped
    PROVE  \/ Len(a.out) = OutSlots /\ Send(a, cmd, arg, cb) = Disconnect(a)
           \/ \E b \in AppType, l \in LineType, k \in PendingType :
                 /\ Len(a.out) # OutSlots /\ Send(a, cmd, arg, cb) = b
                 /\ l.id = NextSeq(a) /\ l.cmd = cmd /\ l.arg = arg
                 /\ k.id = l.id /\ k.cmd = cmd /\ k.callback = cb
                 /\ b.out = Append(a.out, l) /\ b.pending = a.pending \cup {k}
                 /\ SameLink(a, b) /\ b.endings = a.endings
                 /\ b.ready = a.ready /\ b.connected = a.connected
                 /\ b.presenter = a.presenter /\ b.gaps = a.gaps
                 /\ b.said = a.said
<1> SUFFICES ASSUME Len(a.out) # OutSlots
             PROVE  \E b \in AppType, l \in LineType, k \in PendingType :
                 /\ Len(a.out) # OutSlots /\ Send(a, cmd, arg, cb) = b
                 /\ l.id = NextSeq(a) /\ l.cmd = cmd /\ l.arg = arg
                 /\ k.id = l.id /\ k.cmd = cmd /\ k.callback = cb
                 /\ b.out = Append(a.out, l) /\ b.pending = a.pending \cup {k}
                 /\ SameLink(a, b) /\ b.endings = a.endings
                 /\ b.ready = a.ready /\ b.connected = a.connected
                 /\ b.presenter = a.presenter /\ b.gaps = a.gaps
                 /\ b.said = a.said
  BY DEF Send
<1>1. PICK n \in Nat : n = NextSeq(a)
  BY NextSeqIsNew
<1> DEFINE l == Line(n, cmd, arg)
           k == [id |-> n, cmd |-> cmd, callback |-> cb]
           o == Append(a.out, l)
           w == a.pending \cup {k}
           b == [a EXCEPT !.out = o, !.pending = w]
<1>2. l \in LineType /\ l.id = n /\ l.cmd = cmd /\ l.arg = arg
  BY DEF Line, LineType
<1>3. k \in PendingType /\ k.id = n /\ k.cmd = cmd /\ k.callback = cb
  BY DEF PendingType
<1>4. Send(a, cmd, arg, cb) = b
  BY <1>1 DEF Send
<1> HIDE DEF l, k
<1>5. o \in Seq(LineType) /\ w \in SUBSET PendingType
  BY <1>2, <1>3, AppendLines DEF AppType
<1> HIDE DEF o, w
<1>6. /\ b \in AppType /\ b.out = o /\ b.pending = w
      /\ SameLink(a, b) /\ b.endings = a.endings
      /\ b.ready = a.ready /\ b.connected = a.connected
      /\ b.presenter = a.presenter /\ b.gaps = a.gaps /\ b.said = a.said
  BY <1>5 DEF AppType, SameLink
<1> QED BY <1>1, <1>2, <1>3, <1>4, <1>6 DEF o, w

LEMMA Sends ==
    ASSUME NEW a \in AppType, Live(a), StateTyped,
           Sound(a, lines, events, tag), a.link # None,
           NEW cmd \in {"status", "state", "release"}, NEW arg \in Arguments
    PROVE  /\ Fine(Send(a, cmd, arg, {}))
           /\ \/ /\ Len(a.out) = OutSlots
                 /\ Send(a, cmd, arg, {}) = Disconnect(a)
              \/ Sent(a, Send(a, cmd, arg, {}))
<1>1. IsFiniteSet(a.pending) /\ cmd \in Commands
  BY DEF Sound, LinkSound, Commands
<1>2. CASE Len(a.out) = OutSlots /\ Send(a, cmd, arg, {}) = Disconnect(a)
  BY <1>2, DisconnectFine
<1>3. ASSUME NEW b \in AppType, NEW l \in LineType, NEW k \in PendingType,
             Len(a.out) # OutSlots, Send(a, cmd, arg, {}) = b,
             l.id = NextSeq(a), l.cmd = cmd, k.id = l.id, k.cmd = cmd,
             k.callback = {}, b.out = Append(a.out, l),
             b.pending = a.pending \cup {k}, SameLink(a, b),
             b.endings = a.endings, b.ready = a.ready,
             b.connected = a.connected, b.presenter = a.presenter,
             b.gaps = a.gaps, b.said = a.said
      PROVE  Fine(b) /\ Sent(a, b)
  <2>1. /\ l.id # 0 /\ \A e \in a.pending : e.id # l.id
        /\ ~Has(a.out, l.id) /\ ~Has(lines, l.id)
        /\ \A i \in DOMAIN events : events[i].reply.id # l.id
    BY <1>1, <1>3, NextSeqIsNew
  <2>2. l.cmd # "load" /\ LineFine(l)
    BY <1>3, <2>1 DEF LineFine
  <2>3. /\ a.out \in Seq(LineType) /\ lines \in Seq(LineType)
        /\ Len(a.out) < OutSlots
    <3>1. a.out \in Seq(LineType) /\ lines \in Seq(LineType)
      BY DEF AppType, StateTyped
    <3>2. PICK n \in Nat : n = Len(a.out)
      BY <3>1, LenProperties
    <3>3. n <= OutSlots /\ OutSlots \in Nat
      BY <3>2, AppAssumption DEF Sound, LinkSound, AppAssumption
    <3> QED BY <1>3, <3>1, <3>2, <3>3
  <2>4. Sound(b, lines, events, tag)
    BY <1>3, <2>1, <2>2, <2>3, Posted
  <2>5. Live(b)
    BY <1>3 DEF Live
  <2>6. Clear(a, lines) => Clear(b, lines)
    BY <1>3, <2>2, <2>3, AppendLines DEF Clear
  <2> QED BY <1>3, <2>4, <2>5, <2>6, LiveIsSound DEF Sent
<1> QED BY <1>1, <1>2, <1>3, SendIs

\* release_all(), with a link.
LEMMA Releases ==
    ASSUME NEW a \in AppType, Live(a), StateTyped,
           Sound(a, lines, events, tag), a.link # None
    PROVE  /\ Fine(ReleaseAll(a))
           /\ \/ /\ Len(a.out) = OutSlots
                 /\ \E x \in AppType :
                       /\ ReleaseAll(a) = Disconnect(x)
                       /\ x.presenter = a.presenter /\ x.gaps = a.gaps
                       /\ x.made = a.made
              \/ Sent(a, ReleaseAll(a))
<1> DEFINE x == [a EXCEPT !.pressed = {}]
<1>1. /\ x \in AppType /\ SameLink(a, x) /\ x.endings = a.endings
      /\ x.out = a.out /\ x.pending = a.pending /\ x.ready = a.ready
      /\ x.connected = a.connected /\ x.presenter = a.presenter
      /\ x.gaps = a.gaps /\ x.said = a.said /\ x.made = a.made
      /\ x.link = a.link
  BY DEF AppType, SameLink
<1>2. ReleaseAll(a) = Send(x, "release", Neutral, {})
  BY DEF ReleaseAll
<1> HIDE DEF x
<1>3. Live(x) /\ Sound(x, lines, events, tag)
  BY <1>1, Forgets DEF Live
<1>4. /\ Fine(ReleaseAll(a))
      /\ \/ Len(x.out) = OutSlots /\ ReleaseAll(a) = Disconnect(x)
         \/ Sent(x, ReleaseAll(a))
  BY <1>1, <1>2, <1>3, LastReleaseFine, Sends
<1>5. Sent(x, ReleaseAll(a)) => Sent(a, ReleaseAll(a))
  BY <1>1 DEF Sent, SameLink, Clear
<1> QED BY <1>1, <1>4, <1>5

\* The heartbeat, on a link or when it was closed.
LEMMA Beats ==
    ASSUME NEW a \in AppType, StateTyped, Fine(a), Live(a) \/ a.link = None,
           NEW due \in BOOLEAN
    PROVE  /\ Fine(Heartbeat(a, due))
           /\ \/ Heartbeat(a, due) = a
              \/ /\ a.link # None /\ Live(a)
                 /\ \/ Heartbeat(a, due) = Disconnect(a)
                    \/ Sent(a, Heartbeat(a, due))
<1>1. a.pressed \in Arguments /\ NoTag \in Arguments
  BY DEF AppType, Arguments
<1>2. CASE a.link = None
  BY <1>2 DEF Heartbeat
<1>3. CASE a.link # None
  <2>1. Live(a) /\ Sound(a, lines, events, tag)
    BY <1>3, LiveIsSound
  <2>2. \/ Heartbeat(a, due) = a
        \/ Heartbeat(a, due) = Send(a, "state", a.pressed, {})
        \/ Heartbeat(a, due) = Send(a, "status", NoTag, {})
    BY <1>3 DEF Heartbeat
  <2>3. CASE Heartbeat(a, due) = a
    BY <2>3
  <2>4. CASE Heartbeat(a, due) = Send(a, "state", a.pressed, {})
    BY <1>1, <1>3, <2>1, <2>4, Sends
  <2>5. CASE Heartbeat(a, due) = Send(a, "status", NoTag, {})
    BY <1>1, <1>3, <2>1, <2>5, Sends
  <2> QED BY <2>2, <2>3, <2>4, <2>5
<1> QED BY <1>2, <1>3

\* The callbacks of commands that wait.
CallsOf(a) == UNION {e.callback : e \in a.pending}

\* All of them: those that belong to some of the commands, and those that do not.
LEMMA OneCallback ==
    ASSUME NEW a \in AppType, CallsSound(a), NEW some \in SUBSET a.pending
    PROVE  LET told == UNION {e.callback : e \in some}
               left == UNION {e.callback : e \in a.pending \ some}
           IN \/ told = {} /\ left = CallsOf(a)
              \/ \E c \in P!Callback :
                    /\ told = {c} /\ CallsOf(a) = {c} /\ left = {}
                    /\ P!InTime(a.presenter, c) /\ Waits(a.presenter.phase, c)
                    /\ \A e \in a.pending \ some : e.callback = {}
<1> DEFINE told == UNION {e.callback : e \in some}
           left == UNION {e.callback : e \in a.pending \ some}
<1>1. CASE \A e \in some : e.callback = {}
  <2>1. told = {} /\ left = CallsOf(a)
    BY <1>1 DEF CallsOf
  <2> QED BY <2>1
<1>2. CASE \E e \in some : e.callback # {}
  <2>1. PICK e \in some : e.callback # {}
    BY <1>2
  <2>2. PICK c \in e.callback : /\ e.callback = {c} /\ P!InTime(a.presenter, c)
                                /\ Waits(a.presenter.phase, c)
    BY <2>1 DEF CallsSound
  <2>3. \A f \in a.pending : f # e => f.callback = {}
    BY <2>1 DEF CallsSound
  <2>4. c \in P!Callback
    BY <2>1, <2>2 DEF AppType, PendingType
  <2>5. told = {c} /\ left = {} /\ CallsOf(a) = {c}
    BY <2>1, <2>2, <2>3 DEF CallsOf
  <2>6. \A f \in a.pending \ some : f.callback = {}
    BY <2>1, <2>3
  <2> QED BY <2>2, <2>4, <2>5, <2>6
<1> QED BY <1>1, <1>2

\* What the timeouts do before they ask for the status: perhaps a callback is told.
GivenUp(a, b) ==
    /\ b \in AppType /\ SameLink(a, b) /\ b.gaps = a.gaps /\ b.said = a.said
    /\ \/ b.presenter = a.presenter /\ CallsOf(b) = CallsOf(a)
       \/ \E c \in CallsOf(a) :
             /\ b.presenter = P!CallBack(a.presenter, c, P!Failure)
             /\ CallsOf(b) = CallsOf(a) \ {c}

LEMMA CallBackTyped ==
    ASSUME NEW p \in PresenterType, NEW c \in P!Callback, NEW r,
           P!InTime(p, c) => \E phase : Waits(phase, c)
    PROVE  P!CallBack(p, c, r) \in PresenterType
<1> USE DEF PresenterType, P!CallBack, P!Proceed, P!Finish, P!Phases
<1>1. CASE ~P!InTime(p, c)
  BY <1>1
<1>2. CASE P!InTime(p, c) /\ ~P!Confirms(c, r)
  BY <1>2
<1>3. CASE P!InTime(p, c) /\ P!Confirms(c, r) /\ c.step = "loaded"
                          /\ c.file \in Files
  <2>1. Image[c.file] \in P!Images
    BY <1>3 DEF P!Images
  <2> QED BY <1>3, <2>1
<1>4. CASE P!InTime(p, c) /\ P!Confirms(c, r) /\ c.step = "removed"
  BY <1>4
<1>5. CASE P!InTime(p, c) /\ P!Confirms(c, r) /\ c.step = "retired"
  BY <1>5
<1> QED BY <1>1, <1>2, <1>3, <1>4, <1>5 DEF Waits

LEMMA TimesOut ==
    ASSUME NEW a \in AppType, StateTyped, Live(a), Sound(a, lines, events, tag),
           NEW expired \in SUBSET a.pending
    PROVE  /\ Fine(TimeOut(a, expired))
           /\ \E g : /\ GivenUp(a, g)
                     /\ \/ TimeOut(a, expired) = g /\ Live(g)
                        \/ a.link # None /\ TimeOut(a, expired) = Disconnect(g)
                        \/ a.link # None /\ Sent(g, TimeOut(a, expired))
<1> DEFINE callback == UNION {e.callback : e \in expired}
           left == a.pending \ expired
           x == [a EXCEPT !.pending = left]
           q == IF callback = {} THEN a.presenter
                ELSE P!CallBack(a.presenter, CHOOSE c \in callback : TRUE,
                                P!Failure)
           g == [a EXCEPT !.pending = left, !.presenter = q]
<1>1. TimeOut(a, expired) =
         IF callback = {} \/ a.link = None THEN g
         ELSE Send(g, "status", NoTag, {})
  BY DEF TimeOut
<1>2. \/ callback = {} /\ UNION {e.callback : e \in left} = CallsOf(a)
      \/ \E c \in P!Callback :
            /\ callback = {c} /\ CallsOf(a) = {c}
            /\ UNION {e.callback : e \in left} = {}
            /\ P!InTime(a.presenter, c) /\ Waits(a.presenter.phase, c)
            /\ \A e \in left : e.callback = {}
  BY OneCallback DEF Sound
<1>3. left \in SUBSET PendingType /\ a.presenter \in PresenterType
  BY DEF AppType
<1>4. callback # {} => a.link # None
  BY DEF Sound, LinkSound
<1> HIDE DEF callback, left
<1>5. /\ x \in AppType /\ SameLink(a, x) /\ x.out = a.out /\ x.pending = left
      /\ x.ready = a.ready /\ x.presenter = a.presenter /\ x.gaps = a.gaps
      /\ x.link = a.link
  BY <1>3 DEF AppType, SameLink
<1>6. left \subseteq a.pending
  BY DEF left
<1>7. Sound(x, lines, events, tag)
  BY <1>5, <1>6, Forgets
<1>8. CASE callback = {}
  <2>1. q = a.presenter /\ g = x
    BY <1>8 DEF AppType
  <2>2. TimeOut(a, expired) = x
    BY <1>1, <1>8, <2>1
  <2>3. /\ x.said = a.said /\ x.endings = a.endings
        /\ CallsOf(x) = CallsOf(a)
    BY <1>2, <1>5, <1>8 DEF AppType, CallsOf
  <2>4. GivenUp(a, x) /\ Live(x)
    BY <1>5, <2>3 DEF GivenUp, Live
  <2> QED BY <1>5, <1>7, <2>2, <2>4, LiveIsSound
<1>9. CASE callback # {}
  <2>1. PICK c \in P!Callback :
            /\ callback = {c} /\ CallsOf(a) = {c}
            /\ UNION {e.callback : e \in left} = {}
            /\ P!InTime(a.presenter, c) /\ Waits(a.presenter.phase, c)
            /\ \A e \in left : e.callback = {}
    BY <1>2, <1>9
  <2>2. q = P!CallBack(a.presenter, c, P!Failure)
    BY <1>9, <2>1
  <2>3. q \in PresenterType
    BY <1>3, <2>1, <2>2, CallBackTyped
  <2> HIDE DEF q
  <2>4. /\ g \in AppType /\ SameLink(a, g) /\ g.out = a.out
        /\ g.pending = left /\ g.ready = a.ready /\ g.presenter = q
        /\ g.gaps = a.gaps /\ g.said = a.said /\ g.endings = a.endings
        /\ g.link = a.link
    BY <1>3, <2>3 DEF AppType, SameLink
  <2>5. CallsOf(g) = CallsOf(a) \ {c}
    BY <2>1, <2>4 DEF CallsOf
  <2>6. GivenUp(a, g) /\ Live(g)
    BY <2>1, <2>2, <2>4, <2>5 DEF GivenUp, Live
  <2> HIDE DEF x, g
  <2>7. /\ ~P!Confirms(c, P!Failure)
        /\ P!Scheduled(a.presenter, c, P!Failure) = {}
    BY DEF P!Confirms, P!Failure, P!Scheduled
  <2>8. Sound(g, lines, events, tag)
    <3>1. SameLink(x, g) /\ x.link # None
      BY <1>4, <1>5, <1>9, <2>4 DEF SameLink
    <3>2. /\ g.out = x.out /\ g.pending = x.pending /\ g.ready = x.ready
          /\ \A e \in x.pending : e.callback = {}
          /\ P!InTime(x.presenter, c) /\ Waits(x.presenter.phase, c)
          /\ g.presenter = P!CallBack(x.presenter, c, P!Failure)
          /\ g.gaps = x.gaps \cup P!Scheduled(x.presenter, c, P!Failure)
      BY <1>5, <2>1, <2>2, <2>4, <2>7
    <3> QED BY <1>5, <1>7, <2>4, <2>7, <3>1, <3>2, Told
  <2>9. TimeOut(a, expired) = Send(g, "status", NoTag, {})
    BY <1>1, <1>4, <1>9
  <2>10. NoTag \in Arguments
    BY DEF Arguments
  <2> QED BY <1>4, <1>9, <2>4, <2>6, <2>8, <2>9, <2>10, Sends
<1> QED BY <1>8, <1>9

LEMMA ObserveIs ==
    ASSUME NEW p \in PresenterType, NEW r \in ReplyType
    PROVE  /\ P!Observe(p, r) \in PresenterType
           /\ P!Observe(p, r).busy = p.busy /\ P!Observe(p, r).phase = p.phase
           /\ P!Observe(p, r).generation = p.generation
           /\ P!Observe(p, r).path \in {p.path, NoFile}
BY DEF P!Observe, PresenterType, ReplyType

\* What handling a reply can come to: it was nobody's; it is observed and a callback
\* may hear it; or the link is lost meanwhile and it is observed all the same.
Handled(a, b, r) ==
    \/ b = a
    \/ /\ a.link # None /\ SameLink(a, b) /\ Live(b) /\ b.said = r.image
       /\ \/ /\ b.presenter = P!Observe(a.presenter, r) /\ b.gaps = a.gaps
             /\ CallsOf(b) = CallsOf(a)
          \/ \E c \in CallsOf(a) :
                /\ b.presenter = P!CallBack(P!Observe(a.presenter, r), c, r)
                /\ b.gaps = a.gaps
                              \cup P!Scheduled(P!Observe(a.presenter, r), c, r)
                /\ CallsOf(b) = CallsOf(a) \ {c}
    \/ /\ a.link # None /\ Len(a.out) = OutSlots
       /\ Closed(b) /\ b.made = a.made /\ b.gaps = a.gaps /\ b.said = r.image
       /\ b.presenter = P!Observe(P!Reset(a.presenter), r)

\* The last assignments of handle_reply().
Noted(told, r, gaps, q) ==
    [told EXCEPT !.connected = r.connected, !.said = r.image, !.gaps = gaps,
                 !.presenter = q]

LEMMA NotedIs ==
    ASSUME NEW told \in AppType, NEW r \in ReplyType,
           NEW gaps \in SUBSET P!Callback, NEW q \in PresenterType
    PROVE  LET b == Noted(told, r, gaps, q)
           IN /\ b \in AppType /\ SameLink(told, b) /\ b.endings = told.endings
              /\ b.out = told.out /\ b.pending = told.pending
              /\ b.ready = told.ready /\ b.said = r.image
              /\ b.gaps = gaps /\ b.presenter = q /\ b.link = told.link
<1>1. r.connected \in BOOLEAN /\ r.image \in P!Images \cup {NoTag}
  BY DEF ReplyType
<1> QED BY <1>1 DEF Noted, AppType, SameLink

\* The record that handle_reply() leaves behind, from the one after release_all().
Answered(told, callback, r) ==
    LET seen == P!Observe(told.presenter, r)
        done == UNION {P!Scheduled(seen, c, r) : c \in callback}
    IN Noted(told, r, told.gaps \cup done,
             IF callback = {} THEN seen
             ELSE P!CallBack(seen, CHOOSE c \in callback : TRUE, r))

\* The link was lost in release_all().
LEMMA HandledWhenLost ==
    ASSUME NEW a \in AppType, NEW x \in AppType, StateTyped,
           NEW r \in ReplyType, NEW callback \in SUBSET CallsOf(a),
           Sound(a, lines, events, tag), a.link # None,
           Len(a.out) = OutSlots, Fine(Disconnect(x)),
           x.presenter = a.presenter, x.gaps = a.gaps, x.made = a.made,
           \/ callback = {}
           \/ \E c \in callback : callback = {c} /\ P!InTime(a.presenter, c)
    PROVE  /\ Fine(Answered(Disconnect(x), callback, r))
           /\ Handled(a, Answered(Disconnect(x), callback, r), r)
<1> DEFINE told == Disconnect(x)
           seen == P!Observe(told.presenter, r)
           done == UNION {P!Scheduled(seen, c, r) : c \in callback}
           q == IF callback = {} THEN seen
                ELSE P!CallBack(seen, CHOOSE c \in callback : TRUE, r)
           b == Noted(told, r, told.gaps \cup done, q)
<1>0. Answered(Disconnect(x), callback, r) = b
  BY DEF Answered
<1>1. /\ told \in AppType /\ Closed(told) /\ told.made = a.made
      /\ told.gaps = a.gaps /\ told.presenter = P!Reset(a.presenter)
      /\ told.presenter.generation = a.presenter.generation + 1
  BY DisconnectIs
<1>2. Fine(told)
  OBVIOUS
<1> HIDE DEF told
<1>3. /\ seen \in PresenterType /\ seen.busy = told.presenter.busy
      /\ seen.phase = told.presenter.phase
      /\ seen.generation = told.presenter.generation
      /\ seen.path \in {told.presenter.path, NoFile}
      /\ told.gaps \in SUBSET P!Callback
  BY <1>1, ObserveIs DEF AppType
<1> HIDE DEF seen
<1>4. \A c : P!InTime(a.presenter, c) => ~P!InTime(seen, c)
  <2>1. PICK n \in Nat : n = a.presenter.generation
    BY DEF AppType, PresenterType
  <2>2. seen.generation = n + 1
    BY <1>1, <1>3, <2>1
  <2> QED BY <2>1, <2>2 DEF P!InTime
<1>5. done = {} /\ q = seen
  <2>1. CASE callback = {}
    BY <2>1
  <2>2. ASSUME NEW c \in callback, callback = {c}, P!InTime(a.presenter, c)
        PROVE  done = {} /\ q = seen
    <3>1. ~P!InTime(seen, c)
      BY <1>4, <2>2
    <3>2. P!Scheduled(seen, c, r) = {} /\ P!CallBack(seen, c, r) = seen
      BY <3>1 DEF P!Scheduled, P!CallBack
    <3>3. callback # {} /\ (CHOOSE d \in callback : TRUE) = c
      BY <2>2
    <3> QED BY <2>2, <3>2, <3>3
  <2> QED BY <2>1, <2>2
<1>6. told.gaps \cup done = told.gaps
  BY <1>5
<1>7. b = Noted(told, r, told.gaps, seen)
  BY <1>5, <1>6
<1> HIDE DEF b
<1>8. /\ b \in AppType /\ SameLink(told, b) /\ b.endings = told.endings
      /\ b.out = told.out /\ b.pending = told.pending
      /\ b.ready = told.ready /\ b.said = r.image
      /\ b.gaps = told.gaps /\ b.presenter = seen /\ b.link = told.link
  BY <1>1, <1>3, <1>7, NotedIs
<1>9. Fine(b)
  <2> SUFFICES ASSUME NEW w \in told.endings
               PROVE  Sound(b, ReceiveAll(lines, w), events, tag)
    BY <1>8 DEF Fine
  <2>1. Sound(told, ReceiveAll(lines, w), events, tag)
    BY <1>2 DEF Fine
  <2> QED BY <1>1, <1>3, <1>8, <2>1, Observed
<1>10. Closed(b) /\ b.made = a.made /\ b.gaps = a.gaps
       /\ b.presenter = P!Observe(P!Reset(a.presenter), r)
  <2>1. Closed(b)
    BY <1>1, <1>3, <1>8 DEF Closed, SameLink
  <2> QED BY <1>1, <1>8, <2>1 DEF SameLink, seen
<1>11. Handled(a, b, r)
  BY <1>8, <1>10 DEF Handled
<1> QED BY <1>0, <1>9, <1>11

\* The link is there still.
LEMMA HandledOnLink ==
    ASSUME NEW a \in AppType, NEW told \in AppType, StateTyped,
           NEW r \in ReplyType, NEW callback \in SUBSET CallsOf(a),
           Sound(told, lines, events, tag), Live(told),
           a.link # None, SameLink(a, told),
           told.presenter = a.presenter, told.gaps = a.gaps,
           \/ callback = {} /\ CallsOf(told) = CallsOf(a)
           \/ \E c \in P!Callback :
                 /\ callback = {c} /\ CallsOf(a) = {c} /\ CallsOf(told) = {}
                 /\ P!InTime(a.presenter, c) /\ Waits(a.presenter.phase, c)
                 /\ \A e \in told.pending : e.callback = {}
                 /\ Clear(told, lines) /\ tag \in {r.image, NoTag}
    PROVE  /\ Fine(Answered(told, callback, r))
           /\ Handled(a, Answered(told, callback, r), r)
<1> DEFINE seen == P!Observe(told.presenter, r)
           done == UNION {P!Scheduled(seen, c, r) : c \in callback}
           q == IF callback = {} THEN seen
                ELSE P!CallBack(seen, CHOOSE c \in callback : TRUE, r)
           b == Noted(told, r, told.gaps \cup done, q)
           m == Noted(told, r, told.gaps, seen)
<1>0. Answered(told, callback, r) = b
  BY DEF Answered
<1>1. /\ seen \in PresenterType /\ seen.busy = told.presenter.busy
      /\ seen.phase = told.presenter.phase
      /\ seen.generation = told.presenter.generation
      /\ seen.path \in {told.presenter.path, NoFile}
      /\ told.gaps \in SUBSET P!Callback
  BY ObserveIs DEF AppType
<1>2. seen = P!Observe(a.presenter, r)
  OBVIOUS
<1> HIDE DEF seen, m
<1>3. /\ m \in AppType /\ SameLink(told, m) /\ m.endings = told.endings
      /\ m.out = told.out /\ m.pending = told.pending
      /\ m.ready = told.ready /\ m.said = r.image
      /\ m.gaps = told.gaps /\ m.presenter = seen /\ m.link = told.link
  BY <1>1, NotedIs DEF m
<1>4. Sound(m, lines, events, tag)
  BY <1>1, <1>3, Observed
<1>5. CallsOf(m) = CallsOf(told) /\ SameLink(a, m) /\ Live(m)
  BY <1>3 DEF CallsOf, SameLink, Live
<1>6. CASE callback = {}
  <2>1. done = {} /\ q = seen
    BY <1>6
  <2>2. told.gaps \cup done = told.gaps
    BY <2>1
  <2>3. b = m
    BY <2>1, <2>2 DEF m
  <2>4. Fine(m)
    BY <1>3, <1>4, <1>5, LiveIsSound
  <2>5. Handled(a, m, r)
    BY <1>2, <1>3, <1>5, <1>6 DEF Handled
  <2> QED BY <1>0, <2>3, <2>4, <2>5
<1>7. CASE callback # {}
  <2>1. PICK c \in P!Callback :
                 /\ callback = {c} /\ CallsOf(a) = {c} /\ CallsOf(told) = {}
                 /\ P!InTime(a.presenter, c) /\ Waits(a.presenter.phase, c)
                 /\ \A e \in told.pending : e.callback = {}
                 /\ Clear(told, lines) /\ tag \in {r.image, NoTag}
    BY <1>7
  <2>2. done = P!Scheduled(seen, c, r) /\ q = P!CallBack(seen, c, r)
    <3>1. (CHOOSE d \in callback : TRUE) = c
      BY <2>1
    <3> QED BY <1>7, <2>1, <3>1
  <2>3. q \in PresenterType
    BY <1>1, <2>1, <2>2, CallBackTyped
  <2>4. done \in SUBSET P!Callback
    <3>1. c.gen \in Nat /\ c.file \in Files \cup {NoFile}
      BY DEF P!Callback
    <3> QED BY <2>2, <3>1 DEF P!Scheduled, P!Step, P!Callback
  <2>5. P!InTime(seen, c) /\ Waits(seen.phase, c)
    BY <1>1, <2>1 DEF P!InTime
  <2> HIDE DEF done, q, b
  <2>6. /\ b \in AppType /\ SameLink(told, b) /\ b.endings = told.endings
        /\ b.out = told.out /\ b.pending = told.pending
        /\ b.ready = told.ready /\ b.said = r.image
        /\ b.gaps = told.gaps \cup done /\ b.presenter = q
    BY <1>1, <2>3, <2>4, NotedIs DEF b
  <2>7. Sound(b, lines, events, tag)
    <3>1. /\ SameLink(m, b) /\ m.link # None /\ b.out = m.out
          /\ b.pending = m.pending /\ b.ready = m.ready
          /\ \A e \in m.pending : e.callback = {}
      BY <1>3, <2>1, <2>6 DEF SameLink
    <3>2. /\ P!InTime(m.presenter, c) /\ Waits(m.presenter.phase, c)
          /\ b.presenter = P!CallBack(m.presenter, c, r)
          /\ b.gaps = m.gaps \cup P!Scheduled(m.presenter, c, r)
      BY <1>3, <2>2, <2>5, <2>6
    <3>3. Clear(m, lines) /\ tag \in {r.image, NoTag}
      BY <1>3, <2>1 DEF Clear
    <3> QED BY <1>3, <1>4, <2>6, <3>1, <3>2, <3>3, Told
  <2>8. Live(b) /\ SameLink(a, b) /\ CallsOf(b) = CallsOf(a) \ {c}
    BY <2>1, <2>6 DEF Live, SameLink, CallsOf
  <2>9. Fine(b)
    BY <2>6, <2>7, <2>8, LiveIsSound
  <2>10. Handled(a, b, r)
    BY <1>2, <2>1, <2>2, <2>6, <2>8 DEF Handled
  <2> QED BY <1>0, <2>9, <2>10
<1> QED BY <1>6, <1>7

LEMMA HandlesReply ==
    ASSUME NEW a \in AppType, StateTyped, Live(a), Sound(a, lines, events, tag),
           NEW i \in DOMAIN events, NEW r, r = events[i].reply
    PROVE  Fine(HandleReply(a, r)) /\ Handled(a, HandleReply(a, r), r)
<1> DEFINE asked == {e \in a.pending : e.id = r.id}
           callback == UNION {e.callback : e \in asked}
           left == a.pending \ asked
           known == [a EXCEPT !.pending = left, !.ready = TRUE, !.quiet = FALSE]
           told == IF a.connected /\ ~r.connected
                   THEN ReleaseAll(known) ELSE known
<1>1. r \in ReplyType
  <2>1. events[i] \in EventType
    BY LenProperties DEF StateTyped
  <2> QED BY <2>1 DEF EventType
<1>2. HandleReply(a, r) =
         IF asked = {} THEN a ELSE Answered(told, callback, r)
  BY DEF HandleReply, Answered, Noted
<1>3. CASE asked = {}
  <2>1. HandleReply(a, r) = a
    BY <1>2, <1>3
  <2> QED BY <2>1, LiveIsSound DEF Handled
<1>4. CASE asked # {}
  <2>1. a.link # None
    BY <1>4 DEF Sound, LinkSound
  <2>2. /\ callback \in SUBSET CallsOf(a)
        /\ \/ callback = {} /\ UNION {e.callback : e \in left} = CallsOf(a)
           \/ \E c \in P!Callback :
                 /\ callback = {c} /\ CallsOf(a) = {c}
                 /\ UNION {e.callback : e \in left} = {}
                 /\ P!InTime(a.presenter, c) /\ Waits(a.presenter.phase, c)
                 /\ \A e \in left : e.callback = {}
    <3>1. asked \in SUBSET a.pending
      OBVIOUS
    <3>2. CallsSound(a)
      BY DEF Sound
    <3>3. callback \in SUBSET CallsOf(a)
      BY DEF CallsOf
    <3> HIDE DEF asked
    <3> QED BY <3>1, <3>2, <3>3, OneCallback
  <2>3. callback # {} => Clear(a, lines) /\ tag \in {r.image, NoTag}
    <3>1. callback # {} => \E e \in a.pending : e.id = r.id /\ e.callback # {}
      OBVIOUS
    <3> HIDE DEF asked, callback
    <3> QED BY <3>1 DEF Sound, LoadsSound
  <2>4. left \in SUBSET PendingType /\ left \subseteq a.pending
    BY DEF AppType
  <2> HIDE DEF asked, callback, left
  <2>5. /\ known \in AppType /\ SameLink(a, known) /\ known.endings = a.endings
        /\ known.out = a.out /\ known.pending = left
        /\ known.connected = a.connected /\ known.presenter = a.presenter
        /\ known.gaps = a.gaps /\ known.made = a.made /\ known.link = a.link
    BY <2>4 DEF AppType, SameLink
  <2> HIDE DEF known
  <2>6. Live(known) /\ Sound(known, lines, events, tag)
    BY <2>1, <2>4, <2>5, Forgets DEF Live
  <2>7. CASE told = known
    <3>1. \/ callback = {} /\ CallsOf(known) = CallsOf(a)
          \/ \E c \in P!Callback :
                 /\ callback = {c} /\ CallsOf(a) = {c} /\ CallsOf(known) = {}
                 /\ P!InTime(a.presenter, c) /\ Waits(a.presenter.phase, c)
                 /\ \A e \in known.pending : e.callback = {}
                 /\ Clear(known, lines) /\ tag \in {r.image, NoTag}
      <4>1. callback # {} => Clear(known, lines) /\ tag \in {r.image, NoTag}
        BY <2>3, <2>5 DEF Clear
      <4> QED BY <2>2, <2>5, <4>1 DEF CallsOf
    <3>2. /\ Fine(Answered(known, callback, r))
          /\ Handled(a, Answered(known, callback, r), r)
      BY <1>1, <2>1, <2>2, <2>5, <2>6, <3>1, HandledOnLink
    <3> QED BY <1>2, <1>4, <2>7, <3>2
  <2>8. CASE told = ReleaseAll(known)
    <3>1. /\ Fine(told)
          /\ \/ /\ Len(known.out) = OutSlots
                /\ \E x \in AppType :
                      /\ told = Disconnect(x)
                      /\ x.presenter = known.presenter /\ x.gaps = known.gaps
                      /\ x.made = known.made
             \/ Sent(known, told)
      BY <2>1, <2>5, <2>6, <2>8, Releases
    <3> HIDE DEF told
    <3>2. ASSUME NEW x \in AppType, Len(known.out) = OutSlots,
                 told = Disconnect(x), x.presenter = known.presenter,
                 x.gaps = known.gaps, x.made = known.made
          PROVE  Fine(HandleReply(a, r)) /\ Handled(a, HandleReply(a, r), r)
      <4>1. \/ callback = {}
            \/ \E c \in callback : callback = {c} /\ P!InTime(a.presenter, c)
        BY <2>2
      <4>2. /\ x.presenter = a.presenter /\ x.gaps = a.gaps /\ x.made = a.made
            /\ Len(a.out) = OutSlots /\ Fine(Disconnect(x))
        BY <2>5, <3>1, <3>2
      <4>3. /\ Fine(Answered(Disconnect(x), callback, r))
            /\ Handled(a, Answered(Disconnect(x), callback, r), r)
        BY <1>1, <2>1, <2>2, <4>1, <4>2, HandledWhenLost
      <4> QED BY <1>2, <1>4, <3>2, <4>3
    <3>3. CASE Sent(known, told)
      <4>1. /\ told \in AppType /\ Live(told) /\ SameLink(a, told)
            /\ told.presenter = a.presenter /\ told.gaps = a.gaps
        BY <2>5, <3>1, <3>3 DEF Sent, Fine, SameLink
      <4>2. Sound(told, lines, events, tag)
        BY <3>1, <4>1, LiveIsSound
      <4>3. PICK k \in PendingType : /\ k.callback = {}
                                     /\ told.pending = left \cup {k}
        BY <2>5, <3>3 DEF Sent
      <4>4. CallsOf(told) = UNION {e.callback : e \in left}
        BY <4>3 DEF CallsOf
      <4>5. callback # {} => Clear(told, lines) /\ tag \in {r.image, NoTag}
        BY <2>3, <2>5, <3>3 DEF Clear, Sent
      <4>6. \/ callback = {} /\ CallsOf(told) = CallsOf(a)
            \/ \E c \in P!Callback :
                 /\ callback = {c} /\ CallsOf(a) = {c} /\ CallsOf(told) = {}
                 /\ P!InTime(a.presenter, c) /\ Waits(a.presenter.phase, c)
                 /\ \A e \in told.pending : e.callback = {}
                 /\ Clear(told, lines) /\ tag \in {r.image, NoTag}
        BY <2>2, <4>3, <4>4, <4>5
      <4>7. /\ Fine(Answered(told, callback, r))
            /\ Handled(a, Answered(told, callback, r), r)
        BY <1>1, <2>1, <2>2, <4>1, <4>2, <4>6, HandledOnLink
      <4> QED BY <1>2, <1>4, <4>7
    <3> QED BY <3>1, <3>2, <3>3
  <2> QED BY <2>7, <2>8
<1> QED BY <1>3, <1>4

-----------------------------------------------------------------------------
(* The events, the device, and the link's thread.                          *)

\* tick() takes an event.
LEMMA EventTaken ==
    ASSUME NEW a \in AppType, NEW ls, NEW es \in Seq(EventType), es # <<>>,
           NEW t, Sound(a, ls, es, t)
    PROVE  Sound(a, ls, Tail(es), t)
<1> DEFINE u == Tail(es)
<1>1. \A i \in DOMAIN u : i + 1 \in DOMAIN es /\ u[i] = es[i + 1]
  <2>1. /\ Len(es) \in Nat /\ DOMAIN es = 1..Len(es)
        /\ u \in Seq(EventType) /\ DOMAIN u = 1..(Len(es) - 1)
        /\ \A i \in 1..(Len(es) - 1) : u[i] = es[i + 1]
    BY HeadTailProperties, LenProperties, EmptySeq
  <2> HIDE DEF u
  <2> QED BY <2>1
<1> HIDE DEF u
<1>2. EventsSound(a, u)
  BY <1>1 DEF Sound, EventsSound
<1>3. LoadsSound(a, ls, u, t)
  BY <1>1 DEF Sound, LoadsSound
<1> QED BY <1>2, <1>3 DEF Sound, u

\* An event is put behind the others.
LEMMA EventAdded ==
    ASSUME NEW a \in AppType, NEW ls, NEW es \in Seq(EventType), NEW t,
           Sound(a, ls, es, t), NEW ev \in EventType, ev.link \in 1..a.made,
           ev.reply = Broken /\ ev.link = a.link => a.writer = "failed",
           \A e \in a.pending : e.callback # {} /\ ev.reply.id = e.id
              => Clear(a, ls) /\ t \in {ev.reply.image, NoTag}
    PROVE  Sound(a, ls, Append(es, ev), t)
<1> DEFINE u == Append(es, ev)
<1>1. \A i \in DOMAIN u : (i \in DOMAIN es /\ u[i] = es[i]) \/ u[i] = ev
  <2>1. /\ Len(es) \in Nat /\ DOMAIN es = 1..Len(es)
        /\ u \in Seq(EventType) /\ DOMAIN u = 1..(Len(es) + 1)
        /\ \A i \in 1..Len(es) : u[i] = es[i]
        /\ u[Len(es) + 1] = ev
    BY AppendProperties, LenProperties
  <2> HIDE DEF u
  <2> QED BY <2>1
<1> HIDE DEF u
<1>2. EventsSound(a, u)
  BY <1>1 DEF Sound, EventsSound
<1>3. LoadsSound(a, ls, u, t)
  BY <1>1 DEF Sound, LoadsSound
<1> QED BY <1>2, <1>3 DEF Sound, u

\* The last release of a link's thread arrives, or finds the queue full.
LEMMA ReleaseArrives ==
    ASSUME NEW a \in AppType, NEW ls \in Seq(LineType), Len(ls) <= LineQueue,
           NEW es, NEW t, Sound(a, ls, es, t)
    PROVE  Sound(a, Receive(ls, LastRelease), es, t)
<1>1. PICK l \in LineType : l = LastRelease /\ LineFine(l) /\ l.cmd # "load"
  BY LastReleaseFine
<1>2. \A e \in a.pending : l.id # e.id
  BY <1>1 DEF LastRelease, Line, Sound, CallsSound
<1> DEFINE u == Append(ls, l)
<1>3. /\ NoLoad(ls) => NoLoad(u)
      /\ OneLoad(ls) => OneLoad(u)
      /\ \A n : NoneBehind(ls, n) => NoneBehind(u, n)
      /\ \A n : Has(u, n) => Has(ls, n) \/ l.id = n
      /\ (\A i \in DOMAIN ls : LineFine(ls[i]))
            => \A i \in DOMAIN u : LineFine(u[i])
  BY <1>1, AppendLines
<1>4. Receive(ls, LastRelease) \in {ls, u}
  BY <1>1, Received
<1> HIDE DEF u
<1>5. LinesSound(a, u)
  BY <1>3 DEF Sound, LinesSound
<1>6. LoadsSound(a, u, es, t)
  <2>1. Clear(a, ls) => Clear(a, u)
    BY <1>3 DEF Clear
  <2> QED BY <1>2, <1>3, <2>1 DEF Sound, LoadsSound
<1>7. Sound(a, u, es, t)
  BY <1>5, <1>6 DEF Sound
<1> QED BY <1>4, <1>7

\* The device loses its power.
LEMMA DeviceEmpty ==
    ASSUME NEW a \in AppType, NEW ls, NEW es, NEW t, Sound(a, ls, es, t)
    PROVE  Sound(a, <<>>, es, NoTag)
<1> DEFINE u == <<>>
<1>1. DOMAIN u = {}
  <2>1. u \in Seq(LineType) /\ Len(u) = 0
    BY EmptySeq
  <2> QED BY <2>1, LenProperties
<1> HIDE DEF u
<1>2. /\ NoLoad(u) /\ OneLoad(u) /\ LinesSound(a, u) /\ \A n : ~Has(u, n)
      /\ \A n : NoneBehind(u, n)
  BY <1>1 DEF NoLoad, OneLoad, LinesSound, Has, NoneBehind, Sound
<1>3. Clear(a, ls) => Clear(a, u)
  BY <1>2 DEF Clear
<1>4. LoadsSound(a, u, es, NoTag)
  BY <1>2, <1>3 DEF Sound, LoadsSound
<1>5. Sound(a, u, es, NoTag)
  BY <1>2, <1>4 DEF Sound
<1> QED BY <1>5 DEF u

\* The device executes the first line.
LEMMA Executed ==
    ASSUME NEW a \in AppType, NEW ls \in Seq(LineType), ls # <<>>,
           NEW es, NEW t, NEW s, Sound(a, ls, es, t),
           \/ Head(ls).cmd = "load" /\ s \in {Head(ls).arg, t}
           \/ Head(ls).cmd = "unload" /\ s = NoTag
           \/ Head(ls).cmd \notin {"load", "unload"} /\ s = t
    PROVE  /\ Sound(a, Tail(ls), es, s)
           /\ \A e \in a.pending : e.callback # {} /\ Head(ls).id = e.id
                 => Clear(a, Tail(ls))
<1> DEFINE h == Head(ls)
           u == Tail(ls)
<1>1. /\ h \in LineType /\ Has(ls, h.id)
      /\ NoLoad(ls) => NoLoad(u) /\ h.cmd # "load"
      /\ OneLoad(ls) => OneLoad(u)
      /\ OneLoad(ls) /\ h.cmd = "load" => NoLoad(u)
      /\ \A n : NoneBehind(ls, n) => NoneBehind(u, n)
      /\ NoneBehind(ls, h.id) => NoLoad(u)
      /\ \A n : Has(u, n) => Has(ls, n)
      /\ (\A i \in DOMAIN ls : LineFine(ls[i]))
            => LineFine(h) /\ \A i \in DOMAIN u : LineFine(u[i])
  BY TailLines
<1>2. \/ h.cmd = "load" /\ s \in {h.arg, t}
      \/ h.cmd = "unload" /\ s = NoTag
      \/ h.cmd \notin {"load", "unload"} /\ s = t
  OBVIOUS
<1> HIDE DEF h, u
<1>3. /\ OneLoad(ls) /\ OneLoad(a.out)
      /\ NoLoad(ls) \/ NoLoad(a.out)
      /\ Clear(a, ls) \/ (t = NoTag /\ a.presenter.path = NoFile)
      /\ a.presenter.phase = "gap" =>
            Clear(a, ls) /\ t = NoTag /\ a.presenter.path = NoFile
      /\ \A e \in a.pending : e.callback # {} =>
            /\ NoneBehind(ls, e.id) /\ NoneBehind(a.out, e.id)
            /\ Has(ls, e.id) => NoLoad(a.out)
            /\ \A i \in DOMAIN es : es[i].reply.id = e.id =>
                  Clear(a, ls) /\ t \in {es[i].reply.image, NoTag}
      /\ a.presenter.path # NoFile => t \in {Image[a.presenter.path], NoTag}
  BY DEF Sound, LoadsSound
<1>4. Clear(a, ls) => Clear(a, u) /\ h.cmd # "load"
  BY <1>1 DEF Clear
<1>5. h.cmd # "load" => s = NoTag \/ s = t
  BY <1>2
<1>6. LoadsSound(a, u, es, s)
  <2>1. CASE h.cmd = "load"
    <3>1. NoLoad(u) /\ NoLoad(a.out)
      BY <1>1, <1>3, <2>1 DEF Clear
    <3>2. ~Clear(a, ls) /\ Clear(a, u)
      BY <1>4, <2>1, <3>1 DEF Clear
    <3> QED BY <1>1, <1>3, <3>1, <3>2 DEF LoadsSound
  <2>2. CASE h.cmd # "load"
    <3>1. Clear(a, ls) => Clear(a, u)
      BY <1>4
    <3> QED BY <1>1, <1>3, <1>5, <2>2, <3>1 DEF LoadsSound
  <2> QED BY <2>1, <2>2
<1>7. LinesSound(a, u)
  BY <1>1 DEF Sound, LinesSound
<1>8. Sound(a, u, es, s)
  BY <1>6, <1>7 DEF Sound
<1>9. \A e \in a.pending : e.callback # {} /\ h.id = e.id => Clear(a, u)
  BY <1>1, <1>3 DEF Clear
<1> QED BY <1>8, <1>9 DEF h, u

\* The link's thread fails.
LEMMA Fails ==
    ASSUME NEW a \in AppType, NEW b \in AppType, NEW ls, NEW es, NEW t,
           Sound(a, ls, es, t), a.writer = "running", b.writer = "failed",
           b.link = a.link, b.made = a.made, b.out = a.out, b.ready = a.ready,
           b.pending = a.pending, b.presenter = a.presenter, b.gaps = a.gaps
    PROVE  Sound(b, ls, es, t) /\ b.link \in 1..b.made
<1>1. a.link # None
  BY DEF Sound, LinkSound
<1>2. LinkSound(b) /\ CallsSound(b) /\ GapsSound(b)
  BY <1>1 DEF Sound, LinkSound, CallsSound, GapsSound
<1>3. EventsSound(b, es) /\ LinesSound(b, ls) /\ LoadsSound(b, ls, es, t)
  BY DEF Sound, EventsSound, LinesSound, LoadsSound, Clear
<1>4. b.link \in 1..b.made
  BY <1>1 DEF Sound, LinkSound, AppType, None
<1> QED BY <1>2, <1>3, <1>4 DEF Sound

-----------------------------------------------------------------------------
(* What a step is to the presenter: an action of its contract.             *)

Kept(a, b) ==
    /\ b.presenter = a.presenter /\ b.gaps = a.gaps /\ b.said = a.said
    /\ CallsOf(b) = CallsOf(a)

Asks(a, b) ==
    /\ a.presenter.busy = FALSE /\ a.presenter.generation < MaxGeneration
    /\ b.gaps = a.gaps /\ b.said = a.said
    /\ \/ /\ b.presenter = P!Start(a.presenter, "retiring")
          /\ CallsOf(b) = CallsOf(a)
                \cup {P!Step("retired", b.presenter.generation, NoFile)}
       \/ /\ b.presenter = P!Start(a.presenter, "removing")
          /\ \E f \in Files : CallsOf(b) = CallsOf(a)
                \cup {P!Step("removed", b.presenter.generation, f)}

Hears(a, b) ==
    \E c \in CallsOf(a) :
       /\ CallsOf(b) = CallsOf(a) \ {c}
       /\ \/ \E r \in ReplyType :
                /\ b.presenter = P!CallBack(P!Observe(a.presenter, r), c, r)
                /\ b.gaps = a.gaps
                              \cup P!Scheduled(P!Observe(a.presenter, r), c, r)
                /\ b.said = r.image
          \/ /\ b.presenter = P!CallBack(a.presenter, c, P!Failure)
             /\ b.gaps = a.gaps /\ b.said = a.said

Sees(a, b) ==
    \E r \in ReplyType :
       /\ b.presenter = P!Observe(a.presenter, r) /\ b.said = r.image
       /\ b.gaps = a.gaps /\ CallsOf(b) = CallsOf(a)

Loads(a, b) ==
    \E g \in a.gaps :
       /\ b.presenter = P!GapOver(a.presenter, g)
       /\ b.gaps = a.gaps \ {g} /\ b.said = a.said
       /\ CallsOf(b) =
             IF P!InTime(a.presenter, g)
             THEN CallsOf(a) \cup {P!Step("loaded", g.gen, g.file)}
             ELSE CallsOf(a)

Drops(a, b) ==
    /\ CallsOf(b) = {}
    /\ b.gaps = a.gaps \/ \E g \in a.gaps : b.gaps = a.gaps \ {g}
    /\ \/ b.presenter = P!Reset(a.presenter) /\ b.said = NoTag
       \/ b.presenter = P!Reset(P!Reset(a.presenter)) /\ b.said = NoTag
       \/ \E r \in ReplyType :
             b.presenter = P!Observe(P!Reset(a.presenter), r) /\ b.said = r.image

InBound(a) == a.presenter.generation < MaxGeneration + 2 * MaxLinks

Moves(a, b) ==
    \/ Kept(a, b) \/ Asks(a, b) \/ Hears(a, b) \/ Sees(a, b) \/ Loads(a, b)
    \/ InBound(a) /\ Drops(a, b)

\* What is shown of a record that a step ends with.
Good(b) ==
    /\ Fine(b) /\ b.made <= MaxLinks
    /\ Counted(app) => Counted(b) /\ Moves(app, b)

\* The links count, and the generations with them.
LEMMA Counting ==
    ASSUME NEW a \in AppType, NEW b \in AppType, LinkSound(a), Counted(a),
           a.made <= MaxLinks,
           \/ /\ SameLink(a, b)
              /\ b.presenter.generation = a.presenter.generation
           \/ /\ SameLink(a, b) /\ a.link # None
              /\ a.presenter.generation < MaxGeneration
              /\ b.presenter.generation = a.presenter.generation + 1
           \/ /\ a.link # None /\ b.link = None /\ b.made = a.made
              /\ \/ b.presenter.generation = a.presenter.generation + 1
                 \/ /\ a.presenter.generation < MaxGeneration
                    /\ b.presenter.generation = a.presenter.generation + 2
           \/ /\ a.link = None /\ a.made < MaxLinks /\ b.made = a.made + 1
              /\ \/ b.presenter.generation = a.presenter.generation + 1
                 \/ /\ b.link = None
                    /\ b.presenter.generation = a.presenter.generation + 2
    PROVE  /\ Counted(b)
           /\ a.link # None \/ a.made < MaxLinks => InBound(a)
<1>1. PICK m \in Nat, n \in Nat, k \in Nat, j \in Nat :
         /\ m = a.made /\ n = b.made
         /\ k = a.presenter.generation /\ j = b.presenter.generation
  BY DEF AppType, PresenterType
<1>2. /\ a.link # None => m >= 1
      /\ MaxLinks \in Nat /\ MaxGeneration \in Nat /\ m <= MaxLinks
  BY <1>1, AppAssumption DEF LinkSound, None, AppAssumption
<1>3. /\ a.link = None => k <= MaxGeneration + 2 * m
      /\ a.link # None => k <= MaxGeneration + 2 * m - 1
  BY <1>1, <1>2 DEF Counted
<1>4. /\ b.link = None => j <= MaxGeneration + 2 * n
      /\ b.link # None => j <= MaxGeneration + 2 * n - 1
  <2>1. CASE SameLink(a, b) /\ j = k
    BY <1>1, <1>3, <2>1 DEF SameLink
  <2>2. CASE SameLink(a, b) /\ a.link # None /\ k < MaxGeneration /\ j = k + 1
    BY <1>1, <1>2, <2>2 DEF SameLink
  <2>3. CASE /\ a.link # None /\ b.link = None /\ n = m
             /\ j = k + 1 \/ (k < MaxGeneration /\ j = k + 2)
    BY <1>2, <1>3, <2>3
  <2>4. CASE /\ a.link = None /\ n = m + 1
             /\ j = k + 1 \/ (b.link = None /\ j = k + 2)
    BY <1>2, <1>3, <2>4
  <2> QED BY <1>1, <2>1, <2>2, <2>3, <2>4
<1>5. Counted(b)
  BY <1>1, <1>2, <1>4 DEF Counted
<1>6. a.link # None \/ m < MaxLinks => k < MaxGeneration + 2 * MaxLinks
  BY <1>2, <1>3
<1> QED BY <1>1, <1>5, <1>6 DEF InBound

\* A step ends.
LEMMA Ended ==
    ASSUME StateTyped, NEW b, Good(b), Becomes(b), tag' = tag, up' = up,
           events' = events \/ (events # <<>> /\ events' = Tail(events))
    PROVE  /\ AppInv' /\ app'.link = b.link
           /\ Counted(app) => Counted(app)' /\ Moves(app, app')
<1>1. b \in AppType
  BY DEF Good, Fine
<1>2. PICK w \in b.endings : lines' = ReceiveAll(lines, w)
  BY DEF Becomes
<1>3. w \in Seq(LineType)
  BY <1>1, <1>2 DEF AppType
<1>4. Sound(b, lines', events, tag)
  BY <1>2 DEF Good, Fine
<1>5. /\ lines \in Seq(LineType) /\ Len(lines) <= LineQueue
      /\ events \in Seq(EventType) /\ Len(events) <= EventSlots
      /\ tag \in P!Images \cup {NoTag} /\ up \in BOOLEAN
  BY DEF StateTyped
<1>6. lines' \in Seq(LineType) /\ Len(lines') <= LineQueue
  BY <1>2, <1>3, <1>5, ReceivesAll
<1>7. events' \in Seq(EventType) /\ Len(events') <= EventSlots
  <2>1. CASE events' = events
    BY <1>5, <2>1
  <2>2. CASE events # <<>> /\ events' = Tail(events)
    <3>1. PICK n \in Nat : n = Len(events)
      BY <1>5, LenProperties
    <3>2. Tail(events) \in Seq(EventType) /\ Len(Tail(events)) = n - 1
      BY <1>5, <2>2, <3>1, HeadTailProperties
    <3>3. n - 1 <= EventSlots
      BY <1>5, <3>1, AppAssumption DEF AppAssumption
    <3> QED BY <2>2, <3>2, <3>3
  <2> QED BY <2>1, <2>2
<1>8. Sound(b, lines', events', tag)
  BY <1>1, <1>4, <1>5, EventTaken
<1> DEFINE x == [b EXCEPT !.endings = {<<>>}]
<1>9. /\ x \in AppType /\ SameLink(b, x) /\ x.out = b.out
      /\ x.pending = b.pending /\ x.ready = b.ready /\ x.link = b.link
      /\ x.presenter = b.presenter /\ x.gaps = b.gaps /\ x.said = b.said
      /\ x.made = b.made /\ x.endings = {<<>>}
  <2>1. {<<>>} \in SUBSET Seq(LineType)
    BY EmptySeq
  <2> QED BY <1>1, <2>1 DEF AppType, SameLink
<1>10. app' = x
  BY DEF Becomes
<1> HIDE DEF x
<1>11. Sound(x, lines', events', tag)
  BY <1>1, <1>8, <1>9, Forgets
<1>12. StateTyped'
  BY <1>5, <1>6, <1>7, <1>9, <1>10 DEF StateTyped, Good
<1>13. AppInv'
  BY <1>10, <1>11, <1>12 DEF AppInv
<1>14. Counted(b) => Counted(app)'
  BY <1>9, <1>10 DEF Counted
<1>15. Moves(app, b) => Moves(app, x)
  <2>1. CallsOf(x) = CallsOf(b)
    BY <1>9 DEF CallsOf
  <2> QED
    BY <1>9, <2>1 DEF Moves, Kept, Asks, Hears, Sees, Loads, Drops
<1> QED BY <1>9, <1>10, <1>13, <1>14, <1>15 DEF Good

-----------------------------------------------------------------------------
(* The steps of the Tk thread.                                             *)

LEMMA Standing ==
    ASSUME AppInv
    PROVE  /\ app \in AppType /\ StateTyped /\ Live(app)
           /\ Sound(app, lines, events, tag) /\ LinkSound(app)
           /\ CallsSound(app) /\ GapsSound(app) /\ app.made <= MaxLinks
           /\ app.presenter \in PresenterType /\ Fine(app)
<1>1. app \in AppType /\ StateTyped /\ Live(app) /\ app.made <= MaxLinks
  BY DEF AppInv, StateTyped, Live
<1>2. Sound(app, lines, events, tag)
  BY DEF AppInv
<1>3. app.presenter \in PresenterType
  BY <1>1 DEF AppType
<1> QED BY <1>1, <1>2, <1>3, LiveIsSound DEF Sound

\* Attributes that the invariant does not speak of.
LEMMA Attributes ==
    ASSUME NEW a, Fine(a), NEW b \in AppType, SameLink(a, b),
           b.out = a.out, b.pending = a.pending, b.ready = a.ready,
           b.presenter = a.presenter, b.gaps = a.gaps, b.endings = a.endings
    PROVE  Fine(b)
<1> SUFFICES ASSUME NEW w \in a.endings
             PROVE  Sound(b, ReceiveAll(lines, w), events, tag)
  BY DEF Fine
<1>1. a \in AppType /\ Sound(a, ReceiveAll(lines, w), events, tag)
  BY DEF Fine
<1> QED BY <1>1, Forgets

\* The link is there as before, and so is the generation.
LEMMA StaysGood ==
    ASSUME AppInv, NEW b, Fine(b), SameLink(app, b),
           b.presenter.generation = app.presenter.generation,
           Moves(app, b)
    PROVE  Good(b)
<1>1. /\ app \in AppType /\ LinkSound(app) /\ app.made <= MaxLinks
      /\ b \in AppType
  BY Standing DEF Fine
<1>2. Counted(app) => Counted(b)
  BY <1>1, Counting
<1> QED BY <1>1, <1>2 DEF Good, SameLink

\* The link is lost.
LEMMA LosesGood ==
    ASSUME AppInv, NEW b, Fine(b), app.link # None, Closed(b),
           b.made = app.made, Drops(app, b),
           \/ b.presenter.generation = app.presenter.generation + 1
           \/ /\ app.presenter.generation < MaxGeneration
              /\ b.presenter.generation = app.presenter.generation + 2
    PROVE  Good(b)
<1>1. /\ app \in AppType /\ LinkSound(app) /\ app.made <= MaxLinks
      /\ b \in AppType /\ b.link = None
  BY Standing DEF Fine, Closed
<1>2. Counted(app) => Counted(b) /\ InBound(app)
  BY <1>1, Counting
<1> QED BY <1>1, <1>2 DEF Good, Moves

\* CallBack() keeps the generation.
LEMMA CallBackIs ==
    ASSUME NEW p \in PresenterType, NEW c, NEW r,
           P!InTime(p, c) => \E phase : Waits(phase, c)
    PROVE  P!CallBack(p, c, r).generation = p.generation
<1>1. CASE c.step = "removed"
  BY <1>1 DEF PresenterType, P!CallBack, P!Proceed, P!Finish
<1>2. CASE c.step = "loaded"
  BY <1>2 DEF PresenterType, P!CallBack, P!Proceed, P!Finish
<1>3. CASE c.step = "retired"
  BY <1>3 DEF PresenterType, P!CallBack, P!Proceed, P!Finish
<1>4. CASE ~P!InTime(p, c)
  BY <1>4 DEF P!CallBack
<1> QED BY <1>1, <1>2, <1>3, <1>4 DEF Waits

\* The presenter after a reset.
Anew(last, n) ==
    [busy |-> FALSE, phase |-> "", path |-> NoFile, lastPath |-> last,
     crc |-> NoTag, loaded |-> "unknown", generation |-> n]

LEMMA AnewIs ==
    ASSUME NEW p \in PresenterType
    PROVE  /\ P!Reset(p) = Anew(p.lastPath, p.generation + 1)
           /\ P!Reset(p).lastPath = p.lastPath
<1> DEFINE x == P!Reset(p)
<1>1. PICK n \in Nat : n = p.generation + 1
  BY DEF PresenterType
<1>2. /\ x.busy = FALSE /\ x.phase = "" /\ x.path = NoFile
      /\ x.lastPath = p.lastPath /\ x.crc = NoTag /\ x.loaded = "unknown"
      /\ x.generation = n
  BY <1>1 DEF P!Reset, PresenterType
<1>3. x \in PresenterType
  BY ResetIs
<1> HIDE DEF x
<1>4. x = Anew(p.lastPath, n)
  BY <1>2, <1>3 DEF PresenterType, Anew
<1> QED BY <1>1, <1>2, <1>4 DEF x

\* A reset forgets what a callback that failed has done.
LEMMA ResetAfterFailure ==
    ASSUME NEW p \in PresenterType, NEW c
    PROVE  P!Reset(P!CallBack(p, c, P!Failure)) = P!Reset(p)
<1>1. ~P!Confirms(c, P!Failure)
  BY DEF P!Confirms, P!Failure
<1>2. P!CallBack(p, c, P!Failure) \in {p, P!Finish(p)}
  BY <1>1 DEF P!CallBack
<1>3. P!Reset(P!Finish(p)) = P!Reset(p)
  <2> DEFINE q == P!Finish(p)
  <2>1. /\ q \in PresenterType /\ q.generation = p.generation
        /\ q.lastPath = p.lastPath
    BY DEF P!Finish, PresenterType, P!Phases
  <2> HIDE DEF q
  <2>2. P!Reset(p) = Anew(p.lastPath, p.generation + 1)
    BY AnewIs
  <2>3. P!Reset(q) = Anew(p.lastPath, p.generation + 1)
    BY <2>1, AnewIs
  <2> QED BY <2>2, <2>3 DEF q
<1> QED BY <1>2, <1>3

\* Every callback of a command belongs to the request under way.
LEMMA CallbacksWait ==
    ASSUME AppInv, NEW c \in CallsOf(app)
    PROVE  Waits(app.presenter.phase, c) /\ P!InTime(app.presenter, c)
<1>1. PICK e \in app.pending : c \in e.callback
  BY DEF CallsOf
<1> QED BY <1>1, Standing, ZenonT(60) DEF CallsSound

\* A reply is handled.
LEMMA RepliesGood ==
    ASSUME AppInv, NEW a \in AppType, NEW b, NEW r \in ReplyType,
           Fine(b), Handled(a, b, r),
           SameLink(app, a), a.out = app.out, a.presenter = app.presenter,
           a.gaps = app.gaps, a.said = app.said, CallsOf(a) = CallsOf(app)
    PROVE  /\ Good(b)
           /\ app.link # None /\ b.link = None => Len(app.out) = OutSlots
<1>1. app \in AppType /\ app.presenter \in PresenterType /\ LinkSound(app)
  BY Standing
<1>2. CASE b = a
  <2>1. Kept(app, b)
    BY <1>2 DEF Kept
  <2> QED BY <1>2, <2>1, StaysGood DEF Moves, SameLink
<1>3. CASE /\ SameLink(a, b) /\ b.said = r.image
           /\ b.presenter = P!Observe(a.presenter, r) /\ b.gaps = a.gaps
           /\ CallsOf(b) = CallsOf(a)
  <2>1. Sees(app, b)
    BY <1>3 DEF Sees
  <2>2. b.presenter.generation = app.presenter.generation
    BY <1>1, <1>3, ObserveIs
  <2>3. SameLink(app, b)
    BY <1>3 DEF SameLink
  <2> QED BY <2>1, <2>2, <2>3, StaysGood DEF Moves, SameLink
<1>4. ASSUME SameLink(a, b), b.said = r.image, NEW c \in CallsOf(a),
             b.presenter = P!CallBack(P!Observe(a.presenter, r), c, r),
             b.gaps = a.gaps \cup P!Scheduled(P!Observe(a.presenter, r), c, r),
             CallsOf(b) = CallsOf(a) \ {c}
      PROVE  Good(b) /\ SameLink(app, b)
  <2>1. Hears(app, b)
    BY <1>4 DEF Hears
  <2>2. b.presenter.generation = app.presenter.generation
    <3>1. PICK s \in PresenterType : /\ s = P!Observe(app.presenter, r)
                                     /\ s.generation = app.presenter.generation
      BY <1>1, ObserveIs
    <3>2. \E phase : Waits(phase, c)
      BY <1>4, CallbacksWait
    <3>3. b.presenter = P!CallBack(s, c, r)
      BY <1>4, <3>1
    <3> QED BY <3>1, <3>2, <3>3, CallBackIs
  <2>3. SameLink(app, b)
    BY <1>4 DEF SameLink
  <2> QED BY <2>1, <2>2, <2>3, StaysGood DEF Moves
<1>5. CASE /\ a.link # None /\ Len(a.out) = OutSlots
           /\ Closed(b) /\ b.made = a.made /\ b.gaps = a.gaps
           /\ b.said = r.image
           /\ b.presenter = P!Observe(P!Reset(a.presenter), r)
  <2>1. CallsOf(b) = {}
    BY <1>5 DEF CallsOf, Closed
  <2>2. Drops(app, b)
    BY <1>5, <2>1 DEF Drops
  <2>3. b.presenter.generation = app.presenter.generation + 1
    <3>1. PICK s \in PresenterType :
             /\ s = P!Reset(app.presenter)
             /\ s.generation = app.presenter.generation + 1
      BY <1>1, ResetIs
    <3>2. b.presenter = P!Observe(s, r)
      BY <1>5, <3>1
    <3> QED BY <3>1, <3>2, ObserveIs
  <2>4. app.link # None /\ b.made = app.made
    BY <1>5 DEF SameLink
  <2> QED BY <1>5, <2>2, <2>3, <2>4, LosesGood
<1> QED BY <1>2, <1>3, <1>4, <1>5 DEF Handled, SameLink

LEMMA TickEventKeeps ==
    ASSUME AppInv, TickEvent
    PROVE  /\ AppInv' /\ (Counted(app) => Counted(app)' /\ Moves(app, app'))
           /\ app.link # None /\ app'.link = None
                 => app.writer = "failed" \/ Len(app.out) = OutSlots
<1> DEFINE e == Head(events)
           a == [app EXCEPT !.ticking = TRUE]
           b == IF e.link # app.link      THEN a
                ELSE IF e.reply = Broken THEN Disconnect(a)
                                         ELSE HandleReply(a, e.reply)
<1>1. /\ app \in AppType /\ StateTyped /\ Live(app)
      /\ Sound(app, lines, events, tag) /\ LinkSound(app)
      /\ app.presenter \in PresenterType /\ Fine(app)
  BY Standing
<1>2. /\ a \in AppType /\ SameLink(app, a) /\ a.out = app.out
      /\ a.pending = app.pending /\ a.ready = app.ready /\ a.link = app.link
      /\ a.presenter = app.presenter /\ a.gaps = app.gaps
      /\ a.said = app.said /\ a.endings = app.endings /\ a.made = app.made
  BY <1>1 DEF AppType, SameLink
<1>3. /\ events # <<>> /\ events' = Tail(events) /\ tag' = tag /\ up' = up
      /\ Becomes(b)
  BY DEF TickEvent
<1>4. 1 \in DOMAIN events /\ e = events[1] /\ e \in EventType
  <2>1. events \in Seq(EventType)
    BY <1>1 DEF StateTyped
  <2>2. PICK n \in Nat : n = Len(events) /\ DOMAIN events = 1..n /\ n # 0
    BY <1>3, <2>1, LenProperties, EmptySeq
  <2>3. 1 \in 1..n
    BY <2>2
  <2>4. e = events[1] /\ e \in EventType
    BY <1>3, <2>1, HeadTailProperties
  <2> QED BY <2>2, <2>3, <2>4
<1> HIDE DEF a, e
<1>5. CallsOf(a) = CallsOf(app)
  BY <1>2 DEF CallsOf
<1>6. Fine(a) /\ Live(a) /\ Sound(a, lines, events, tag)
  BY <1>1, <1>2, Attributes, LiveIsSound DEF Live
<1>7. /\ Good(b)
      /\ app.link # None /\ b.link = None
                 => app.writer = "failed" \/ Len(app.out) = OutSlots
  <2>1. CASE e.link # app.link
    <3>1. b = a
      BY <2>1
    <3>2. Moves(app, a)
      BY <1>2, <1>5 DEF Moves, Kept
    <3> QED BY <1>2, <1>6, <3>1, <3>2, StaysGood
  <2>2. CASE e.link = app.link /\ e.reply = Broken
    <3>1. b = Disconnect(a)
      BY <2>2
    <3> HIDE DEF b
    <3>2. app.writer = "failed"
      BY <1>1, <1>4, <2>2 DEF Sound, EventsSound
    <3>3. app.link # None
      BY <1>1, <3>2 DEF LinkSound
    <3>4. Fine(b)
      BY <1>1, <1>2, <1>6, <3>1, DisconnectFine
    <3>5. /\ Closed(b) /\ b.made = app.made /\ b.gaps = app.gaps
          /\ b.presenter = P!Reset(app.presenter) /\ b.said = NoTag
          /\ b.presenter.generation = app.presenter.generation + 1
      BY <1>2, <3>1, DisconnectIs
    <3>6. Drops(app, b)
      BY <3>5 DEF Drops, CallsOf, Closed
    <3> QED BY <3>2, <3>3, <3>4, <3>5, <3>6, LosesGood
  <2>3. CASE e.link = app.link /\ e.reply # Broken
    <3>1. b = HandleReply(a, e.reply)
      BY <2>3
    <3> HIDE DEF b
    <3>2. PICK r \in ReplyType : r = e.reply /\ r = events[1].reply
      BY <1>4 DEF EventType
    <3>3. Fine(b) /\ Handled(a, b, r)
      BY <1>1, <1>2, <1>4, <1>6, <3>1, <3>2, HandlesReply
    <3> QED BY <1>2, <1>5, <3>3, RepliesGood
  <2> QED BY <2>1, <2>2, <2>3
<1> HIDE DEF b
<1> QED BY <1>1, <1>3, <1>7, Ended

\* A closed link becomes one that is open, with a number of its own.
LEMMA Opens ==
    ASSUME NEW a \in AppType, NEW b \in AppType, NEW ls, NEW es, NEW t,
           Sound(a, ls, es, t), Closed(a), a.made # 0,
           b.link = a.made, b.writer = "running", b.made = a.made,
           b.out = a.out, b.pending = a.pending, b.ready = a.ready,
           b.presenter = a.presenter, b.gaps = a.gaps,
           \A i \in DOMAIN es : es[i].link # b.link
    PROVE  Sound(b, ls, es, t) /\ b.link # None /\ Len(b.out) = 0
<1>1. Len(b.out) = 0
  BY EmptySeq DEF Closed
<1>2. LinkSound(b) /\ b.link # None
  BY <1>1, AppAssumption DEF Sound, LinkSound, None, AppAssumption
<1>3. CallsSound(b) /\ GapsSound(b) /\ EventsSound(b, es)
  BY DEF Sound, CallsSound, GapsSound, EventsSound
<1>4. LinesSound(b, ls) /\ LoadsSound(b, ls, es, t)
  BY DEF Sound, LinesSound, LoadsSound, Clear
<1> QED BY <1>1, <1>2, <1>3, <1>4 DEF Sound

\* present() and remove() begin: callbacks from before are late from now on.
LEMMA Starts ==
    ASSUME NEW a \in AppType, NEW b \in AppType, NEW ls, NEW es, NEW t,
           Sound(a, ls, es, t), SameLink(a, b), a.link # None,
           a.presenter.busy = FALSE,
           b.out = a.out, b.pending = a.pending, b.ready = a.ready,
           b.gaps = a.gaps, NEW phase \in {"removing", "retiring"},
           b.presenter = P!Start(a.presenter, phase)
    PROVE  /\ Sound(b, ls, es, t)
           /\ \A e \in a.pending : e.callback = {}
           /\ b.presenter.generation = a.presenter.generation + 1
           /\ b.presenter.lastPath = a.presenter.lastPath
           /\ b.presenter.phase = phase
<1>1. PICK n \in Nat : n = a.presenter.generation
  BY DEF AppType, PresenterType
<1>2. /\ b.presenter.generation = n + 1 /\ b.presenter.busy = TRUE
      /\ b.presenter.phase = phase /\ b.presenter.path = a.presenter.path
      /\ b.presenter.lastPath = a.presenter.lastPath
  BY <1>1 DEF P!Start, AppType, PresenterType
<1>3. a.presenter.phase = ""
  BY DEF Sound, CallsSound
<1>4. \A e \in a.pending : e.callback = {}
  BY <1>3 DEF Sound, CallsSound, Waits
<1>5. LinkSound(b)
  BY DEF Sound, LinkSound, SameLink
<1>6. CallsSound(b)
  BY <1>2, <1>4 DEF Sound, CallsSound
<1>7. GapsSound(b)
  <2>1. \A g \in a.gaps : g.step = "load" /\ g.file \in Files
                            /\ g.gen \in Nat /\ g.gen <= n
    BY <1>1 DEF Sound, GapsSound, AppType, P!Callback
  <2>2. \A g \in b.gaps : g.gen <= n + 1 /\ g.gen # n + 1
    BY <2>1
  <2> QED BY <1>2, <2>1, <2>2 DEF GapsSound, P!InTime
<1>8. EventsSound(b, es) /\ LinesSound(b, ls)
  BY DEF Sound, EventsSound, LinesSound, SameLink
<1>9. LoadsSound(b, ls, es, t)
  BY <1>2, <1>4 DEF Sound, LoadsSound, Clear
<1> QED BY <1>1, <1>2, <1>4, <1>5, <1>6, <1>7, <1>8, <1>9 DEF Sound

\* The gap of the request under way ends: nothing is in the way of its load.
LEMMA GapEnds ==
    ASSUME NEW a \in AppType, NEW b \in AppType, NEW ls, NEW es, NEW t,
           Sound(a, ls, es, t), SameLink(a, b),
           b.out = a.out, b.pending = a.pending, b.ready = a.ready,
           NEW g \in a.gaps, P!InTime(a.presenter, g),
           b.gaps = a.gaps \ {g}, b.presenter = P!GapOver(a.presenter, g)
    PROVE  /\ Sound(b, ls, es, t) /\ a.link # None
           /\ \A e \in a.pending : e.callback = {}
           /\ Clear(b, ls) /\ t = NoTag /\ b.presenter.path = NoFile
           /\ b.presenter.generation = a.presenter.generation
           /\ b.presenter.lastPath = a.presenter.lastPath
           /\ b.presenter.phase = "loading"
           /\ g.gen = a.presenter.generation /\ g.file \in Files
<1>1. /\ a.presenter.phase = "gap" /\ g.file \in Files
      /\ g.gen = a.presenter.generation
  BY DEF Sound, GapsSound, P!InTime
<1>2. /\ b.presenter.generation = a.presenter.generation
      /\ b.presenter.busy = a.presenter.busy
      /\ b.presenter.phase = "loading"
      /\ b.presenter.path = a.presenter.path
      /\ b.presenter.lastPath = a.presenter.lastPath
  BY DEF P!GapOver, AppType, PresenterType
<1>3. Clear(a, ls) /\ t = NoTag /\ a.presenter.path = NoFile
  BY <1>1 DEF Sound, LoadsSound
<1>4. \A e \in a.pending : e.callback = {}
  BY <1>1 DEF Sound, CallsSound, Waits
<1>5. a.presenter.busy # FALSE
  BY <1>1 DEF Sound, CallsSound
<1>6. LinkSound(b) /\ a.link # None
  BY <1>2, <1>5 DEF Sound, LinkSound, SameLink
<1>7. CallsSound(b)
  BY <1>2, <1>4, <1>5 DEF Sound, CallsSound
<1>8. GapsSound(b)
  <2>1. \A h \in b.gaps : ~P!InTime(a.presenter, h)
    BY DEF Sound, GapsSound
  <2>2. \A h \in b.gaps : h.step = "load" /\ h.file \in Files
                            /\ h.gen <= a.presenter.generation
    BY DEF Sound, GapsSound
  <2> QED BY <1>2, <2>1, <2>2 DEF GapsSound, P!InTime
<1>9. EventsSound(b, es) /\ LinesSound(b, ls)
  BY DEF Sound, EventsSound, LinesSound, SameLink
<1>10. Clear(b, ls)
  BY <1>3 DEF Clear
<1>11. LoadsSound(b, ls, es, t)
  BY <1>2, <1>3, <1>4, <1>10 DEF Sound, LoadsSound
<1> QED
  BY <1>1, <1>2, <1>3, <1>4, <1>6, <1>7, <1>8, <1>9, <1>10, <1>11 DEF Sound

\* A gap that ends too late.
LEMMA GapForgotten ==
    ASSUME NEW a \in AppType, NEW b \in AppType, NEW ls, NEW es, NEW t,
           Sound(a, ls, es, t), SameLink(a, b),
           b.out = a.out, b.pending = a.pending, b.ready = a.ready,
           b.gaps \subseteq a.gaps, b.presenter = a.presenter
    PROVE  Sound(b, ls, es, t)
<1>1. LinkSound(b) /\ CallsSound(b) /\ GapsSound(b)
  BY DEF Sound, LinkSound, CallsSound, GapsSound, SameLink
<1>2. EventsSound(b, es) /\ LinesSound(b, ls) /\ LoadsSound(b, ls, es, t)
  BY DEF Sound, EventsSound, LinesSound, LoadsSound, Clear, SameLink
<1> QED BY <1>1, <1>2 DEF Sound

\* The link is lost, and nothing else.
LostNow(a, b) ==
    /\ a.link # None /\ Closed(b) /\ b.made = a.made /\ b.gaps = a.gaps
    /\ b.said = NoTag /\ b.presenter = P!Reset(a.presenter)

LEMMA LostNowGood ==
    ASSUME AppInv, NEW b, Fine(b), LostNow(app, b)
    PROVE  Good(b)
<1>1. b.presenter.generation = app.presenter.generation + 1
  BY Standing, ResetIs DEF LostNow
<1>2. Drops(app, b)
  BY DEF LostNow, Drops, CallsOf, Closed
<1> QED BY <1>1, <1>2, LosesGood DEF LostNow

LEMMA GivenUpGood ==
    ASSUME AppInv, NEW b, Fine(b), GivenUp(app, b)
    PROVE  Good(b)
<1>1. app.presenter \in PresenterType
  BY Standing
<1>2. CASE b.presenter = app.presenter /\ CallsOf(b) = CallsOf(app)
  <2>1. Moves(app, b)
    BY <1>2 DEF GivenUp, Moves, Kept
  <2> QED BY <1>2, <2>1, StaysGood DEF GivenUp
<1>3. ASSUME NEW c \in CallsOf(app),
             b.presenter = P!CallBack(app.presenter, c, P!Failure),
             CallsOf(b) = CallsOf(app) \ {c}
      PROVE  Good(b)
  <2>1. b.presenter.generation = app.presenter.generation
    BY <1>1, <1>3, CallBackIs, CallbacksWait
  <2>2. Moves(app, b)
    BY <1>3 DEF GivenUp, Moves, Hears
  <2> QED BY <2>1, <2>2, StaysGood DEF GivenUp
<1> QED BY <1>2, <1>3 DEF GivenUp

\* A link lost after the timeouts is lost as it would have been before.
LEMMA GivenUpLost ==
    ASSUME AppInv, NEW g, GivenUp(app, g), app.link # None
    PROVE  LostNow(app, Disconnect(g))
<1>1. app.presenter \in PresenterType /\ g \in AppType
  BY Standing DEF GivenUp
<1>2. P!Reset(g.presenter) = P!Reset(app.presenter)
  BY <1>1, ResetAfterFailure DEF GivenUp
<1> QED BY <1>1, <1>2, DisconnectIs DEF LostNow, GivenUp, SameLink

LEMMA GivenUpSent ==
    ASSUME NEW a, NEW g, NEW b \in AppType, GivenUp(a, g), Sent(g, b)
    PROVE  GivenUp(a, b) /\ Live(b)
<1>1. CallsOf(b) = CallsOf(g)
  BY DEF Sent, CallsOf
<1> QED BY <1>1 DEF GivenUp, Sent, SameLink

\* Where the second half of tick() stands, at each of its stages.
Ends(b) ==
    Fine(b) /\ ((GivenUp(app, b) /\ Live(b)) \/ LostNow(app, b))

LEMMA EndsLost ==
    ASSUME AppInv, NEW b, Ends(b), b.link # None
    PROVE  Ends(Disconnect(b))
<1>1. GivenUp(app, b) /\ Live(b) /\ b \in AppType
  BY DEF Ends, LostNow, Closed, Fine
<1>2. app.link # None
  BY <1>1 DEF GivenUp, SameLink
<1>3. Sound(b, lines, events, tag)
  BY <1>1, LiveIsSound DEF Ends
<1> QED BY <1>1, <1>2, <1>3, Standing, DisconnectFine, GivenUpLost DEF Ends

LEMMA TickEndKeeps ==
    ASSUME AppInv, NEW expired \in SUBSET app.pending,
           NEW dead \in BOOLEAN, NEW due \in BOOLEAN,
           TickEnd(expired, dead, due)
    PROVE  AppInv' /\ (Counted(app) => Counted(app)' /\ Moves(app, app'))
<1> DEFINE given == TimeOut(app, expired)
           alive == IF dead /\ given.link # None
                    THEN Disconnect(given) ELSE given
           beat == Heartbeat(alive, due)
           b == [beat EXCEPT !.ticking = FALSE, !.quiet = beat.link # None]
<1>1. Becomes(b) /\ events' = events /\ tag' = tag /\ up' = up
  BY DEF TickEnd
<1>2. /\ app \in AppType /\ StateTyped /\ Live(app)
      /\ Sound(app, lines, events, tag)
  BY Standing
<1> HIDE DEF given
<1>3. Ends(given)
  <2>1. /\ Fine(given)
        /\ \E g : /\ GivenUp(app, g)
                  /\ \/ given = g /\ Live(g)
                     \/ app.link # None /\ given = Disconnect(g)
                     \/ app.link # None /\ Sent(g, given)
    BY <1>2, TimesOut DEF given
  <2>2. given \in AppType
    BY <2>1 DEF Fine
  <2> QED BY <2>1, <2>2, GivenUpLost, GivenUpSent DEF Ends
<1> HIDE DEF alive
<1>4. Ends(alive)
  <2>1. CASE dead /\ given.link # None
    BY <1>3, <2>1, EndsLost DEF alive
  <2>2. CASE ~(dead /\ given.link # None)
    BY <1>3, <2>2 DEF alive
  <2> QED BY <2>1, <2>2
<1> HIDE DEF beat
<1>5. Ends(beat)
  <2>1. /\ alive \in AppType /\ Fine(alive)
        /\ Live(alive) \/ alive.link = None
    BY <1>4 DEF Ends, LostNow, Closed, Fine
  <2>2. /\ Fine(beat)
        /\ \/ beat = alive
           \/ /\ alive.link # None /\ Live(alive)
              /\ \/ beat = Disconnect(alive)
                 \/ Sent(alive, beat)
    BY <1>2, <2>1, Beats DEF beat
  <2>3. beat \in AppType
    BY <2>2 DEF Fine
  <2>4. CASE beat = alive
    BY <1>4, <2>4
  <2>5. CASE alive.link # None /\ beat = Disconnect(alive)
    BY <1>4, <2>5, EndsLost
  <2>6. CASE alive.link # None /\ Sent(alive, beat)
    <3>1. GivenUp(app, alive)
      BY <1>4, <2>6 DEF Ends, LostNow, Closed
    <3> QED BY <2>2, <2>3, <2>6, <3>1, GivenUpSent DEF Ends
  <2> QED BY <2>2, <2>4, <2>5, <2>6
<1>6. /\ b \in AppType /\ SameLink(beat, b) /\ b.out = beat.out
      /\ b.pending = beat.pending /\ b.ready = beat.ready
      /\ b.presenter = beat.presenter /\ b.gaps = beat.gaps
      /\ b.said = beat.said /\ b.endings = beat.endings
      /\ b.link = beat.link /\ b.made = beat.made /\ b.writer = beat.writer
  <2>1. beat \in AppType
    BY <1>5 DEF Ends, Fine
  <2>2. (beat.link # None) \in BOOLEAN
    OBVIOUS
  <2> QED BY <2>1, <2>2 DEF AppType, SameLink
<1> HIDE DEF b
<1>7. Fine(b)
  BY <1>5, <1>6, Attributes DEF Ends
<1>8. CallsOf(b) = CallsOf(beat)
  BY <1>6 DEF CallsOf
<1>9. Good(b)
  <2>1. CASE GivenUp(app, beat)
    <3>1. GivenUp(app, b)
      BY <1>6, <1>8, <2>1 DEF GivenUp, SameLink
    <3> QED BY <1>7, <3>1, GivenUpGood
  <2>2. CASE LostNow(app, beat)
    <3>1. LostNow(app, b)
      BY <1>6, <2>2 DEF LostNow, Closed
    <3> QED BY <1>7, <3>1, LostNowGood
  <2> QED BY <1>5, <2>1, <2>2 DEF Ends
<1> QED BY <1>1, <1>2, <1>9, Ended

LEMMA Unchanged ==
    ASSUME AppInv
    PROVE  Ends(app) /\ GivenUp(app, app)
<1>1. GivenUp(app, app)
  BY Standing DEF GivenUp, SameLink
<1> QED BY <1>1, Standing DEF Ends

LEMMA UserDisconnectKeeps ==
    ASSUME AppInv, UserDisconnect
    PROVE  AppInv' /\ (Counted(app) => Counted(app)' /\ Moves(app, app'))
<1>1. /\ app.link # None /\ Becomes(Disconnect(app))
      /\ events' = events /\ tag' = tag /\ up' = up
  BY DEF UserDisconnect
<1>2. Fine(Disconnect(app)) /\ LostNow(app, Disconnect(app))
  BY <1>1, Standing, Unchanged, DisconnectFine, GivenUpLost
<1>3. Good(Disconnect(app))
  BY <1>2, LostNowGood
<1> QED BY <1>1, <1>3, Standing, Ended

LEMMA UserReleaseKeeps ==
    ASSUME AppInv, UserRelease
    PROVE  AppInv' /\ (Counted(app) => Counted(app)' /\ Moves(app, app'))
<1> DEFINE b == ReleaseAll(app)
<1>1. Becomes(b) /\ events' = events /\ tag' = tag /\ up' = up
  BY DEF UserRelease
<1>2. /\ app \in AppType /\ StateTyped /\ Live(app) /\ Fine(app)
      /\ Sound(app, lines, events, tag)
  BY Standing
<1> HIDE DEF b
<1>3. Good(b)
  <2>1. CASE app.link = None
    <3>1. /\ b \in AppType /\ SameLink(app, b) /\ b.out = app.out
          /\ b.pending = app.pending /\ b.ready = app.ready
          /\ b.presenter = app.presenter /\ b.gaps = app.gaps
          /\ b.said = app.said /\ b.endings = app.endings
      BY <1>2, <2>1 DEF b, ReleaseAll, AppType, SameLink
    <3>2. Fine(b)
      BY <1>2, <3>1, Attributes
    <3>3. GivenUp(app, b)
      BY <3>1 DEF GivenUp, CallsOf
    <3> QED BY <3>2, <3>3, GivenUpGood
  <2>2. CASE app.link # None
    <3>1. /\ Fine(b)
          /\ \/ \E x \in AppType :
                   /\ b = Disconnect(x)
                   /\ x.presenter = app.presenter /\ x.gaps = app.gaps
                   /\ x.made = app.made
             \/ Sent(app, b)
      BY <1>2, <2>2, Releases DEF b
    <3>2. ASSUME NEW x \in AppType, b = Disconnect(x),
                 x.presenter = app.presenter, x.gaps = app.gaps,
                 x.made = app.made
          PROVE  LostNow(app, b)
      BY <2>2, <3>2, DisconnectIs DEF LostNow
    <3>3. CASE Sent(app, b)
      BY <3>1, <3>3, Unchanged, GivenUpSent, GivenUpGood DEF Fine
    <3> QED BY <3>1, <3>2, <3>3, LostNowGood
  <2> QED BY <2>1, <2>2
<1> QED BY <1>1, <1>2, <1>3, Ended

LEMMA RoomLeft ==
    ASSUME NEW a \in AppType, NEW ls, NEW es, NEW t, Sound(a, ls, es, t),
           Len(a.out) # OutSlots
    PROVE  Len(a.out) < OutSlots
<1>1. PICK n \in Nat : n = Len(a.out)
  BY LenProperties DEF AppType
<1>2. n <= OutSlots /\ OutSlots \in Nat
  BY <1>1, AppAssumption DEF Sound, LinkSound, AppAssumption
<1> QED BY <1>1, <1>2

LEMMA ConnectKeeps ==
    ASSUME AppInv, NEW ok \in BOOLEAN, Connect(ok)
    PROVE  AppInv' /\ (Counted(app) => Counted(app)' /\ Moves(app, app'))
<1> DEFINE d == Disconnect(app)
           a == [d EXCEPT !.made = @ + 1]
           opened == [a EXCEPT !.link = a.made, !.writer = "running"]
           b == IF ok THEN Send(opened, "status", NoTag, {}) ELSE Disconnect(a)
<1>1. /\ Becomes(b) /\ events' = events /\ tag' = tag /\ up' = up
      /\ app.link = None /\ app.made < MaxLinks
  BY DEF Connect
<1>2. /\ app \in AppType /\ StateTyped /\ LinkSound(app)
      /\ Sound(app, lines, events, tag) /\ app.presenter \in PresenterType
      /\ lines \in Seq(LineType) /\ app.made <= MaxLinks
  BY Standing DEF StateTyped
<1>3. PICK m \in Nat : m = app.made
  BY <1>2 DEF AppType
<1>4. /\ d \in AppType /\ Closed(d) /\ d.made = m /\ d.gaps = app.gaps
      /\ d.presenter = P!Reset(app.presenter) /\ d.said = NoTag
      /\ d.endings = {<<>>}
      /\ d.presenter.generation = app.presenter.generation + 1
  <2>1. Endings(app) = {<<>>}
    BY <1>1, <1>2 DEF Endings, LinkSound
  <2> QED BY <1>2, <1>3, <2>1, DisconnectIs
<1> HIDE DEF d
<1>5. /\ a \in AppType /\ Closed(a) /\ a.made = m + 1 /\ a.gaps = app.gaps
      /\ a.presenter = P!Reset(app.presenter) /\ a.said = NoTag
      /\ a.endings = {<<>>} /\ a.out = d.out /\ a.pending = d.pending
      /\ a.ready = d.ready /\ a.presenter = d.presenter
  <2>1. PICK n \in Nat : n = d.made + 1 /\ n = m + 1
    BY <1>4
  <2>2. a = [d EXCEPT !.made = n]
    BY <2>1
  <2> HIDE DEF a
  <2>3. /\ a \in AppType /\ a.made = n /\ a.gaps = d.gaps
        /\ a.presenter = d.presenter /\ a.said = d.said
        /\ a.endings = d.endings /\ a.link = d.link /\ a.writer = d.writer
        /\ a.out = d.out /\ a.pending = d.pending /\ a.ready = d.ready
    BY <1>4, <2>2 DEF AppType
  <2> QED BY <1>4, <2>1, <2>3 DEF Closed
<1> HIDE DEF a
<1>6. PICK k \in Nat, j \in Nat :
         /\ k = app.presenter.generation /\ j = a.presenter.generation
         /\ j = k + 1
  BY <1>2, <1>4, <1>5 DEF PresenterType
<1>7. Sound(a, lines, events, tag)
  <2>1. a.made >= app.made /\ a.presenter.generation > app.presenter.generation
    BY <1>3, <1>5, <1>6
  <2> QED BY <1>2, <1>5, <2>1, Closes
<1>8. CallsOf(a) = {} /\ a.presenter \in PresenterType
  BY <1>5 DEF CallsOf, Closed, AppType
<1>9. CASE ok
  <2>1. b = Send(opened, "status", NoTag, {})
    BY <1>9
  <2>2. /\ opened \in AppType /\ opened.link = a.made
        /\ opened.writer = "running" /\ opened.made = a.made
        /\ opened.out = a.out /\ opened.pending = a.pending
        /\ opened.ready = a.ready /\ opened.presenter = a.presenter
        /\ opened.gaps = a.gaps /\ opened.said = a.said
        /\ opened.endings = a.endings
    BY <1>5 DEF AppType
  <2> HIDE DEF opened, b
  <2>3. \A i \in DOMAIN events : events[i].link # opened.link
    <3>1. \A i \in DOMAIN events : events[i].link \in 1..m
      BY <1>2, <1>3 DEF Sound, EventsSound
    <3>2. opened.link = m + 1
      BY <1>5, <2>2
    <3> QED BY <3>1, <3>2
  <2>4. a.made # 0
    BY <1>5
  <2>5. /\ Sound(opened, lines, events, tag) /\ opened.link # None
        /\ Len(opened.out) = 0
    BY <1>5, <1>7, <2>2, <2>3, <2>4, Opens
  <2>6. Live(opened) /\ NoTag \in Arguments
    BY <1>5, <2>2 DEF Live, Arguments
  <2>7. Len(opened.out) # OutSlots
    BY <2>5, AppAssumption DEF AppAssumption
  <2>8. Fine(b) /\ Sent(opened, b)
    BY <1>2, <2>1, <2>2, <2>5, <2>6, <2>7, Sends
  <2>9. /\ b \in AppType /\ b.made = m + 1 /\ b.presenter = a.presenter
        /\ b.gaps = app.gaps /\ b.said = NoTag
    BY <1>5, <2>2, <2>8 DEF Sent, SameLink, Fine
  <2>10. CallsOf(b) = {}
    BY <1>8, <2>2, <2>8 DEF Sent, CallsOf
  <2>11. Drops(app, b)
    BY <1>5, <2>9, <2>10 DEF Drops
  <2>12. /\ b.made = app.made + 1
         /\ b.presenter.generation = app.presenter.generation + 1
    BY <1>3, <1>6, <2>9
  <2>13. Counted(app) => Counted(b) /\ InBound(app)
    BY <1>1, <1>2, <2>9, <2>12, Counting
  <2>14. b.made <= MaxLinks
    BY <1>1, <1>3, <2>9, AppAssumption DEF AppAssumption
  <2> QED BY <1>1, <1>2, <2>8, <2>11, <2>13, <2>14, Ended DEF Good, Moves
<1>10. CASE ~ok
  <2>1. b = Disconnect(a)
    BY <1>10
  <2> HIDE DEF b
  <2>2. Fine(b)
    BY <1>2, <1>5, <1>7, <2>1, DisconnectFine
  <2>3. /\ b \in AppType /\ Closed(b) /\ b.made = m + 1 /\ b.gaps = app.gaps
        /\ b.presenter = P!Reset(P!Reset(app.presenter)) /\ b.said = NoTag
        /\ b.presenter.generation = j + 1
    BY <1>5, <1>6, <2>1, DisconnectIs
  <2>4. Drops(app, b)
    BY <2>3 DEF Drops, CallsOf, Closed
  <2>5. /\ b.made = app.made + 1 /\ b.link = None
        /\ b.presenter.generation = app.presenter.generation + 2
    <3>1. b.link = None
      BY <2>3 DEF Closed
    <3>2. j + 1 = k + 2
      BY <1>6
    <3> QED BY <1>3, <1>6, <2>3, <3>1, <3>2
  <2>6. Counted(app) => Counted(b) /\ InBound(app)
    BY <1>1, <1>2, <2>3, <2>5, Counting
  <2>7. b.made <= MaxLinks
    BY <1>1, <1>3, <2>3, AppAssumption DEF AppAssumption
  <2> QED BY <1>1, <1>2, <2>2, <2>4, <2>6, <2>7, Ended DEF Good, Moves
<1> QED BY <1>9, <1>10

\* present() and remove().
LEMMA RequestKeeps ==
    ASSUME AppInv, NEW phase, NEW step, NEW f, Request(phase, step, f),
           \/ phase = "removing" /\ step = "removed" /\ f \in Files
           \/ phase = "retiring" /\ step = "retired" /\ f = NoFile
    PROVE  AppInv' /\ (Counted(app) => Counted(app)' /\ Moves(app, app'))
<1> DEFINE q == P!Start(app.presenter, phase)
           a == [app EXCEPT !.presenter = q]
           c == P!Step(step, a.presenter.generation, f)
           b == Send(a, "unload", NoTag, {c})
<1>1. /\ Becomes(b) /\ events' = events /\ tag' = tag /\ up' = up
      /\ app.ready /\ ~app.presenter.busy
      /\ app.presenter.generation < MaxGeneration
  BY DEF Request
<1>2. /\ app \in AppType /\ StateTyped /\ Live(app) /\ LinkSound(app)
      /\ Sound(app, lines, events, tag) /\ app.presenter \in PresenterType
      /\ lines \in Seq(LineType) /\ app.made <= MaxLinks
  BY Standing DEF StateTyped
<1>3. app.link # None
  BY <1>1, <1>2 DEF LinkSound
<1>4. PICK k \in Nat : k = app.presenter.generation
  BY <1>2 DEF PresenterType
<1>5. /\ q \in PresenterType /\ q.generation = k + 1
  <2>1. PICK n \in Nat : n = k + 1
    OBVIOUS
  <2>2. q = [app.presenter EXCEPT !.generation = n, !.busy = TRUE,
                                  !.phase = phase]
    BY <1>4, <2>1 DEF P!Start
  <2>3. phase \in P!Phases
    BY DEF P!Phases
  <2> HIDE DEF q
  <2> QED BY <1>2, <2>1, <2>2, <2>3 DEF PresenterType
<1> HIDE DEF q
<1>6. /\ a \in AppType /\ SameLink(app, a) /\ a.out = app.out
      /\ a.pending = app.pending /\ a.ready = app.ready /\ a.presenter = q
      /\ a.gaps = app.gaps /\ a.said = app.said /\ a.endings = app.endings
      /\ a.link = app.link /\ a.made = app.made
  BY <1>2, <1>5 DEF AppType, SameLink
<1> HIDE DEF a
<1>7. /\ Sound(a, lines, events, tag)
      /\ \A e \in app.pending : e.callback = {}
      /\ a.presenter.lastPath = app.presenter.lastPath
      /\ a.presenter.phase = phase
  <2>1. a.presenter = P!Start(app.presenter, phase)
    BY <1>6 DEF q
  <2>2. app.presenter.busy = FALSE /\ phase \in {"removing", "retiring"}
    BY <1>1, <1>2 DEF PresenterType
  <2> QED BY <1>2, <1>3, <1>6, <2>1, <2>2, Starts
<1>8. /\ c \in P!Callback /\ P!InTime(a.presenter, c)
      /\ Waits(a.presenter.phase, c) /\ c = P!Step(step, q.generation, f)
  <2>1. a.presenter.generation \in Nat
    BY <1>5, <1>6
  <2> QED BY <1>6, <1>7, <2>1 DEF P!Step, P!Callback, P!InTime, Waits
<1> HIDE DEF c
<1>9. /\ NoTag \in Arguments /\ "unload" \in Commands
      /\ IsFiniteSet(a.pending) /\ a.link # None
  BY <1>3, <1>6, <1>7 DEF Arguments, Commands, Sound, LinkSound
<1> HIDE DEF b
<1>10. CASE Len(a.out) = OutSlots /\ b = Disconnect(a)
  <2>1. Fine(b)
    BY <1>2, <1>6, <1>7, <1>10, DisconnectFine
  <2>2. /\ Closed(b) /\ b.made = app.made /\ b.gaps = app.gaps
        /\ b.presenter = P!Reset(q) /\ b.said = NoTag
        /\ b.presenter.generation = k + 2
    BY <1>5, <1>6, <1>10, DisconnectIs
  <2>3. P!Reset(q) = P!Reset(P!Reset(app.presenter))
    <3>1. PICK r \in PresenterType :
             /\ r = P!Reset(app.presenter) /\ r.generation = k + 1
             /\ r.lastPath = app.presenter.lastPath
      <4>1. P!Reset(app.presenter).lastPath = app.presenter.lastPath
        BY <1>2, AnewIs
      <4>2. /\ P!Reset(app.presenter) \in PresenterType
            /\ P!Reset(app.presenter).generation = app.presenter.generation + 1
        BY <1>2, ResetIs
      <4>3. P!Reset(app.presenter).generation = k + 1
        BY <1>4, <4>2
      <4> QED BY <4>1, <4>2, <4>3
    <3>2. q.lastPath = r.lastPath
      BY <1>6, <1>7, <3>1
    <3>3. P!Reset(q) = Anew(q.lastPath, q.generation + 1)
      BY <1>5, AnewIs
    <3>4. P!Reset(r) = Anew(r.lastPath, r.generation + 1)
      BY AnewIs
    <3>5. q.generation = r.generation
      BY <1>5, <3>1
    <3> QED BY <3>1, <3>2, <3>3, <3>4, <3>5
  <2>4. Drops(app, b)
    BY <2>2, <2>3 DEF Drops, CallsOf, Closed
  <2>5. b.presenter.generation = app.presenter.generation + 2
    BY <1>4, <2>2
  <2>6. Good(b)
    BY <1>1, <1>3, <2>1, <2>2, <2>4, <2>5, LosesGood
  <2> QED BY <1>1, <1>2, <2>6, Ended
<1>11. ASSUME NEW l \in LineType, NEW e \in PendingType, b \in AppType,
              Len(a.out) # OutSlots, l.id = NextSeq(a), l.cmd = "unload",
              e.id = l.id, e.cmd = "unload", e.callback = {c},
              b.out = Append(a.out, l), b.pending = a.pending \cup {e},
              SameLink(a, b), b.endings = a.endings, b.ready = a.ready,
              b.presenter = a.presenter, b.gaps = a.gaps, b.said = a.said
       PROVE  Good(b)
  <2>1. /\ l.id # 0 /\ \A x \in a.pending : x.id # l.id
        /\ ~Has(a.out, l.id) /\ ~Has(lines, l.id)
        /\ \A i \in DOMAIN events : events[i].reply.id # l.id
    BY <1>2, <1>6, <1>9, <1>11, NextSeqIsNew
  <2>2. LineFine(l)
    BY <1>11, <2>1 DEF LineFine
  <2>3. Len(a.out) < OutSlots
    BY <1>6, <1>7, <1>11, RoomLeft
  <2>4. Sound(b, lines, events, tag)
    <3>1. /\ \A x \in a.pending : x.callback = {}
          /\ l.cmd # "load" /\ l.cmd \in {"load", "unload"} /\ e.cmd = l.cmd
          /\ \E d \in e.callback : /\ e.callback = {d}
                                   /\ P!InTime(a.presenter, d)
                                   /\ Waits(a.presenter.phase, d)
      BY <1>6, <1>7, <1>8, <1>11
    <3> QED BY <1>2, <1>6, <1>7, <1>9, <1>11, <2>1, <2>2, <2>3, <3>1, Posted
  <2>5. Live(b)
    BY <1>2, <1>6, <1>11 DEF Live
  <2>6. Fine(b)
    BY <1>11, <2>4, <2>5, LiveIsSound
  <2>7. CallsOf(b) = CallsOf(app) \cup {c}
    BY <1>6, <1>11 DEF CallsOf
  <2>8. Asks(app, b)
    <3>1. /\ app.presenter.busy = FALSE /\ b.gaps = app.gaps
          /\ b.said = app.said /\ b.presenter = P!Start(app.presenter, phase)
          /\ c = P!Step(step, b.presenter.generation, f)
      BY <1>1, <1>2, <1>6, <1>8, <1>11 DEF PresenterType, q
    <3> QED BY <1>1, <2>7, <3>1 DEF Asks
  <2>9. /\ SameLink(app, b) /\ b.made = app.made
        /\ b.presenter.generation = app.presenter.generation + 1
    BY <1>4, <1>5, <1>6, <1>11 DEF SameLink
  <2>10. Counted(app) => Counted(b)
    BY <1>1, <1>2, <1>3, <1>11, <2>9, Counting
  <2> QED BY <1>2, <2>6, <2>8, <2>9, <2>10 DEF Good, Moves
<1>12. b = Send(a, "unload", NoTag, {c}) /\ {c} \in SUBSET P!Callback
  BY <1>8 DEF b
<1>13. ASSUME ~(Len(a.out) = OutSlots /\ b = Disconnect(a))
       PROVE  Good(b)
  <2>1. PICK x \in AppType, l \in LineType, e \in PendingType :
           /\ Len(a.out) # OutSlots /\ b = x
           /\ l.id = NextSeq(a) /\ l.cmd = "unload"
           /\ e.id = l.id /\ e.cmd = "unload" /\ e.callback = {c}
           /\ x.out = Append(a.out, l) /\ x.pending = a.pending \cup {e}
           /\ SameLink(a, x) /\ x.endings = a.endings
           /\ x.ready = a.ready /\ x.connected = a.connected
           /\ x.presenter = a.presenter /\ x.gaps = a.gaps
           /\ x.said = a.said
    BY <1>2, <1>6, <1>9, <1>12, <1>13, SendIs
  <2> QED BY <1>11, <2>1
<1> QED BY <1>1, <1>2, <1>10, <1>13, Ended

\* The end of a gap.
LEMMA AppGapOverKeeps ==
    ASSUME AppInv, NEW g \in app.gaps, AppGapOver(g)
    PROVE  AppInv' /\ (Counted(app) => Counted(app)' /\ Moves(app, app'))
<1> DEFINE q == P!GapOver(app.presenter, g)
           rest == app.gaps \ {g}
           a == [app EXCEPT !.gaps = rest, !.presenter = q]
           c == P!Step("loaded", g.gen, g.file)
           s == Send(a, "load", Image[g.file], {c})
           b == IF P!InTime(app.presenter, g) THEN s ELSE a
<1>1. Becomes(b) /\ events' = events /\ tag' = tag /\ up' = up
  BY DEF AppGapOver
<1>2. /\ app \in AppType /\ StateTyped /\ Live(app) /\ LinkSound(app)
      /\ Sound(app, lines, events, tag) /\ app.presenter \in PresenterType
      /\ lines \in Seq(LineType) /\ app.made <= MaxLinks
  BY Standing DEF StateTyped
<1>3. q \in PresenterType /\ rest \in SUBSET P!Callback
  BY <1>2 DEF P!GapOver, PresenterType, P!Phases, AppType
<1> HIDE DEF q, rest
<1>4. /\ a \in AppType /\ SameLink(app, a) /\ a.out = app.out
      /\ a.pending = app.pending /\ a.ready = app.ready /\ a.presenter = q
      /\ a.gaps = rest /\ a.said = app.said /\ a.endings = app.endings
      /\ a.link = app.link /\ a.made = app.made
  BY <1>2, <1>3 DEF AppType, SameLink
<1> HIDE DEF a
<1>5. Live(a)
  BY <1>2, <1>4 DEF Live
<1>6. CASE ~P!InTime(app.presenter, g)
  <2>1. b = a /\ q = app.presenter /\ rest \subseteq app.gaps
    BY <1>6 DEF q, rest, P!GapOver
  <2>2. Sound(a, lines, events, tag)
    BY <1>2, <1>4, <2>1, GapForgotten
  <2>3. Fine(a)
    BY <1>4, <1>5, <2>2, LiveIsSound
  <2>4. CallsOf(a) = CallsOf(app)
    BY <1>4 DEF CallsOf
  <2>5. Loads(app, a)
    BY <1>4, <1>6, <2>4 DEF Loads, q, rest
  <2>6. a.presenter.generation = app.presenter.generation
    BY <1>4, <2>1
  <2>7. Good(b)
    BY <1>4, <2>1, <2>3, <2>5, <2>6, StaysGood DEF Moves
  <2> QED BY <1>1, <1>2, <2>7, Ended
<1>7. CASE P!InTime(app.presenter, g)
  <2>0. b = s
    BY <1>7
  <2>1. /\ Sound(a, lines, events, tag) /\ app.link # None
        /\ \A e \in app.pending : e.callback = {}
        /\ Clear(a, lines) /\ tag = NoTag /\ a.presenter.path = NoFile
        /\ a.presenter.generation = app.presenter.generation
        /\ a.presenter.lastPath = app.presenter.lastPath
        /\ a.presenter.phase = "loading"
        /\ g.gen = app.presenter.generation /\ g.file \in Files
    BY <1>2, <1>4, <1>7, GapEnds DEF q, rest
  <2>2. /\ c \in P!Callback /\ P!InTime(a.presenter, c)
        /\ Waits(a.presenter.phase, c)
    <3>1. g.gen \in Nat
      BY <1>2, <2>1 DEF PresenterType
    <3> QED BY <2>1, <3>1 DEF P!Step, P!Callback, P!InTime, Waits
  <2> HIDE DEF c
  <2>3. PICK image \in P!Images : image = Image[g.file]
    BY <2>1 DEF P!Images
  <2>4. /\ image \in Arguments /\ "load" \in Commands
        /\ IsFiniteSet(a.pending) /\ a.link # None
        /\ {c} \in SUBSET P!Callback
    BY <1>4, <2>1, <2>2 DEF Arguments, Commands, Sound, LinkSound
  <2>5. s = Send(a, "load", image, {c})
    BY <2>3
  <2> HIDE DEF s, b
  <2>6. CASE Len(a.out) = OutSlots /\ s = Disconnect(a)
    <3>1. Fine(s)
      BY <1>2, <1>4, <2>1, <2>6, DisconnectFine
    <3>2. /\ Closed(s) /\ s.made = app.made /\ s.gaps = app.gaps \ {g}
          /\ s.presenter = P!Reset(q) /\ s.said = NoTag
          /\ s.presenter.generation = app.presenter.generation + 1
      BY <1>4, <2>1, <2>6, DisconnectIs DEF rest
    <3>3. P!Reset(q) = P!Reset(app.presenter)
      BY <1>2, <1>3, <1>4, <2>1, AnewIs
    <3>4. Drops(app, s)
      BY <3>2, <3>3 DEF Drops, CallsOf, Closed
    <3>5. app.link # None
      BY <2>1
    <3>6. Good(s)
      BY <3>1, <3>2, <3>4, <3>5, LosesGood
    <3> QED BY <1>1, <1>2, <2>0, <3>6, Ended
  <2>7. ASSUME NEW l \in LineType, NEW e \in PendingType, s \in AppType,
               Len(a.out) # OutSlots, l.id = NextSeq(a), l.cmd = "load",
               l.arg = image,
               e.id = l.id, e.cmd = "load", e.callback = {c},
               s.out = Append(a.out, l), s.pending = a.pending \cup {e},
               SameLink(a, s), s.endings = a.endings, s.ready = a.ready,
               s.presenter = a.presenter, s.gaps = a.gaps, s.said = a.said
        PROVE  Good(s)
    <3>1. /\ l.id # 0 /\ \A x \in a.pending : x.id # l.id
          /\ ~Has(a.out, l.id) /\ ~Has(lines, l.id)
          /\ \A i \in DOMAIN events : events[i].reply.id # l.id
      BY <1>2, <1>4, <2>4, <2>7, NextSeqIsNew
    <3>2. LineFine(l)
      BY <2>3, <2>7, <3>1 DEF LineFine
    <3>3. Len(a.out) < OutSlots
      BY <1>4, <2>1, <2>7, RoomLeft
    <3>4. a.presenter.phase # "gap"
      BY <2>1
    <3>5. Sound(s, lines, events, tag)
      BY <1>2, <1>4, <2>1, <2>2, <2>4, <2>7, <3>1, <3>2, <3>3, <3>4, Posted, ZenonT(60)
    <3>6. Live(s)
      BY <1>5, <2>7 DEF Live
    <3>7. Fine(s)
      BY <2>7, <3>5, <3>6, LiveIsSound
    <3>8. CallsOf(s) = CallsOf(app) \cup {c}
      BY <1>4, <2>7 DEF CallsOf
    <3>9. Loads(app, s)
      BY <1>4, <1>7, <2>7, <3>8 DEF Loads, q, rest, c
    <3>10. SameLink(app, s)
      BY <1>4, <2>7 DEF SameLink
    <3>11. s.presenter.generation = app.presenter.generation
      BY <2>1, <2>7
    <3> QED BY <3>7, <3>9, <3>10, <3>11, StaysGood DEF Moves
  <2>8. ASSUME ~(Len(a.out) = OutSlots /\ s = Disconnect(a))
        PROVE  Good(s)
    <3>1. PICK x \in AppType, l \in LineType, e \in PendingType :
             /\ Len(a.out) # OutSlots /\ s = x
             /\ l.id = NextSeq(a) /\ l.cmd = "load" /\ l.arg = image
             /\ e.id = l.id /\ e.cmd = "load" /\ e.callback = {c}
             /\ x.out = Append(a.out, l) /\ x.pending = a.pending \cup {e}
             /\ SameLink(a, x) /\ x.endings = a.endings
             /\ x.ready = a.ready /\ x.connected = a.connected
             /\ x.presenter = a.presenter /\ x.gaps = a.gaps
             /\ x.said = a.said
      <4>1. a \in AppType /\ StateTyped
        BY <1>2, <1>4
      <4> QED BY <2>4, <2>5, <2>8, <4>1, SendIs
    <3> QED BY <2>7, <3>1
  <2> QED BY <1>1, <1>2, <2>0, <2>6, <2>8, Ended
<1> QED BY <1>6, <1>7

-----------------------------------------------------------------------------
(* The other steps.                                                        *)

\* A step without a method leaves the record b.
LEMMA Landed ==
    ASSUME AppInv, NEW b \in AppType, app' = b, b.endings = {<<>>},
           b.made = app.made, b.link = app.link, b.presenter = app.presenter,
           b.gaps = app.gaps, b.said = app.said, b.pending = app.pending,
           Sound(b, lines', events', tag'),
           lines' \in Seq(LineType), Len(lines') <= LineQueue,
           events' \in Seq(EventType), Len(events') <= EventSlots,
           tag' \in P!Images \cup {NoTag}, up' \in BOOLEAN
    PROVE  AppInv' /\ (Counted(app) => Counted(app)' /\ Moves(app, app'))
<1>1. StateTyped'
  BY Standing DEF StateTyped
<1>2. AppInv'
  BY <1>1 DEF AppInv
<1>3. Counted(app) => Counted(b)
  BY DEF Counted
<1>4. Counted(app) => Counted(app)'
  BY <1>3 DEF Counted
<1>5. CallsOf(b) = CallsOf(app)
  BY DEF CallsOf
<1>6. Moves(app, b)
  BY <1>5 DEF Moves, Kept
<1> QED BY <1>2, <1>4, <1>6

LEMMA Queues ==
    ASSUME AppInv
    PROVE  /\ lines \in Seq(LineType) /\ Len(lines) <= LineQueue
           /\ events \in Seq(EventType) /\ Len(events) <= EventSlots
           /\ tag \in P!Images \cup {NoTag} /\ up \in BOOLEAN
           /\ app \in AppType /\ app.endings = {<<>>}
BY DEF AppInv, StateTyped

LEMMA KeyKeeps ==
    ASSUME AppInv, NEW b \in Buttons, NEW down \in BOOLEAN, Key(b, down)
    PROVE  AppInv' /\ (Counted(app) => Counted(app)' /\ Moves(app, app'))
<1> DEFINE x == IF down THEN app.pressed \cup {b} ELSE app.pressed \ {b}
           a == [app EXCEPT !.pressed = x]
<1>1. /\ app' = a /\ lines' = lines /\ events' = events
      /\ tag' = tag /\ up' = up
  BY DEF Key, deviceVars
<1>2. x \in SUBSET Buttons
  BY Queues DEF AppType
<1> HIDE DEF x
<1>3. /\ a \in AppType /\ SameLink(app, a) /\ a.out = app.out
      /\ a.pending = app.pending /\ a.ready = app.ready
      /\ a.presenter = app.presenter /\ a.gaps = app.gaps
      /\ a.said = app.said /\ a.endings = app.endings
      /\ a.link = app.link /\ a.made = app.made
  BY <1>2, Queues DEF AppType, SameLink
<1> HIDE DEF a
<1>4. Sound(a, lines, events, tag)
  BY <1>3, Standing, Forgets
<1> QED BY <1>1, <1>3, <1>4, Queues, Landed

LEMMA WriteLineKeeps ==
    ASSUME AppInv, NEW spoilt \in BOOLEAN, WriteLine(spoilt)
    PROVE  AppInv' /\ (Counted(app) => Counted(app)' /\ Moves(app, app'))
<1> DEFINE u == Tail(app.out)
           a == [app EXCEPT !.out = u]
<1>1. /\ app' = a /\ events' = events /\ tag' = tag /\ up' = up
      /\ app.writer = "running" /\ app.out # <<>>
      /\ lines' = IF spoilt THEN lines ELSE Receive(lines, Head(app.out))
  BY DEF WriteLine
<1>2. /\ u \in Seq(LineType) /\ Head(app.out) \in LineType
      /\ app.link # None
  BY <1>1, Queues, TailLines, Standing DEF AppType, LinkSound
<1> HIDE DEF u
<1>3. /\ a \in AppType /\ SameLink(app, a) /\ a.out = u
      /\ a.pending = app.pending /\ a.ready = app.ready
      /\ a.presenter = app.presenter /\ a.gaps = app.gaps
      /\ a.said = app.said /\ a.endings = app.endings
      /\ a.link = app.link /\ a.made = app.made
  BY <1>2, Queues DEF AppType, SameLink
<1> HIDE DEF a
<1>4. /\ Sound(a, lines, events, tag)
      /\ Sound(a, Receive(lines, Head(app.out)), events, tag)
  BY <1>1, <1>2, <1>3, Standing, Queues, Written DEF u
<1>5. Sound(a, lines', events, tag)
  BY <1>1, <1>4
<1>6. lines' \in Seq(LineType) /\ Len(lines') <= LineQueue
  BY <1>1, <1>2, Queues, Received
<1> QED BY <1>1, <1>3, <1>5, <1>6, Queues, Landed

\* An event is added while there is room.
LEMMA EventFits ==
    ASSUME AppInv, NEW ev \in EventType, Len(events) < EventSlots
    PROVE  /\ Append(events, ev) \in Seq(EventType)
           /\ Len(Append(events, ev)) <= EventSlots
<1>1. PICK n \in Nat : n = Len(events)
  BY Queues, LenProperties
<1>2. /\ Append(events, ev) \in Seq(EventType)
      /\ Len(Append(events, ev)) = n + 1
  BY <1>1, Queues, AppendProperties
<1>3. n + 1 <= EventSlots
  BY <1>1, AppAssumption DEF AppAssumption
<1> QED BY <1>2, <1>3

LEMMA WriterFailsKeeps ==
    ASSUME AppInv, NEW release \in BOOLEAN, WriterFails(release)
    PROVE  /\ AppInv' /\ (Counted(app) => Counted(app)' /\ Moves(app, app'))
           /\ app'.link = app.link
<1> DEFINE a == [app EXCEPT !.writer = "failed"]
           ev == Event(app.link, Broken)
<1>1. /\ app' = a /\ events' = Append(events, ev) /\ tag' = tag /\ up' = up
      /\ app.writer = "running" /\ Len(events) < EventSlots
      /\ lines' = IF release THEN Receive(lines, LastRelease) ELSE lines
  BY DEF WriterFails
<1>2. /\ a \in AppType /\ a.writer = "failed" /\ a.out = app.out
      /\ a.pending = app.pending /\ a.ready = app.ready
      /\ a.presenter = app.presenter /\ a.gaps = app.gaps
      /\ a.said = app.said /\ a.endings = app.endings
      /\ a.link = app.link /\ a.made = app.made
  BY Queues DEF AppType
<1> HIDE DEF a
<1>3. Sound(a, lines, events, tag) /\ a.link \in 1..a.made
  BY <1>1, <1>2, Standing, Fails
<1>4. /\ ev \in EventType /\ ev.link = a.link /\ ev.reply = Broken
      /\ ev.reply.id = 0
  <2>1. Broken \in ReplyType /\ Broken.id = 0
    BY DEF Broken, ReplyType
  <2>2. app.link \in Nat
    BY Queues DEF AppType
  <2> QED BY <1>2, <2>1, <2>2 DEF Event, EventType
<1> HIDE DEF ev
<1>5. \A e \in a.pending : ev.reply.id # e.id
  BY <1>3, <1>4 DEF Sound, CallsSound
<1>6. Sound(a, lines, events', tag)
  BY <1>1, <1>2, <1>3, <1>4, <1>5, Queues, EventAdded
<1>7. Sound(a, lines', events', tag)
  BY <1>1, <1>2, <1>6, Queues, ReleaseArrives
<1>8. lines' \in Seq(LineType) /\ Len(lines') <= LineQueue
  BY <1>1, Queues, LastReleaseFine, Received
<1>9. events' \in Seq(EventType) /\ Len(events') <= EventSlots
  BY <1>1, <1>4, EventFits
<1> QED BY <1>1, <1>2, <1>7, <1>8, <1>9, Queues, Landed

LEMMA DeviceAnswersKeeps ==
    ASSUME AppInv, NEW ok \in BOOLEAN, NEW lost \in BOOLEAN,
           DeviceAnswers(ok, lost)
    PROVE  AppInv' /\ (Counted(app) => Counted(app)' /\ Moves(app, app'))
<1> DEFINE h == Head(lines)
           r == [id |-> h.id, ok |-> ok, connected |-> up, image |-> tag']
           ev == Event(app.link, r)
<1>1. /\ app' = app /\ lines # <<>> /\ lines' = Tail(lines) /\ up' = up
      /\ Effect(h, ok)
      /\ app.writer # "running" => lost
      /\ IF lost THEN events' = events
         ELSE Len(events) < EventSlots /\ events' = Append(events, ev)
  BY DEF DeviceAnswers, Execute
<1>2. /\ h \in LineType /\ LineFine(h)
      /\ lines' \in Seq(LineType) /\ Len(lines') = Len(lines) - 1
  BY <1>1, Queues, TailLines, Standing DEF Sound, LinesSound
<1>3. Len(lines') <= LineQueue
  <2>1. PICK n \in Nat : n = Len(lines)
    BY Queues, LenProperties
  <2>2. n - 1 <= LineQueue
    BY <2>1, Queues, AppAssumption DEF AppAssumption
  <2> QED BY <1>2, <2>1, <2>2
<1> HIDE DEF h
<1>4. /\ \/ h.cmd = "load" /\ tag' \in {h.arg, tag}
         \/ h.cmd = "unload" /\ tag' = NoTag
         \/ h.cmd \notin {"load", "unload"} /\ tag' = tag
      /\ h.cmd = "release" => ok
  BY <1>1 DEF Effect
<1>5. tag' \in P!Images \cup {NoTag}
  BY <1>2, <1>4, Queues DEF LineFine
<1>6. /\ Sound(app, lines', events, tag')
      /\ \A e \in app.pending :
            e.callback # {} /\ h.id = e.id => Clear(app, lines')
  BY <1>1, <1>4, Queues, Standing, Executed DEF h
<1>7. CASE lost
  <2>1. events' = events
    BY <1>1, <1>7
  <2> QED BY <1>1, <1>2, <1>3, <1>5, <1>6, <2>1, Queues, Landed
<1>8. CASE ~lost
  <2>1. /\ Len(events) < EventSlots /\ events' = Append(events, ev)
        /\ app.writer = "running"
    BY <1>1, <1>8
  <2>2. r \in ReplyType /\ r.id = h.id /\ r.image = tag' /\ r.ok = ok
    BY <1>2, <1>5, Queues DEF ReplyType, LineType
  <2>3. r # Broken
    <3>1. r = Broken => h.id = 0 /\ ok = FALSE
      BY <2>2 DEF Broken
    <3> QED BY <1>2, <1>4, <3>1 DEF LineFine
  <2> HIDE DEF r
  <2>4. ev \in EventType /\ ev.link = app.link /\ ev.reply = r
    <3>1. app.link \in Nat
      BY Queues DEF AppType
    <3> QED BY <2>2, <3>1 DEF Event, EventType
  <2> HIDE DEF ev
  <2>5. app.link \in 1..app.made
    BY <2>1, Queues, Standing DEF LinkSound, AppType, None
  <2>6. Sound(app, lines', events', tag')
    BY <1>6, <2>1, <2>2, <2>3, <2>4, <2>5, Queues, EventAdded
  <2>7. events' \in Seq(EventType) /\ Len(events') <= EventSlots
    BY <2>1, <2>4, EventFits
  <2> QED BY <1>1, <1>2, <1>3, <1>5, <2>6, <2>7, Queues, Landed
<1> QED BY <1>7, <1>8

LEMMA DeviceChangesKeeps ==
    ASSUME AppInv, DeviceChanges
    PROVE  AppInv' /\ (Counted(app) => Counted(app)' /\ Moves(app, app'))
<1>1. app' = app /\ events' = events
  BY DEF DeviceChanges
<1>2. \/ lines' = lines /\ tag' = tag /\ up' \in BOOLEAN
      \/ lines' = <<>> /\ tag' = NoTag /\ up' \in BOOLEAN
  BY Queues DEF DeviceChanges, LetGo, Console, Restart
<1>3. CASE lines' = lines /\ tag' = tag /\ up' \in BOOLEAN
  BY <1>1, <1>3, Queues, Standing, Landed
<1>4. CASE lines' = <<>> /\ tag' = NoTag /\ up' \in BOOLEAN
  <2>1. /\ lines' \in Seq(LineType) /\ Len(lines') <= LineQueue
    <3>1. Len(lines') = 0 /\ lines' \in Seq(LineType)
      BY <1>4, EmptySeq
    <3> QED BY <3>1, AppAssumption DEF AppAssumption
  <2>2. Sound(app, lines', events', tag')
    BY <1>1, <1>4, Queues, Standing, DeviceEmpty
  <2> QED BY <1>1, <1>4, <2>1, <2>2, Queues, Landed
<1> QED BY <1>2, <1>3, <1>4

-----------------------------------------------------------------------------
(* The theorems.                                                           *)

LEMMA AppInvInit ==
    ASSUME AppStart
    PROVE  AppInv /\ Counted(app)
<1>1. /\ lines = <<>> /\ tag = NoTag /\ up = FALSE /\ events = <<>>
      /\ app = [link |-> None, writer |-> "none", out |-> <<>>,
                ready |-> FALSE, connected |-> FALSE, pending |-> {},
                pressed |-> {}, presenter |-> P!New, gaps |-> {},
                made |-> 0, said |-> NoTag, quiet |-> FALSE,
                ticking |-> FALSE, endings |-> {<<>>}]
  BY DEF AppStart, AppInit, DeviceInit
<1>2. P!New \in PresenterType /\ P!New.busy = FALSE /\ P!New.phase = ""
      /\ P!New.path = NoFile /\ P!New.generation = 0
  BY DEF P!New, PresenterType, P!Phases
<1>3. /\ app \in AppType /\ app.endings = {<<>>} /\ app.made = 0
      /\ app.link = None /\ app.writer = "none" /\ app.out = <<>>
      /\ app.ready = FALSE /\ app.pending = {} /\ app.gaps = {}
      /\ app.presenter = P!New
  <2>1. <<>> \in Seq(LineType) /\ {<<>>} \in SUBSET Seq(LineType)
    BY EmptySeq
  <2> QED BY <1>1, <1>2, <2>1 DEF AppType, None
<1>4. /\ <<>> \in Seq(LineType) /\ <<>> \in Seq(EventType)
      /\ \A i \in DOMAIN <<>> : FALSE
      /\ Len(<<>>) = 0
  <2> DEFINE u == <<>>
  <2>1. u \in Seq(LineType) /\ u \in Seq(EventType) /\ Len(u) = 0
    BY EmptySeq
  <2> HIDE DEF u
  <2>2. DOMAIN u = {}
    BY <2>1, LenProperties
  <2> QED BY <2>1, <2>2 DEF u
<1>5. StateTyped
  <2>1. /\ Len(lines) = 0 /\ Len(events) = 0
        /\ lines \in Seq(LineType) /\ events \in Seq(EventType)
    BY <1>1, <1>4
  <2>2. /\ Len(lines) <= LineQueue /\ Len(events) <= EventSlots
        /\ app.made <= MaxLinks
    BY <1>3, <2>1, AppAssumption DEF AppAssumption
  <2>3. tag \in P!Images \cup {NoTag} /\ up \in BOOLEAN
    BY <1>1
  <2>4. app \in AppType /\ app.endings = {<<>>}
    BY <1>3
  <2> QED BY <2>1, <2>2, <2>3, <2>4 DEF StateTyped
<1>6. LinkSound(app)
  <2>1. Len(app.out) = 0 /\ IsFiniteSet(app.pending)
    BY <1>3, <1>4, FS_EmptySet
  <2>2. Len(app.out) <= OutSlots
    BY <2>1, AppAssumption DEF AppAssumption
  <2> QED BY <1>2, <1>3, <2>1, <2>2 DEF LinkSound
<1>7. CallsSound(app) /\ GapsSound(app)
  BY <1>2, <1>3 DEF CallsSound, GapsSound
<1>8. EventsSound(app, events) /\ LinesSound(app, lines)
  BY <1>1, <1>3, <1>4 DEF EventsSound, LinesSound
<1>9. LoadsSound(app, lines, events, tag)
  <2>1. NoLoad(lines) /\ OneLoad(lines) /\ NoLoad(app.out) /\ OneLoad(app.out)
    BY <1>1, <1>3, <1>4 DEF NoLoad, OneLoad
  <2> QED BY <1>1, <1>2, <1>3, <2>1 DEF LoadsSound, Clear
<1>10. Counted(app)
  <2>1. app.presenter.generation = 0
    BY <1>2, <1>3
  <2>2. MaxGeneration \in Nat
    BY AppAssumption DEF AppAssumption
  <2> QED BY <1>3, <2>1, <2>2 DEF Counted
<1> QED BY <1>5, <1>6, <1>7, <1>8, <1>9, <1>10 DEF AppInv, Sound

\* What every step keeps, and is to the presenter.
LEMMA AppStep ==
    ASSUME AppInv, [AppNext]_vars
    PROVE  AppInv' /\ (Counted(app) => Counted(app)' /\ Moves(app, app'))
<1>1. CASE UNCHANGED vars
  <2>1. /\ app' = app /\ lines' = lines /\ events' = events /\ tag' = tag
        /\ up' = up
    BY <1>1 DEF vars
  <2> QED BY <2>1, Queues, Standing, Landed
<1>2. CASE TickEvent
  BY <1>2, TickEventKeeps
<1>3. ASSUME NEW x \in SUBSET app.pending, NEW dead \in BOOLEAN,
             NEW due \in BOOLEAN, TickEnd(x, dead, due)
      PROVE  AppInv' /\ (Counted(app) => Counted(app)' /\ Moves(app, app'))
  BY <1>3, TickEndKeeps
<1>4. ASSUME NEW ok \in BOOLEAN, Connect(ok)
      PROVE  AppInv' /\ (Counted(app) => Counted(app)' /\ Moves(app, app'))
  BY <1>4, ConnectKeeps
<1>5. CASE UserDisconnect
  BY <1>5, UserDisconnectKeeps
<1>6. ASSUME NEW b \in Buttons, NEW down \in BOOLEAN, Key(b, down)
      PROVE  AppInv' /\ (Counted(app) => Counted(app)' /\ Moves(app, app'))
  BY <1>6, KeyKeeps
<1>7. CASE UserRelease
  BY <1>7, UserReleaseKeeps
<1>8. ASSUME NEW f \in Files, AppPresent(f)
      PROVE  AppInv' /\ (Counted(app) => Counted(app)' /\ Moves(app, app'))
  <2>1. Request("removing", "removed", f)
    BY <1>8 DEF AppPresent
  <2> QED BY <2>1, RequestKeeps
<1>9. CASE AppRemove
  <2>1. Request("retiring", "retired", NoFile)
    BY <1>9 DEF AppRemove
  <2> QED BY <2>1, RequestKeeps
<1>10. ASSUME NEW g \in app.gaps, AppGapOver(g)
       PROVE  AppInv' /\ (Counted(app) => Counted(app)' /\ Moves(app, app'))
  BY <1>10, AppGapOverKeeps
<1>11. ASSUME NEW spoilt \in BOOLEAN, WriteLine(spoilt)
       PROVE  AppInv' /\ (Counted(app) => Counted(app)' /\ Moves(app, app'))
  BY <1>11, WriteLineKeeps
<1>12. ASSUME NEW release \in BOOLEAN, WriterFails(release)
       PROVE  AppInv' /\ (Counted(app) => Counted(app)' /\ Moves(app, app'))
  BY <1>12, WriterFailsKeeps
<1>13. ASSUME NEW ok \in BOOLEAN, NEW lost \in BOOLEAN, DeviceAnswers(ok, lost)
       PROVE  AppInv' /\ (Counted(app) => Counted(app)' /\ Moves(app, app'))
  BY <1>13, DeviceAnswersKeeps
<1>14. CASE DeviceChanges
  BY <1>14, DeviceChangesKeeps
<1> QED
  BY <1>1, <1>2, <1>3, <1>4, <1>5, <1>6, <1>7, <1>8, <1>9, <1>10, <1>11,
     <1>12, <1>13, <1>14 DEF AppNext

\* The application's queues keep their bounds, a link has a writer, and at most one
\* callback waits for a reply (controller.py:316, serial_link.py:48).
THEOREM AppTypeCorrect == AppSafe => []AppTypeOK
<1>1. AppInv => AppTypeOK
  <2> SUFFICES ASSUME AppInv PROVE AppTypeOK
    OBVIOUS
  <2>1. /\ LinkSound(app) /\ CallsSound(app) /\ app \in AppType
        /\ Len(events) <= EventSlots /\ Len(lines) <= LineQueue
    BY Standing, Queues
  <2>2. app.writer \in {"none", "running", "failed"} /\ app.pressed \subseteq Buttons
    BY <2>1 DEF AppType
  <2>3. app.link = None => app.pending = {} /\ app.out = <<>> /\ ~app.ready
    BY <2>1 DEF LinkSound
  <2>4. \A e, f \in app.pending :
          /\ e.callback # {} => e.cmd \in {"load", "unload"}
          /\ e.callback # {} /\ f.callback # {} => e = f
          /\ e.id = f.id => e = f
    BY <2>1 DEF CallsSound
  <2> QED BY <2>1, <2>2, <2>3, <2>4 DEF AppTypeOK, LinkSound
<1>2. AppStart => AppInv
  BY AppInvInit
<1>3. AppInv /\ [AppNext]_vars => AppInv'
  BY AppStep
<1> QED BY <1>1, <1>2, <1>3, PTL DEF AppSafe

LEMMA AppInvariant == AppSafe => []AppInv
<1>1. AppStart => AppInv
  BY AppInvInit
<1>2. AppInv /\ [AppNext]_vars => AppInv'
  BY AppStep
<1> QED BY <1>1, <1>2, PTL DEF AppSafe

\* "Only load after an acknowledged removal" (library.py:71): whatever was lost, late,
\* expired or left over from a link closed before, and however long the queues, the
\* device never comes to a load while a tag is there.
THEOREM LoadAfterRemovalHolds == AppSafe => []LoadAfterRemoval
<1>1. AppInv => LoadAfterRemoval
  <2> SUFFICES ASSUME AppInv, lines # <<>>, Head(lines).cmd = "load"
               PROVE  tag = NoTag
    BY DEF LoadAfterRemoval
  <2>1. ~NoLoad(lines)
    BY Queues, TailLines
  <2> QED BY <2>1, Standing DEF Sound, LoadsSound, Clear
<1> QED BY <1>1, AppInvariant, PTL

\* The application never shows the name of a file while the device presents another
\* (library.py:105-126, Presenter.observe() and loaded()).
THEOREM NeverTheWrongFileHolds == AppSafe => []NeverTheWrongFile
<1>1. AppInv => NeverTheWrongFile
  BY Standing DEF NeverTheWrongFile, Sound, LoadsSound
<1> QED BY <1>1, AppInvariant, PTL

\* tick() gives up a link for an event only when that link's own thread failed or its
\* queue is full, never for what a link closed before left behind (controller.py:360).
THEOREM OwnFailureHolds == AppSafe => OwnFailure
<1> DEFINE A == app.link # None /\ app'.link = None /\ events' # events =>
                   app.writer = "failed" \/ Len(app.out) = OutSlots
<1>1. AppInv /\ [AppNext]_vars => [A]_vars
  <2> SUFFICES ASSUME AppInv, AppNext, app.link # None, app'.link = None,
                      events' # events
               PROVE  app.writer = "failed" \/ Len(app.out) = OutSlots
    OBVIOUS
  <2>1. CASE TickEvent
    BY <2>1, TickEventKeeps
  <2>2. ASSUME NEW release \in BOOLEAN, WriterFails(release)
        PROVE  FALSE
    BY <2>2, WriterFailsKeeps
  <2>3. ASSUME NEW ok \in BOOLEAN, NEW lost \in BOOLEAN, DeviceAnswers(ok, lost)
        PROVE  FALSE
    BY <2>3 DEF DeviceAnswers
  <2>4. CASE DeviceChanges
    BY <2>4 DEF DeviceChanges
  <2> QED
    BY <2>1, <2>2, <2>3, <2>4
    DEF AppNext, TickEnd, Connect, UserDisconnect, Key, UserRelease,
        AppPresent, AppRemove, Request, AppGapOver, WriteLine
<1> QED BY <1>1, AppInvariant, PTL DEF AppSafe, OwnFailure

LEMMA ReplyFor ==
    ASSUME NEW r \in ReplyType
    PROVE  \E s \in P!Reply : s.image = r.image /\ s.ok = r.ok
<1> DEFINE s == [ok |-> r.ok, image |-> r.image]
<1>1. s \in P!Reply /\ s.image = r.image /\ s.ok = r.ok
  BY DEF ReplyType, P!Reply
<1> HIDE DEF s
<1> QED BY <1>1

\* A step of the application is one of the presenter's, or none.
LEMMA MovesAre ==
    ASSUME app \in AppType, Moves(app, app')
    PROVE  [P!PresenterNext]_(P!presenterVars)
<1> USE DEF CallsOf
<1>1. CASE Kept(app, app')
  BY <1>1 DEF Kept, P!presenterVars
<1>2. CASE Asks(app, app')
  <2>1. app.presenter.generation < MaxGeneration + 2 * MaxLinks
    <3>1. PICK n \in Nat : n = app.presenter.generation
      BY DEF AppType, PresenterType
    <3>2. n < MaxGeneration + 2 * MaxLinks
      BY <1>2, <3>1, AppAssumption DEF Asks, AppAssumption
    <3> QED BY <3>1, <3>2
  <2>2. P!Remove \/ \E f \in Files : P!Present(f)
    BY <1>2, <2>1 DEF Asks, P!Present, P!Remove
  <2> QED BY <2>2 DEF P!PresenterNext
<1>3. CASE Hears(app, app')
  <2>1. PICK c \in CallsOf(app) :
          /\ CallsOf(app') = CallsOf(app) \ {c}
          /\ \/ \E r \in ReplyType :
                   /\ app'.presenter =
                         P!CallBack(P!Observe(app.presenter, r), c, r)
                   /\ app'.gaps = app.gaps
                         \cup P!Scheduled(P!Observe(app.presenter, r), c, r)
                   /\ app'.said = r.image
             \/ /\ app'.presenter = P!CallBack(app.presenter, c, P!Failure)
                /\ app'.gaps = app.gaps /\ app'.said = app.said
    BY <1>3 DEF Hears
  <2>2. ASSUME NEW r \in ReplyType
        PROVE  \E s \in P!Reply :
                  /\ s.image = r.image
                  /\ \A p : P!Observe(p, r) = P!Observe(p, s)
                  /\ \A p : P!CallBack(p, c, r) = P!CallBack(p, c, s)
                  /\ \A p : P!Scheduled(p, c, r) = P!Scheduled(p, c, s)
    <3>1. PICK s \in P!Reply : s.image = r.image /\ s.ok = r.ok
      BY ReplyFor
    <3>2. P!Confirms(c, r) <=> P!Confirms(c, s)
      BY <3>1 DEF P!Confirms
    <3> QED
      BY <3>1, <3>2 DEF P!Observe, P!CallBack, P!Scheduled
  <2>3. P!Answer(c)
    BY <2>1, <2>2 DEF P!Answer
  <2> QED BY <2>3 DEF P!PresenterNext
<1>4. CASE Sees(app, app')
  <2>1. PICK r \in ReplyType :
          /\ app'.presenter = P!Observe(app.presenter, r)
          /\ app'.said = r.image
          /\ app'.gaps = app.gaps /\ CallsOf(app') = CallsOf(app)
    BY <1>4 DEF Sees
  <2>2. PICK s \in P!Reply : s.image = r.image
    BY ReplyFor
  <2>3. P!Seen(s)
    BY <2>1, <2>2 DEF P!Seen, P!Observe
  <2> QED BY <2>3 DEF P!PresenterNext
<1>5. CASE Loads(app, app')
  <2>1. \E g \in app.gaps : P!Load(g)
    BY <1>5 DEF Loads, P!Load
  <2> QED BY <2>1 DEF P!PresenterNext
<1>6. CASE InBound(app) /\ Drops(app, app')
  <2>1. PICK g \in {{}} \cup {{h} : h \in app.gaps} : app'.gaps = app.gaps \ g
    BY <1>6 DEF Drops
  <2>2. \A r \in ReplyType : \E s \in P!Reply : s.image = r.image
    BY ReplyFor
  <2>3. ASSUME NEW r \in ReplyType, NEW s \in P!Reply, s.image = r.image
        PROVE  P!Observe(P!Reset(app.presenter), r)
                  = P!Observe(P!Reset(app.presenter), s)
    BY <2>3 DEF P!Observe
  <2>4. \/ P!Abandon(FALSE, g, FALSE)
        \/ P!Abandon(TRUE, g, FALSE)
    BY <1>6, <2>1, <2>2, <2>3 DEF Drops, InBound, P!Abandon
  <2> QED BY <2>1, <2>4 DEF P!PresenterNext
<1> QED BY <1>1, <1>2, <1>3, <1>4, <1>5, <1>6 DEF Moves

\* The application keeps the contract of the presenter: callbacks of send() and after()
\* are called at most once and with what a reply said, and those it drops
\* (controller.py:316, serial_link.py:48, controller.py:389) it drops with a reset.
THEOREM KeepsContractHolds == AppSafe => KeepsContract
<1>1. AppStart => P!Begin
  BY DEF AppStart, AppInit, P!Begin, DeviceInit
<1>2. AppStart => AppInv /\ Counted(app)
  BY AppInvInit
<1>3. AppInv /\ Counted(app) /\ [AppNext]_vars
        => (AppInv /\ Counted(app))' /\ [P!PresenterNext]_(P!presenterVars)
  <2> SUFFICES ASSUME AppInv, Counted(app), [AppNext]_vars
               PROVE  (AppInv /\ Counted(app))'
                        /\ [P!PresenterNext]_(P!presenterVars)
    OBVIOUS
  <2>1. AppInv' /\ Counted(app)' /\ Moves(app, app')
    BY AppStep
  <2>2. app \in AppType
    BY Queues
  <2> QED BY <2>1, <2>2, MovesAre
<1> QED BY <1>1, <1>2, <1>3, PTL DEF AppSafe, KeepsContract, P!PresenterSafe

-----------------------------------------------------------------------------
(* So what is proved of the presenter holds inside the application.        *)

PP == INSTANCE PresenterProofs
       WITH NoImage <- NoTag, MaxGeneration <- MaxGeneration + 2 * MaxLinks,
            presenter <- app.presenter, gaps <- app.gaps, said <- app.said,
            calls <- UNION {e.callback : e \in app.pending}

\* P and PP are one specification.
LEMMA DrivesPresenter == AppSafe => PP!PresenterSafe
<1>1. P!Begin <=> PP!Begin
  BY DEF P!Begin, P!New, PP!Begin, PP!New
<1>2. P!PresenterNext <=> PP!PresenterNext
  BY DEF P!Present, P!Remove, P!Answer, P!Load, P!Seen, P!Abandon,
         P!PresenterNext, P!presenterVars, P!Start, P!Step, P!Observe,
         P!CallBack, P!Failure, P!Scheduled, P!GapOver, P!Reset, P!InTime,
         P!Confirms, P!Proceed, P!Finish, P!Reply, P!New, P!Images, PP!Present,
         PP!Remove, PP!Answer, PP!Load, PP!Seen, PP!Abandon, PP!PresenterNext,
         PP!presenterVars, PP!Start, PP!Step, PP!Observe, PP!CallBack,
         PP!Failure, PP!Scheduled, PP!GapOver, PP!Reset, PP!InTime, PP!Confirms,
         PP!Proceed, PP!Finish, PP!Reply, PP!New, PP!Images
<1>3. [P!PresenterNext]_(P!presenterVars) <=> [PP!PresenterNext]_(PP!presenterVars)
  BY <1>2 DEF P!presenterVars, PP!presenterVars
<1> QED
  BY <1>1, <1>3, KeepsContractHolds, PTL
  DEF KeepsContract, P!PresenterSafe, PP!PresenterSafe

LEMMA PresenterConstants == PP!PresenterAssumption
BY AppAssumption DEF PP!PresenterAssumption, PP!Images

\* In the application, too, a busy presenter has just the one callback its phase waits
\* for, in a command that waits for its reply or in a timer, and an idle one has none:
\* disconnect(), which drops pending callbacks (controller.py:316), never leaves a
\* request without an end or with two.
THEOREM AppServes == AppSafe => []P!Served
<1>1. PP!PresenterSafe => []PP!Served
  BY PresenterConstants, PP!ServedHolds
<1>2. PP!Served => P!Served
  BY DEF P!Served, P!Current, P!Awaited, P!InTime, PP!Served, PP!Current,
         PP!Awaited, PP!InTime
<1> QED BY <1>1, <1>2, DrivesPresenter, PTL

\* What the window shows as presented is a file whose CRC the last reply handled, to
\* whatever command, has told (library.py:98-103, controller.py:343).
THEOREM AppShowsConfirmed == AppSafe => []P!ShownIsConfirmed
<1>1. PP!PresenterSafe => []PP!ShownIsConfirmed
  BY PresenterConstants, PP!ShownIsConfirmedHolds
<1>2. PP!ShownIsConfirmed => P!ShownIsConfirmed
  BY DEF P!ShownIsConfirmed, PP!ShownIsConfirmed
<1> QED BY <1>1, <1>2, DrivesPresenter, PTL

\* The promise to the user, kept by the application as a whole: removal, gap, load and
\* confirmation in this order, for the file that was asked for (library.py:71-73).
THEOREM AppKeepsTheOrder == AppSafe => PP!Flow!FlowSafe
<1>1. PP!PresenterSafe => PP!Flow!FlowSafe
  BY PresenterConstants, PP!KeepsTheOrder
<1> QED BY <1>1, DrivesPresenter, PTL
=============================================================================
