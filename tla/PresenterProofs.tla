--------------------------- MODULE PresenterProofs ---------------------------
(***************************************************************************)
(* Theorems about the presenter, for every set of files and every image    *)
(* they may hold: its types, Served, ShownIsConfirmed, and that each of    *)
(* its steps is one PresentFlow allows.                                    *)
(***************************************************************************)
EXTENDS Presenter, TLAPS

-----------------------------------------------------------------------------
(* What the operators on the presenter's state return.                     *)

PState == [busy : BOOLEAN, phase : Phases,
           path : Files \cup {NoFile}, lastPath : Files \cup {NoFile},
           crc : Images \cup {NoImage},
           loaded : {"unknown", "yes", "no"}, generation : Nat]

\* observe() leaves the request alone, and keeps a name only if the reply tells of
\* the image it was shown for.
LEMMA ObserveShape ==
    ASSUME NEW p \in PState, NEW r \in Reply
    PROVE  LET q == Observe(p, r)
           IN /\ q \in PState
              /\ q.busy = p.busy /\ q.phase = p.phase
              /\ q.generation = p.generation
              /\ q.path # NoFile => /\ q.path = p.path /\ q.crc = p.crc
                                    /\ r.image = p.crc /\ q.loaded = "yes"
              /\ q.path \in {p.path, NoFile}
BY DEF Observe, PState, Reply

\* reset() outdates every callback and shows nothing.
LEMMA ResetShape ==
    ASSUME NEW p \in PState
    PROVE  /\ Reset(p) \in PState
           /\ Reset(p).busy = FALSE /\ Reset(p).phase = ""
           /\ Reset(p).path = NoFile
<1>1. PICK g \in Nat : g = p.generation + 1
  BY DEF PState
<1>2. Reset(p) = [p EXCEPT !.generation = g, !.busy = FALSE, !.phase = "",
                          !.path = NoFile, !.crc = NoImage, !.loaded = "unknown"]
  BY <1>1 DEF Reset
<1>3. Reset(p) \in PState
  BY <1>2 DEF PState, Phases
<1> QED BY <1>2, <1>3 DEF PState

LEMMA ResetGeneration ==
    ASSUME NEW p \in PState
    PROVE  Reset(p).generation = p.generation + 1 /\ p.generation \in Nat
BY DEF Reset, PState

\* _start() outdates every callback, too, and shows what was shown.
LEMMA StartShape ==
    ASSUME NEW p \in PState, NEW phase \in Phases
    PROVE  /\ Start(p, phase) \in PState
           /\ Start(p, phase).busy = TRUE /\ Start(p, phase).phase = phase
           /\ Start(p, phase).generation = p.generation + 1
           /\ Start(p, phase).path = p.path /\ Start(p, phase).crc = p.crc
           /\ Start(p, phase).loaded = p.loaded
<1>1. PICK g \in Nat : g = p.generation + 1
  BY DEF PState
<1>2. Start(p, phase) = [p EXCEPT !.generation = g, !.busy = TRUE, !.phase = phase]
  BY <1>1 DEF Start
<1>3. Start(p, phase) \in PState
  BY <1>2 DEF PState
<1> QED BY <1>1, <1>2, <1>3 DEF PState

\* _finish().
LEMMA FinishShape ==
    ASSUME NEW p \in PState
    PROVE  /\ Finish(p) \in PState
           /\ Finish(p).busy = FALSE /\ Finish(p).phase = ""
           /\ Finish(p).generation = p.generation
           /\ Finish(p).path = p.path /\ Finish(p).crc = p.crc
           /\ Finish(p).loaded = p.loaded
BY DEF Finish, PState, Phases

\* A step that is confirmed: only removed() leaves the request under way, and only
\* loaded() shows a name, that of its file.
LEMMA ProceedShape ==
    ASSUME NEW p \in PState, NEW c \in Callback,
           c.step # "load", c.step # "retired" => c.file \in Files
    PROVE  LET q == Proceed(p, c)
           IN /\ q \in PState
              /\ c.step = "removed" =>
                    q.busy = p.busy /\ q.phase = "gap" /\ q.path = NoFile
              /\ c.step # "removed" => q.busy = FALSE /\ q.phase = ""
              /\ c.step = "loaded" => /\ q.path = c.file /\ q.crc = Image[c.file]
                                      /\ q.loaded = "yes"
              /\ c.step = "retired" => q.path = NoFile
<1> USE PresenterAssumption DEF PresenterAssumption, Callback, PState, Phases
<1>1. CASE c.step = "removed"
  BY <1>1 DEF Proceed
<1>2. CASE c.step = "loaded"
  <2>1. Image[c.file] \in Images
    BY <1>2
  <2> QED BY <1>2, <2>1 DEF Proceed, Finish
<1>3. CASE c.step = "retired"
  BY <1>3 DEF Proceed, Finish
<1> QED BY <1>1, <1>2, <1>3

LEMMA ProceedGeneration ==
    ASSUME NEW p \in PState, NEW c \in Callback, c.step # "load"
    PROVE  Proceed(p, c).generation = p.generation
<1> USE DEF Proceed, Finish, PState
<1>1. CASE c.step = "removed"
  BY <1>1
<1>2. CASE c.step = "loaded"
  BY <1>2
<1>3. CASE c.step = "retired"
  BY <1>3
<1> QED BY <1>1, <1>2, <1>3 DEF Callback

-----------------------------------------------------------------------------
(* The inductive invariant, and the four things a step can be to a request. *)

\* Which callbacks are given to send() and which to schedule(), and for what files.
CallbacksKnown ==
    /\ \A c \in calls : /\ c.step \in {"removed", "loaded", "retired"}
                        /\ IF c.step = "retired" THEN c.file = NoFile
                                                ELSE c.file \in Files
    /\ \A g \in gaps : g.step = "load" /\ g.file \in Files

PresenterInv == PresenterTypeOK /\ CallbacksKnown /\ Served /\ ShownIsConfirmed

Begins ==
    /\ presenter.busy = FALSE /\ presenter'.busy = TRUE
    /\ presenter'.phase \in {"removing", "retiring"}
    /\ presenter'.path = presenter.path
    /\ \E c \in Callback : /\ Current' = {c} /\ c.step = Awaited[presenter'.phase]

MovesOn ==
    /\ presenter.busy = TRUE /\ presenter'.busy = TRUE
    /\ \E b, c \in Callback :
          /\ Current = {b} /\ Current' = {c}
          /\ c.file = b.file /\ c.step = Awaited[presenter'.phase]
          /\ \/ /\ presenter.phase = "removing" /\ presenter'.phase = "gap"
                /\ c.file \in Files /\ presenter'.path = NoFile
             \/ /\ presenter.phase = "gap" /\ presenter'.phase = "loading"
                /\ presenter'.path = presenter.path

EndsRequest ==
    /\ presenter.busy = TRUE /\ presenter'.busy = FALSE
    /\ presenter'.phase = "" /\ Current' = {}
    /\ \/ presenter'.path \in {presenter.path, NoFile}
       \/ /\ presenter.phase = "loading"
          /\ \E c \in Callback : Current = {c} /\ presenter'.path = c.file

LeavesRequest ==
    /\ presenter'.busy = presenter.busy /\ presenter'.phase = presenter.phase
    /\ Current' = Current
    /\ presenter'.path \in {presenter.path, NoFile}

Effect == Begins \/ MovesOn \/ EndsRequest \/ LeavesRequest

\* What every step must keep besides Served.
Rest == PresenterTypeOK /\ CallbacksKnown /\ ShownIsConfirmed

\* Each phase of a request waits for a callback of its own.
LEMMA AwaitedOnce ==
    \A phase \in Phases \ {""} :
        /\ Awaited[phase] = "removed" <=> phase = "removing"
        /\ Awaited[phase] = "retired" <=> phase = "retiring"
        /\ Awaited[phase] = "load" <=> phase = "gap"
        /\ Awaited[phase] = "loaded" <=> phase = "loading"
<1>1. /\ Awaited["removing"] = "removed" /\ Awaited["retiring"] = "retired"
      /\ Awaited["gap"] = "load" /\ Awaited["loading"] = "loaded"
  BY DEF Awaited
<1> QED BY <1>1 DEF Phases

\* A busy presenter has one callback to wait for.
LEMMA OneAwaited ==
    ASSUME PresenterInv, presenter.busy
    PROVE  \E c \in Callback : Current = {c} /\ c.step = Awaited[presenter.phase]
BY DEF PresenterInv, Served, PresenterTypeOK, Current

\* The four effects keep Served.
LEMMA EffectsServe == ASSUME PresenterInv, Rest', Effect PROVE PresenterInv'
<1>1. Served'
  <2>1. CASE Begins
    BY <2>1 DEF Begins, Served
  <2>2. CASE MovesOn
    BY <2>2 DEF MovesOn, Served
  <2>3. CASE EndsRequest
    BY <2>3 DEF EndsRequest, Served
  <2>4. CASE LeavesRequest
    <3>1. \/ presenter.busy = TRUE \/ presenter.busy = FALSE
      BY DEF PresenterInv, PresenterTypeOK
    <3> QED BY <2>4, <3>1 DEF LeavesRequest, PresenterInv, Served
  <2> QED BY <2>1, <2>2, <2>3, <2>4 DEF Effect
<1> QED BY <1>1 DEF PresenterInv, Rest

-----------------------------------------------------------------------------
(* The actions.                                                            *)

\* A request starts a generation, whose only callback is its first.
LEMMA RequestStarts ==
    ASSUME PresenterInv, ~presenter.busy,
           NEW phase \in {"removing", "retiring"}, NEW f \in Files \cup {NoFile},
           phase = "removing" => f \in Files, phase = "retiring" => f = NoFile,
           presenter' = Start(presenter, phase),
           calls' = calls \cup {Step(Awaited[phase], presenter'.generation, f)},
           UNCHANGED <<gaps, said>>
    PROVE  Rest' /\ Begins
<1> DEFINE new == Step(Awaited[phase], presenter'.generation, f)
<1>1. /\ presenter \in PState /\ presenter' \in PState
      /\ presenter.busy = FALSE /\ presenter'.busy = TRUE
      /\ presenter'.phase = phase
      /\ presenter'.generation = presenter.generation + 1
      /\ presenter'.path = presenter.path /\ presenter'.crc = presenter.crc
      /\ presenter'.loaded = presenter.loaded
  <2>1. presenter \in PState /\ phase \in Phases
    BY DEF PresenterInv, PresenterTypeOK, PState, Phases
  <2>2. presenter.busy = FALSE
    BY <2>1 DEF PState
  <2> QED BY <2>1, <2>2, StartShape
<1>2. presenter.generation \in Nat /\ presenter'.generation \in Nat
  BY <1>1 DEF PState
<1>3. /\ new \in Callback /\ new.gen = presenter'.generation /\ new.file = f
      /\ new.step = Awaited[phase] /\ new.step \in {"removed", "retired"}
      /\ new.step = "retired" <=> phase = "retiring"
  BY <1>2 DEF Step, Callback, Awaited
<1>4. \A c \in calls \cup gaps : c \in Callback /\ c.gen <= presenter.generation
  BY DEF PresenterInv, PresenterTypeOK
<1>5. \A c \in calls \cup gaps : c.gen \in Nat
  BY <1>4 DEF Callback
<1>6. calls' = calls \cup {new}
  OBVIOUS
<1> HIDE DEF new
<1>7. Current' = {new}
  BY <1>1, <1>2, <1>3, <1>4, <1>5, <1>6 DEF Current, InTime
<1>8. PresenterTypeOK'
  BY <1>1, <1>2, <1>3, <1>4, <1>5, <1>6 DEF PresenterTypeOK, PresenterInv, PState
<1>9. CallbacksKnown'
  BY <1>3, <1>6 DEF CallbacksKnown, PresenterInv
<1>10. ShownIsConfirmed'
  BY <1>1 DEF ShownIsConfirmed, PresenterInv
<1> QED BY <1>1, <1>3, <1>7, <1>8, <1>9, <1>10 DEF Rest, Begins

\* A reset leaves no callback that is in time.
LEMMA OutdatedByReset ==
    ASSUME PresenterInv, presenter'.generation > presenter.generation,
           calls' \subseteq calls, gaps' \subseteq gaps
    PROVE  Current' = {}
<1>1. \A c \in calls' \cup gaps' : c.gen <= presenter.generation /\ c.gen \in Nat
  BY DEF PresenterInv, PresenterTypeOK, Callback
<1>2. presenter.generation \in Nat
  BY DEF PresenterInv, PresenterTypeOK
<1> QED BY <1>1, <1>2 DEF Current, InTime

\* What is left of the callbacks keeps its types while generations do not go back.
LEMMA CallbacksKept ==
    ASSUME PresenterInv, presenter' \in PState,
           presenter'.generation >= presenter.generation,
           calls' \subseteq calls, gaps' \subseteq gaps, said' \in Images \cup {NoImage}
    PROVE  PresenterTypeOK' /\ CallbacksKnown'
<1>1. \A c \in calls \cup gaps : /\ c \in Callback /\ c.gen \in Nat
                                 /\ c.gen <= presenter.generation
  BY DEF PresenterInv, PresenterTypeOK, Callback
<1>2. presenter.generation \in Nat /\ presenter'.generation \in Nat
  BY DEF PresenterInv, PresenterTypeOK, PState
<1>3. PresenterTypeOK'
  BY <1>1, <1>2 DEF PresenterTypeOK, PState
<1>4. CallbacksKnown'
  BY DEF CallbacksKnown, PresenterInv
<1> QED BY <1>3, <1>4

LEMMA PresentStep ==
    ASSUME PresenterInv, NEW f \in Files, Present(f) PROVE Rest' /\ Begins
BY RequestStarts DEF Present, Awaited

LEMMA RemoveStep == ASSUME PresenterInv, Remove PROVE Rest' /\ Begins
BY RequestStarts DEF Remove, Awaited

\* A reply may deny what is shown; the request goes on.
LEMMA SeenStep ==
    ASSUME PresenterInv, NEW r \in Reply, Seen(r) PROVE Rest' /\ LeavesRequest
<1>1. /\ presenter \in PState /\ presenter' \in PState
      /\ presenter'.busy = presenter.busy /\ presenter'.phase = presenter.phase
      /\ presenter'.generation = presenter.generation
      /\ presenter'.path \in {presenter.path, NoFile}
      /\ presenter'.path # NoFile =>
            /\ presenter'.path = presenter.path /\ presenter'.crc = presenter.crc
            /\ r.image = presenter.crc /\ presenter'.loaded = "yes"
  BY ObserveShape DEF Seen, PresenterInv, PresenterTypeOK, PState
<1>2. calls' = calls /\ gaps' = gaps /\ said' = r.image
  BY DEF Seen
<1>3. PresenterTypeOK' /\ CallbacksKnown'
  <2>1. said' \in Images \cup {NoImage}
    BY <1>2 DEF Reply
  <2>2. presenter.generation \in Nat
    BY <1>1 DEF PState
  <2> QED BY <1>1, <1>2, <2>1, <2>2, CallbacksKept
<1>4. ShownIsConfirmed'
  BY <1>1, <1>2 DEF ShownIsConfirmed, PresenterInv
<1>5. Current' = Current
  BY <1>1, <1>2 DEF Current, InTime
<1> QED BY <1>1, <1>3, <1>4, <1>5 DEF Rest, LeavesRequest

\* The link is lost: no callback is in time any more.
LEMMA AbandonStep ==
    ASSUME PresenterInv, NEW twice \in BOOLEAN, NEW kept \in BOOLEAN, NEW g \in SUBSET gaps,
           Abandon(twice, g, kept)
    PROVE  Rest' /\ (EndsRequest \/ LeavesRequest)
<1> DEFINE reset == IF twice THEN Reset(Reset(presenter)) ELSE Reset(presenter)
<1>1. presenter \in PState /\ presenter.generation \in Nat
  BY DEF PresenterInv, PresenterTypeOK, PState
<1>2. reset \in {Reset(presenter), Reset(Reset(presenter))}
  OBVIOUS
<1>3. /\ presenter' = reset /\ said' = NoImage
      \/ \E r \in Reply : presenter' = Observe(reset, r) /\ said' = r.image
  BY DEF Abandon
<1>4. calls' \subseteq calls /\ gaps' \subseteq gaps
  BY DEF Abandon
<1> HIDE DEF reset
<1>5. Reset(presenter) \in PState /\ Reset(Reset(presenter)) \in PState
  BY <1>1, ResetShape
<1>6. /\ presenter' \in PState /\ presenter'.busy = FALSE /\ presenter'.phase = ""
      /\ presenter'.path = NoFile
      /\ said' \in Images \cup {NoImage}
  <2>1. /\ reset \in PState /\ reset.busy = FALSE /\ reset.phase = ""
        /\ reset.path = NoFile
    BY <1>1, <1>2, <1>5, ResetShape
  <2> QED BY <1>3, <2>1, ObserveShape DEF Reply
<1>7. /\ presenter'.generation \in Nat
      /\ presenter'.generation > presenter.generation
      /\ presenter'.generation >= presenter.generation
  <2>1. presenter'.generation = reset.generation
    BY <1>2, <1>3, <1>5, ObserveShape
  <2>2. /\ Reset(presenter).generation = presenter.generation + 1
        /\ Reset(Reset(presenter)).generation = Reset(presenter).generation + 1
    BY <1>1, <1>5, ResetGeneration
  <2>3. presenter.generation \in Nat
    BY <1>1
  <2> QED BY <1>2, <2>1, <2>2, <2>3
<1>8. Current' = {}
  BY <1>4, <1>7, OutdatedByReset
<1>9. PresenterTypeOK' /\ CallbacksKnown'
  BY <1>4, <1>6, <1>7, CallbacksKept
<1>10. ShownIsConfirmed'
  BY <1>6 DEF ShownIsConfirmed
<1>11. CASE presenter.busy
  <2>1. presenter.busy = TRUE
    BY <1>1, <1>11 DEF PState
  <2> QED BY <1>6, <1>8, <1>9, <1>10, <2>1 DEF Rest, EndsRequest
<1>12. CASE ~presenter.busy
  <2>1. presenter.busy = FALSE
    BY <1>1, <1>12 DEF PState
  <2>2. Current = {} /\ presenter.phase = ""
    BY <1>12 DEF PresenterInv, Served
  <2> QED BY <1>6, <1>8, <1>9, <1>10, <2>1, <2>2 DEF Rest, LeavesRequest
<1> QED BY <1>11, <1>12

\* The gap is over: the load of the file asked for is sent, if the request is still
\* under way.
LEMMA LoadStep ==
    ASSUME PresenterInv, NEW g \in gaps, Load(g)
    PROVE  Rest' /\ (MovesOn \/ LeavesRequest)
<1> DEFINE new == Step("loaded", g.gen, g.file)
<1>1. /\ presenter \in PState /\ presenter.generation \in Nat
      /\ g \in Callback /\ g.gen <= presenter.generation
      /\ g.step = "load" /\ g.file \in Files
  BY DEF PresenterInv, PresenterTypeOK, PState, CallbacksKnown
<1>2. /\ gaps' = gaps \ {g} /\ said' = said
      /\ presenter' = GapOver(presenter, g)
      /\ calls' = IF InTime(presenter, g) THEN calls \cup {new} ELSE calls
  BY DEF Load
<1>3. /\ new \in Callback /\ new.gen = g.gen /\ new.file = g.file
      /\ new.step = "loaded"
  BY <1>1 DEF Step, Callback
<1> HIDE DEF new
<1>4. CASE ~InTime(presenter, g)
  <2>1. presenter' = presenter /\ calls' = calls
    BY <1>2, <1>4 DEF GapOver
  <2>2. PresenterTypeOK' /\ CallbacksKnown'
    BY <1>1, <1>2, <2>1 DEF PresenterInv, PresenterTypeOK, CallbacksKnown
  <2>3. ShownIsConfirmed'
    BY <1>2, <2>1 DEF PresenterInv, ShownIsConfirmed
  <2>4. Current' = Current
    BY <1>2, <1>4, <2>1 DEF Current, InTime
  <2> QED BY <2>1, <2>2, <2>3, <2>4 DEF Rest, LeavesRequest
<1>5. CASE InTime(presenter, g)
  <2>1. presenter' = [presenter EXCEPT !.phase = "loading"] /\ calls' = calls \cup {new}
    BY <1>2, <1>5 DEF GapOver
  <2>2. /\ presenter' \in PState /\ presenter'.phase = "loading"
        /\ presenter'.busy = presenter.busy /\ presenter'.path = presenter.path
        /\ presenter'.crc = presenter.crc /\ presenter'.loaded = presenter.loaded
        /\ presenter'.generation = presenter.generation
    BY <1>1, <2>1 DEF PState, Phases
  <2>3. g \in Current
    BY <1>5 DEF Current
  <2>4. presenter.busy = TRUE
    BY <1>1, <2>3 DEF PState, PresenterInv, Served
  <2>5. Current = {g} /\ presenter.phase = "gap"
    <3>1. Current = {g} /\ g.step = Awaited[presenter.phase]
      BY <2>3, <2>4, OneAwaited
    <3>2. presenter.phase \in Phases \ {""}
      BY <1>1, <2>4 DEF PState, PresenterInv, Served
    <3> QED BY <1>1, <3>1, <3>2, AwaitedOnce
  <2>6. Current' = {new}
    <3>1. \A c \in calls \cup gaps : InTime(presenter, c) => c = g
      BY <2>5 DEF Current
    <3>2. g \notin calls
      BY <1>1 DEF PresenterInv, CallbacksKnown
    <3>3. \A c \in calls' \cup gaps' : c.gen = presenter'.generation <=> c = new
      BY <1>2, <1>3, <1>5, <2>1, <2>2, <3>1, <3>2 DEF InTime
    <3> QED BY <2>1, <3>3 DEF Current, InTime
  <2>7. PresenterTypeOK' /\ CallbacksKnown'
    <3>1. CallbacksKnown'
      BY <1>1, <1>2, <1>3, <2>1 DEF PresenterInv, CallbacksKnown
    <3>2. PresenterTypeOK'
      BY <1>1, <1>2, <1>3, <2>1, <2>2 DEF PresenterInv, PresenterTypeOK, PState
    <3> QED BY <3>1, <3>2
  <2>8. ShownIsConfirmed'
    BY <1>2, <2>2 DEF PresenterInv, ShownIsConfirmed
  <2>9. MovesOn
    BY <1>1, <1>3, <2>2, <2>4, <2>5, <2>6 DEF MovesOn, Awaited
  <2> QED BY <2>7, <2>8, <2>9 DEF Rest
<1> QED BY <1>4, <1>5

\* A callback is called: the request takes its next step or ends, unless it has
\* ended before.
LEMMA CalledBack ==
    ASSUME PresenterInv, NEW c \in calls, NEW r \in Reply,
           NEW p \in PState, p.busy = presenter.busy, p.phase = presenter.phase,
           p.generation = presenter.generation, p.path \in {presenter.path, NoFile},
           p.path # NoFile =>
              said' = Image[p.path] /\ p.crc = said' /\ p.loaded = "yes",
           said' \in Images \cup {NoImage}, r.ok => said' = r.image,
           presenter' = CallBack(p, c, r),
           calls' = calls \ {c}, gaps' = gaps \cup Scheduled(p, c, r)
    PROVE  Rest' /\ Effect
<1> DEFINE new == Step("load", c.gen, c.file)
           Proceeded ==
              /\ c.step = "removed" => /\ presenter'.busy = p.busy
                                       /\ presenter'.phase = "gap"
                                       /\ presenter'.path = NoFile
              /\ c.step # "removed" => presenter'.busy = FALSE /\ presenter'.phase = ""
              /\ c.step = "loaded" => /\ presenter'.path = c.file
                                      /\ presenter'.crc = Image[c.file]
                                      /\ presenter'.loaded = "yes"
              /\ c.step = "retired" => presenter'.path = NoFile
<1>1. /\ c \in Callback
      /\ c.step \in {"removed", "loaded", "retired"}
      /\ IF c.step = "retired" THEN c.file = NoFile ELSE c.file \in Files
      /\ presenter \in PState
  BY DEF PresenterInv, PresenterTypeOK, CallbacksKnown, PState
<1>2. c \notin gaps
  BY <1>1 DEF PresenterInv, CallbacksKnown
<1>3. p.generation = presenter.generation /\ presenter.generation \in Nat
  BY <1>1 DEF PState
<1>4. CASE ~InTime(p, c)
  <2>1. presenter' = p /\ calls' = calls \ {c} /\ gaps' = gaps
    BY <1>4 DEF CallBack, Scheduled
  <2>2. PresenterTypeOK' /\ CallbacksKnown'
    BY <1>3, <2>1, CallbacksKept
  <2>3. ShownIsConfirmed'
    BY <2>1 DEF ShownIsConfirmed
  <2>4. Current' = Current
    BY <1>3, <1>4, <2>1 DEF Current, InTime
  <2> QED BY <2>1, <2>2, <2>3, <2>4 DEF Rest, Effect, LeavesRequest
<1>5. ASSUME InTime(p, c)
      PROVE  /\ presenter.busy = TRUE /\ Current = {c}
             /\ presenter.phase \in Phases \ {""} /\ c.step = Awaited[presenter.phase]
             /\ \A d \in (calls \ {c}) \cup gaps : d.gen # presenter.generation
  <2>1. c \in Current
    BY <1>3, <1>5 DEF Current, InTime
  <2>2. presenter.busy = TRUE
    BY <1>1, <2>1 DEF PState, PresenterInv, Served
  <2>3. Current = {c} /\ c.step = Awaited[presenter.phase]
    BY <2>1, <2>2, OneAwaited
  <2>4. presenter.phase \in Phases \ {""}
    BY <1>1, <2>2 DEF PState, PresenterInv, Served
  <2>5. \A d \in (calls \ {c}) \cup gaps : d.gen # presenter.generation
    BY <1>2, <2>3 DEF Current, InTime
  <2> QED BY <2>2, <2>3, <2>4, <2>5
<1>6. CASE InTime(p, c) /\ ~Confirms(c, r)
  <2>1. presenter' = Finish(p) /\ calls' = calls \ {c} /\ gaps' = gaps
    BY <1>6 DEF CallBack, Scheduled
  <2>2. /\ presenter' \in PState /\ presenter'.busy = FALSE /\ presenter'.phase = ""
        /\ presenter'.path = p.path /\ presenter'.crc = p.crc
        /\ presenter'.loaded = p.loaded
    BY <2>1, FinishShape
  <2>3. presenter'.generation = presenter.generation
    BY <1>3, <2>1, FinishShape
  <2>4. PresenterTypeOK' /\ CallbacksKnown'
    <3>1. presenter' \in PState
      BY <2>2
    <3>2. presenter'.generation >= presenter.generation
      BY <1>3, <2>3
    <3> QED BY <2>1, <3>1, <3>2, CallbacksKept
  <2>5. ShownIsConfirmed'
    BY <2>2 DEF ShownIsConfirmed
  <2>6. Current' = {}
    BY <1>5, <1>6, <2>1, <2>3 DEF Current, InTime
  <2> QED BY <1>5, <1>6, <2>2, <2>4, <2>5, <2>6 DEF Rest, Effect, EndsRequest
<1>7. ASSUME InTime(p, c), Confirms(c, r)
      PROVE  /\ presenter' = Proceed(p, c) /\ r.ok
             /\ presenter' \in PState
             /\ presenter'.generation = presenter.generation
             /\ Proceeded
  <2>1. presenter' = Proceed(p, c) /\ r.ok
    BY <1>7 DEF CallBack, Confirms
  <2>2. c \in Callback /\ c.step # "load"
    BY <1>1
  <2>3. presenter'.generation = presenter.generation
    BY <1>3, <2>1, <2>2, ProceedGeneration
  <2>4. c.step # "retired" => c.file \in Files
    BY <1>1
  <2>5. /\ Proceed(p, c) \in PState
        /\ c.step = "removed" => /\ Proceed(p, c).busy = p.busy
                                 /\ Proceed(p, c).phase = "gap"
                                 /\ Proceed(p, c).path = NoFile
        /\ c.step # "removed" => /\ Proceed(p, c).busy = FALSE
                                 /\ Proceed(p, c).phase = ""
        /\ c.step = "loaded" => /\ Proceed(p, c).path = c.file
                                /\ Proceed(p, c).crc = Image[c.file]
                                /\ Proceed(p, c).loaded = "yes"
        /\ c.step = "retired" => Proceed(p, c).path = NoFile
    BY <2>2, <2>4, ProceedShape
  <2> QED BY <2>1, <2>3, <2>5
<1>8. CASE InTime(p, c) /\ Confirms(c, r) /\ c.step = "removed"
  <2>1. calls' = calls \ {c} /\ gaps' = gaps \cup {new}
    BY <1>8 DEF Scheduled
  <2>2. /\ presenter'.busy = TRUE /\ presenter'.phase = "gap" /\ presenter'.path = NoFile
    <3>1. Proceeded /\ presenter.busy = TRUE
      BY <1>5, <1>7, <1>8
    <3> QED BY <1>8, <3>1
  <2>3. /\ new \in Callback /\ new.step = "load" /\ new.file = c.file /\ new.gen = c.gen
    BY <1>1 DEF Step, Callback
  <2>4. c.gen = presenter.generation
    BY <1>3, <1>8 DEF InTime
  <2> HIDE DEF new
  <2>5. Current' = {new}
    <3>1. \A d \in (calls \ {c}) \cup gaps : d.gen # presenter.generation
      BY <1>5, <1>8
    <3>2. presenter'.generation = presenter.generation
      BY <1>7, <1>8
    <3> QED BY <2>1, <2>3, <2>4, <3>1, <3>2 DEF Current, InTime
  <2>6. CallbacksKnown'
    BY <1>1, <1>8, <2>1, <2>3 DEF PresenterInv, CallbacksKnown
  <2>7. PresenterTypeOK'
    <3>1. \A d \in calls' \cup gaps' : d \in Callback /\ d.gen <= presenter.generation
      BY <1>3, <2>1, <2>3, <2>4 DEF PresenterInv, PresenterTypeOK
    <3> QED BY <1>7, <1>8, <3>1 DEF PresenterTypeOK, PState
  <2>8. ShownIsConfirmed'
    BY <2>2 DEF ShownIsConfirmed
  <2>9. presenter.phase = "removing"
    BY <1>5, <1>8, AwaitedOnce
  <2>10. MovesOn
    <3>1. Current = {c} /\ presenter.busy = TRUE /\ c.file \in Files
      BY <1>1, <1>5, <1>8
    <3>2. "gap" \in Phases \ {""}
      BY DEF Phases
    <3>3. new.step = Awaited[presenter'.phase]
      BY <2>2, <2>3, <3>2 DEF Awaited
    <3> QED BY <1>1, <2>2, <2>3, <2>5, <2>9, <3>1, <3>3 DEF MovesOn
  <2> QED BY <2>6, <2>7, <2>8, <2>10 DEF Rest, Effect
<1>9. CASE InTime(p, c) /\ Confirms(c, r) /\ c.step # "removed"
  <2>1. calls' = calls \ {c} /\ gaps' = gaps
    BY <1>9 DEF Scheduled
  <2>2. /\ presenter'.busy = FALSE /\ presenter'.phase = ""
        /\ c.step = "loaded" => /\ presenter'.path = c.file
                                /\ presenter'.crc = Image[c.file]
                                /\ presenter'.loaded = "yes"
        /\ c.step = "retired" => presenter'.path = NoFile
    <3>1. Proceeded
      BY <1>7, <1>9
    <3> QED BY <1>9, <3>1
  <2>3. PresenterTypeOK' /\ CallbacksKnown'
    <3>1. presenter' \in PState
      BY <1>7, <1>9
    <3>2. presenter'.generation >= presenter.generation
      <4>1. presenter'.generation = presenter.generation
        BY <1>7, <1>9
      <4> QED BY <1>3, <4>1
    <3> QED BY <2>1, <3>1, <3>2, CallbacksKept
  <2>4. Current' = {}
    <3>1. \A d \in (calls \ {c}) \cup gaps : d.gen # presenter.generation
      BY <1>5, <1>9
    <3>2. presenter'.generation = presenter.generation
      BY <1>7, <1>9
    <3> QED BY <2>1, <3>1, <3>2 DEF Current, InTime
  <2>5. CASE c.step = "loaded"
    <3>1. said' = Image[c.file]
      BY <1>7, <1>9, <2>5 DEF Confirms
    <3>2. ShownIsConfirmed'
      BY <2>2, <2>5, <3>1 DEF ShownIsConfirmed
    <3>3. presenter.phase = "loading"
      BY <1>5, <1>9, <2>5, AwaitedOnce
    <3> QED
      BY <1>1, <1>5, <1>9, <2>2, <2>3, <2>4, <2>5, <3>2, <3>3
         DEF Rest, Effect, EndsRequest
  <2>6. CASE c.step = "retired"
    <3>1. ShownIsConfirmed'
      BY <2>2, <2>6 DEF ShownIsConfirmed
    <3> QED
      BY <1>5, <1>9, <2>2, <2>3, <2>4, <2>6, <3>1 DEF Rest, Effect, EndsRequest
  <2> QED BY <1>1, <1>9, <2>5, <2>6
<1> QED BY <1>4, <1>6, <1>8, <1>9

\* A reply, observed before its callback is called, or an error.
LEMMA AnswerStep ==
    ASSUME PresenterInv, NEW c \in calls, Answer(c) PROVE Rest' /\ Effect
<1>1. presenter \in PState /\ said \in Images \cup {NoImage}
  BY DEF PresenterInv, PresenterTypeOK, PState
<1>2. calls' = calls \ {c}
  BY DEF Answer
<1>3. ASSUME NEW r \in Reply,
             presenter' = CallBack(Observe(presenter, r), c, r),
             gaps' = gaps \cup Scheduled(Observe(presenter, r), c, r),
             said' = r.image
      PROVE  Rest' /\ Effect
  <2>1. PICK p : p = Observe(presenter, r)
    OBVIOUS
  <2>2. /\ p \in PState /\ p.busy = presenter.busy /\ p.phase = presenter.phase
        /\ p.path \in {presenter.path, NoFile}
        /\ p.path # NoFile => /\ p.path = presenter.path /\ p.crc = presenter.crc
                              /\ r.image = presenter.crc /\ p.loaded = "yes"
    BY <1>1, <2>1, ObserveShape
  <2>3. p.generation = presenter.generation
    BY <1>1, <2>1, ObserveShape
  <2>4. p.path # NoFile => said' = Image[p.path] /\ p.crc = said' /\ p.loaded = "yes"
    BY <1>3, <2>2 DEF PresenterInv, ShownIsConfirmed
  <2>5. said' \in Images \cup {NoImage}
    BY <1>3 DEF Reply
  <2> QED BY <1>2, <1>3, <2>1, <2>2, <2>3, <2>4, <2>5, CalledBack
<1>4. ASSUME presenter' = CallBack(presenter, c, Failure), UNCHANGED <<gaps, said>>
      PROVE  Rest' /\ Effect
  <2>1. Failure \in Reply /\ Failure.ok = FALSE
    BY DEF Failure, Reply
  <2>2. Scheduled(presenter, c, Failure) = {}
    BY <2>1 DEF Scheduled, Confirms
  <2>3. presenter.path # NoFile =>
           /\ said' = Image[presenter.path] /\ presenter.crc = said'
           /\ presenter.loaded = "yes"
    BY <1>4 DEF PresenterInv, ShownIsConfirmed
  <2> QED BY <1>1, <1>2, <1>4, <2>1, <2>2, <2>3, CalledBack
<1> QED BY <1>3, <1>4 DEF Answer

-----------------------------------------------------------------------------
(* The theorems. *)

\* Every step keeps the invariant, and has one of the four effects or none.
LEMMA StepInvariant ==
    ASSUME PresenterInv, [PresenterNext]_presenterVars
    PROVE  PresenterInv' /\ (Effect \/ UNCHANGED presenterVars)
<1>1. ASSUME Rest', Effect PROVE PresenterInv' /\ (Effect \/ UNCHANGED presenterVars)
  BY <1>1, EffectsServe
<1>2. ASSUME NEW f \in Files, Present(f) PROVE Rest' /\ Effect
  BY <1>2, PresentStep DEF Effect
<1>3. ASSUME Remove PROVE Rest' /\ Effect
  BY <1>3, RemoveStep DEF Effect
<1>4. ASSUME NEW c \in calls, Answer(c) PROVE Rest' /\ Effect
  BY <1>4, AnswerStep
<1>5. ASSUME NEW g \in gaps, Load(g) PROVE Rest' /\ Effect
  BY <1>5, LoadStep DEF Effect
<1>6. ASSUME NEW r \in Reply, Seen(r) PROVE Rest' /\ Effect
  BY <1>6, SeenStep DEF Effect
<1>7. ASSUME NEW twice \in BOOLEAN, NEW kept \in BOOLEAN,
             NEW g \in {{}} \cup {{h} : h \in gaps}, Abandon(twice, g, kept)
      PROVE  Rest' /\ Effect
  <2>1. g \in SUBSET gaps
    OBVIOUS
  <2> QED BY <1>7, <2>1, AbandonStep DEF Effect
<1>8. CASE UNCHANGED presenterVars
  <2>1. PresenterTypeOK' /\ CallbacksKnown'
    BY <1>8 DEF presenterVars, PresenterInv, PresenterTypeOK, CallbacksKnown
  <2>2. Served'
    BY <1>8 DEF presenterVars, PresenterInv, Served, Current, InTime
  <2>3. ShownIsConfirmed'
    BY <1>8 DEF presenterVars, PresenterInv, ShownIsConfirmed
  <2> QED BY <1>8, <2>1, <2>2, <2>3 DEF PresenterInv
<1> QED
  BY <1>1, <1>2, <1>3, <1>4, <1>5, <1>6, <1>7, <1>8 DEF PresenterNext

\* A presenter that has just been made is idle and shows nothing.
LEMMA BeginInvariant == ASSUME Begin PROVE PresenterInv
<1>1. /\ presenter \in PState /\ presenter.busy = FALSE /\ presenter.phase = ""
      /\ presenter.path = NoFile
  BY DEF Begin, New, PState, Phases
<1>2. calls = {} /\ gaps = {} /\ said = NoImage
  BY DEF Begin
<1>3. PresenterTypeOK /\ CallbacksKnown /\ Served /\ ShownIsConfirmed
  BY <1>1, <1>2 DEF PresenterTypeOK, CallbacksKnown, Served, ShownIsConfirmed,
     Current, PState
<1> QED BY <1>3 DEF PresenterInv

LEMMA PresenterInvariant == PresenterSafe => []PresenterInv
BY BeginInvariant, StepInvariant, PTL DEF PresenterSafe

\* The attributes of the presenter have their types, and no callback that is still to
\* be called belongs to a generation to come.
THEOREM PresenterTypeCorrect == PresenterSafe => []PresenterTypeOK
BY PresenterInvariant, PTL DEF PresenterInv

\* However resets, lost links, late replies and timers fall: a busy presenter waits for
\* exactly one callback, the one of its phase, and an idle one for none.
THEOREM ServedHolds == PresenterSafe => []Served
BY PresenterInvariant, PTL DEF PresenterInv

\* However they fall, a name is shown only while the last reply told of its image.
THEOREM ShownIsConfirmedHolds == PresenterSafe => []ShownIsConfirmed
BY PresenterInvariant, PTL DEF PresenterInv

LEMMA OnlyOne == ASSUME NEW c PROVE (CHOOSE d \in {c} : TRUE) = c
OBVIOUS

\* Each of the four effects is a step of PresentFlow, or none.
LEMMA EffectsAllowed ==
    ASSUME PresenterInv, PresenterInv', Effect
    PROVE  [Flow!FlowNext]_(Flow!flowVars)
<1> DEFINE stage == Stage  wanted == Wanted  shown == presenter.path
<1> USE DEF Flow!FlowNext, Flow!flowVars
<1>1. CASE Begins
  <2>1. stage = "idle" /\ stage' = "removing" /\ shown' = shown
    BY <1>1 DEF Begins, Stage, PresenterInv, Served
  <2>2. PICK c \in Callback : Current' = {c}
    BY <1>1 DEF Begins
  <2>3. wanted' = c.file
    BY <1>1, <2>2, OnlyOne DEF Begins, Wanted
  <2>4. c.file \in Files \cup {NoFile}
    BY DEF Callback
  <2> QED BY <2>1, <2>3, <2>4 DEF Flow!Ask
<1>2. CASE MovesOn
  <2>1. PICK b \in Callback, c \in Callback :
          /\ Current = {b} /\ Current' = {c} /\ c.file = b.file
          /\ \/ /\ presenter.phase = "removing" /\ presenter'.phase = "gap"
                /\ c.file \in Files /\ presenter'.path = NoFile
             \/ /\ presenter.phase = "gap" /\ presenter'.phase = "loading"
                /\ presenter'.path = presenter.path
    BY <1>2 DEF MovesOn
  <2>2. wanted = c.file /\ wanted' = c.file
    BY <1>2, <2>1, OnlyOne DEF MovesOn, Wanted
  <2>3. CASE presenter.phase = "removing"
    <3>1. stage = "removing" /\ stage' = "gap" /\ shown' = NoFile /\ c.file # NoFile
      BY <2>1, <2>3, PresenterAssumption DEF Stage, PresenterAssumption
    <3> QED BY <2>2, <3>1 DEF Flow!GapBegins
  <2>4. CASE presenter.phase = "gap"
    <3>1. stage = "gap" /\ stage' = "loading" /\ shown' = shown
      BY <2>1, <2>4 DEF Stage
    <3> QED BY <2>2, <3>1 DEF Flow!GapEnds
  <2> QED BY <2>1, <2>3, <2>4
<1>3. CASE EndsRequest
  <2>1. stage' = "idle" /\ wanted' = NoFile
    BY <1>3 DEF EndsRequest, Stage, Wanted
  <2>2. stage # "idle"
    BY <1>3 DEF EndsRequest, Stage, PresenterInv, PresenterTypeOK, Served, Phases
  <2>3. CASE presenter'.path \in {presenter.path, NoFile}
    BY <2>1, <2>2, <2>3 DEF Flow!Ends
  <2>4. CASE /\ presenter.phase = "loading"
             /\ \E c \in Callback : Current = {c} /\ presenter'.path = c.file
    <3>1. PICK c \in Callback : Current = {c} /\ presenter'.path = c.file
      BY <2>4
    <3>2. wanted = c.file
      BY <1>3, <3>1, OnlyOne DEF EndsRequest, Wanted
    <3>3. stage = "loading"
      BY <2>4 DEF Stage
    <3> QED BY <2>1, <3>1, <3>2, <3>3 DEF Flow!Confirmed
  <2> QED BY <1>3, <2>3, <2>4 DEF EndsRequest
<1>4. CASE LeavesRequest
  <2>1. stage' = stage
    BY <1>4 DEF LeavesRequest, Stage
  <2>2. wanted' = wanted
    BY <1>4 DEF LeavesRequest, Wanted
  <2>3. shown' \in {shown, NoFile}
    BY <1>4 DEF LeavesRequest
  <2> QED BY <2>1, <2>2, <2>3 DEF Flow!Denied
<1> QED BY <1>1, <1>2, <1>3, <1>4 DEF Effect

\* The presenter implements its promise: removal, gap, load and confirmation come in
\* this order for the file asked for, and only a confirmed load shows a name.
THEOREM KeepsTheOrder == PresenterSafe => Flow!FlowSafe
<1>1. Begin => Flow!FlowInit
  <2> SUFFICES ASSUME Begin PROVE Flow!FlowInit
    OBVIOUS
  <2>1. presenter.phase = "" /\ presenter.busy = FALSE /\ presenter.path = NoFile
    BY DEF Begin, New
  <2>2. Stage = "idle"
    BY <2>1 DEF Stage
  <2>3. Wanted = NoFile
    BY <2>1 DEF Wanted
  <2> QED BY <2>1, <2>2, <2>3 DEF Flow!FlowInit
<1>2. PresenterInv /\ PresenterInv' /\ [PresenterNext]_presenterVars
      => [Flow!FlowNext]_(Flow!flowVars)
  <2> SUFFICES ASSUME PresenterInv, PresenterInv', [PresenterNext]_presenterVars
               PROVE  [Flow!FlowNext]_(Flow!flowVars)
    OBVIOUS
  <2>1. CASE Effect
    BY <2>1, EffectsAllowed
  <2>2. CASE UNCHANGED presenterVars
    <3>1. Stage' = Stage /\ Wanted' = Wanted /\ presenter'.path = presenter.path
      BY <2>2 DEF presenterVars, Stage, Wanted, Current, InTime
    <3> QED BY <3>1 DEF Flow!flowVars
  <2> QED BY <2>1, <2>2, StepInvariant
<1> QED
  BY <1>1, <1>2, PresenterInvariant, PTL DEF PresenterSafe, Flow!FlowSafe
=============================================================================
