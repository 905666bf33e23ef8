------------------------------ MODULE Presenter ------------------------------
(***************************************************************************)
(* The presenter, class Presenter of pc/library.py: a request removes the  *)
(* tag, waits half a second and loads the file, each step a callback of    *)
(* the one before.  The callbacks are closures over the request's file and *)
(* generation; here they are records, and the handlers are operators from  *)
(* the presenter's state, a record too, to its next state, since the       *)
(* application calls several of them in one go.                            *)
(*                                                                         *)
(* On its own (PresenterSpec) the presenter is driven by the contract of   *)
(* its two hooks: send() calls back with a reply or an error, schedule()   *)
(* runs its callback later.  Calls may be dropped by a reset, as the       *)
(* application does, or be answered after it.                              *)
(*                                                                         *)
(* An image stands for the dump and for its CRC.  The file validated by    *)
(* load_bin() before anything else is one of Files.                        *)
(***************************************************************************)
EXTENDS Naturals, FiniteSets

CONSTANTS
    Files,          \* files that pass load_bin()
    NoFile,
    Image,          \* the image of a file; two files may have the same
    NoImage,        \* no tag is loaded
    MaxGeneration   \* bound: no request or reset beyond it

Images == {Image[f] : f \in Files}

ASSUME PresenterAssumption ==
    /\ Image \in [Files -> Images]
    /\ NoFile \notin Files
    /\ NoImage \notin Images
    /\ MaxGeneration \in Nat

\* What a reply says of the tag; a timeout or a missing link says nothing.
Reply == [ok : BOOLEAN, image : Images \cup {NoImage}]
Failure == [ok |-> FALSE, image |-> NoImage]

\* The callbacks: removed() of present() and of remove(), loaded(), and the
\* load() that waits for the gap to end.
Callback == [step : {"removed", "loaded", "retired", "load"}, gen : Nat,
             file : Files \cup {NoFile}]
Step(step, gen, file) == [step |-> step, gen |-> gen, file |-> file]

VARIABLES
    presenter,  \* the attributes of the object
    calls,      \* callbacks given to send() and not called yet
    gaps,       \* callbacks given to schedule() and not called yet
    said        \* history: the image of the last reply, NoImage after a reset

presenterVars == <<presenter, calls, gaps, said>>

New == [busy |-> FALSE, phase |-> "", path |-> NoFile, lastPath |-> NoFile,
        crc |-> NoImage, loaded |-> "unknown", generation |-> 0]

Begin == presenter = New /\ calls = {} /\ gaps = {} /\ said = NoImage

-----------------------------------------------------------------------------

\* A fault of reset(): the generations start again.
ResetToStart(p) == [New EXCEPT !.lastPath = p.lastPath]

\* A fault of reset(): it does not outdate the callbacks of the request.
ResetSameGeneration(p) ==
    [p EXCEPT !.busy = FALSE, !.phase = "", !.path = NoFile, !.crc = NoImage,
              !.loaded = "unknown"]

\* reset().
Reset(p) ==
    [p EXCEPT !.generation = @ + 1, !.busy = FALSE, !.phase = "",
              !.path = NoFile, !.crc = NoImage, !.loaded = "unknown"]

\* observe(reply): any reply may deny that the file shown is there.
Observe(p, r) ==
    LET denied == r.image = NoImage \/ r.image # p.crc
    IN [p EXCEPT !.loaded = IF r.image = NoImage THEN "no" ELSE "yes",
                 !.path = IF denied THEN NoFile ELSE @,
                 !.crc  = IF denied THEN NoImage ELSE @]

\* _start() and _finish().
Start(p, phase) ==
    [p EXCEPT !.generation = @ + 1, !.busy = TRUE, !.phase = phase]
Finish(p) == [p EXCEPT !.busy = FALSE, !.phase = ""]

\* A fault of _accept(): the callback of an earlier request is as good.
InTimeOrLate(p, c) == c.gen <= p.generation

\* The first test of _accept(): the callback belongs to the request under way.
InTime(p, c) == c.gen = p.generation

\* A fault of loaded(): any tag will do.
ConfirmsAnyTag(c, r) == r.ok /\ (c.step = "loaded" <=> r.image # NoImage)

\* The reply is the one the callback hopes for.
Confirms(c, r) ==
    /\ r.ok
    /\ IF c.step = "loaded" THEN r.image = Image[c.file]
                            ELSE r.image = NoImage

\* removed() of present(), loaded(), removed() of remove(): what a confirmed
\* step does.
Proceed(p, c) ==
    CASE c.step = "removed" ->
           [p EXCEPT !.loaded = "no", !.path = NoFile, !.crc = NoImage,
                     !.phase = "gap"]
      [] c.step = "loaded" ->
           Finish([p EXCEPT !.loaded = "yes", !.path = c.file,
                            !.lastPath = c.file, !.crc = Image[c.file]])
      [] c.step = "retired" ->
           Finish([p EXCEPT !.loaded = "no", !.path = NoFile,
                            !.crc = NoImage])

\* A callback of send(): ignored when it is late, otherwise the next step or
\* _fail(), which is _finish() and a message.
CallBack(p, c, r) ==
    IF ~InTime(p, c) THEN p
    ELSE IF Confirms(c, r) THEN Proceed(p, c) ELSE Finish(p)

\* The call of schedule() in removed().
Scheduled(p, c, r) ==
    IF InTime(p, c) /\ Confirms(c, r) /\ c.step = "removed"
    THEN {Step("load", c.gen, c.file)} ELSE {}

\* load(): what it does to the presenter, and whether it sends the command.
GapOver(p, g) == IF InTime(p, g) THEN [p EXCEPT !.phase = "loading"] ELSE p

-----------------------------------------------------------------------------

\* present(path), of a file that passed the checks, and remove().
Present(f) ==
    /\ ~presenter.busy
    /\ presenter.generation < MaxGeneration
    /\ presenter' = Start(presenter, "removing")
    /\ calls' = calls \cup {Step("removed", presenter'.generation, f)}
    /\ UNCHANGED <<gaps, said>>

Remove ==
    /\ ~presenter.busy
    /\ presenter.generation < MaxGeneration
    /\ presenter' = Start(presenter, "retiring")
    /\ calls' = calls \cup {Step("retired", presenter'.generation, NoFile)}
    /\ UNCHANGED <<gaps, said>>

\* send() calls back with a reply, which was observed first, or with an error.
Answer(c) ==
    /\ calls' = calls \ {c}
    /\ \/ \E r \in Reply :
            LET seen == Observe(presenter, r)
            IN /\ presenter' = CallBack(seen, c, r)
               /\ gaps' = gaps \cup Scheduled(seen, c, r)
               /\ said' = r.image
       \/ /\ presenter' = CallBack(presenter, c, Failure)
          /\ UNCHANGED <<gaps, said>>

\* A fault of load(): it does not look at the generation.
LoadAnyway(g) ==
    /\ presenter' = [presenter EXCEPT !.phase = "loading"]
    /\ gaps' = gaps \ {g}
    /\ calls' = calls \cup {Step("loaded", g.gen, g.file)}
    /\ UNCHANGED said

\* The gap is over: load() sends the command unless it is late.
Load(g) ==
    /\ presenter' = GapOver(presenter, g)
    /\ gaps' = gaps \ {g}
    /\ calls' = IF InTime(presenter, g)
                THEN calls \cup {Step("loaded", g.gen, g.file)} ELSE calls
    /\ UNCHANGED said

\* The reply to another command, or to one that was given up.
Seen(r) ==
    /\ presenter' = Observe(presenter, r)
    /\ said' = r.image
    /\ UNCHANGED <<calls, gaps>>

\* The application lost its link.  It may find out, and reset the presenter,
\* inside a call of send(): after a request was started, which counts two
\* generations, in load(), or while it handles a reply, which is observed all
\* the same (controller.py:343-346).
Abandon(twice, g, kept) ==
    LET reset == IF twice THEN Reset(Reset(presenter)) ELSE Reset(presenter)
    IN /\ presenter.generation < MaxGeneration
       /\ \/ presenter' = reset /\ said' = NoImage
          \/ \E r \in Reply : presenter' = Observe(reset, r) /\ said' = r.image
       /\ calls' = IF kept THEN calls ELSE {}
       /\ gaps' = gaps \ g

PresenterNext ==
    \/ \E f \in Files : Present(f)
    \/ Remove
    \/ \E c \in calls : Answer(c)
    \/ \E g \in gaps : Load(g)
    \/ \E r \in Reply : Seen(r)
    \/ \E twice, kept \in BOOLEAN, g \in {{}} \cup {{h} : h \in gaps} :
          Abandon(twice, g, kept)

PresenterSafe == Begin /\ [][PresenterNext]_presenterVars

\* The contract of send() and schedule(): every callback is called.
PresenterFairness ==
    /\ WF_presenterVars(\E c \in calls : Answer(c))
    /\ WF_presenterVars(\E g \in gaps : Load(g))

PresenterSpec == PresenterSafe /\ PresenterFairness

-----------------------------------------------------------------------------

Phases == {"", "removing", "retiring", "gap", "loading"}

\* Types; no callback is of a generation to come.
PresenterTypeOK ==
    /\ presenter \in [busy : BOOLEAN, phase : Phases,
                      path : Files \cup {NoFile}, lastPath : Files \cup {NoFile},
                      crc : Images \cup {NoImage},
                      loaded : {"unknown", "yes", "no"}, generation : Nat]
    /\ calls \subseteq {c \in Callback : c.gen <= presenter.generation}
    /\ gaps  \subseteq {c \in Callback : c.gen <= presenter.generation}
    /\ said \in Images \cup {NoImage}

\* The callbacks of the request under way.
Current == {c \in calls \cup gaps : InTime(presenter, c)}

Awaited == [removing |-> "removed", retiring |-> "retired",
            gap |-> "load", loading |-> "loaded"]

\* While the presenter is busy exactly one callback, the one its phase waits
\* for, can move it on, and when it is not none can: neither a reset, which
\* forgets callbacks without calling them or leaves them to be called late
\* (controller.py:316, library.py:89), nor a timer that still runs
\* (library.py:143), leaves it stuck or starts a second load.
Served ==
    IF presenter.busy
    THEN /\ presenter.phase # ""
         /\ \E c \in Current : Current = {c} /\ c.step = Awaited[presenter.phase]
    ELSE Current = {} /\ presenter.phase = ""

\* A name is shown only while the last reply, to whatever command, said that
\* a tag with the CRC of that very file is there ("wrong crc does not claim
\* expected file present", test_library.py:151); it is gone after a reset, and
\* neither a late callback nor a failed request brings it back.
ShownIsConfirmed ==
    presenter.path # NoFile =>
        /\ said = Image[presenter.path]
        /\ presenter.crc = said
        /\ presenter.loaded = "yes"

\* The promise to the user.
Stage ==
    CASE presenter.phase = ""         -> "idle"
      [] presenter.phase = "retiring" -> "removing"
      [] OTHER                        -> presenter.phase

Wanted == IF presenter.busy THEN (CHOOSE c \in Current : TRUE).file ELSE NoFile

Flow == INSTANCE PresentFlow
          WITH stage <- Stage, wanted <- Wanted, shown <- presenter.path

\* The presenter keeps its promise: removal, gap, load and confirmation in this
\* order for the file asked for, and every request ends.
KeepsPromise == Flow!FlowSpec
=============================================================================
