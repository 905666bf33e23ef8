-------------------------------- MODULE PcApp --------------------------------
(***************************************************************************)
(* The application on the PC: class App of pc/controller.py with the       *)
(* SerialLink of pc/serial_link.py, the presenter of pc/library.py         *)
(* (Presenter) and a device on the other end of the line (PcDevice).       *)
(*                                                                         *)
(* The Tk thread runs button callbacks, timers of after() and, every 50    *)
(* ms, tick(): some events of the links, then the timeouts and the         *)
(* heartbeat.  Its state is the record `app', and a method is an operator  *)
(* from a record to the next, as they call each other.  Each link has a    *)
(* thread that writes its outgoing queue and puts replies and its failure  *)
(* into the one queue of events; the device executes lines at any time.    *)
(*                                                                         *)
(* Time is abstracted: a command may be found expired at any tick, unless  *)
(* its reply was handled, and a link dead at any tick after one without a  *)
(* reply.  Sequence numbers are unique among everything in flight, as they *)
(* are in a range of 2^31.  Log lines are not modelled, but a tick may end *)
(* with replies waiting behind 150 of them.                                *)
(***************************************************************************)
EXTENDS PcDevice, FiniteSets

CONSTANTS
    Files, NoFile,
    Image,          \* as in Presenter
    Buttons,
    Faults,         \* what may go wrong: "noise" on the line, a "port" that
                    \* fails, a "restart" of the device, a "console" that goes
    OutSlots,       \* the outgoing queue of a link, 16 in the code
    EventSlots,     \* bound: replies waiting for a tick
    MaxPending,     \* bound: commands that wait for a reply
    MaxLinks,       \* bound: links opened
    MaxGeneration   \* bound: generations of the presenter

ASSUME AppAssumption ==
    /\ Image \in [Files -> {Image[f] : f \in Files}]
    /\ NoFile \notin Files
    /\ \A f \in Files : Image[f] # NoTag
    /\ LineQueue \in Nat \ {0}
    /\ OutSlots \in Nat \ {0}
    /\ EventSlots \in Nat \ {0}
    /\ MaxPending \in Nat
    /\ MaxLinks \in Nat
    /\ MaxGeneration \in Nat
    /\ Neutral = {}

VARIABLES
    app,        \* the state of the Tk thread, and the link's outgoing queue
    events      \* what the links' threads tell, for tick()

vars == <<app, events, lines, tag, up, held>>

P == INSTANCE Presenter
       WITH NoImage <- NoTag, MaxGeneration <- MaxGeneration + 2 * MaxLinks,
            presenter <- app.presenter, gaps <- app.gaps, said <- app.said,
            calls <- UNION {e.callback : e \in app.pending}

None == 0   \* no link; links are numbered from 1

\* The record `app': the attributes of App, the outgoing queue and the thread of
\* its link ("running", "failed", or "none"); and, to say what the steps do,
\* the links made so far, the image told by the last reply, whether a tick has
\* ended without a reply, whether tick() is running, and, inside a step, what the
\* thread of a link just closed may still write.
AppInit ==
    /\ app = [link |-> None, writer |-> "none", out |-> <<>>,
              ready |-> FALSE, connected |-> FALSE, pending |-> {},
              pressed |-> {}, presenter |-> P!New, gaps |-> {},
              made |-> 0, said |-> NoTag, quiet |-> FALSE, ticking |-> FALSE,
              endings |-> {<<>>}]
    /\ events = <<>>

AppStart == AppInit /\ DeviceInit

\* Lines, and the events that carry a reply or, as a reply to nothing, a
\* failure of the link's thread.
Line(id, cmd, arg) == [id |-> id, cmd |-> cmd, arg |-> arg]
LastRelease == Line(0, "release", Neutral)
Event(link, reply) == [link |-> link, reply |-> reply]
Broken == [id |-> 0, ok |-> FALSE, connected |-> FALSE, image |-> NoTag]

Ids(seq) == {seq[i].id : i \in DOMAIN seq}
InFlight(a) ==
    {e.id : e \in a.pending} \cup Ids(a.out) \cup Ids(lines)
        \cup {events[i].reply.id : i \in DOMAIN events}
NextSeq(a) ==
    CHOOSE n \in 1..(Cardinality(InFlight(a)) + 1) : n \notin InFlight(a)

-----------------------------------------------------------------------------
(* The methods. *)

\* How the thread of a link that is being closed may end: it may write one more
\* packet, and then the release, unless the port fails.
Endings(a) ==
    IF a.writer # "running" THEN {<<>>}
    ELSE LET packets == {<<>>} \cup (IF a.out = <<>> THEN {} ELSE {<<Head(a.out)>>})
         IN packets \cup {w \o <<LastRelease>> : w \in packets}

\* A fault of disconnect(): the workflow is not abandoned.
DisconnectOnly(a) ==
    [a EXCEPT !.link = None, !.writer = "none", !.out = <<>>, !.ready = FALSE,
              !.connected = FALSE, !.pending = {}, !.pressed = {},
              !.quiet = FALSE, !.endings = Endings(a)]

\* disconnect(): the callbacks of pending commands are never called.
Disconnect(a) ==
    [a EXCEPT !.link = None, !.writer = "none", !.out = <<>>, !.ready = FALSE,
              !.connected = FALSE, !.pending = {}, !.pressed = {},
              !.presenter = P!Reset(@), !.said = NoTag, !.quiet = FALSE,
              !.endings = Endings(a)]

\* A fault of send(): the outgoing queue takes any number of packets.
SendAnyway(a, cmd, arg, callback) ==
    LET id == NextSeq(a)
    IN IF a.link = None THEN a
       ELSE [a EXCEPT !.out = Append(@, Line(id, cmd, arg)),
                      !.pending = @ \cup {[id |-> id, cmd |-> cmd,
                                           callback |-> callback]}]

\* send(command, callback); callback is a set of none or one.  Without a link the
\* callback is told at once; a full outgoing queue ends the connection.
Send(a, cmd, arg, callback) ==
    LET id == NextSeq(a)
    IN IF a.link = None
       THEN [a EXCEPT !.presenter =
               IF callback = {} THEN @
               ELSE P!CallBack(@, CHOOSE c \in callback : TRUE, P!Failure)]
       ELSE IF Len(a.out) = OutSlots
       THEN Disconnect(a)
       ELSE [a EXCEPT !.out = Append(@, Line(id, cmd, arg)),
                      !.pending = @ \cup {[id |-> id, cmd |-> cmd,
                                           callback |-> callback]}]

\* release_all().
ReleaseAll(a) ==
    LET released == [a EXCEPT !.pressed = {}]
    IN IF a.link = None THEN released
       ELSE Send(released, "release", Neutral, {})

\* handle_reply(reply): a reply nobody waits for is dropped.
HandleReply(a, r) ==
    LET asked == {e \in a.pending : e.id = r.id}
        callback == UNION {e.callback : e \in asked}
        known == [a EXCEPT !.pending = @ \ asked, !.ready = TRUE,
                           !.quiet = FALSE]
        told == IF a.connected /\ ~r.connected
                THEN ReleaseAll(known) ELSE known
        seen == P!Observe(told.presenter, r)
        done == UNION {P!Scheduled(seen, c, r) : c \in callback}
    IN IF asked = {} THEN a
       ELSE [told EXCEPT
               !.connected = r.connected, !.said = r.image,
               !.gaps = @ \cup done,
               !.presenter =
                 IF callback = {} THEN seen
                 ELSE P!CallBack(seen, CHOOSE c \in callback : TRUE, r)]

\* A fault of the timeouts: a load or removal without an answer is sent again.
TimeOutRetries(a, expired) ==
    LET again == {e \in expired : e.callback # {}}
        given == [a EXCEPT !.pending = @ \ expired]
        e     == CHOOSE x \in again : TRUE
    IN IF again = {} \/ a.link = None THEN given
       ELSE Send(given, e.cmd,
                 IF e.cmd = "load"
                 THEN Image[(CHOOSE c \in e.callback : TRUE).file] ELSE NoTag,
                 e.callback)

\* A fault of the timeouts: the callback is not told.
TimeOutSilent(a, expired) == [a EXCEPT !.pending = @ \ expired]

\* The second half of tick(), the timeouts: the expired commands are given up,
\* a callback among them is told, and a status asks what became of it.
TimeOut(a, expired) ==
    LET callback == UNION {e.callback : e \in expired}
        given == [a EXCEPT
                    !.pending = @ \ expired,
                    !.presenter =
                      IF callback = {} THEN @
                      ELSE P!CallBack(@, CHOOSE c \in callback : TRUE,
                                      P!Failure)]
    IN IF callback = {} \/ a.link = None THEN given
       ELSE Send(given, "status", NoTag, {})

\* A fault of the heartbeat: no state while nothing is pressed.
HeartbeatWhilePressed(a, due) ==
    LET waits(cmd) == \E e \in a.pending : e.cmd = cmd
    IN IF a.link = None THEN a
       ELSE IF a.connected /\ a.pressed # {} /\ ~waits("state")
       THEN Send(a, "state", a.pressed, {})
       ELSE IF ~waits("status") THEN Send(a, "status", NoTag, {})
       ELSE a

\* The heartbeat: a state when the console is there and none is pending, a
\* status, now and then, when it is not.
Heartbeat(a, due) ==
    LET waits(cmd) == \E e \in a.pending : e.cmd = cmd
    IN IF a.link = None THEN a
       ELSE IF a.connected /\ ~waits("state")
       THEN Send(a, "state", a.pressed, {})
       ELSE IF ~a.connected /\ due /\ ~waits("status")
       THEN Send(a, "status", NoTag, {})
       ELSE a

\* The device receives the last lines of a link, two at most.
ReceiveAll(queue, last) ==
    CASE last = <<>>   -> queue
      [] Len(last) = 1 -> Receive(queue, last[1])
      [] OTHER         -> Receive(Receive(queue, last[1]), last[2])

\* The step ends with the record a; a link it closed wrote its last lines.  No
\* more commands wait for replies than the bound allows.
Becomes(a) ==
    /\ Cardinality(a.pending) <= MaxPending
    /\ app' = [a EXCEPT !.endings = {<<>>}]
    /\ \E ending \in a.endings : lines' = ReceiveAll(lines, ending)

-----------------------------------------------------------------------------
(* The Tk thread. *)

\* A fault of tick(): it does not look whose event it is.
TickEventOfAny ==
    /\ events # <<>>
    /\ events' = Tail(events)
    /\ LET e == Head(events)
           a == [app EXCEPT !.ticking = TRUE]
       IN Becomes(IF e.reply = Broken THEN Disconnect(a)
                                      ELSE HandleReply(a, e.reply))
    /\ UNCHANGED <<tag, up, held>>

\* tick() takes an event; those of another link are skipped.
TickEvent ==
    /\ events # <<>>
    /\ events' = Tail(events)
    /\ LET e == Head(events)
           a == [app EXCEPT !.ticking = TRUE]
       IN Becomes(IF e.link # app.link      THEN a
                  ELSE IF e.reply = Broken THEN Disconnect(a)
                                           ELSE HandleReply(a, e.reply))
    /\ UNCHANGED <<tag, up, held>>

\* The rest of tick(): commands that are too old, a link silent for too long,
\* and a status that is due.  (The heartbeat's record is bound with \E, so that
\* TLC computes it once.)
StatusDue == app.link # None /\ ~app.connected
TickEnd(expired, dead, due) ==
    /\ dead => app.quiet
    /\ due => StatusDue
    /\ UNCHANGED <<events, tag, up, held>>
    /\ LET given == TimeOut(app, expired)
           alive == IF dead /\ given.link # None
                    THEN Disconnect(given) ELSE given
       IN \E beat \in {Heartbeat(alive, due)} :
          Becomes([beat EXCEPT !.ticking = FALSE, !.quiet = beat.link # None])

\* A callback of the user interface runs between ticks.
Idle == ~app.ticking

\* connect(): a new link and a first status, or an error.
Connect(ok) ==
    /\ Idle
    /\ app.link = None
    /\ app.made < MaxLinks
    /\ LET a == [Disconnect(app)
                   EXCEPT !.made = @ + 1]
           opened == [a EXCEPT !.link = a.made, !.writer = "running"]
       IN Becomes(IF ok THEN Send(opened, "status", NoTag, {})
                        ELSE Disconnect(a))
    /\ UNCHANGED <<events, tag, up, held>>

\* The button that disconnects.
UserDisconnect ==
    /\ Idle
    /\ app.link # None
    /\ Becomes(Disconnect(app))
    /\ UNCHANGED <<events, tag, up, held>>

\* Keys and buttons; also the timer that ends the grip, and a lost focus.
Key(b, down) ==
    /\ Idle
    /\ app' = [app EXCEPT !.pressed = IF down THEN @ \cup {b} ELSE @ \ {b}]
    /\ UNCHANGED <<events, deviceVars>>

UserRelease ==
    /\ Idle
    /\ Becomes(ReleaseAll(app))
    /\ UNCHANGED <<events, tag, up, held>>

\* present(path) and remove().
Request(phase, step, f) ==
    /\ Idle
    /\ app.ready
    /\ ~app.presenter.busy
    /\ app.presenter.generation < MaxGeneration
    /\ LET a == [app EXCEPT !.presenter = P!Start(@, phase)]
           callback == P!Step(step, a.presenter.generation, f)
       IN Becomes(Send(a, "unload", NoTag, {callback}))
    /\ UNCHANGED <<events, tag, up, held>>

AppPresent(f) == Request("removing", "removed", f)
AppRemove == Request("retiring", "retired", NoFile)

\* The timer of a gap: load().
AppGapOver(g) ==
    /\ Idle
    /\ UNCHANGED <<events, tag, up, held>>
    /\ LET a == [app EXCEPT !.gaps = @ \ {g}, !.presenter = P!GapOver(@, g)]
       IN Becomes(IF P!InTime(app.presenter, g)
                  THEN Send(a, "load", Image[g.file],
                            {P!Step("loaded", g.gen, g.file)})
                  ELSE a)

-----------------------------------------------------------------------------
(* The thread of the link, and the device. *)

\* A packet is written; noise may spoil it.
WriteLine(spoilt) ==
    /\ spoilt => "noise" \in Faults
    /\ app.writer = "running"
    /\ app.out # <<>>
    /\ app' = [app EXCEPT !.out = Tail(@)]
    /\ lines' = IF spoilt THEN lines ELSE Receive(lines, Head(app.out))
    /\ UNCHANGED <<events, tag, up, held>>

\* Reading or writing fails: the thread tells so, tries a last release, ends.
WriterFails(release) ==
    /\ "port" \in Faults
    /\ app.writer = "running"
    /\ Len(events) < EventSlots
    /\ app' = [app EXCEPT !.writer = "failed"]
    /\ events' = Append(events, Event(app.link, Broken))
    /\ lines' = IF release THEN Receive(lines, LastRelease) ELSE lines
    /\ UNCHANGED <<tag, up, held>>

\* The device executes a line and answers; the thread of the link open now
\* reads the answer, unless it is lost.
DeviceAnswers(ok, lost) ==
    /\ Execute(ok)
    /\ lost => app.writer # "running" \/ "noise" \in Faults
    /\ app.writer # "running" => lost
    /\ Head(lines).cmd = "load" /\ ~ok => "noise" \in Faults
    /\ IF lost THEN UNCHANGED events
       ELSE /\ Len(events) < EventSlots
            /\ events' = Append(events, Event(app.link,
                           [id |-> Head(lines).id, ok |-> ok,
                            connected |-> up, image |-> tag']))
    /\ UNCHANGED app

DeviceChanges ==
    /\ \/ LetGo
       \/ Console /\ (up' \/ "console" \in Faults)
       \/ Restart /\ "restart" \in Faults
    /\ UNCHANGED <<app, events>>

AppNext ==
    \/ TickEvent
    \/ \E expired \in SUBSET app.pending, dead, due \in BOOLEAN :
           TickEnd(expired, dead, due)
    \/ \E ok \in BOOLEAN : Connect(ok)
    \/ UserDisconnect
    \/ \E b \in Buttons, down \in BOOLEAN : Key(b, down)
    \/ UserRelease
    \/ \E f \in Files : AppPresent(f)
    \/ AppRemove
    \/ \E g \in app.gaps : AppGapOver(g)
    \/ \E spoilt \in BOOLEAN : WriteLine(spoilt)
    \/ \E release \in BOOLEAN : WriterFails(release)
    \/ \E ok, lost \in BOOLEAN : DeviceAnswers(ok, lost)
    \/ DeviceChanges

AppSafe == AppStart /\ [][AppNext]_vars

\* A tick finds every command of a kind expired, or the link dead.
Expires(kind) ==
    LET old == {e \in app.pending : e.cmd \in kind}
    IN /\ old # {}
       /\ \E x \in SUBSET app.pending, due \in BOOLEAN :
             old \subseteq x /\ TickEnd(x, FALSE, due)
FoundDead ==
    app.link # None /\ \E x \in SUBSET app.pending : TickEnd(x, TRUE, FALSE)

\* tick() is scheduled again each time, takes the events, and time passes: a
\* state that is never answered expires, and a link without any reply is given
\* up.  The link's thread and the device go on.  Replies need not arrive, nor
\* packets, and nobody has to do anything.
LinkFairness ==
    /\ WF_vars(TickEvent)
    /\ WF_vars(\E x \in SUBSET app.pending : TickEnd(x, FALSE, StatusDue))
    /\ WF_vars(Expires({"state"}))
    /\ WF_vars(FoundDead)
    /\ WF_vars(\E spoilt \in BOOLEAN : WriteLine(spoilt))
    /\ WF_vars(\E ok, lost \in BOOLEAN : DeviceAnswers(ok, lost))

LinkSpec == AppSafe /\ LinkFairness

\* For a request it is enough that ticks end, that a load or a removal is found
\* expired, and that timers of after() get their turn between ticks: no event need
\* be taken, no line be written or answered.
AppSpec ==
    /\ AppSafe
    /\ WF_vars(\E x \in SUBSET app.pending : TickEnd(x, FALSE, StatusDue))
    /\ WF_vars(Expires({"load", "unload"}))
    /\ SF_vars(\E g \in app.gaps : AppGapOver(g))

-----------------------------------------------------------------------------

\* Types: the queues and what waits keep their bounds; a callback belongs to a
\* load or a removal, and there is one at most.
AppTypeOK ==
    /\ app.link \in {None, app.made}
    /\ (app.link = None) <=> (app.writer = "none")
    /\ app.writer \in {"none", "running", "failed"}
    /\ Len(app.out) <= OutSlots
    /\ app.pressed \subseteq Buttons
    /\ app.link = None => app.pending = {} /\ app.out = <<>> /\ ~app.ready
    /\ \A e, f \in app.pending :
          /\ e.callback # {} => e.cmd \in {"load", "unload"}
          /\ e.callback # {} /\ f.callback # {} => e = f
          /\ e.id = f.id => e = f
    /\ Len(events) <= EventSlots
    /\ Len(lines) <= LineQueue

\* The application keeps the contract under which the presenter was checked on
\* its own: callbacks of send() and after() are called at most once and with what
\* a reply said, and those it drops (controller.py:316, a full queue at
\* serial_link.py:48, an expired command at :389) it drops with a reset.
KeepsContract == P!PresenterSafe

\* "Only load after an acknowledged removal" (library.py:71): whatever was lost,
\* late, expired or left over from a link closed before, the device never comes
\* to a load while a tag is there.
LoadAfterRemoval ==
    lines # <<>> /\ Head(lines).cmd = "load" => tag = NoTag

\* The application may show the file of a tag that is gone, for a while, but
\* never the name of one file while another is presented.
NeverTheWrongFile ==
    app.presenter.path # NoFile => tag \in {Image[app.presenter.path], NoTag}

\* An event makes the application give up its link only when the thread of that
\* very link failed or its queue is full, never because a link closed before left
\* its failure in the queue of events (controller.py:360).
OwnFailure ==
    [][app.link # None /\ app'.link = None /\ events' # events =>
         app.writer = "failed" \/ Len(app.out) = OutSlots]_vars

\* A request ends, whatever is lost, and the buttons come back.
RequestEnds == app.presenter.busy ~> ~app.presenter.busy

\* When nothing is pressed any more the console is told, even if the release and
\* any number of states are lost on the way, unless the link or the console goes.
LetGoArrives ==
    (app.connected /\ app.pressed = {})
        ~> (held = Neutral \/ ~app.connected \/ app.pressed # {})

=============================================================================
