# A TLA+ model of the ESP32 Switch controller

An ESP32 pretends to be a Pro Controller. A PC sends it controller states and
amiibo images over a serial line; a console (the *host*) talks to it over
Bluetooth Classic. This directory holds models of the firmware and of the two
PC programs, their TLC configurations, and proofs for the prover TLAPS.

    tlc  -config MCReplies.cfg MCReplies.tla
    tlapm PcControlProofs.tla

## 1. Inventory

| Part | Source | State | Operations |
|---|---|---|---|
| NFC microcontroller | `main/nfc_mcu.c` | image presented, `seen`, power and poll state, ring of 4 packets | load, unload, power, config, the 0x11 requests, peek and commit, reset |
| Controller state | `main/controller_state.c` | one record of buttons and sticks | initialise, get |
| PC control | `main/pc_control.c` | queue of 4 lines, `last_state`, `linked`, `tag_loaded` | reader task, poll every 10 ms, commands, release after 500 ms |
| Switch protocol | `main/switch_proto.c` | report mode, stream enabled, timer byte | output reports and their replies, numbering |
| Transport | `main/btstack_hid.c` | `connected`, `send_pending`, ring of 8 replies, input timer | link events, output reports, can-send-now, timers |
| HID device profile, L2CAP | `components/btstack/src/classic/hid_device.c`, `l2cap.c` | two channels, transaction state, the request to send, the channels' wait flags | incoming channels, transactions, can-send-now events |
| Report packing | `main/input_report.c` | none | two layouts of buttons and sticks |
| SPI image | `main/spi_flash.c` | constant tables | a read across regions |
| Bluedroid transport | `main/bt_hid.c` | `s_connected`, `s_send_in_progress`, input timer | two tasks that send, link and report events |
| BLE transport | `main/ble_hid.c` | another build's flags | experimental |
| PC application | `pc/controller.py`, `pc/serial_link.py` | pending commands, buttons, the link's outgoing queue and thread, the queue of events | connect, disconnect, send, replies, timeouts, heartbeat, keys |
| Presenter, library | `pc/library.py` | phase, generation, file and CRC presented; settings | present, remove, reset, observe; load and save |
| Command-line session | `pc/session.py`, `pc/cli.py` | reply queue of bounded length, the reader's error | send and wait, press and release, reader thread |
| Line framing | `main/pc_control.c`, `pc/serial_link.py` | two buffers | a byte, a chunk |

How they interact. In the firmware one FreeRTOS task runs BTstack's run loop:
HID and L2CAP callbacks, the 24 ms input timer and the 10 ms PC timer. A second
task reads the UART and shares only the queue of lines with the first. Output
reports go from L2CAP through the profile and the transport to the protocol,
which changes its mode or the NFC microcontroller's state and puts a reply into
the transport's ring; replies, and input reports with the controls (and in
mode 0x31 an NFC packet), leave one by one as L2CAP gives can-send-now events,
and the profile's own handshakes compete for those events. The PC's poll writes
the controls and loads or removes images.

On the PC the application's Tk thread runs callbacks of buttons, timers and a
tick every 50 ms. Each serial link has a thread of its own, which writes the
link's outgoing queue and puts replies, and its own failure, into one queue of
events that outlives the link. The presenter runs inside the Tk thread: it sends
commands with callbacks through the application and is reset by it whenever the
link is given up. The command-line session has a main thread that waits for
each reply and a reader thread that fills a queue of replies. Both talk to the
firmware in lines that may be lost, cut, refused or answered late.

What is hard, and what makes each part correct:

* *NFC microcontroller* — requests of the console, loads and removals of the PC
  and refused reports in any order, over a queue of four. No packet of a tag
  that is gone, none outside NFC mode, the fragments of a read together, and no
  "held" before a "found".
* *PC control* — the reader races the poll; the queue fills and drops a line;
  the run loop is late; the link changes while lines are queued. Controls must
  be released in time and be pressed only by a command of a connected PC.
* *Switch protocol and transport* — a number is taken when a report is built and
  sent, refused or dropped later; replies come before input reports; the ring
  fills. Numbers in sequence but for those of refused input reports, no reply lost,
  repeated or overtaken.
* *Profile and transport together* — a request to send is held in three flags
  (`send_pending`, `user_request_can_send_now`, L2CAP's
  `waiting_for_can_send_now`) written by different handlers, some nested in
  each other. No wakeup may be lost, and the notions of "connected" must agree.
* *Presenter and PC application* — callbacks after a timeout or a disconnection
  that may happen inside the call, delayed steps of an abandoned workflow, events
  of a link closed before, commands that were executed although their reply was
  lost, a device that restarts unnoticed. No load while a tag is presented, no
  name shown that was not confirmed, every request ends, and a button let go of
  is let go of on the console.
* *Heartbeat* — four times set in two programs (50 ms, 250 ms, 500 ms, 3 s) that
  must fit together.
* *Session* — Ctrl-C, an error or a dead reader anywhere in a press; replies to
  commands given up; the reader's test of a full queue races the main thread.
* *Bluedroid transport* — two tasks test and set a flag without the mutex.
* *Lines, settings, flash image, packing, rings* — boundaries: a line too long or
  cut anywhere, a save that fails halfway, addresses that wrap, bits and nibbles,
  a ring that is flushed and refilled over old slots.

`PROJECT.json` lists the hazards at their lines, with the properties that cover
them.

## 2. The modules

    Ring ── refines ── BoundedQueue       (the two rings, as sequences elsewhere)

    NfcMcu ──┬── PcControl ────┐── refines ── PcDevice ──┬── PcApp ── INSTANCE Presenter
             │                 │                         │                     │
    ControllerState ───────────┼── BtstackHid            └── PcSession      refines
             │                 │       │                                       │
             └── SwitchProto ──┤    refines                               PresentFlow
                 HidDevice ────┘       │
                                   ReplyLine

    alone: BtHid  SpiFlash  InputReport  SerialLines  Heartbeat  Settings

**NfcMcu** (`nfc_mcu.c`). One action per C function; `poll()` and `reserve()`,
called from several, are operators on the queue (`AnswerPoll`, `Reserve`). The
ring is the sequence of its live slots, and `present` is `tag # NoTag`. A packet
is a record of its kind, the tag whose bytes it carries and the state it tells.
The history variables `wire` and `announced` remember the last packet sent and
whether the console has been given this detection's identity.

**ControllerState** (`controller_state.c`). `controls` is a model value for each
setting of buttons and sticks.

**PcControl** (`pc_control.c`). `commands` is the FreeRTOS queue; a poll is
`PollBegin`, up to `PollBatch` times `PollCommand`, and `PollEnd` with the
timeout check, and the reader (`ReaderLine`) and the clock (`Tick`) may run
between any two of these. `age` counts the ticks since `last_state`; that
`last_state == 0` means "none" is `age = 0`. `sincePoll` bounds how late a check
may be. A line is refused before it changes anything, or is one of the
commands; refused lines and `status` are `OtherLine`. Where `PcControl` is checked
alone, a new connection also resets the NFC microcontroller (`PcNext`), as the
transport does in the same callback (`btstack_hid.c:258-259`), so that the
composition's steps are steps of it.

**SwitchProto** (`switch_proto.c`). `HandleOutput(o)` is
`switch_proto_handle_output()` with the handlers it dispatches to up to the
reply, whose number it takes; `Replies(o)` says which requests get one. The
subcommands that only acknowledge are one value, `"ack"`.

**HidDevice** (`hid_device.c`, and of `l2cap.c` the wait flags). A channel is
`"none"`, `"accepted"` (its id is known, it is not open yet) or `"open"`; the
profile announces a connection when both ids are known, as the code does. The
HIDP states that wait for an answer are one, `"handshake"`. `HidHandshake` has
two outcomes, because the call that repeats the application's request may
deliver further events before the state is idle again
(`hid_device.c:357-359, 851`, `l2cap.c:2883-2906`).

**BtstackHid** (`btstack_hid.c`) composes all of them. Every callback is one
action that calls what the code calls: `Opened` runs the profile's handler and,
when it tells the application, `AppOpened`, with `PcConnection`, `ProtoReset`
and, through it, `NfcReset`. `CanSend(ch, ok)` is the event, the profile's
choice between a handshake and the application, and `send_next_report()`; `ok`
is L2CAP's answer; `skipped` counts the numbers that refused input reports have spent
since the console received its last report. `ReceiveData` is an output report on either
channel, since the profile takes DATA from both (`hid_device.c:639-659`). No callback runs while a poll is under way, since both run
in the run loop.

**ReplyLine** is the abstract specification of the reply path: replies accepted
are answered in order, each once, nothing is lost except by a connection's
beginning or end, and while the console is up each is eventually answered.
`BtstackHid!ReplyPath` maps the ring, the last reply received and "both channels
open" to it.

**PcDevice** is the device as a PC program may rely on it: a short queue of lines
that loses what does not fit, a tag, a console that comes and goes, controls
that are let go of at any time. `PcControl!ServesPc` says that the firmware
implements it; the PC programs are checked against it, so that no run needs the
firmware and a PC program together.

**Presenter** (class `Presenter` of `library.py`). Handlers are operators from the
presenter's record to its next, because the application calls several of them
in one go; a callback is a record of its step, its file and its generation, as
the closure is in the code. `PresenterSpec` drives it by the contract of its two
hooks, with every way in which a reset can come (`Abandon`): between calls, inside
`send()`, or while a reply is being handled. **PresentFlow** is the promise to
the user: removal, gap, load, confirmation, and a request ends.

**PcApp** (`controller.py`, `serial_link.py`) has the application's state in one
record, its methods as operators on that record in the order in which they call
each other (`HandleReply` may call `ReleaseAll`, `Send` and `Disconnect` before it
goes on), and one action per callback of the Tk thread, of the link's thread and
of the device. A tick is `TickEvent` for each event and `TickEnd`, between which
the other threads run but no other callback. `KeepsContract` shows that it drives
the presenter within `PresenterSafe`, so that what is checked of the presenter
alone holds inside the application.

**PcSession** (`session.py`) cuts each method where it waits. `doing` is where
`run_session()` and `press()` are, `waits` where `send()` is. The reader's test of
a full queue, its removal of the oldest and its insertion are three actions. `Ended` says
where an error, a time-out, Ctrl-C or a failing write leaves `send()` and its caller
(`After`).

**Heartbeat** has the steady state of the application and the device with a clock
of 10 ms, and nothing else: PcApp leaves the times out, Heartbeat the rest.

**SerialLines** gives the same stream of bytes to the firmware's reader, byte by
byte, and to the PC's decoder, in chunks of any size. **Settings** cuts
`Library.save()` at each call of the file system. **BtHid** (`bt_hid.c`) follows
each of two tasks from one access of shared memory to the next. **SpiFlash** and
**InputReport** are the functions of their files as operators; the first is checked
against the memory its table describes, the second against the tables by which a
console reads the reports. **Ring** has the index arithmetic of both rings and
refines **BoundedQueue**, which is what the other modules take them for.

The modules whose names end in *Proofs* hold the theorems (section 4); **PartsProofs**
has those of Ring, Settings, Heartbeat, SpiFlash, InputReport and BtHid. **MCBtstackHid**,
**MCPcApp** and **MCPcSession** give the constants for TLC. **MCReplies** runs the two ends of
the firmware side by side: a behaviour is either the PC's commands without a console's
requests, or a console's requests with a silent PC.
**MCParts** puts the parts that are checked alone into one instance: a behaviour
belongs to one part, chosen at the start, and leaves the variables of the others
as they were, so that its states are the sum of the parts' and not their product.

Operators commented "A fault" (`LoadWithoutFlush`, `SendReplyOnce`, ...) are
plausible bugs. No action uses them: each stands in for the operator it
precedes to confirm that a property notices it.

### Assumptions of the models

Of the firmware:

* Handlers of the run loop do not interleave with each other; the UART reader
  interleaves with everything. ("Only the BTstack run loop accesses controller
  and tag state", `pc_control.c:24`.)
* An L2CAP channel the host opens is closed, never reported as failed
  (`l2cap.c:2921`), and the host does not close one channel while the other is
  being configured, other than by losing the whole link. There is one host.
* The device does not open connections and does not close channels itself.
* `HostReopens = FALSE` describes a host that closes both channels of a
  connection before it opens one again. With `TRUE` it may reopen one alone,
  which the profile accepts.
* Before the first connection the controller record is all zeros, sticks
  included; no report is built before `pc_control_connection()` sets it.
* Logging, diagnostics (`nfc_diagnostics`, stall warning) and the text of UART
  answers decide nothing and are left out. The virtual grip is only ever set
  to false in this build.

Of the PC programs:

* Tk runs one callback at a time; `tick()` takes its events in order.
* Time is abstracted in PcApp and PcSession: a command may expire at any tick that
  has not handled its reply, a deadline may pass whenever the queue was found
  empty. In PcSession this leaves out one thing: a queue fed without end for three
  seconds.
* Sequence numbers are unique among everything in flight: the code draws them from
  a range of 2^31 and counts up.
* A load is refused only when noise damaged it: the file passed `load_bin()`.
* Several replies in one read are several events. What a line's JSON says is
  either understood or the line is lost.
* One instance of the application writes the settings file, and a rename is
  atomic.

Of Bluedroid: each report it accepts ends with a `SEND_REPORT` event, or with the
connection; its callbacks run in one task.

## 3. The runs

| Run | Question | Result |
|---|---|---|
| `replies` | can controls stay pressed too long, or be pressed by anything but a command of a connected PC? is the firmware the `PcDevice` that the PC programs rely on? | no; yes |
| | is a wakeup lost, or a reply lost, repeated, overtaken or left waiting? | no (host closes both channels) |
| `link` | do a tag read, the notions of "connected" and the report numbers survive refused reports, competing replies and any order of channel events? | yes; a refused input report leaves a gap of one number |
| `release` | is a released control eventually shown to the console? | yes |
| `retry` | is a waiting reply retried although the host reopens one channel? | **no** |
| `enabled` | is the header right on when the stream is enabled? | **no** |
| `pc_app` | does the application load over a tag, show a wrong name, break the presenter's contract or give up a link for another's failure? | no |
| `pc_request` | does every request end, whatever is lost? | yes |
| `pc_let_go` | is a button let go of on the console, whatever is lost? | yes |
| `pc_session` | does "released" mean released? does the reader ever have to drop a reply? | yes; not if the queue is long enough |
| `parts` | each part of `MCParts`, under every order of its operations | all hold |
| `bt_backlog` | does the flag keep reports from piling up in the Bluedroid stack? | **no** |
| `flash` | does a flash read write no more than it is asked for? | **no** |

The properties of `parts`: `NfcTypeOK`, `NoStaleTag`, `TagDataOnlyInNfcMode`,
`DetectedBeforeHeld` (NfcMcu; the fifth, `FragmentsInOrder`, is checked in `link`
and proved); `PresenterTypeOK`, `Served`, `ShownIsConfirmed`, `KeepsPromise`
(Presenter); `WholeLines`, `LinesPreserved` (SerialLines); `StaysHeld` (Heartbeat);
`SettingsSurvive` (Settings); `SomeoneClears`, `KeepsSending` (BtHid); `ActsAsQueue`
(Ring); `ReadsMemory` (SpiFlash); `ShowsControls` (InputReport).

**Bounds of the firmware's runs.**

* *Tags*: two in `parts` (an old and a new one are all a stale packet needs), one
  elsewhere.
* *NFC queue*: 4 as in the code in `parts` and `replies`; 3 in the other runs of the
  composition, the least that holds a read, where it fills just as well.
* *Reply ring*: 8 in the code, 2 or 1 in the runs. Full, empty, refused with
  and without a successor are all reached with two; nothing depends on the size.
  `parts` has the arithmetic of a ring of 4.
* *Timer byte*: `TimerMod` is 256 in the code, 2 or 3 in the runs. `NumbersInOrder`
  compares numbers at most `ReplyQueueSize + 1` apart; `link` uses 3 for one
  slot, so that all of them differ and the wrap is passed often. Its view (`LinkView`)
  identifies states that differ only in where the numbers begin, and leaves out the
  last reply received, which no step or property of that run looks at.
* *Lines*: queue and batch of 3 in `replies`, 4 in the code: a poll may drain
  the queue, leave some, and find lines the reader added meanwhile. Two settings
  besides neutral tell a new press from the old one.
* *Time*: `Timeout` (500 ms) and `PollSlack` (the run loop's lateness) are 2
  ticks each, 1 in `release`: the check is passed early, at, and after the limit.
  `age` needs no bound of its own, because `PollEnd` resets it.
* *Stimuli*: each composed run has the output reports and lines its question
  needs (`MCBtstackHid`): acknowledgements, a rejected request and mode changes
  for the replies; one press for `release`; the requests of a read, answered
  subcommands among them, for `link`.
* *Bluedroid*: `StackRoom`, reports in the stack, is 3: two of them at once, and
  one past the flag, are the interesting cases.
* *Flash*: the code's own table and lengths, 0 among them, addresses of 16 bits around
  every region and around both ends. *Packing*: every set of up to three buttons, axes
  at the edges of nibbles and bytes.

**Bounds of the PC programs' runs.**

* `pc_app` has two files, interchangeable (symmetry), one line waiting in the
  device, one packet in the link's outgoing queue, one event and two commands
  pending: with these, a queue is full, a reply late, a callback pending together
  with a heartbeat, and a line of a closed link still in the device while the next
  link is open. Generations and links are not bounded in effect: `MCView`
  identifies states that differ only in numbers compared for equality, so the
  counters' bounds (500, 100) are never reached. No button is held there; buttons
  have nothing to do with tags, and `pc_let_go` has one.
* `pc_request` and `pc_let_go` check liveness and use neither view nor symmetry.
  They have one link and one request, or a button and no file, and the faults that
  can hide a reply or a release: noise, and a console that goes.
* `pc_session` checks two sizes of the reply queue, 1 (full at once, so that the
  reader's three steps are interleaved with everything) and 6, one more than
  `LineQueue + Transit + 2`. The code's 128 is far beyond. Sequence numbers count
  from the last one by its view.
* `parts`: five generations of the presenter (a request, two resets, another
  request and its reset); streams of 7 bytes with a line buffer of 3 and a
  decoder's limit of 2, so that lines fit, just do not, and span chunks; the
  heartbeat's real times in units of 10 ms, delays up to 60 ms and one loss at a
  time.

**Fairness** (`BtstackHid!Fairness`), used for the leads-to properties and the
refinement. `WF` of the PC's poll: the timer handler arms itself again and ends.
`SF` of the clock, the input timer and the handshake: the run loop serves them,
and a poll only disables them for a while. `SF` of a can-send-now event that
L2CAP follows with an accepted report: L2CAP does not refuse every report it has
just offered a moment for, and the host's transactions do not take all of them.
Nothing is assumed of the host (it need not send, open or close anything) or the
PC (it need not send a line).

In `PcApp` (`LinkFairness`, `AppSpec`): `tick()` schedules itself again and takes
its events; the link's thread and the device go on with what is in their queues,
and an answer or a packet may be lost every time. Time passes: a command that
waits without a reply is found expired by some tick, and a link without replies
dead. `RequestEnds` (`AppSpec`) needs less: ticks end, a load or removal without a reply
is found expired, and (`SF`) the presenter's `after()` callbacks get their turn between
ticks; the link and the device need do nothing. In `Presenter` alone: every callback given to a hook is called in the end or
dropped with a reset. In `BtHid`: both tasks run, the timer fires, and the stack
tells the end of what it took (`SF`, as the BTC task is busy in between). Nobody
has to press, connect or stay.

**What the runs say.** `NoLostWakeup` and `RequestsAgree` relate the three flags
of a pending request; the first is why the liveness half of `RepliesInOrder`, the
refinement of `ReplyLine` with its fairness, holds. `ReleaseIsShown` follows
one press from the serial line to the air: replies queued before the release
still carry the press, and each later report must be able to end it.
`NumbersInOrder` is about what the console can see: the numbers of the reports it
receives continue each other but for the input reports L2CAP refused, whose numbers
`build_input_report()` spends before the send (`btstack_hid.c:91-108`), one for each, and
but for a reply a full queue dropped. A refused reply keeps its number.
`LinkAgreement` includes that the input timer is not in the run loop's list when
it is added, which BTstack asserts (`btstack_run_loop.c:112`).

`ServesPc` ties the two sides together. `KeepsContract` does the same inside the
PC program: the presenter's liveness (`KeepsPromise`) was checked under a contract
that lets calls be dropped only with a reset, and the application does no more.
`LoadAfterRemoval` holds although a retry is just what would break it: a load that
was given up and is still on its way meets a device whose removal it follows. The
limits of `StaysHeld` are tight: with delays of 70 ms, or with two losses in a row,
the device lets go of a button that is held, as a state expires after 250 ms and
the device after 500 ms. So is the bound of `NothingDropped`, which lets the
reader's unguarded `get_nowait()` (`session.py:64`) pass: with fewer slots the
reader may find the queue full, and then empty, and die. One more thing the session
does is in the model and worth knowing: when the release of `press()` fails after
Ctrl-C, its error takes the place of the interrupt and the session goes on
(`session.py:92, 121`); `Released` holds, as nothing is said to be released.

**Disagreements found.**

1. `HeadReplyIsRetried` (`retry`): "Preserve the head reply until L2CAP accepts
   it" and "retry on timer" (`btstack_hid.c:106-108`). A host that closes only
   the interrupt channel with a request outstanding and opens it again leaves
   `send_pending` set, while the new channel waits for nothing. The timer
   (`btstack_hid.c:143`) and the next reply (`:367`) ask only when it is not
   set, so nothing is sent until the connection ends.
2. `EnabledByMode30` (`enabled`): `switch_proto.h:52` says the stream is enabled
   by mode 0x30; the code enables it for 0x31 and 0x3F too. The flag only
   controls log messages today.
3. `NoBacklog` (`bt_backlog`): the comment at `bt_hid.c:713` says that the flag
   keeps reports from piling up in the stack. The esp_timer task and the BTC task
   both test it (line 719) before either sets it (724), and `SEND_REPORT` clears it
   also for an answer to GET_REPORT that went past it (691, 615), so two reports
   and more may be under way. It does no lasting harm: `SomeoneClears` and
   `KeepsSending` hold.
4. `StaysInAnswer` (`flash`): `spi_flash.h:21-22` has `len` as the number of bytes to
   read and `out` as a buffer of at least so many. For length 0 at address 0, which the
   subcommand passes on (`switch_proto.c:174-195`), the last address of the range,
   `addr + len - 1`, wraps to 0xFFFFFFFF; every region overlaps it
   (`spi_flash.c:154`), and the data of each are written at `out[`its address`]`, from
   0x6000 on, far behind the answer. `ReadsMemory` holds of all other reads, the ones
   whose addresses wrap and of length 0 elsewhere among them.

Seen while modelling, and not checked by a run of their own: `disconnect()` drops
the callbacks of pending commands, although the presenter states that each is
invoked exactly once (`library.py:73`); `KeepsContract` shows why it does not
matter. Two comments disagree with the tables that `ShowsControls` compares. The
comment on the shared byte at `controller_state.h:49` has "- + LS RS Home Capture"; the
masks in the same file (`:29-30`), the PC's table (`protocol.py:8`) and the layout at
`input_report.c:15` all have the right stick's button (bit 2) before the left one's
(bit 3), and these are what `ShowsControls` is about. The comment on the short report's
sticks (`input_report.c:124-126`, one byte for an axis) is not what the loop below it does
(two bytes), which agrees with the report's descriptor (`btstack_hid.c:62`); of the
comment at `input_report.c:120-126` the property uses the buttons and the hat only.

## 4. The proofs

All theorems hold for every value of the constants that satisfies the named
assumptions of the modules:

* `NfcAssumption` (a queue of at least three slots, `NoTag` no tag),
  `ControlsAssumption` (neutral is a setting), `PcAssumption` (sizes positive,
  times natural, lines well formed), `ProtoAssumption` (well-formed output
  reports, at least two report numbers), `ReplyAssumption`, `RingAssumption`,
  `BtAssumption` (sizes positive), `HidAssumption` (`HostReopens` a Boolean),
  `FlashAssumption` (ordered regions of bytes, more than `MaxLen` from both ends of the
  addresses, as the code's are, which end below 0x10000), `ReportAssumption` (12 bits),
  `LinesAssumption` (`NL` and `CR` are two bytes and no letters, the buffer has a size).
* `PresenterAssumption` (a file has an image; no file, no image and the files and
  images differ), `SettingsAssumption` (no file, a damaged one and settings are
  three things), `SessionAssumption` (sizes positive, neutral is no press),
  `AppAssumption` (a file has an image; no image is `NoTag` and no file `NoFile`; sizes
  positive; neutral is no button). There are as many links and requests
  as `MaxLinks` and `MaxGeneration` say, any two numbers.
* `HeartbeatAssumption` (times natural; a state and its answer take less than the
  state's expiry) and `MarginAssumption`, which is what the four times of the two
  programs must satisfy. With the code's times, delays of 60 ms and one loss the
  device's release has 49 of its 50 ticks used up and the application's limit 50
  of 300.

**NfcMcuProofs** proves `NfcTypeOK`, `NoStaleTag`, `TagDataOnlyInNfcMode`,
`FragmentsInOrder` and `DetectedBeforeHeld` of `NfcSpec`. Typing comes first.
`NfcShapes` then says that each of the actions changes the queue in one of a few
ways (`Emptied`, `Restarted`, `Extended`, `ReadQueued`, `Committed`, `Kept`),
so that each invariant is argued over those rather than over all actions. The
properties are not inductive alone; `NfcSafety` adds `HeldIsSeen` (poll state 9
only if the tag was seen), `PollingInNfcMode`, `TagDataSound` (a packet with
data carries the tag presented, in NFC mode) and `SeenIsTold` (a tag that was
seen has been announced or is announced by a queued packet). Without the last,
a "held" packet could be queued from a state in which `seen` is true and
nothing has told the console.

**PcControlProofs** proves `PcTypeOK`, `DeadMan`, `LoadedIsPresented` and
`OnlyStatesPress` of `PcSpec`, and the refinement `ServesPc`. `DeadMan` is a
statement about the controls; the inductive `Held` speaks of the age of the last
state, which exists only while a console is linked and is bounded by the timeout
and the ticks since the last check. The bound grows with the clock and is
re-established by `PollEnd`, however many commands ran before it. `CommandEffect`
sums up the commands: press, release or neither. `OnlyStatesPress` is an action
property and follows from typing and the actions; it is what a stale line across
a reconnection must not break. For `ServesPc` each step of the reader, the poll, the
clock and the connection is shown to be an action of `PcDevice` or a stutter;
`LoadedIsPresented` is needed there, since the abstract device has one notion of
its tag where the firmware has two.

**BtstackHidProofs** is about the whole firmware. `FirmwareUsesNfc` shows that
`Spec` implements `NfcSpec`, and the same steps keep the invariants of
`PcControlProofs`, so that `FragmentsInOrder`, `DeadMan` and `ServesPc` carry over to
the composition. Then come the invariants of the composition itself:

* `LinkAgreement`, inductive with the types. `LinkChanges` lists what can happen to
  the link; the hard cases are the second channel of a pair and a channel that closes
  while the other one stays.
* `RequestsAgree`. `RequestChanges` shows that every step asks for a moment, leaves
  the request alone, passes it on behind a handshake, or uses it (`Asked`,
  `LeftAlone`, `PassedOn`, `Told`), or else changes the link. Inductive only with
  `FreshRequests`: without a connection the profile has no request, from which it
  follows that the next connection starts without one.
* `NoLostWakeup` over the same cases. It is proved for `~HostReopens` only, and is
  false otherwise: that is finding 1 below the runs, and the assumption is used
  exactly where one channel opens while the other is there.
* `NumbersInOrder`. A step does one of eight things to the queue of replies and the
  counter (`ReplyChanges`); for each, the numbers that are queued and the next one stay
  consecutive modulo `TimerMod` after the last number received plus the numbers refused
  since (`Spends`; `ModSum`, from division with remainder), for any size of the ring,
  including one larger than `TimerMod`.
* `RepliesKeepTheLine`: the safety part of `RepliesInOrder`, over the same eight cases.

**PartsProofs** shows that `Ring` refines `BoundedQueue` (`ActsAsQueue`): indices are in
range, and `NextIndex` moves `% Size` over one step of the head. `SettingsSurvive` is
inductive with types. `StaysHeld` needs `BeatInv`: the last state is in one of five
places (not sent, on its way, applied, its reply waiting for a tick, lost), and in each
the time since the device applied a state, and since the last reply, is bounded by the
state's own age, the length of a turn and what the losses so far have cost (`Debt`). The
limits are `MarginAssumption` at the worst of these places. `ReadsMemory` comes down to
`CopiesTheData`: the test of an overlap and the intersection, in arithmetic that wraps, find
just the data at the addresses asked for. That needs the table to be more than a longest
read below the largest address, which `FlashAssumption` now says; without it a read that
wraps misses a region near the end. A read of length 0 at address 0 is left out of the
statement (`WrapsToEverything`), as the property is false of it. For `ShowsControls` the table of the PC and those of the
console are shown to be inverse to each other (`TablesAgree`, `MasksAgree`), so that it holds
for any number of buttons where the run has three.

**PresenterProofs** proves `PresenterTypeOK`, `Served` and `ShownIsConfirmed` of
`PresenterSafe`, the presenter driven by every legal use of its hooks, and that it
implements the safety part of `PresentFlow` (`KeepsTheOrder`). The invariant
`PresenterInv` adds what callbacks exist (`CallbacksKnown`) to the three. Each action has
one of four effects on the request, `Begins`, `MovesOn`, `EndsRequest` and
`LeavesRequest`; they keep `Served` (`EffectsServe`) and are the steps of the flow
(`EffectsAllowed`). What makes the effects true is the generation: a reset outdates
every callback, so that a late one does nothing, and a request has only its first.

**PcSessionProofs** proves `SessionTypeOK`, `Released` and `NothingDropped`. All three
need an invariant of their own. With the types goes `Sound` (what the reader holds is
the answer to no later command). `Released` rests on `InOrder`: the lines, the answers,
the reply in the reader's hand and the queue of replies are one line, and the command
last sent, or the reply to it, is the last in it. So when the reply to a release is
taken, nothing is behind it, and `LetsGo` says that the device has executed it.
`NothingDropped` rests on `Bounded`: what is on its way is at most what the device and
the line can hold, one command that is awaited, and one for each command given up since
`send()` last found the queue empty, which can be three (in `press()`, in its release, and
in the last release). From this bound the reader never finds the queue full.

**PcAppProofs** proves `AppTypeOK`, `LoadAfterRemoval`, `NeverTheWrongFile` and
`OwnFailure` of `AppSafe`, and the refinement `KeepsContract`. A step of the application
is a chain of methods, any of which may end in `Disconnect` halfway. So the invariant
`AppInv` is `StateTyped` and an operator on the application's record, `Sound`, and each
method (`Send`, `Disconnect`, `ReleaseAll`, `HandleReply`, `TimeOut`, `Heartbeat`) has a
lemma from `Fine` to `Fine`: `Sound`, for all that the thread of a link closed on the way
may still write. The parts of `Sound`:

* `LoadsSound` has the argument. A load on its way, in the link's queue or the
  device's, is the only one, and meets no tag and no name shown. None is on its way
  while the presenter waits for the gap's end; there is none behind a command whose
  reply has a callback, and what answers it tells the tag that is there. Without the
  latter, a late reply to a removal could let a load follow one still on its way. A
  load given up stays harmless because the removal of the next request is behind it.
* `CallsSound` and `GapsSound`: one callback waits, and one timer, in the phase that
  fits; all others are late, and do nothing.
* `EventsSound`: a failure in the queue that names the open link is true. `OwnFailure`
  follows from it.

`LoadAfterRemoval` and `NeverTheWrongFile` are conjuncts of `LoadsSound` read at the head
of the queue. For `KeepsContract` every step is one of six to the presenter (`Kept`,
`Asks`, `Hears`, `Sees`, `Loads`, `Drops`), and `Counted` bounds the generations that
disconnections add by two for each link, the bound of the presenter inside the
application. With it, PresenterProofs is instantiated in the application: `AppServes`,
`AppShowsConfirmed` and `AppKeepsTheOrder` say there what `Served`, `ShownIsConfirmed` and
the refinement of `PresentFlow` say of the presenter alone.

**SerialLinesProofs** proves `WholeLines` and `LinesPreserved` of `LinesSpec`: what an
automaton finds byte by byte, or chunk by chunk, is what the split of all its input has. The
ends of lines are a set of positions, and the k-th line is found by counting them (`Kth`),
so that no definition is recursive. That a set of k positions has a k-th comes from an
induction over a set of natural numbers (`AllNat`), and that from a least element (`Least`).
`KthJoins` and `AtEachJoins` take apart the positions of two sequences joined, and with them
`SplitByte` and `SplitEnd` say how one more byte changes the lines of a stream.

* For the device, `ReaderInv` says what the buffer and the flag are about: the text since
  the last end of a line is the buffer when it fits, and the flag is set just when it does
  not. An end of a line hands on that text, or nothing.
* For the PC, `BufferInv` says that the buffer is what was read after some position of the
  line being read, its beginning unless more than the limit has been read of that line: the
  buffer may have been cleared in it, once or often. The lemmas `Window...` compare the
  lines found in the buffer and a chunk with those of all that was read: the ends are the
  same, and only the first line may begin later.

PartsProofs also proves `BtTypeOK` and `SomeoneClears` of `BtSpec`. The second is
inductive once the types are known. It holds although both tasks may find the flag
clear: a task that sets it is itself the one that will clear it, or give the stack
a report whose end clears it, and `OPEN` starts anew. That the timer exists just
while the console is connected is part of the types.

Only model-checked:

* liveness (`ReleaseIsShown`, `RequestEnds`, `LetGoArrives`, `KeepsSending`, and the
  liveness halves of `RepliesInOrder` and `KeepsPromise`): fairness is `ENABLED`, which is
  beyond the prover.

## 5. Not modelled

* The **BLE transport** is experimental, has no PC control, and its state is driven
  by ESP-IDF's stack. **Transport dispatch and start-up** choose a transport at
  compile time and initialise it.
* Of the **Bluedroid transport**: discovery, the pairing window and the search for
  a console, which drive state inside Bluedroid; modes, which SwitchProto has.
* Of the **PC programs**: widgets, texts, the list of files, log files, the parsing
  of typed commands; `load_bin()`, a pure check of a file that the firmware repeats,
  stands for the choice of files that pass it.
* Of **BTstack**: all but the HID profile's device role and L2CAP's can-send-now
  events. It is a vendored library of some 190 000 lines, most of the repository;
  the firmware depends step by step on no more of it than is modelled. Outgoing
  connections, boot reports and SDP records are not used by this program. Handshakes
  repeated by a nested event (`hid_device.c:851`) are modelled in their effect on the
  profile's state, not as messages.
* What a flash read of length 0 at address 0 does to the memory behind the answer: that
  it writes there is modelled, what it destroys is not.
* That `nfc_unload()` drops a pending status packet (`nfc_mcu.c:48`) is modelled, but
  nothing in the code or its documents promises otherwise.

## 6. Plan

All modules planned are written, and every safety property and every action property that
the runs check of the program is proved. Liveness stays with TLC.
