# FIBR3DEmul / Rep5x: TLA+ models and proofs

This directory holds TLA+ models of the printer emulator, the TLC configurations
that check them on small instances, and TLAPS proofs of what matters most. Every
definition is a translation of the code under `src/`; `PROJECT.json` names the
lines each one stands for.

## 1. The system

A G-code program travels through four programs' worth of code:

```
 G-code file ── Parser.cs ── Translator.cs ── SocketClient.cs          (C#, Windows form)
                                                  │ port 1313: command, echoed back
                                                  │ port 1315: status {line, collision}
 Server.cpp (io thread) ── Listener.cpp ── Trajectory.cpp ── Rep5xMotionAdapter.cpp
        │ target_jpos / paint / line queues               │ messages for the user
 simExtFIBR3D.cpp simMessage (simulator thread) ── joints of the scene (CoppeliaSim)

 simAddOnRep5xSceneBuilder.lua: builds the scene, and plays a G-code file itself
 rep5x_runtime (Python): the same G-code subset, kinematics and adapter, for tests
```

### Components, their state and what makes them correct

| component | state | operations | correct when | model |
|---|---|---|---|---|
| motion pipeline (`simExtFIBR3D.cpp`, queues) | three queues, `ready`, `info_line`, joints | push a sample, module-handle callback, clear after a failed write, drain at the end | each pose is drawn with its own flag, in order, once; the callback returns | `SamplePipeline`, `SampleFifo` |
| status channel (`SessionSend`, `Speaker`) | message queue, one buffer, writes in flight | deliver, completion of a write | each status is sent once, whole, in order | `StatusChannel`, `StatusLine` |
| server (`Server`, `SessionEcho`, `CommunicationManager`) | acceptors, sessions, `io_context`, thread | launch, accept, read, write, stop | a client is served, stopping leaves nothing running and returns | `ServerLifecycle` |
| socket client (`SocketClient.cs`) | two sockets, wait handles | connect, send and wait for the echo, receive status | the echo belongs to the command, a failure is noticed | `ClientWorkers` (its two ports: `ServerLifecycle`) |
| form and workers (`InterpreterForm.cs`) | line last read, list of commands, three background workers | select (peek), next line, single line, from last, all lines, save, highlight, disconnect | lines are sent once and in order, one block at a time, a block ends | `ClientWorkers` |
| G-code parser (`Parser.cs`, `PrintState.cs`, `Translator.cs`) | modal and current state, offset, three velocities | parse a line or a block, peek, reset | the two states agree, options end with their line, a line moves once, a move without F goes at the feed rate before it | `GcodeParser` |
| listener, trajectory and adapter (`Listener.cpp`, `Trajectory.cpp`, `Path.cpp`, `VelocityProfile.cpp`, `Rep5xMotionAdapter.cpp`) | `m_last_position`, `m_joints` | interpret a command | a command starts where the last one ended, no joint jumps or leaves its limits | `MotionPlanner` |
| Lua add-on | moves, index, running, paused, `lastStep`, pose | start, pause, resume, stop, home, jog, actuation, self-test | moves are played once and in order; the self-test's result is true | `LocalPlayback` |
| G-code subset (Lua, Python) | modes, position, moves | read a line, check and validate a pose | the two readers agree, what is played validates | `GcodeSubset` |

How they interact: the two plugin threads share the queues, the status queue and
its buffer (each queue has a mutex of its own, nothing spans two of them); the
io thread is started and joined by simulator callbacks; the client blocks on the
echo of each command, so that it keeps one command in flight; statuses come back
unasked on the second connection.

### What is hard

* *Two threads, several small critical sections.* A sample is three pushes. The
  failure path is three clears. The size, the emptiness and the removal of a
  status message are three sections.
* *Blocking calls on the simulator thread*: `paint.back()`, `consume_back()`,
  `join()`. A wait that nobody ends freezes the simulator.
* *Members shared without a lock*: the UI thread, the parser worker and the worker of
  a save read lines through the same `current_line` and `command` of one `Parser`.
* *Asynchronous buffers*: the status buffer may be refilled while it is sent.
* *Lifecycles*: simulations start and end, clients come and go, a manager may
  or may not be made anew before each run.
* *Stale state*: the position a trajectory starts from, the line a collision is
  reported against, the clock of the playback, the client's last line.

`PROJECT.json` lists the hazards, each at its line, with the properties that
cover it or the reason why none does.

## 2. The modules

Each component's theorems are in a module of their own (`...Proofs`), which
extends it. `MC...`
modules give the constants that a `.cfg` cannot write. Definitions marked "Mutant"
are plausible bugs of the definition behind them; nothing uses them.

### SamplePipeline (with SampleFifo)

One step is one critical section of one queue's mutex. `ppc` is where the io
thread is in the loop of `v_repExtPQSetJointTrajectory` (target, paint, line);
`cpc` is where the simulator thread is in `simMessage`: reading the paint,
writing the joints, popping, clearing after a failed write, taking a line,
draining at the end of the simulation, closing the sessions, joining the thread.
A sample is its number in the order of creation, so that a target and a paint
belong together when their numbers are equal; a line entry carries its line
number and the newest sample at the time of its push. A joint write may fail at
any time (`WriteFails`). Histories: `acted` (the sample last written and the
paint it got) and `reported` (the line entry last taken).

| code | action |
|---|---|
| `Listener::Interpret` of a command with n samples, or with none | `ReceiveMotion`, `ReceiveMotionless` |
| the three `push_front` of a sample | `PushTarget`, `PushPaint`, `PushLine` |
| module-handle callback | `BeginTick`, `ReadPaint`, `WriteSucceeds` / `WriteFails`, `PopTarget`, `PopPaint`, `ClearTarget`, `ClearPaint`, `ClearLine`, `ReportLine`, `NoLineToReport` |
| simulation about to start, ended | `SimulationAboutToStart`, `SimulationEnded`, `DrainTarget`, `DrainPaint`, `CancelSessions`, `JoinServerThread` |
| `simFIBR3D.init` | `LuaInit` |

Nothing keeps a client from sending while queues are emptied (a failed write, the end
of a simulation), and the model lets it. The history `overlapped` remembers that a
command was received during an emptying, or was half enqueued when one began. What the
code seems to rely on, a client that is quiet then, is thus a condition on the
behaviour so far and no restriction of it: `PairedWhenQuiet`, `QueuesEmptyWhenStopped`,
`LineNotAhead`, `CallbackReturns` and `FifoWhenQuiet` speak of the time before the first
such command, `NeverReplays` and `OldSamplesDrained` of all times.

`info` is the global `info_line`: `LuaInit`, which makes a new printer, extruder and
manager, leaves it as it is, and so does the end of a simulation.

`SampleFifo` is the promise: one queue of whole samples, each written once with
its own paint, or discarded, in the order they were made.

### StatusChannel (with StatusLine)

`SessionSend::deliver`, `write` and `handle_write` and the `Speaker` below them.
Both threads run the same steps `Count`, `Look`, `Take`, `Copy`, `StartWrite`:
the number of messages, the second look in `ReadMessage`, the removal in
`consume_back` (which waits while the queue is empty), the copy into `data_` and
the asynchronous write. `Transmit` is the socket: it may read `data_` at any time
between the start of the write and its end, so that it sends what `data_` was, what
it is, or a mixture (`Torn`) when the two differ. The two threads run at any pace; two
histories say how a message met the other thread: `dispatched` holds the messages
handed to a write so far, `hurried` is set when a message is formulated while an earlier
one is still being written or handled, and reset by the next one formulated at rest.
`NoDoubleDispatch`, `OneStored` and `WaitsForTaken` hold at any pace; `UnhurriedReturns`
and `LineWhenUnhurried` are about every message delivered at rest, whatever hurried
ones came before it.

`StatusLine` is the promise: messages numbered as they are formulated, each sent
at most once, unchanged and in order, lost only without a client.

### ServerLifecycle

`Server`, `SessionEcho` and `CommunicationManager` over several simulations, with
a client that connects to the echo port and then to the send port. The pending
accept of a port is a state of its own (`none`, `pending`, `aborted`, `done`), as
are the connection a client has at each port (`away`, `waiting` in the backlog,
`linked` to a session, `dropped` by the server) and a connection that its client
gave up before it was accepted (`ghost`). `ios` is the `io_context` with its
thread; once `run()` has returned it stays `over`, because `restart()` is never
called. `InitEachRun` says whether `simFIBR3D.init` makes a new manager before
each simulation: `README_REP5X.md:55` says that it does, the add-on's
`sysCall_beforeSimulation` no longer calls it, and the plugin does not check.
`LaunchServer(FALSE)` is a launch whose ports cannot be bound because the server
of the earlier simulation still holds them. A first launch that cannot bind is
left out: the code then dereferences a null pointer when the simulation ends.

### LocalPlayback

The Lua add-on as a player. All its callbacks run on the simulator's thread, one
at a time; a step is one callback. The buttons are `BuildScene`, `Open` (a file or
the test trajectory), `OpenFails`, `Start`, `Pause`, `Resume`, `Stop`, `Manual`
(home and jog) and `Speed`; the actuation callback is `Wait`, `PlayMove`,
`MoveFails` or `Complete`; `BeginSimulation`, `EndSimulation` and `Cleanup` come
from the simulator. Without a window (`selfTest`) only the latter happen. A move
is its pose, and `joints` holds the pose each joint was last written for, since
`applyPose` stops at a joint without a handle. `waited` is the difference of the
simulation's clock and `lastStep`, the only thing the code does with either; a
simulation that starts sets the clock to zero, so that a playback that is still
running then waits for as long as its last move was old (`MaxSetBack` bounds it).

### ClientWorkers

The form with its socket client. `doing` is where each thread is: the UI thread
at rest, waiting for an echo, in a message box, in the save dialog or waiting for
the save; the parser and the sender worker, which count as busy until their
completion has been dispatched; the worker of a save. `posted` is the queue of
messages to the UI thread: completions, the disconnect behind a message box, and
the lines which the status callback invokes. `recv` is the callback of each
connection, because that of an older one is still called after a close.

Reading a line is two steps, since the parser is shared: `BeginsLine` sets
`currentLine` and empties `command` and `understand`; `Understands` sets the two to the
text of the line under the number that is current by then (a text is the record
`[line, number]`). A worker adds what `command` is in a third step. `todo` holds the
lines each of the three readers has before it, `job` says what the UI thread reads one
for.

| code | action |
|---|---|
| menu and tool strip | `Connect`, `ConnectFails`, `Disconnect`, `NextLine`, `SingleLine`, `FromLastLine`, `AllLines`, `Save`, `CloseDialog`, `Saved` |
| a selection, `PeekLine`, the line a click sends | `Select`, then `UiReading`: `Peek`, `ReadToSend`, `SendLine`, `UiThrows` |
| `Parser.ParseBlock` on a worker | `BeginParse`, `BeginLine`, `ParseLine`, `AddCommand`, `ParseThrows`, `EndParse` |
| `SendDataBlock` | `SenderSends`, `SenderEnds` |
| `SendBlocking` behind its send | `ReceiveEcho`, `ReceiveNothing`, `Timeout`, `ConnectionGone` |
| `HandleCommunicationFailure` | `Dismiss`, `DismissReceive` and, dispatched later, `FailureHandled` |
| `ReceiveCallback` | `ReceiveStatus`, `ReceiveClosed` |
| the message loop | `ParserCompleted`, `SenderCompleted`, `FailureHandled`, `HighlightLine`; with the option that selects the line, `HighlightSelects`, `Highlighted`, `HighlightThrows` |
| the plugin's sessions (`Server.cpp`) | `Echo`, `Execute`, `PeerCloses` |

A line is a command, a line without one, or a line whose parsing throws. On a
connection the plugin has left, `CloseClient` may fail, which leaves the buttons and the
line last read as they were (`Disconnected`). Two histories name what the code does not
keep apart. `crossed` is set when a save or a single line starts beside a worker (or a
block beside a save): those share the list of commands and the echo connection.
`peeked` is set when the UI thread reads a line amid one of the block's, or the other
way round. `EchoIsOwn` holds until `crossed`, `BlockInOrder` until `crossed` or
`peeked`, whatever the user does with the connection; once `crossed`, the other
histories are no longer kept (`Note`).

Left out: an echo that arrives in two parts (`SocketClient.cs:292-294`, which adds up
what comes until the length is there), and `connectDone`, the event both ports share
(`SocketClient.cs:79-90`): connecting succeeds or fails as a whole.

### GcodeParser

`ParseSingleLine` as a function of the parser's state. `modal` and `current` are
`ModalState` and `CurrentState`; a setter of the first is followed by the second
(the event of `PrintState`), but for the feed rate, which has no event. A line with
numbers is completed by the motion of `current`, run by `ParseMotion`, which copies
`modal` over `current` afterwards, and run again by `ParseElse`; what is sent is the
command of the second run. `position` is `ModalState.position` and `offset` is
`m_ref_offset`; G74 makes them one array, which is `shared`.

`vel` is `m_cmd_vel`, the velocity before, in and after the command. `LookAhead` is
`PeekNextVelocity`: the feed rate it finds in the rest of the file is a choice, since
what comes next is not always what was found (a jump, a comment in the middle of a
line, a line of F alone, which it passes over). `straight` tells the behaviours in
which every promise was kept. `Ramp` is `GetVelocityRamps` for the one mode of
acceleration and the two of deceleration there are.

After G91 the command has the keycode of an increment and the place of an absolute
move, as the code has it; `MovesOnce` is about absolute lines and claims nothing of
these. The ramps are modelled, but never sent: see `OneVelocity` in section 4.

`PeekLine` parses and puts both states back; what else it changed (the offset, the
velocities) stays changed.

### MotionPlanner

`Listener::PushAction` from a command to the joints of the scene. `Trajectories` gives
the samples of each kind of command between the position the Listener believes in
(`last`) and the target, as a set, because a move of no length is undefined in the
code: `quadroots` leaves a root unset, so that the samples are NaN, none, or (rapid)
those of the command before, which `m_joints` still holds. `Interpret` then moves
`last` to the end of the samples, whatever the adapter says, and the adapter takes
all or none of them. An incremental command is planned from zero, as `PushAction` does
it (`Commanded`, `FromZero`). Targets are any poses: C may be 270 degrees. The queue is that of `SampleFifo`, instantiated as `Pipe`: what
`SamplePipeline` shows to be implemented (with a quiet client) is what the planner
is built on. `lost` is set when samples are refused or discarded, which is when the
Listener's belief and the machine part, `cut` when samples on their way no longer
follow each other. The joints are set one by one, so that a write or the reset at the
end of a simulation may stop half way (`Partly`).

| code | action |
|---|---|
| `Listener::Interpret`, which fails to parse or to plan | `Refuse` |
| `Listener::PushAction` with the adapter | `Interpret(kind, inc, target)` |
| `v_repExtPQSetJointTrajectory` | `PushSample` |
| module-handle callback | `Tick`, `WriteFails` |
| simulation ended, `StopServer`, `LaunchServer` | `SimulationEnded`, `Drain`, `ResetJoints`, `StopServer`, `Launch` |

A pose is one linear axis, the tilt and the turn. Angles are in quarter turns, where
sine and cosine are whole numbers, so that the inverse kinematics is exact and the
limits are those of the machine's joint rather than of the tool; samples between are
rounded to this lattice, which keeps a step of one unit and of a quarter turn at most.

### GcodeSubset

`parseGcode` (Lua) and `parse_gcode` (Python) read the same lines side by side. Every
state is the end of a program, so that an invariant is a statement about all programs
up to the bound. Lua keeps the last G of a line, Python runs all of them; in Lua `p`
is the table of the move read last, so that a G92 changes that move (`LuaOffset`).
`plain` holds while every line has a meaning both know; `rewritten` names the moves a
G92 came after. `Plays` is the playback of the moves through `applyPose`, `Validates`
is what the command line computes, which is the joints of the last move only.

## 3. The runs

| run | expects | shows |
|---|---|---|
| `pipeline` | pass | at all times: samples are written in order and once (`NeverReplays`), and the end of a simulation leaves none of those that were on the queues when it began (`OldSamplesDrained`); until a command meets an emptying: `PairedWhenQuiet`, `QueuesEmptyWhenStopped`, `LineNotAhead`, `CallbackReturns`, and the steps of `SampleFifo` (`FifoWhenQuiet`) |
| `pipeline_overlap_pairing` | violation | `Listener.cpp:171-173` promises a pair of joints and extrusion per sample: a simulation that ends between the target and the paint of a sample leaves a paint too many, and the next one, started without `simFIBR3D.init`, draws poses with the flags of others |
| `status` | pass | at any pace: no message is handed to two writes (`NoDoubleDispatch`) or stays in the queue (`OneStored`), one the simulator thread waits for in vain has been taken by the io thread (`WaitsForTaken`); a delivery at rest returns (`UnhurriedReturns`) and goes whole and in order (`LineWhenUnhurried`) |
| `status_hang` | violation | `Speaker.h:19`: the io thread takes the only message between the simulator thread's look and its removal; the simulator waits for ever |
| `lifecycle_init_each_run` | pass | with a new manager each time: the first client is served, nothing runs after the stop, every accepted client is read from, and the stop returns unless a client accepted too late stays |
| `lifecycle_relaunch` | violation | without a new manager the second simulation opens ports nobody serves |
| `playback` | pass | moves are applied once and in order (`PlaysInOrder`), a playback ends (`PlaybackEnds`) and the self-test's result is true (`VerdictIsTrue`) under every order of clicks and simulations |
| `client_workers` | pass | the two workers take turns (`OneBlockAtATime`), a block that nothing crosses and no line read in its midst disturbs is sent in order, once and under its own numbers (`BlockInOrder`), echoes are matched (`EchoIsOwn`), a block ends (`BlockEnds`) |
| `gcode_parser` | pass | options end with their line (`OptionsEnd`), an absolute line run twice moves once (`MovesOnce`); in order and undisturbed, a path without F goes at the modal feed rate (`FeedInOrder`) |
| `parser_feed_modal` | violation | `PrintState.cs:42` calls the feed rate modal; after a click on a line (a peek) the next move without F has that line's |
| `planner` | pass | two simulations with commands of every kind, absolute and incremental: joints and queue stay within the limits (`WithinLimits`), a command starts where the last one ends unless something was lost (`PlanContinues`), no joint jumps (`SmoothPath`), and the joints end where the Listener believes them (`HeadCatchesUp`) |
| `gcode_subset` | pass | on the common subset both readers give the same moves and errors (`SameMoves`), and a program the add-on plays to its end is not refused by the command line (`PlayedValidates`) |

The four violations are the disagreements whose trace takes several actors or lines.
The models show others, where the code does in every case what a comment denies; each
is a few lines of the code away from the model, and where a theorem pins it down, it is
named:

* *Ramps are never sent.* `Translator.cs:64`, `Parser.cs:147-150` and the codes G08,
  G09, G900 and G901 (`Parser.cs:1013-1032`) speak of paths with a ramp before or
  after them. A line with numbers is run twice; the first run settles the velocities
  which the second one, whose command is sent, compares: theorem `OneVelocityHolds`,
  for all lines, feed rates and modes.
* *G91 is not relative.* `Parser.cs:34-35` and `480` say it is. `GetReferencePosition`
  adds the number to the offset and keeps the old place on axes that are not named, and
  that place is sent under the keycode of an increment (`Place`, `Emit`).
* *An increment starts at zero.* `Listener.cpp:101-102` and `123` plan it from five zeros and
  not from the machine's position (`Commanded`); the commands after it go on from there.
* *C takes the long way to 270 degrees.* `Path.cpp:277`: "the default behavior is to run
  the shortest distance". From 0 to 270, which `gcode_examples/5axis.gcode:10` has,
  `SetBCPath` takes 270 and not -90. Theorem `WayIsShort` says exactly for which starts
  and targets the way is short; targets within half a turn of zero are among them.
* *A collision may not be told.* `simExtFIBR3D.cpp:1145-1146` promises a broadcast on a
  new line or a new collision. Both are relative to `info_line`, a global (line 79) that
  outlives the simulation and `simFIBR3D.init`: a client of the second simulation
  is told neither when the line and its collision are those broadcast last in the first.
* *A peek may cost a line.* `Parser.cs:305` says it does not affect the parser. A line
  selected (or highlighted with its selection) between a worker's `ParseSingleLine` and
  the test and `Add` of `command` (`Parser.cs:180-183`) replaces the command: the block
  loses its line and sends the other one. That is why `BlockInOrder` needs `~peeked`:
  without it TLC finds the trace in one block of one line.

Further consequences have no run of their own:

* A client that reconnects in the same simulation is never answered, since neither
  accept handler accepts again (`FirstClientServed` says "first" for that reason).
* Once `overlapped`, a callback may not return: a target whose paint was cleared
  makes `paint.back()` wait on the simulator thread. And the queues may not be empty
  when stopped: a command still being enqueued refills them behind the drain
  (`OldSamplesDrained` says with what).
* A command without samples pushes a line and no target, and one line is popped per
  callback: the line a collision is reported against may lag behind the motion.
* `StopReturns` fails in `ServerLifecycle`: a client accepted between the closing
  of the sessions and the cancelling of the accepts keeps the joined thread.
* A save whose worker throws leaves the UI thread waiting (`Stuck` in `BlockEnds`).
* A peek at a line with G92 or G74 changes the offset.
* A hurried delivery may replace the bytes of a write: the client gets the newer
  message twice and the older one never (`Transmitted`).
* A feed rate on a line of its own before the first motion word is lost: the line has
  no motion to run, and `ParseElse` only looks at G and M.
* G131 always sets the weights 0, because a number without a letter is not a word of
  the expression that splits the line; the weights are left out for that reason.
* A dwell sends B and C divided by 1000 and a circle sends them as zero; the next
  command starts from there. `SmoothPath` leaves their samples out, and the first one
  of an incremental command.
* A program is validated although a move before its last cannot be reached
  (`PlayedValidates` has no converse).
* After G74 position and offset are one array, and later moves accumulate:
  `MovesOnce` is stated for `~shared`. A motion word without numbers takes over
  what the line before left in `current`: `OptionsEnd` is stated for lines with
  numbers.

### Bounds

* Pipeline: `MaxSamples` 4 with commands of up to `MaxBatch` 2 samples (1.53 million
  states); 3 for the violation. A queue out of step needs one sample half pushed and
  one behind it; a replay needs a pop and a second write; a second command needs the
  first finished. Two line numbers tell a change of line from none. `MaxLineQueue`
  limits the commands without samples to the length where the lag shows.
* Status: 4 messages, so that two race for the buffer and one delivered at rest comes
  behind them (826,000 states); 2 for the hang, where one is taken while the
  next is delivered.
* Lifecycle: 2 simulations (the second is the relaunch) with 2 connections each
  (the second is the reconnection). `knocks` counts connections of one simulation.
* Playback: programs of two moves, one with a move that is refused, and the test
  of three; three joints, so that a write can stop between two; two speeds; seven
  clicks, starts and ends, enough to open, start, pause, jog, resume, end and
  begin a simulation in one behaviour.
* Client: two commands of the same length (so that a foreign echo would pass), the last
  of which throws in one file and not in the other, three clicks, two attempts to
  connect: enough to connect, send a block, and do one more thing beside it. A save and
  a block have three lines to read between them (`MaxBeside`), so that one of them may
  begin while the other has a line left; each alone has two, the whole file. (394,676
  states.)
* Parser: a linear axis and a rotary one, the number 1 with an inch of 3, two feed
  rates, 43 lines chosen so that every motion and option is there with and without
  what it combines with, three lines (one to set up, one that leaves something
  behind, one that meets it). Four lines were checked once (1.46 million states).
* Planner: five targets (along the axis, a turn back, the same tilt away from the end
  of the axis and towards it, which is out of reach, and C at 270 degrees), two commands
  and two simulations: one command to go astray and one to start from there, one
  simulation to leave samples to the next (1.33 million states).
* Subset: five lines of 17, enough to change the units and the mode, move, rename and
  move again. An axis of length 4 with moves of 1 and 2 and an inch of 2 reaches its
  ends.

The numbers of samples, messages, commands, launches and connections only bound a
behaviour's length; every queue's length follows from them. `CHECK_DEADLOCK
FALSE` stands where the bounds, or the waits the run is about, really stop the
system.

### Fairness

The two threads of the plugin are scheduled by the operating system: each step
they can take is weakly fair, and so is a callback once begun, since the simulator
calls the plugin at every step of a running simulation (`BeginTick`). A socket
completes the writes it was given. The io thread's accept of each port is fair on
its own, because the operating system queues both. A running simulation calls the
add-on's actuation callback at every step. The form
as a whole goes on (`FormGoesOn`): while any thread of it can take a step, a receive
timeout can elapse or a box or the save dialog can be closed, one of these happens. That
is less than fairness for each thread, and it is enough for `BlockEnds`, because what
the form can do between two clicks is bounded. In
`MotionPlanner` the io thread pushes what was accepted (`PushSample`) and a running
simulation ticks (`Tick`). The parser and the readers are called, and have no
fairness: nothing is claimed of when. Nothing
is assumed of the
client or the user: they may connect, disconnect and end simulations, or never do.

## 4. The proofs

Everything here is checked by TLAPS to the last leaf, for every value of the
constants, from the assumptions named in each module (`PipelineAssumption`,
`ParserAssumption`, ...), which are types and one fact
about the code's own values: the playback has a longest period.

| module | theorems | assumes |
|---|---|---|
| `SamplePipelineProofs` | `TypeCorrect`, `WritesInOrder` (`NeverReplays`), `OldSamplesDrainedHolds`, `QuietPairs` (`PairedWhenQuiet`), `QuietLeavesNothing` (`QueuesEmptyWhenStopped`), `LineNotAheadHolds`, `QuietRefinesFifo` (`FifoWhenQuiet`), `QuietAnswers`, `QuietCallbackEnds` | nothing more |
| `StatusChannelProofs` | `TypeCorrect`, `OneStoredHolds`, `NoDoubleDispatchHolds`, `WaitsForTakenHolds`, `RefinesLineWhenUnhurried` (`LineWhenUnhurried`) | nothing more |
| `ServerLifecycleProofs` | `TypeCorrect`, `QuietWhenStoppedHolds`, `LinkedIsHeardHolds`, `JoinIsAnsweredHolds`, `StopEndsHolds` | nothing more: a new manager or not |
| `LocalPlaybackProofs` | `TypeCorrect`, `PlaysInOrderHolds`, `VerdictIsTrueHolds` | nothing more |
| `MotionPlannerProofs` | `TypeCorrect`, `WithinLimitsHolds`, `PlanContinuesHolds`, `WayIsShort`, `SmoothPathHolds`, `CaughtUpHolds`, `SamplesRunOutHolds` | nothing more |
| `ClientWorkersProofs` | `ClientTypes` (`TypeOK`), `WorkersTakeTurns` (`OneBlockAtATime`), `BlockIsInOrder` (`BlockInOrder`), `EchoesAreOwn` (`EchoIsOwn`) | nothing more |
| `GcodeParserProofs` | `ParserTypes` (`TypeOK`), `BoundModesHolds`, `OneVelocityHolds`, `FeedInOrderHolds`, `OptionsEndHolds`, `MovesOnceHolds` | nothing more |
| `GcodeSubsetProofs` | `TypeCorrect`, `SameMovesHolds`, `QueuedInLimitsHolds`, `PlayedValidatesHolds` | nothing more |

`OneVelocity`, `BoundModes` and `QueuedInLimits` have no run, nor have the statements about
waits and step counts (below): each was checked with TLC before its proof, which says
more.

**Pipeline.** `TypeInv` is `TypeOK` with what it needs of `todo` and `issued`.
`OrderInv` adds that the target queue holds consecutive numbers ending at the
newest sample pushed (`Numbered`), and that the sample last written is gone from
it, unless the pop is still to come: then a write takes a number larger than any
written before, which is `NeverReplays`. Nothing in it relates the two queues, so
that it survives every interleaving. `LateInv` adds that the first `late - 1` samples are
gone from a queue once it has been seen empty, because what is pushed afterwards is newer:
`OldSamplesDrained`.

Pairing is not inductive by itself. The invariant is `Quietly`, which is `QuietInv` as long as
nothing overlapped; since `overlapped` is never reset, each step may assume it of both its
states. `QuietInv` strengthens it with `QuietControl`
(what each thread knows at each place of the callback: the io thread is idle while
queues are emptied, the paint queue is not empty once the paint has been read,
the queues already drained are still empty) and `Aligned` (the two queues have
lost the same number of samples, but for the pop that is half done and the
clears between the two). `Aligned` and `Numbered` together make the heads of both
queues the same sample, which is `PairedActuation` at the write. `QuietLeavesNothing` is
a part of `QuietControl`. The refinement maps the abstract queue to the target
queue without its head while the pop is still to come.

`LineNotAhead` needs more than the order of the line queue: a line is popped once per
callback and a target once per callback too, so that the `i`-th line waiting is at
most that of the `i`-th target (`LineInv`). The invariant counts what a command half
enqueued (`Half`) and a callback half done (`Slack`) add, and holds because a
callback that finds no target takes no sample, and one that fails clears all queues.

**Waits and counts.** Liveness cannot be proved here, but what it rests on can, and
fairness does the rest. `WaitIsAnswered`: the simulator thread waits for a paint only
while the io thread is between the two pushes of one sample (from `Aligned`).
`CallbackEnds`: each step of a callback lowers `Left`, the drains included, because
nothing is pushed while queues are emptied; no other step raises it. Once a command has
overlapped an emptying TLC finds both violated, which is why they are stated for the time
before.
`JoinIsAnswered` and `StopEnds` say it of `StopServer`: once the accepts are cancelled no
new one is pending (`AcceptsInv`), so that only a client linked too late keeps the io
thread. `CaughtUp` and `SamplesRunOut` say it of the planner's samples.

**Status channel.** `StoredInv`: the queue has one message at most, and none unless the
simulator thread, the only one that delivers, is between its delivery and its removal. `NoDoubleDispatch` is inductive in a form that says where each
message can be: in the queue, in one thread's hand or in one write.
`WaitsForTaken` adds that the queue is empty in `consume_back` only when the newest
message is in the io thread's hand or was handed to a write. The refinement needs more
than that, since `StatusLine` also promises the bytes. `UnhurriedInv` says what a message
formulated at rest meets until the next one: the io thread never takes it, and the one
write there may be began with what the buffer still holds; a hurried delivery ends it, and
`StoredInv` makes it true again at the next delivery at rest. Then what is pending is one
message at most, in one place (`PendingPlace`), and a transmission sends it whole.

**Lifecycle.** `LifecycleInv` adds one conjunct to the two properties, that a
handler runs only while the io thread does (`WorkIsRun`).

**Playback.** `PlayInv` carries `PlaysInOrder` with three facts the verdict needs: a
running playback has moves (`NotEmpty`), a self-test has a handle for every joint or
no program (`SelfTestReady`), and while it plays the joints are where the move before
the index left them (`JointsFollow`): the end of a simulation takes them back, but the
next one starts the playback from its first move.

**Client.** Four invariants, each on top of those before. `TurnInv`: the two workers take
turns, because a completion is posted once and its worker counts as busy until the
message is dispatched; without the count of the messages a second completion could start
a second block. `Alone`: until something crosses, a block has neither a save nor a single
line beside it. `OrderInv`: while no line is read amid one of the block's, the text the parser
holds is that of the worker's line (`OwnText`); what is parsed and what is left to parse make up the block in
order, and what is sent is the beginning of what is parsed, so that `BlockInOrder` holds
at every moment of the block. `EchoInv`: on a connection there is nothing, or the command
(or the echo) of the thread that waits, or a failure whose disconnection is posted ahead
of the completion of the worker it hit (`Disconnecting`); the order of these two messages
is what keeps a new block from reading an old echo.

**Planner.** `WithinLimits` is inductive with `TypeOK`. `PlanContinues` needs `PlanInv`:
the joints are at zero from the moment they are reset until the next run, and no
accepted samples remain once the server is stopped; then the new Listener, which
starts at zero, is right; an incremental command keeps it, since `last` follows its
samples too. `WayIsShort` is arithmetic on the choice between the two ways round, for
every size of the turn. `SmoothPath` takes
the samples of a command (`TrajectoryFollows`: the parts of a path differ by one unit at
most, since it has at least as many samples as its longest axis is long), and glues a
command to those before it: it begins at `last`, which `PlanContinues` says is where they
end. A push and a tick only move the point between what was written and what waits.

**Parser.** A line is two runs of a long function, so the proof follows the code: one
lemma per operation says what it leaves of the velocities, modes and units
(`...Effect`), `TwoRuns` puts the runs together: the second one finds the
velocities, units and mode that the first one left, hence no ramp (`OneVelocity`). `PaceInv` adds for
`FeedInOrder` that, as long as promises are kept, the velocity in store is the modal
feed rate, unless the look-ahead has promised the next line's own. `OptionsEnd` and
`MovesOnce` need `WordInv`: `ModalState` never holds the extrusion or the interpolation of
a line, so that each line starts without them. The same walk through the code (the
`...Where` lemmas) follows the place: the second run of a line places the same numbers
from the offset that the first one left, and an axis the line does not name stays.

**Subset.** `SameMoves` is inductive: as long as lines are plain, the last G is the only
one. `PlayedValidates` follows from it: the last move of both readers is the same.

Model-checked only: all liveness (`CallbackReturns`, `UnhurriedReturns`, `FirstClientServed`,
`StopReturnsWithoutClient`, `PlaybackEnds`, `BlockEnds`, `HeadCatchesUp`), which needs
ENABLED. Every other property of a passing run is a theorem. The four disagreements
are counterexamples, which need no proof.

## 5. Not modelled

About two thirds of the 33 000 lines of this repository are not its own: the simulator's
bindings (`coppelia/`), a logging library (`spdlog/`, with `fmt`), and what a build left
behind. They are not modelled. Of its own 10 800 lines, many are geometry, drawing,
dialogs, designer code and text formatting, where there is nothing to interleave.

* Extrusion drawing, collision handles, materials, message boxes: output.
* `simFIBR3D.cleanup`, and `init` during a simulation: they destroy objects the
  io thread is using, and what follows is undefined.
* `v_repExtPQStopPrinting`: nothing calls it.
* In the planner: Y and Z, arcs by radius or in other planes or with turning axes,
  velocities (a sample is a unit), the loading of a profile.
* Floating-point geometry (`Math2.cs`, `Device.cs`), dialogs, the tools, the scene
  contract, generated and vendored code.
* In the add-on: the shapes of the scene, and `state.pose`, from which a jog starts
  (a jog asks for any pose).
* In the form: opening and clearing a file, the report, the tree of the line shown,
  connecting in two steps with its wait handles, an echo in parts, a second save while the worker of the
  first still runs.
* In the parser: the weights of acceleration (G130, G131, G231), the offsets of G53
  to G59, M words, the time of G04, and how a text is split into words.
* In the subset: comments, F, E and M words, CONICAL_META, and what a malformed number
  does.

## 6. Plan

Done: `SamplePipeline`, `StatusChannel`, `ServerLifecycle`, `LocalPlayback`,
`ClientWorkers`, `GcodeParser`, `MotionPlanner`, `GcodeSubset`, and the proofs of
section 4. Open:

1. The wait handles of the client's two ports (`connectDone` is never reset), composed
   with `ServerLifecycle`.
2. The print states of `GcodeParser` under the threads of `ClientWorkers`: a peek copies
   and restores them, and a disconnect resets them, while a worker parses.
3. `state.pose` of the add-on against the joints, over the end of a simulation.
4. Y and Z in the planner, so that `SmoothPath` speaks of the whole geometry.
