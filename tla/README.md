# Verification of ddsm115_ros2_driver

TLA+ models, TLC runs and TLAPS proofs for the ROS 2 driver of Waveshare
DDSM115 motors in `src/`. The driver puts several motors on one RS485 bus,
sends each a 10-byte frame per control cycle, stops the motors whose clients
have gone silent, and turns the motors' single-turn positions into continuous
joint angles.

    tlc -config node_deadlines.cfg MCDriverNode.tla  # one run
    tlapm DriverNodeProofs.tla                       # one module of proofs

`PROJECT.json` lists the runs, the mutants that show each property can fail,
the source lines of every definition, the hazards and the theorems.

## 1. The system

| Component | State | Operations | Works with |
|---|---|---|---|
| `DDSM115DriverClient` (`src/src/ddsm115_driver_client.cpp`) | port, I/O thread and asio context, `reading_`, receive buffer, registered IDs, last command type per motor | `init_port`, `close_port`, `reinitialize_port`, `send_*`, `write_packet`, `start_async_read`, `parse_buffer`, `process_feedback_packet` | the motors over the bus; calls its owner back from the I/O thread |
| `DDSM115NodeHandler` (`src/src/ddsm115_node_handler.cpp`) | per motor: last command and its time, `timed_out`, `active_mode`, last status, wrap tracking; cycle counter | constructor, `set_command`, `check_timeouts`, `execute_control_cycle`, `process_feedback`, `get_joint_state`, `produce_diagnostics` | sends through the client; called by the node (executor thread) and, for feedback, from the I/O thread |
| `DDSM115DriverNode` (`src/src/ddsm115_driver_node.cpp`) | timers, topics, the handler and the client | constructor, command topics, control timer, 100 ms timeout timer, destructor | owns a client and a handler; one executor thread |
| `DDSM115LifecycleDriverNode` (`src/src/ddsm115_lifecycle_driver_node.cpp`) | the same, created and destroyed by transitions | `on_configure`, `on_activate`, `on_deactivate`, `on_cleanup`, `on_shutdown` | the same |
| `DDSM115SystemHardware` (`src/src/ddsm115_system_hardware.cpp`) | motors with command and state interfaces, communication thread | `on_init` ... `on_deactivate`, `read`, `write`, `communication_loop`, feedback callback | the controller manager's thread, the communication thread, the I/O thread |
| `set_motor_id.py`, launch files, configuration | none | write one frame five times; start nodes | not modelled |
| the motors (external) | control loop, target, shaft | obey mode and value frames, answer 0x64 frames with their position, 0x74 frames with their temperature | the bus |

A command travels from a topic (`set_command`) into the handler's state, from
there once per control cycle into a frame, and over `write_packet` to the
motor. The reply is read on the I/O thread, parsed, decoded and handed to
`process_feedback` under the handler's mutex, and published.

What makes this hard:

- **One thread does everything that has a deadline.** The executor runs both
  timers and all command callbacks. The control cycle sleeps 5 ms after every
  frame, and a failed write reopens the port, which takes 500 ms; while it does,
  no watchdog runs.
- **The bus gives no acknowledgement to the callers.** Every `send_*` result is
  dropped; a frame can be lost on the wire.
- **Meaning depends on hidden state.** A value frame does not say which control
  loop it is meant for: the motor's loop decides. A reply does not say which
  request it answers: the client's memory of the last request decides.
- **Every 20th cycle is different.** It asks for temperatures instead of sending
  commands or stops, and brings no position back.
- **Wraps are guessed** from two samples of a single-turn position.
- **Threads and life cycles**: I/O thread, executor, communication thread, and
  transitions that create and destroy what those threads use.

What makes each component correct:

- client, codec: values saturate, bytes are recombined into the same number,
  a reply is decoded as what it is;
- client, framing: however reads cut the line, every intact reply is found, once
  and in order, and nothing else is taken for one;
- client, port: after a reopen the port is read again, a closed port stays closed
  until somebody opens it, threads are joined;
- handler and node: a motor follows the latest command, in the loop it was
  given for, within a bound; a motor whose client is silent is stopped within a
  bound, and eventually even when frames are lost; diagnostics do not hide it;
  the end of the node stops every motor;
- handler, feedback: no turn is gained or lost; temperature and position
  packets do not disturb each other;
- managed node: nothing is sent in an inactive node, a stale command is not
  resumed, a repeated configuration behaves like the first;
- hardware plugin: there is one sender at a time, no command follows the stop of
  a deactivation, motors are always addressed in velocity mode, and a command
  that stands arrives.

`PROJECT.json` lists the hazards behind these, each at its line, with the
properties that cover it or the reason why none does.

## 2. The modules

| Module | What it is |
|---|---|
| `ValueCodec` | values to data bytes and back: rounding, saturation, byte order |
| `MotorBus` | frames, the outcomes of `write_packet`, what a motor does with a frame |
| `NodeHandler` | commands, watchdog flags, cached modes; what one slot of the control cycle sends |
| `DriverNode` | the standalone node: the executor thread, its timers, time; the properties |
| `DeadMan` | abstract: what the watchdog promises, a dead man's switch per motor |
| `DriverNodeRefinement` | how `DriverNode` implements `DeadMan` |
| `FeedbackPath` | replies: request type, decoding, wrap tracking, one motor |
| `LifecycleNode` | the managed node: transitions around the same handler, timers and callbacks |
| `DriverClient` | the port under its two threads: opening, closing, reopening, the chain of reads |
| `Crc8` | the checksum of a frame, bit by bit as the code computes it |
| `FrameSearch` | abstract: a search for frames along a line that is never cut |
| `FrameParser` | the reads, `buffer_` and `parse_buffer`, while motor ids are registered; implements `FrameSearch` |
| `SystemHardware` | the ros2_control plugin: its callbacks against its communication thread |
| `MCDriverNode`, `MCLifecycleNode`, `MCFeedbackPath`, `MCFrameParser`, `MCSystemHardware` | instances for TLC (`DriverClient` is run as it is) |
| `MotorBusProofs`, `DriverNodeProofs`, `DriverNodeDeadlineProofs`, `LifecycleNodeProofs`, `FeedbackPathProofs`, `DriverClientProofs`, `FrameParserProofs`, `SystemHardwareProofs` | theorems |

`ValueCodec` <- `MotorBus` <- `NodeHandler` <- `DriverNode` <-
`DriverNodeRefinement` <- `MCDriverNode` (each EXTENDS the one before);
`DriverNodeRefinement` instantiates `DeadMan`, and `LifecycleNode` EXTENDS
`DriverNode`. `SystemHardware` EXTENDS `MotorBus` too: the plugin uses the same
client, but neither handler nor node. `FeedbackPath` stands alone: the
feedback half of the handler shares no field with the command half, and its
state is one record per motor, independent of the other motors. `DriverClient`
looks inside what `MotorBus` takes for one step, the reopen: there the bus and
the motors play no part, only threads do. `FrameParser` (which EXTENDS `Crc8` and
instantiates `FrameSearch`) looks inside what `DriverClient` takes for a chunk
and `FeedbackPath` for a reply.

### How the model corresponds to the code

*Values.* A command value is a double; the model counts tenths (0.1 A, 0.1 RPM,
0.1 degree). `RoundQuot` is `std::round`, `Clamp` is `std::clamp`. NaN is out.

*Frames* are records of what their bytes mean to a motor (kind, loop, the
16-bit number, brake), not bytes. `type` and `loop` of a value frame remember
which call built it, for the properties; a motor does not look at them. The
driver's own stop is `send_velocity_command(id, 0, 0, true)`.

*A write* (`WritePacket`) has five outcomes: the motor gets the frame; the frame
is lost on the wire (`noise`); the write throws and the port is reopened
(`reopen`) or stays closed (`closed`); the port was already closed (`refused`).
`MaxFaults` bounds the first three kinds of failure. `Delay` is the 500 ms a
reopen takes.

*The executor thread* is `pc`. `idle` is spinning; `serve` is inside
`execute_control_cycle`, with motor `i` next. Every frame and the sleep behind
it is one step (`Slot`), because time passes there and the frame's fate is
decided there; callbacks that neither sleep nor write are one step
(`TopicCallback`, `TimeoutTimer`, the latter with the diagnostics that the same
callback publishes). The mutex of the handler needs no variable: the two halves
it separates share no field.

*Time* is a count of ticks. `Tick` lets it pass while the thread waits, and may
do so only while no timer is due; `Elapse` lets it pass inside a `Slot`. A timer
that is called late keeps its phase, so that less than a period may be left
until it is due again. The executor takes the timers that are ready in turn: a
control cycle does not run twice while the timeout timer is due (`overtaken`).
`age` saturates at `AgeCap`.

*The motor* (external) keeps its loop across restarts of the driver, so it may
be in any loop when the driver starts.

*Replies* (`FeedbackPath`): `SendRequest` is the motor's slot of a cycle
(command, or query every `QueryPeriod` cycles), with the turn of the shaft since
the cycle before, and the motor's answer or its loss. `ReceivePosition` and
`ReceiveTemperature` are the parsed packet going through
`process_feedback_packet` and `process_feedback`: which of the two happens is
decided by `last_sent`, not by the packet. Angles are counts, `N` to the turn in
two base-`B` bytes (32767 and 256 in the code); the raw position 32767 and the
raw position 0 are the same angle, and a motor may send either. Damaged frames
are lost (`FrameParser` shows why).

*The managed node* (`LifecycleNode`) shares the handler and the code of the
timers' and the topics' callbacks with the standalone node, so `ControlTimer`,
`Slot`, `TimeoutTimer`, `TopicCallback` and `Tick` are `DriverNode`'s actions.
`state` is the primary state, or the one the transition under way leads to;
nothing runs between the two on a single thread. The stops of `on_deactivate`
and `on_shutdown` are the loop `SendStop`. Which transitions a state allows is
rclcpp_lifecycle's (external). `checked` and `since` are histories: whether the
timeout timer has fired since `on_activate`, and how long ago that was. A finalized node takes commands that nothing
reads; they are left out, and so are exceptions in a transition.

*Threads* (`DriverClient`): `user` is the owner's thread inside the client,
`close_port` one statement per step; `io` is the I/O thread. `open()`, the
options, the first read, the restart and the new thread are one step, because no
I/O thread exists then (`Quiet` checks it). Boost.Asio is external; the model
relies on this much of it: reads wait in the reactor, one tries for data at once
when no other waits; a completed read has filled its buffer before its handler
is queued; closing a port queues the handlers of its waiting reads with an
error; a stopped context runs nothing, keeps its queue and goes on with it after
a restart; `run()` returns when the context is stopped or has no work. Bytes come
in numbered chunks. `mutex` is the handler's `state_mutex_` as far as the owner's
thread holds it: throughout the handler's constructor, and in sections that
send nothing.

*The receive buffer* (`FrameParser`): `stream` is every byte the line has
carried, a history; the code keeps `buffer` (`buffer_`) and, inside
`parse_buffer`, `pos`. `Read` is a completed read of any size up to
`read_buf_`; then each window of ten bytes is one step, because that is how long
`ids_mutex_` is held: `Deliver` (a frame: passed on, the bytes up to its end
erased), `Skip`, and `GiveUp` where no window is left (the bytes before the last
nine erased). `CallIds` is the configuring thread's next call of
`register_motor_id`, `unregister_motor_id` or `clear_registered_motor_ids`, and
may come between any two windows: the managed node registers its ids after the
port has been opened. The line (external) carries intact frames and scraps of
frames, in any order. What becomes of a frame that is passed on is
`FeedbackPath`'s subject.

*The plugin* (`SystemHardware`): `callback` is the callback under way and `next`
the motor its loop has come to; `thread` is where `communication_loop` is. The
loop copies the command of a motor (`CopyCommand`) and sends it later
(`SendCommand`), so both the controllers and `on_deactivate` come in between.
The callbacks' loops send and sleep, so each pass is a step. Controllers write
an interface at any time (`SetCommand`): `write()` does nothing, and the loop
reads the interfaces itself. The controller manager is external: it calls one
callback at a time, in the order its life cycle allows, and may destroy the
plugin in any state. Velocities are tenths of an RPM throughout; the factor to
rad/s is left out.

## 3. What TLC checks

The instances scale the timing down. A tick is coarse, a sleep is a tick or
nothing, a period one or two, so that sleeps and reopens make timers late as
often as they can; the temperature is queried every second or third cycle
instead of every 20th, so that the unusual cycle meets everything else. The
time-out is one tick where only its order against the timers matters, and
longer than a command's deadline in `node_deadlines`, where a command must have
the time to be applied before it expires.

| Run | Checks | Shows |
|---|---|---|
| `node_deadlines` | `TypeOK`, `CommandReadAsMeant`, `WatchdogReported`, `ShutdownStops`, `StoppedInTime`, `AppliedInTime`, `ImplementsSwitch` | two motors, two loops, sleeps during which timers become due, nothing lost: commands are read in the unit they were given in, a silent motor holds the stop and a motor follows its newest command by the deadlines, diagnostics never hide a stopped motor, the destructor stops all, and the node implements `DeadMan` |
| `node_faults` | `WatchdogBound`, `StoppedDespiteLosses`, `WatchdogStops` | noise, reopens and failed reopens, commands with a mode byte that selects no loop: the watchdog is late by at most one check period and two control cycles; unless the port is closed for good, a lost transmission delays the stop of a silent motor by one wait at most, and the stop arrives in the end |
| `lifecycle` | `LifeTypeOK`, `InactiveMeansStopped`, `CacheFollowsMotors`, `WatchdogBoundOnceChecked`, `StoppedAfterActivation`, `AppliedAfterActivation`, `StaleOnlyAtFirst` | two motors, every order of transitions: a node that is not active leaves its motors stopped, a new handler agrees with motors that remember an old one, the watchdog's bound is back one check after an activation, a command from before it is sent no later than that check and gives way to the stop one wait after it, and a live command is applied one wait after the activation |
| `angle_tracking` | `TypeOK`, `Exact`, `StatusTruthful` | less than half a turn between positions, one reply lost, queries in between: the joint angle is exact and the status truthful |
| `client` | `TypeOK`, `Attended`, `Quiet`, `ChainsBounded`, `ReadOnce`, `NoLockCycle`, `CloseReturns` | whatever the threads interleave, over two reopens: a client that is reading has a live thread and a read under way, no handler runs after `close_port`, reads do not multiply beyond one per open, chunks enter the buffer once and in order until the first reopen, the join is never part of a lock cycle, and `close_port` returns even on a silent bus |
| `parser` | `TypeOK`, `BufferIsRest`, `DeliveredApart`, `NoFrameMissed`, `OnlyRepliesDelivered`, `ImplementsSearch`, `RepliesArrive` | three frames and scraps in every order and cut in every way, ids registered meanwhile: the buffer is the unread rest of the line and stays short, no byte is in two frames, no frame is missed, nothing but the replies of known motors is passed on once the ids are settled, every such reply is passed on in the end, and the cuts do not show (`FrameSearch`) |
| `hardware` | `TypeOK`, `OneSender`, `InactiveMeansStopped`, `ReadAsVelocity`, `CommandArrives`, `DeactivateReturns` | two motors, one inverted, one failed transmission, every order of callbacks: loop and callbacks never send at once and no activation meets an old thread, a deactivation leaves the motors stopped, motors are addressed in velocity mode, a command that stands arrives although a frame is lost, `on_deactivate` returns |
| `stop_mode` (violated) | `StopIsBrake` | finding 1 |
| `mode_lost` (violated) | `CommandReadAsMeant` | finding 2 |
| `full_speed` (violated) | `Exact` | finding 3 |
| `deaf_port` (violated) | `OpenMeansActive` | finding 4 |
| `reactivation` (violated) | `FreshCommand` | finding 5 |

`parser` computes real checksums, and `MCFrameParser` assumes two facts about
them that TLC evaluates: the vectors of
`src/test/test_ddsm115_driver_client.cpp:29-42`, and that one or two damaged
bits anywhere in a frame are noticed.

The bounds and why they are enough:

- *Two motors* where the loop over the motors matters (a motor served late
  because of the one before, the destructor's loop); one motor where faults or
  liveness make the state space large.
- *Deadlines.* `WatchdogDeadline = Timeout + CheckPeriod + 2 * CycleTime`,
  `StopDeadline` and `ApplyDeadline` add one query cycle and one command cycle.
  They are tight: with `SlotTime = 0` a deadline one tick shorter is violated.
  `MCDriverNode` assumes `AgeCap >= WatchdogDeadline`; `node_deadlines` sets
  `AgeCap` above `StopDeadline`, and `node_faults` above
  `StopDeadline + 2 * ApplyDeadline`, the deadline after two failures, so that a
  missed deadline shows.
- *Faults*: up to two, which is enough to lose a stop twice, or to lose a frame
  and reopen; `WatchdogBound` and `StoppedDespiteLosses` are proved for any
  number.
- *Commands*: `node_faults` has a current, a velocity at which the codec
  saturates, with the brake, and a mode byte that selects no loop; `stop_mode`
  and `mode_lost` have a command for each loop; the other runs a current and a
  velocity, so that loops are switched.
- *Angles*: `N = 31` counts in base 8, `Step = 5`, one lost reply and a query
  every 4 cycles, just under half a turn (2 * 5 * 3 < 31) between positions;
  two turns either way.
- *Life cycle*: as many transitions as may happen; no sleeps, a time-out of one
  tick.
  `MCLifecycleNode` assumes `AgeCap > WatchdogDeadline`; `lifecycle` sets it above
  `StopDeadline` and `FirstCheck + ApplyDeadline`, where the deadlines after an
  activation would be missed. With nothing lost those are checked without the
  allowances that `StoppedAfterActivation` makes for failed transmissions; the
  theorem has them.
- *Parser*: three pieces, so that a reply has a neighbour on either side: the
  other motor's reply, the beginning of a reply, the end of one, or a reply with
  a damaged bit. A read returns any number of the bytes waiting; `ReadSize` is
  the code's 256. The configuring thread clears the ids, registers two motors
  and unregisters the first, at any point.
- *Plugin*: two motors, so that a loop can be left half done; two speeds; one
  transmission fails, by noise, reopen or failed reopen.
- *Client*: three opens, so that handlers left over from a first and a second
  close can pile up, and four chunks, so that each of three chains can lose one.

`CommandReadAsMeant`, `ShutdownStops`, `StoppedInTime`, `AppliedInTime`,
`AppliedAfterActivation`, `InactiveMeansStopped`, `CacheFollowsMotors`, `ReadAsVelocity` and the refinement
of `DeadMan` speak of a bus that loses nothing; `WatchdogBound`,
`StoppedDespiteLosses`, `StoppedAfterActivation`, `StaleOnlyAtFirst`, `WatchdogStops`,
`CommandArrives`, `OneSender` and everything about the parser and the client do
not.

*Fairness.* `FairSpec` is weak fairness of the executor thread as a whole
(something ready is run: `rclcpp::spin` does so) and of `Tick` (time passes).
Nothing is assumed about clients, and nothing about single timers: that both
get their turn follows from the order in which the executor takes them. Faults
are finitely many in a run; a bus that loses every frame stops no motor.

`DriverClient!FairSpec` is weak fairness of the statements of `close_port` and
`reinitialize_port` and of the handlers: both threads are scheduled. Nobody has
to write, to finish, or to send data, so a close cannot count on a read that
completes.

`FrameParser!Spec` is weak fairness of the I/O thread and of the configuring
thread; nothing makes the line carry anything, so a reply arrives without
another byte having to follow it. `SystemHardware!FairSpec` is weak fairness of
the callback under way and of the communication loop; no callback has to be
called and no controller has to write.

*Deadlock* is checked in the runs of the nodes, of the client and of the
feedback: a node or client that has ended stutters (`Terminated`, `Over`).
`parser` and `hardware` say CHECK_DEADLOCK FALSE: a line may fall silent with
everything parsed, and a destroyed plugin does nothing more.

## 4. What is proved

For every number of motors, set of commands and faults, and all periods,
under the named assumptions on the constants and what a theorem says it needs
besides:

- `TypeCorrect` (`DriverNodeProofs`): `Spec => []TypeOK`. Most of it is that the
  loop counter stays inside `motor_ids` and that every number put into a frame
  fits into two bytes, for which it uses the codec lemmas.
- `WatchdogInTime`: `Spec => []WatchdogBound`. The bound alone is not inductive:
  whether a motor may still be trusted depends on where the thread is in the
  control cycle and how long the timeout timer has been due. The invariant
  (`WatchdogInv`) gives every point of the cycle its *grace*, the time that may
  still pass before the timeout timer gets its turn, and says that the age of a
  command the watchdog still trusts is at most the deadline less that grace
  (`OnTime`). A `Slot` spends a part of the grace, a `Tick` only passes while the
  timer is not due, and `overtaken` caps the number of cycles that come first.
- `DiagnosticsHonest`: `Spec => []WatchdogReported`.
- `DestructorStopsAll`: `Spec => []ShutdownStops`, and `CommandsReadAsMeant`:
  `Faults = {} => (Spec => []CommandReadAsMeant)`; `mode_lost` shows that the
  second needs its assumption. Both follow from `Heard`, which says what the
  motors hold as long as no frame has been lost: behind `i` in the constructor's
  loop they are in velocity mode, from then on in the cached loop (`Cached`),
  and behind `i` in the destructor's loop they hold the stop.
- `SilentStoppedInTime`, `CommandsAppliedInTime` (`DriverNodeDeadlineProofs`):
  `QueryPeriod > 1` gives `Spec => []StoppedInTime` and `Spec => []AppliedInTime`.
  With a query in every cycle no command would ever be sent; the code's period
  is 20. `Wait(m)` bounds the time until motor `m` is next sent a value or a stop: what
  is left of the control timer and of the cycle under way, one cycle more if the
  next one queries, and the slots before `m`. Every step that lets time pass
  takes it from every wait, or else it serves the motor (`PaidNext`), and no wait
  is longer than `ApplyDeadline` (`WaitBounds`, where `NoTwoQueries` is used). So
  the sum of a command's age and the wait does not grow until the motor is served
  (`Punctual`), and the slot that serves it leaves it with its newest
  command in the right loop, for which `Heard` is needed, or with the stop.
- `SilentStoppedDespiteLosses`: `QueryPeriod > 1` gives
  `Spec => []StoppedDespiteLosses`, whatever fails: what `WatchdogStops` says of
  some time is said here of a time. Frames that are lost count against an
  allowance, `faults * ApplyDeadline`. A motor that the watchdog has stopped
  either holds the stop or is within its deadline and allowance (`HeldLate`,
  `Repeated`). A slot that serves the motor in vain leaves a wait of
  at most `ApplyDeadline`, the time of the slot and of its reopen included, and
  has raised the count by one, so the allowance pays for it (`ServedLate`);
  transmissions to other motors that fail only raise the allowance
  (`AllowanceGrows`).
- `NodeIsDeadMansSwitch`: `Faults = {}` and `QueryPeriod > 1` give
  `Spec => ImplementsSwitch`: every step of a standalone node whose transmissions
  all arrive is a step of `DeadMan`. A slot is `Drive`, `Halt` or, for a query, a mode switch
  or an unknown mode, `Wait`; the check is `Disarm`, a command `Hear`, a stop of
  the destructor `Halt`. That time never passes a deadline of the switch is
  `WatchdogBound` and `Punctual`.
- `LifecycleTyped`, `InactiveStopsAll`, `CacheTrue`, `WatchdogBackInTime`
  (`LifecycleNodeProofs`): four invariants of the managed node, for every
  order of transitions. `Places` says in which state the thread can be where;
  `LifeHeard` is `Heard` with the transitions: a motor holds a command only in
  the active state or in the loop of stops that ends it (`Stopping`), and the
  caches are true from the end of a configuration to the cleanup. The callbacks
  shared with the standalone node are steps of `DriverNode`, so its lemmas
  (`TypeStep`, `CounterNext`, `SlotHeard`, `ConstructHeard`, `WatchdogNext`)
  apply unchanged; `CheckWatches` says that one check is enough to establish
  `OnTime`, whatever was the case before.
- `StaleCommandsEnd`: `LifeSpec => StaleOnlyAtFirst`, and, for `QueryPeriod > 1`,
  `SilentStoppedAfterActivation`: `LifeSpec => []StoppedAfterActivation`, whatever
  fails. They bound what finding 5 shows. Until the first check the ages say
  nothing, but the time since `on_activate` and the time to the check add up to
  at most a check period and the grace (`FirstDue`, `FirstInTime`), as `OnTime` says
  of ages afterwards. A motor that does not hold the stop is within the
  deadline of its age or, with the same allowance, within that of the
  activation (`AfterActivation`); what passes is taken from its wait in both sums
  (`Paid`, `SincePaid`).
- `CommandsAppliedAfterActivation`: `QueryPeriod > 1` gives
  `LifeSpec => []AppliedAfterActivation`. A command taken while inactive has an age
  but spent no wait, so that its deadline runs from the activation
  (`ActiveApplied`).
- `NoTurnLost` (`FeedbackPathProofs`): `Timely => (Spec => []Exact)`. `Timely`
  says that no reply is later than its cycle and that the shaft turns less than
  half a turn in `MaxLost + 2` cycles: the lost ones, one query and the cycle of
  the next position. The invariant explains every cycle since the last position
  as lost, asking for the temperature, or having its answer under way
  (`Explained`), which bounds the distance turned (`Near`); `HalfTurnDecides`
  is the arithmetic behind the unwrapping. At the default 20 Hz with nothing
  lost, `Timely` is a speed below 300 RPM. `full_speed` shows it is needed.
- `StatusFollowsMotor`: `Spec => []StatusTruthful`, and `FeedbackTyped`:
  `Spec => []TypeOK`, both for `MaxPending = 1` alone: that no reply is later than
  its cycle is all that keeps positions and temperatures apart, whatever is lost
  and however fast the shaft turns. Their invariant (`StatusInv`) says that a
  reply under way answers what was sent last.
- `CommandSaturates`, `BytesRoundTrip` (`MotorBusProofs`): every value
  saturates to what its mode allows, and the bytes of every 16-bit number are
  recombined into it, signed and unsigned.

- `ParserTypes`, `BufferKeepsRest`, `FramesApart`, `NothingMissed`,
  `ParserImplementsSearch` (`FrameParserProofs`): the invariants of the parser and
  the refinement of `FrameSearch`, for every set of frames and scraps, every size
  of reads and every order of calls on the ids. Types and `BufferIsRest` are
  inductive together (`ParserInv`, with the bound on `pos`): a read appends the
  next slice of the line, an erasure drops its front, and adjacent slices join.
  From that a window of the buffer is a window of the line, which makes
  `DeliveredApart` and `NoFrameMissed` inductive in turn and maps every step of
  the parser to a step of the search, or, for reads and erasures without a
  frame, to none.
- `OnlyReplies`: `Spec => [](Separable => OnlyRepliesDelivered)`. `Separable` says
  of the line, not of the parser, that no stretch of it other than an intact
  frame has a known id and the checksum that fits. On such a line nothing
  else is passed on, however reads cut it: what was accepted at a position
  once the ids were settled is still accepted there (`StillAccepted`), since the
  line only grows.
- `ClientTypes`, `PortAttended`, `ClosedIsQuiet`, `OneChainPerOpen`,
  `ChunksInOrder`, `JoinHoldsNoLock` (`DriverClientProofs`): every safety property of
  the two threads, for any number of opens and chunks. The invariant
  (`ClientInv`) adds what the program text says by position: which statements of
  `close_port` leave an I/O thread alive (`Owner`), what that thread can be doing
  with the context stopped or running (`IoThread`), and that the waiting reads,
  queued handlers and the one being run together are at most the opens.
- `HardwareTypes`, `HardwareOneSender`, `DeactivateStops`,
  `CommandsReadAsVelocity` (`SystemHardwareProofs`): the safety properties of the
  plugin, for any number of motors, speeds and faults. `Phases` ties the state,
  the callback, the flag and the thread together; `Held` follows the loops of
  `on_activate` and `on_deactivate` motor by motor.

Only model-checked:

- that the lines of `parser` are `Separable`, so that `OnlyRepliesDelivered` holds
  there without a condition: one byte of checksum cannot tell every scrap from a
  frame, so it is not so for all frames and scraps;
- `WatchdogStops`, `CloseReturns`, `RepliesArrive`, `CommandArrives`,
  `DeactivateReturns`: liveness under fairness, which the prover does not
  handle.

## 5. Findings

1. **The stop is a brake only in velocity mode** (`stop_mode`). The watchdog and
   the destructor send 0 RPM without switching the mode; a motor in current mode
   coasts with 0 A, one in position mode turns to 0 degrees. `src/README.md:23`
   promises "0 RPM safety brake".
2. **A lost mode frame is never noticed** (`mode_lost`). `active_mode` is set
   whether or not the frame was written; from then on the motor reads amperes as
   RPM, or the reverse, against `src/msg/Ddsm115Command.msg:11`.
3. **A turn is lost above 300 RPM** (`full_speed`). The query cycle leaves 100 ms
   between positions, half a turn at 300 RPM; the driver accepts 330.
   `src/README.md:21` promises continuous angles "to drive precise robot
   odometry". The run has 40 counts per turn and 11 per cycle: 99 degrees in
   50 ms is 330 RPM.
4. **A port that is open but deaf** (`deaf_port`). If setting an option fails
   after `open()`, the reopen reports failure but leaves the port open with no
   read started; `write_packet` ignores the result and the next writes go out.
   `src/src/ddsm115_node_handler.cpp:209` then reports "Serial port open,
   communication active".

5. **An activation resumes an old command** (`reactivation`). A deactivated node
   keeps `last_cmd` and `timed_out`, takes further commands, and on the next
   activation runs the first control cycles (50 ms apart) before the first check
   (after 100 ms): a command of any age is carried out for a moment, against
   `src/README.md:23`. `StaleOnlyAtFirst` shows that none is sent after the
   first check, and `StoppedAfterActivation` when the stop has taken its place.

Observations that contradict no text:

*The managed node's destructor* (`Destroy`) closes the port without stopping a
motor, where the standalone node's stops them all. A process that is interrupted
while active leaves the motors with their last command.

*A deactivation sends its stop once*, in the managed node and in the plugin; if
that frame is lost, or its write makes the port reopen, nobody repeats it.
`InactiveMeansStopped` assumes `faults = 0`.

*A reply that is late by a cycle* is decoded as the answer to the last request
(`src/src/ddsm115_driver_client.cpp:389`), so a position may be published as a
temperature. At the cycle times of the configuration no reply is that late:
`StatusTruthful` is checked and proved for replies that come in their cycle
(`MaxPending = 1`).

*The plugin has no watchdog.* As long as it is active, the loop repeats whatever
the command interfaces hold; a controller that stops writing is not noticed.

*The comment at* `src/src/ddsm115_system_hardware.cpp:219-220` says that `write()`
copies the velocities for the communication thread; the function does nothing,
and the loop reads the interfaces while controllers write them, so a pair of
wheels may be sent one new and one old velocity. The next round repairs it
(`CommandArrives`). The interfaces are doubles without synchronisation.

*The plugin keeps `command_velocity`* over a deactivation: the next activation
sends what the interface held at the last, until a controller writes.

*Leaving the plugin's active state by shutdown or destruction* runs no code of
the plugin but the destructor: the communication thread is still joinable when
its `std::thread` is destroyed, which terminates the process with the motors
turning (`Shutdown`, `Destroy`). `OneSender` says nothing of those states.

*Before the ids are registered* any id from 1 to 253 is accepted, so that a scrap
with a matching byte of checksum may pass for a frame. The standalone node
registers before it opens the port; the managed node and a reconfiguration do
it after. `OnlyRepliesDelivered` speaks of the time from then on.

*The receive buffer survives a reopen*: the front of a reply cut by the reopen
stays in `buffer_` and is skipped when the next reply has come
(`NoFrameMissed`).

*Two read chains.* A reopen may leave two chains of reads
on the one `read_buf_`. `close_port` stops the context before the read's aborted
handler has run; the handler stays queued, runs after the restart, finds
`reading_` set and starts another read. When two such reads complete together
the second overwrites `read_buf_` before the first is taken: one chunk enters
`buffer_` twice and one never. `ReadOnce` without its condition `opens <= 1`
shows this after one reopen; `ChainsBounded` shows it gets no worse than one
chain per open.

## 6. Not modelled

- The plugin's own copy of the wrap tracker and its feedback callback: the same
  arithmetic as the handler's (`FeedbackPath`), with the inverted sign; its
  `on_init` and the export of interfaces, which only fill data. The plugin is
  therefore listed as partly modelled.
- The data races that C++ leaves undefined: `handler_` between its assignment and
  the I/O thread's test (`src/src/ddsm115_driver_node.cpp:66`), `status_pubs_`
  filled while feedback may arrive
  (`src/src/ddsm115_lifecycle_driver_node.cpp:124`), and the interfaces above.
- How fast a failing read is restarted (`src/src/ddsm115_driver_client.cpp:339`):
  at once, so that a vanished device keeps the I/O thread busy; and the length
  of a read during an unplugged adapter.
- Publishers, joint names and diagnostic tasks of the managed node (a repeated
  configuration adds its task again, line 92): data that no action tests.
- Velocity, current, error bits and text of the status, joint velocities and
  efforts: passed through unchanged.
- `query_motor_id`, `change_motor_id`, `set_motor_id.py`: one frame, no state,
  and no node calls them.
- Jumps of ROS time, NaN values, motor IDs that coincide after truncation to
  8 bits, the wrap of the 32-bit cycle counter: no counterpart in the model.
- Launch files, configuration, build, documentation: no behaviour. The
  JavaScript below `src/docs/_build` is the output of a documentation generator,
  its search page and the stemmers that come with it: third-party code that
  never meets the driver.

## 7. Plan

Done: every module of section 2, with its runs and proofs. What is left, in the
order of importance:

1. A composition of `FrameParser` with `FeedbackPath`, in which requests and
   replies of several motors share the line.
2. The feedback callback of the plugin against its `read()`.
