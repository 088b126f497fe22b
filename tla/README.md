# Verification of Smoothieware

TLA+ specifications of the parts of the Smoothieware firmware (`src/`) whose
correctness depends on how the main thread, the timer interrupts, halts and
queues interleave, with the TLC runs that check them and TLAPS proofs of their
safety invariants and of the refinement of the motion queue.

## The system

The firmware has one thread. `main()` calls the event ON_MAIN_LOOP and then
ON_IDLE for ever (`main.cpp:263-277`); modules do their work in handlers of
those and other events, and a handler that has to wait calls ON_IDLE itself, so
that a call stack may hold several waits. The timer interrupts preempt the
thread: TIMER1/PendSV above TIMER0 (step ticker, 100 kHz) above TIMER2 (slow
ticker: heaters, buttons, limit switches), with the serial and ADC interrupts
below them (`Kernel.cpp:132-156`). There are hardly any locks. Correctness
rests on who writes which field, and in which order.

| component | state | operations | talks to |
|---|---|---|---|
| Conveyor, BlockQueue | ring of blocks, head_i, tail_i, isr_tail_i; a byte of flags | queue_head_block, wait_for_idle, flush_queue, check_queue, set_continuous_mode, on_idle, on_halt, get_next_block, block_finished | called by the planner (thread) and the step ticker (TIMER0) |
| StepTicker, StepperMotor | running, current_block, per motor moving and counters | step_tick, start_next_block, stop_moving | takes blocks from the conveyor; motors read by is_idle |
| Planner, Block | the head block; entry and exit speeds, flags of each block | append_block, recalculate, calculate_trapezoid, prepare | rewrites queued blocks while TIMER0 consumes them |
| Robot | last milestone, machine position | delta_move, append_milestone, reset_position_from_current_actuator_position | plans moves; resynchronised after halts |
| Kernel | halted, feed_hold, stop_request | call_event, immediate_halt | everything |
| Endstops | status, triggered axes, debounce | check_limits (TIMER2), on_idle, homing | immediate_halt, ON_HALT |
| KillButton | state machine, timer | button_tick (TIMER2), on_idle | ON_HALT |
| TemperatureControl, Pwm | target, output, runaway state | thermistor_read_tick (TIMER2), on_second_tick, M104/M109, on_halt | ON_HALT |
| Player | playing, suspended, file, saved state | on_main_loop, suspend, resume, abort, on_halt | conveyor, ON_GCODE_RECEIVED, robot state stack |
| SerialConsole, TSRingBuffer | receive buffer, lf_count, query and halt flags | on_serial_char_received (interrupt), on_main_loop, on_idle | gcode dispatch |
| USBSerial, CircBuffer | receive and send rings, nl_in_rx, flush_to_nl, attach and attached, the endpoint's interrupt | USBEvent_EPOut (interrupt), _getc, on_main_loop, on_idle | gcode dispatch, simple shell, feed hold |
| GcodeDispatch | line number, upload file, modal group | on_console_line_received | ON_GCODE_RECEIVED |
| SlowTicker | hooks, one second flag | tick (TIMER2), on_idle | everything periodic |
| Switch, TemperatureSwitch, FilamentDetector | pin and switch state, armed state, pulses | pin ticks (interrupt), on_main_loop | ON_HALT, suspend |
| MemoryPool | regions of an AHB block | alloc, dealloc, free | all allocations |

The other parts (probing and levelling, laser, spindle, extruder, panel,
configuration, kinematics, vendored libraries) are listed with the reason for
leaving them out in `PROJECT.json`.

## What is hard, and what makes each part correct

The hard behaviours are listed with their lines under `hazards` in
`PROJECT.json`. In short:

* *Preemption.* The step interrupt consumes the ring the thread fills, rewrites
  flags the thread writes, and may come between any two instructions of the
  planner. Limit switches, buttons and sensors do the same from TIMER2.
* *Shared bytes.* Bit fields written by an interrupt share a byte with bit
  fields written by the thread (`Conveyor.h:55-61`, `Block.h:70-82`,
  `TemperatureControl.h:77-96`): a load and a store, with the interrupt between.
* *Halts.* A halt may come from a command, from ON_IDLE inside a wait of any
  depth, or, for limit switches, from an interrupt. Whatever was under way goes
  on afterwards from where it was.
* *Waits.* Everything waits by polling and calling ON_IDLE. A wait that does not
  call it, or a flag left behind by an early return, stops the machine.
* *Edges.* 9-bit timers, 3-bit ticks, a ring that keeps one slot free, targets
  between "off" and "watched".

| component | correct when |
|---|---|
| Conveyor, BlockQueue | the ring indices keep their order; blocks run once, in order, and are lost only by a flush; waits end |
| StepTicker, Block | a block being stepped is never written or reused; no unready block is taken |
| Planner | the speed never jumps from block to block, every trapezoid can be driven, and no admissible plan is faster |
| Robot | planned and actual positions differ by exactly the queued steps, also after halts and jogs |
| Kernel | a halt reaches every module; priorities of handlers do not matter to the result |
| TemperatureControl | a halted machine does not heat; a heater that is on is watched; bad readings, slow heating and runaways halt |
| Endstops | a limit stops the motors and is told to all modules; an axis counts as homed only where its position is known; actuators and robot agree on the position |
| KillButton | a press that lasts halts, whatever went before; a halt is cleared only after two seconds |
| Player | the file is read once, in order; suspend and resume restore exactly what was saved, once |
| SerialConsole | lines are counted right; each ^X halts, also while the queue is full |
| USBSerial | a line is handed on whole or not at all; an endpoint that was turned off is turned on again; ~ and ^X get through whatever the thread waits for |
| GcodeDispatch | numbered lines are accepted once and in order; what is damaged is not obeyed; a host that repeats what it is asked for gets its job done |
| Switch, TemperatureSwitch, FilamentDetector | an edge seen by the interrupt is acted upon once; fail-safe output on halt |
| MemoryPool | regions tile the pool, never overlap, and are merged when freed |

## Modules

| module | models |
|---|---|
| `BlockQueue` | index arithmetic of the ring, and `Dist`, `Span`, `Ordered`, the vocabulary of the properties |
| `MoveQueue` | abstract specification of the path of a move |
| `MotionQueue` | Conveyor, StepTicker, the locking part of Planner and Block, halts, flushes, M400, abort, the continuous jog |
| `MotionQueueProofs`, `MotionQueueRefinement` | theorems about the queue: its ring, its thread, the refinement of `MoveQueue` |
| `PlannerProofs`, `PlayerProofs`, `TemperatureControlProofs`, `HaltingProofs`, `HostLinkProofs`, `USBConsoleProofs` | theorems about these modules |
| `Planner` | the speeds of the queued blocks: append_block, recalculate, the passes and trapezoids of Block |
| `Player` | play, pause, abort, suspend and resume of a file, with halts |
| `TemperatureControl` | one heater, its interrupt, its commands, halts, runaway detection, the second tick |
| `SerialConsole` | the UART's receive interrupt, the ring of characters, `on_main_loop`, `on_idle` |
| `GcodeDispatch` | EXTENDS `SerialConsole`: what becomes of a line |
| `HostLink` | EXTENDS `GcodeDispatch`: a host and a wire that damages lines |
| `NumberedLines` | abstract specification of numbered lines, implemented by `HostLink` |
| `USBConsole` | the console on USB: packets, the ring, flow control, lines and uploads, feed hold, opening and closing the port |
| `Kernel` | the halted flag, ON_HALT, `immediate_halt`, what they do to a move |
| `KillButton`, `Endstops` | EXTEND `Kernel`: the button; homing and hard limits |
| `Halting` | the two together with the main loop, commands and other halts |
| `MCMotionQueue`, `MCPlanner`, `MCPlayer`, `MCHostLink`, `MCUSBConsole`, `MCHalting` | values of the constants |

### MotionQueue

The thread is `pc`, `stack`, `ops` and `reg`. `pc` names the next statement that
touches shared state, `stack` the callers to return to: ON_IDLE returns into
queue_head_block, wait_for_idle, jog or main() alike, and ON_HALT is reached
through any of them. A write to a bit field of `Conveyor` is put in `ops` and
carried out by `LoadFlags` and `StoreFlags`, between which an interrupt may
change the byte. The same goes for the flags of a block, with `word`, in
`ForwardPass`/`ForwardStore` and `Lock`/`LockStore`.

| actions | code |
|---|---|
| `Tick` (functions `NextBlock`, `Taken`, `StartNextBlock`, `Stepped`, `RunBlock`, `BlockFinished`) | `StepTicker::step_tick`, `start_next_block`, `Conveyor::get_next_block`, `block_finished` |
| `IdleCheck`, `IdleCollect`, `IdleEnd`, `IdleHalt`, `IdleUnhalt` | `Conveyor::on_idle`, `check_queue`, then `Endstops::on_idle`, `KillButton::on_idle` |
| `Halt`, `HaltMotors`, `Unhalt`, `SyncPosition` | `call_event(ON_HALT)`, `Conveyor::on_halt`, the motors, `Robot::reset_position_from_current_actuator_position` |
| `PlanBlock`, `ForwardPass` ... `Ready` | `Planner::append_block`, `recalculate`, `calculate_trapezoid`, `Block::prepare`, `ready` |
| `QueueWait` ... `QueueCheck` | `Conveyor::queue_head_block` |
| `WaitStart`, `WaitQueue`, `WaitMotors` | `Conveyor::wait_for_idle` |
| `MainAbort` | `Player::abort_command` (flush, wait, resynchronise) |
| `JogHold` ... `JogFree` | `SimpleShell::jog` with -c, `Conveyor::set_continuous_mode` |
| `LimitHit`, `LimitClear` | `Endstops::check_limits`, `Kernel::immediate_halt` |

What the abstraction assumes:

* *Speeds are left open.* Any motor with steps left may be due at a tick;
  whether `forward_pass` clears the recalculate flag is a free choice. A tick
  that finds nothing to do, and a move without steps, are left out. The backward
  walk of recalculate() reads the flags in one step.
* *`owed`* is the difference between the planner's and the motors' position, in
  steps, saturated at `MaxOwed`. The runs set it above anything they can queue.
* *The handlers of ON_HALT run without being preempted by TIMER0 in their middle
  as far as motors go*: `Halt` up to the flags, `HaltMotors` the rest.
  `immediate_halt` is atomic: it runs at TIMER2 and only TIMER0 is above it, which
  finds the machine halted first.
* *`TickerSettled`.* A person or a host needs longer than 10 us to react to a halt:
  an unhalt, or the next move, comes when the ticker has seen it. A limit halt
  is also reported by ON_IDLE before M999 arrives.
* *`taken` and `torn`* are not in the code: that the interrupt has taken a block, and
  that it did so while the thread had the block in hand (`InHand`), between its test
  of `is_ticking` (`Block.cpp:147`), or its load of the byte that is in, and the store of
  `locked`. TIMER0 may fire before every statement of the thread, in every run. The race
  makes the thread write a block that is being stepped, against `TickingUntouched` (see "Other behaviour"); that nothing
  else leads to this is `UntornUntouched`.
* A jog needs a ring with room for three blocks: `Length` is at least 4 there
  (the default is 32).

### MoveQueue

Planned blocks have numbers; a planned block is enqueued or refused; the first
of the queue is started and retired; a requested drop empties the queue. The
refinement mapping takes the queue to be the blocks between the interrupt's tail
and the head. After a halt has stopped a block half way, the rest of the queue
counts as dropped until the flush arrives.

### TemperatureControl

The thread is modelled as above, with `ops` and `reg` for the byte that holds
`temp_violated`, `tick`, `waiting`, `active` and part of `runaway_timer`.

| actions | code |
|---|---|
| `ReadTick` | `thermistor_read_tick`, `pid_process` (TIMER2) |
| `SecondPasses`, `IdleSecond` | `SlowTicker::tick`, `flag_1s`, `on_idle` |
| `SecondStart`, `NotYet`, `CheckOff` ... `RunawayHalted` | `on_second_tick` |
| `IdleViolation` | `on_idle` |
| `Halt`, `HaltOutput`, `HaltPin`, `HaltTarget` | ON_HALT, `on_halt`, one statement at a time |
| `Command`, `Drain`, `SetTarget`, `SetOff`, `SetState` | M104, M109, `set_desired_temperature`, `on_set_public_data` ("set") |
| `Unreliable`, `Reliable`, `WaitTest`, `WaitHalted` | the wait of M109 |

Readings are arbitrary members of `Readings` at every tick, `Inf` standing for a
broken sensor. The PID sum is not modelled: with a target above 2 it may leave
any output, zero or not. `heater` is whether the pin is driven, by a PWM value or
by a set. Bang-bang control is modelled exactly, including that it decides
by `o`. There is no tool manager, so that `active` is always rewritten to true.
TIMER2 may tick before every statement and between the load and the store of the byte.
`QueueBusy` says whether the wait of M104 for the queue calls ON_IDLE, in which a kill may come.
Four variables are not in the code, they record what the code does not withstand. `late`: the target
was last set while the machine was halted, by set_temp or by a command that had waited.
`relit`: a tick between the last two statements of `on_halt` left the heater on. `skewed`:
a tick between the first two left `o` set. `forgotten`: a store has undone
`temp_violated`. `HaltTurnsOff`, `Supervised`, `WaitEndsHot` and `BadReadingHalts` leave exactly these
out. `HaltedMeansOff`, `HaltLeavesOff` and `BadReadingTold` do not, and the code keeps none of them:
`heater_busy` refutes the first, and "Other behaviour" tells of the others.

### Player

The thread is modelled as above; a line of the host or of the file is executed by
the `Exec...` actions and returns to whoever called the event. Only ON_IDLE,
inside a wait, and the limit interrupt can come between two steps.

| actions | code |
|---|---|
| `Console`, `PlayerAbort`, `SuspendLoop`, `NoSuspendLoop`, `FeedNothing`, `FeedLine`, `FeedEnd` | the main loop, `on_main_loop` |
| `ExecPlay`, `ExecSelect`, `ExecStart`, `ExecPause`, `Abort`, `AbortNothing`, `AbortEnd`, `ResetNothing` | `play_command`, M23, M24, M25, M32, `abort_command`, M26 |
| `Suspend`, `Part2Idle`, `Part2Aborted`, `Part2Save` | `suspend_command`, `suspend_part2` |
| `Resume` ... `ResumeEnd` | `resume_command`, cut at each wait and each test for a halt |
| `OnHalt`, `IdleHalt`, `LimitHit`, `ExecHalt`, `ExecUnhalt` | ON_HALT and `Player::on_halt`, its sources, M999 |
| `ExecMove`, `ExecState`, `ExecHome` | a move, G90/G91, M120, M121, G28 |

What the abstraction assumes: the head is at one of two positions, after a halt
or homing at any; `mode` stands for everything M120 saves; there is one heater;
saved_position starts at 0, which the code leaves to chance. `State.by` and `at`
are not in the code: who pushed a state, and what a resume has to restore. Waits for
the queue end because `MotionQueue` says so. The file played at boot, options and
progress counts are left out, as is an unhalt by a long press of the kill
button while a line is waiting. `Careless` bounds the host: without it, it waits
for the end of a suspend before it resumes, and neither pushes states nor selects
or starts files while suspended.

### Planner

`queue` is the part of the ring from `tail_i` to `head_i`, `done` how many of its
blocks the interrupt has finished or flushed, `pc` and `at` where recalculate() is.
A speed is held as its square: `max_allowable_speed`, the root of v^2 + 2ad, is then
an addition, minima and comparisons are the same, and `reach` is the 2ad of a
block. What the junction geometry yields is any member of `Junctions`, the
minimum, or the lower of two nominal speeds.

| actions | code |
|---|---|
| `AppendBlock` | `Planner::append_block` up to the call of `recalculate` |
| `ReversePass`, `ReverseEnd`, `ForwardPass`, `PreviousTrapezoid`, `LastTrapezoid` | the loops of `recalculate`, with `ReverseEntry`, `Forwarded`, `MaxExit`, `Trapezoid` for the methods of `Block` |
| `Ready` | `Block::ready`, `produce_head` |
| `StartBlock`, `FinishBlock`, `Flush` (`Kept`) | `get_next_block`, `block_finished` (TIMER0); `queue_head_block` clears the head block on a halt |
| `Collect` | `Conveyor::on_idle` |

`PlanIsFastest` compares the result with a definition that does not mention passes:
the limit of every junction ahead and behind, relaxed by what the blocks in between
can gain.

TIMER0 may take and finish blocks between any two of these actions, and a move may be
planned on top of a flushed queue that has not been collected. What the interrupt does
is harmless as long as it takes a block that recalculate() has not yet passed, or has
already given its new trapezoid: `Takeable` is the last such block. `raced` records that
it took one of the others, or that the queue ran dry while a faster end was being planned, or
that a move was planned on flushed blocks; when the queue is next empty all is well
again. The code prevents none of the three. The properties say what holds unless this
has happened; `FollowsExecuting`, which says it of the code as it is, does not hold
("Other behaviour"). A tick inside one `calculate_trapezoid` is the subject of
`MotionQueue`; here the call is one action, and the single tick for which a locked next
block is passed over is left out.

### SerialConsole, GcodeDispatch, HostLink

A line is one token for its text and the characters of its ending, so that the
ring still counts and loses characters. `pc` is the next statement of the thread
that touches what the interrupt touches; `lf_count` and the byte of flags are
loaded and stored by separate actions. A line is a record of its number, its
kind, the state of its checksum and whether it starts with a known letter.

| actions | code |
|---|---|
| `OnSerialCharReceived` (`ReceiveText`, `ReceiveRequest`, `Put`) | `SerialConsole::on_serial_char_received` |
| `LoopNothing`, `LoopLine`, `CountLoad`, `CountStore` | `on_main_loop`, `--lf_count` |
| `IdleNothing` ... `FlushCount` | `on_idle`: the query, then the halt and the flush of the buffer |
| `EmptyLine`, `IgnoredLine`, `SetLineNumber`, `ResendLine`, `CommentLine` | `on_console_line_received` before a command is dispatched |
| `Unhalt`, `HaltedLine`, `EmergencyStop`, `ErrorLine`, `ExecuteLine`, `StartMove`, `MoveWaits`, `MoveEnds` | the dispatch of a command; a move may wait in `queue_head_block` |
| `OpenUpload`, `SaveLine`, `SaveFails`, `CloseUpload` | M28, the lines of a file, M29 |

The host is external: it numbers the lines of `Program`, keeps at most `Window`
unanswered, goes back to the line of a resend request, repeats after a timeout
(or too early), and after a halt closes the upload, sends M999 and M110, and
begins again. It lets the line go quiet before that. The wire damages the
checksum or the first letter of a line or loses a line end, so that two lines arrive as
one. `troubles` counts every fault, early timeout, request, write error and halt of
a behaviour; the run has two, so that faults meet. The last line of the job is
one on which nothing depends, because a line whose first letter is damaged is answered
by "ok - ignored" (`GcodeDispatch.cpp:487`) and lost unless a later number shows
the gap. `SetupFits` says that the lines a job begins with are not lost in a ring that is
full: ^X empties it, and after another halt the host does not begin before the machine
has refused what is in it. Without the flush of `on_idle` (`SerialConsole.cpp:237`) they would be.

`NumberedLines` is the promise: lines are accepted one after the other until the
numbering starts anew. `HostLink` implements it with `lines` the numbers accepted.
`accepted` and `executed` are not in the code; they record what it did since M110.

What is left out: several commands on a line, G53, the early ok of G1, the modal
words X, Y, Z and F on a line of their own, and a second stream. M112 and ^X
are there; feed hold is in `USBConsole`. `CharDuringStore`
says whether the UART may interrupt between a load and its store, which the code
does not prevent. `missed` records the line ends of which the count was undone; `LinesCounted` says that
nothing else makes the count differ from the buffer, and is proved for both values. `host_link` has FALSE,
as its host waits for each ^X to be obeyed, which may then fail ("Other behaviour").

### USBConsole

`wire` is what the host has written and the interrupt has not taken: a packet is any
beginning of it of at most `PacketSize` characters. The characters of a line's text are
numbered, and its end says how long the line was and what it asks for, so that a
line that has lost or gained characters can be told. `enabled` is the bit of the OUT
endpoint in `USBEpIntEn`. `pc` is the next statement of the thread that touches what the
interrupt touches, and `back` where `on_idle` returns to: the main loop, a move that
waits in a feed hold, or an upload.

| actions | code |
|---|---|
| `EPOut` (`TakePacket`, `TakeChar`, `TakeText`, `Enqueue`, `Dropped`, `AfterPacket`) | `USBSerial::USBEvent_EPOut`, and what `USBHAL::usbisr` does with its result |
| `Take`, `MakeRoom`, `Uncount` | `_getc`, cut between the character, the endpoint and the count |
| `LoopBegins` ... `LoopEnds`, `CountText`, `CountLine` | `on_main_loop` |
| `IdleHalt`, `IdleFlush`, `IdleUncount`, `IdleNoHalt`, `IdleQuery` | `on_idle` |
| `OpenPort`, `ClosePort` | `USBCDC::USBEvent_Request`, `on_attach`, `on_detach` |
| `Move`, `Held` | the wait of `Robot::append_milestone` in a feed hold |
| `Unhalt`, `Upload` ... `UploadEnds` | $X, `SimpleShell::upload_command` |

The ring has 6 slots and a packet 2 characters in the runs (256 and 64 in the code), so that a
line of 2 leaves room for a packet behind it and one of 4 does not.
The host is external. `Hasty` says what it does not wait for: "long", it writes
a line too long for the room behind a packet while others are unread; "keys", it writes
on behind a ! or ^X; "port", it closes the port, or writes, while the machine is
still busy with what came before. The code asks none of this of a host; what
happens with each is told under "Other behaviour", and with "long" in the run
`usb_long_line`.

Left out: what the machine writes (`txbuf` is taken to have room, so that
`ensure_tx_space` does not call the interrupt's handler), ^Y, and interrupts in the
middle of `nl_in_rx--`, which `SerialConsole` has. `enable_feed_hold` is on, as it
is by default in grbl mode. `_getc` is called with something to read; if a backspace
takes it away in between, it waits and calls ON_IDLE, as `UploadWaits` does.

### Kernel, KillButton, Endstops, Halting

One block moves at a time: `move` is what it still has to do, per axis, and `lost` by
how much the robot's idea of the position is ahead of what the actuators
counted. `at` is where the carriage is, `zero` where the actuator counts 0:
`Nowhere` until an axis is homed.

| actions | code |
|---|---|
| `OnHalt`, `ClearHalt`, `ImmediateHalt`, `StopMoving` | `Kernel::call_event(ON_HALT)`, `immediate_halt`, `StepperMotor::stop_moving` |
| `ButtonTick` (one disjunct per state) | `KillButton::button_tick` (TIMER2) |
| `ButtonOnIdle` | `KillButton::on_idle` |
| `ReadEndstops` (`StillTriggered`, `AllOff`, `LimitHit`, `Seek`, `NothingToRead`) | `Endstops::read_endstops` with `check_limits` and `debounced_get` (TIMER2) |
| `LimitsNothing`, `HaltLoad` ... `OnStore` | `Endstops::on_idle` |
| `HomeCommand`, `HomeStart`, `HomeApproach`, `HomeFails`, `HomeBack`, `HomeSlow`, `HomeNext`, `HomeEnds`, `HomeHalted`, `Homed`, `HomeOff` | `process_home_command`, `home`, `back_off_home`, cut at each wait |
| `Waiting` | `Conveyor::wait_for_idle`, with ON_IDLE inside |
| `Jog`, `Unhalt`, `OtherHalt` | a move, M999, and the other sources of a halt |
| `Motion` | a millisecond of steps |

All axes are cartesian and home to their minimum at 0. A contact may read anything
within `Bounce` steps above the end. `held` and `asked` are not in the code: for how
many polls the button was down on a halted machine, and that a press has not been
answered. The contact keeps a position for `Polls` polls. `SlowThread`, `Hasty` and
`TickDuringStore` are FALSE in the runs: a pass of the main loop is shorter than a
poll (a fifth of a second), commands and other halts do not come within the poll
in which the button is about to clear a halt or has just done so or has just
asked for one, and TIMER2 does not come between the load and the store of
`trigger_halt`'s byte. Nothing in the code excludes any of these; "Other behaviour"
tells what happens then. `StartHome` is a G28 that is given while no axis is further
behind its switch than `Below`: what a halt leaves in a fast approach may be further, and the user
jogs out of there first. A G28 is one `home()` of all axes, or one for each in any order (`Orders`); which, the
configuration fixes by `homing_order`, and the model leaves open at each G28.
Within one `home()` the fast approaches follow each other, each with its own wait: X and Y
together, Z, and A, B and C one by one (`Approaches`, in the order of the code or with `home_z_first`). Whether
the switches were found is looked at only after the last of them (`Found`), so a halt or a limit of travel in an
early approach lets the later ones be gone through: `delta_move` does nothing in them
if the machine is still halted.

## Runs

| run | instance | what it shows |
|---|---|---|
| `queue` | 2 motors, ring of 3, 3 blocks, limits, kill button | `RingOrder` and types; `RunningBlockOwned`; `UntornUntouched`; `WaitMeansStopped`; `ImplementsMoveQueue` |
| `queue_jog` | 1 motor, ring of 4, 4 blocks, jogs, halts, aborts, limits, kill button | `PositionAccounted`, after halts, limits and jogs; the queue is held only when nothing runs; the two `__debugbreak` conditions |
| `queue_live` | 1 motor, ring of 3, 3 blocks | waiting for room and for an empty queue ends; queued blocks are run even if nobody forces it |
| `heater` | bang-bang, a sensor that breaks, M109, set_temp, kills, a move queue that may be busy | `HaltTurnsOff`; types and `Supervised`; `WaitEndsHot`; bad readings, slow heating and runaways end in a halt |
| `player` | a file of 3 lines that suspends itself, all commands, a file that may be missing, kill button and limits | types, and a player that plays has a file; `ResumeRestores`; `SuspendIsPopped`; a halt ends the print, a suspend ends |
| `planner` | moves of 3 kinds, ring of 4, 2 junction speeds, halts, ticks inside recalculate() | `SpeedIsContinuous`; `TrapezoidFeasible`; `PlanIsFastest`; `StartsAtMachineSpeed` |
| `host_link` | a job of 6 lines with an upload, 2 troubles, window of 2, a ring of 7 characters; no interrupt inside a store | `ExecutedAsMeant`; `SetupFits`; `LinesCounted`; `ImplementsNumberedLines`; ^X halts; the job is done |
| `halting` | 1 axis with a hard limit, button with unkill, homing, jogs | `UnkillNeedsHold`; `PressHalts`; `LimitIsTold` |
| `homing` | 2 axes, X then Z within a `home()` or one `home()` each in any order, X with a limit; bounce and debounce of 1; no button | types and `HomedIsTrue`; `PositionKept`, over halts and failures in and between the approaches |
| `usb_console` | a ring of 6, packets of 2, lines of 2 and 4 that end in CR LF, moves, $X, an upload, all keys, a port that opens and closes; a host that waits | `LinesAreWhole`; `StallEnds`; `InputIsTaken` |

The bounds are enough for the interesting cases: with a ring of 3 the queue
holds two blocks, is full, empty and wraps within three blocks; two motors with a step
each end together or apart, and `queue_live` has blocks of two steps; a block may be waiting, running,
done and not collected at the same time. In `heater` the timeouts are 2
and 1 units of 8 seconds on a 2-bit timer, and `tick` keeps its 3 bits. At most one
second (`MaxSeconds`) is pending: a second one is handled the same way, one
ON_IDLE later. M104 is M109 without the wait and is left to `heater_busy`.
The properties of `heater` hold with the PID controller as well (`BangBang = FALSE`). In `player`
a suspend takes 2 main loops instead of 10, enough for a line of the host or a halt before, between and after them; the host may have one
state on the stack, so that a pop too many has something to take. In `planner` a
queue of four has blocks before, at and behind the point where recalculate() stops;
the moves are shorter and longer than it takes to reach their speed; after an
overtaking (`ShortRace`) moves are added until the ring is full. In
`host_link` the buffer holds a window of lines and what a user types, and overflows
when a host repeats too early; two troubles are enough for a fault in the recovery
from a fault. In `halting` two seconds are 2 polls on a 2-bit timer; a motor makes one
step a millisecond, the rail has room for a jog and the search. In `homing` a
search is long enough for two steps a millisecond to run past the switch while it
is debounced, and to fail. Two approaches, X and Z, are the shortest `home()` with a wait in between; more
of them repeat the step from one to the next (`HomeApproach`), and the theorem has any number. In `usb_console` two packets fill the ring, a packet may end
anywhere in a line, between CR and LF too, and the endpoint is turned off and on again;
what is to be dropped may span several packets.

Two runs end in a violation; each shows a disagreement of the code with its own
comments (`findings` in `PROJECT.json`):

| run | what the trace shows |
|---|---|
| `heater_busy` | a kill while M104 waits for the queue: the target is set and the heater comes on while the machine is halted, unwatched |
| `usb_long_line` | a short line and the beginning of a long one in a packet: when the short one has been read the ring has no room for a packet, its count of lines is 0, nobody calls `_getc` again and the endpoint stays off (`USBSerial.cpp:86`) |

## Other behaviour met while modelling

Most of these are kept out of the runs by a constant, by the wording of a property or
by a history variable; each item names what to change and the property that then
shows the behaviour. Some lie outside of what is modelled, and are noted for completeness. What the
two runs of the last table show is not repeated here.

* TIMER0 takes a block between the thread's `is_ticking` test (`Block.cpp:147`) and its store of
  `locked` (218); its counters are then reset while it is stepped, against "if block is currently executing,
  don't touch anything!" (146): `TickingUntouched` with `Motors = {m1}`, `Commands = {"move"}`,
  `MoveSet <- TwoSteps`.
* The store of `allow_fetch` (`Conveyor.cpp:196`) undoes the interrupt's change of `continuous_mode`, in
  the same byte, and another block than the second is repeated: `ContinuousFeedsSecond` in `queue_jog`.
* A jog on a halted machine returns without clearing `hold_queue` (`SimpleShell.cpp:1407`); after M999
  what is queued is never run, and the next wait does not end: `WaitReturns` with
  `Commands = {"move", "wait", "jog", "halt"}` and a ring of 4.
* TIMER2 between the second and the third statement of `on_halt` (`TemperatureControl.cpp:115`) turns the heater on
  again, and the third takes the target away by which it would be watched: `HaltLeavesOff` in `heater`.
* The store of `waiting` or `tick` undoes the interrupt's `temp_violated` (`TemperatureControl.cpp:479`), in the
  same word: no halt follows a bad reading. `BadReadingTold` in `heater`.
* With the largest timeout, 511 units of 8 seconds, the 9-bit timer wraps before it exceeds it, and slow
  heating is never given up (`TemperatureControl.cpp:583`): `HeatingEnds` with `HeatingTimeout = 3`, `TimerSize = 4`.
* TIMER0 takes a block between `forward_pass` of the next one (`Planner.cpp:283`) and its own `calculate_trapezoid`
  (286), which then does nothing: the next block starts faster than it ends. `FollowsExecuting` in `planner`.
* `minimum_planner_speed` above the speed of a move: nothing raises the nominal and junction speeds
  (`Planner.cpp:143-174`), and the last block is to end above its nominal speed (297). `FactorsInRange`
  with `Minimum = 3`.
* A ^X that arrives between the load and the store by which on_idle clears `query_flag` (`SerialConsole.cpp:230`)
  is forgotten, and the machine does not halt: `StopIsObeyed` with `CharDuringStore = TRUE` (the job `TwoMoves`, the requests `StopAsk`
  and a window of 1 keep this small).
* A limit interrupt between the test for a halt (`Conveyor.cpp:167`) and `produce_head`
  (174) puts a block on the queue of a halted machine. The runs of `MotionQueue` include it: the
  block is flushed with the rest.
* A move planned on top of a flushed queue, before the collector has run, is planned to
  start at the speed of a block that never ran: `SpeedIsContinuous` without `~raced`.
* A target above 0 and at most 2 degrees leaves a heater that was on at its last
  output without a look at the limits (477, 452): `Degree = 2` (half degrees) and a
  target of 3, `Supervised` without its exception for such targets. Presets are applied after the limit to max_temp
  (445). set_temp is obeyed by a halted machine (434).
* M601 in the main loops between M600 and `suspend_part2`: the head moves to a
  position that was never saved (`Player.cpp:659`). M24 while suspended plays on,
  and if the file ends then, resume sets `playing_file` without a file (760). A halt,
  G28 or abort between a suspend and `suspend_part2`, or after resume has
  popped its state, pops a state that the host pushed (89). `Careless = TRUE`,
  `ResumeRestores` and `TypeOK`.
* A line end that arrives inside `--lf_count` (`SerialConsole.cpp:261`) is not counted; its line is
  read when the next one comes, and all later ones are late by one: `host_link` with `CharDuringStore = TRUE`,
  `SetupFits`, as the ring then holds a line too many.
* A numbered line whose '*' was lost is accepted unchecked (`GcodeDispatch.cpp:102-111`):
  "star" in `Damage`, `ExecutedAsMeant`. M29 after a write error closes a file that is
  closed (432). A numbered comment is counted and not answered (142); the host's
  timeout gets it over this.
* A limit hit between the load and the store of `trigger_halt`'s byte is never told
  to the modules (`Endstops.cpp:433`): `TickDuringStore = TRUE`, `LimitIsTold`.
* A halt by something else within a poll of an unkill is cleared by the button
  (`KillButton.cpp:67`); M999 within a poll of a kill leaves the button in
  KILL_BUTTON_DOWN and the machine is halted again: `Hasty = TRUE`, `UnkillNeedsHold`.
* A locking stop (`toggle_enable`) that is locked again within a poll of its release is unkilled:
  KILLED_BUTTON_UP goes to UNKILL_FIRE without looking at the button
  (`KillButton.cpp:103`), UNKILLED_BUTTON_DOWN then waits for a release, and the machine
  stays unhalted with its stop down.
* `unkill_timer` has 6 bits: with 32 polls a second or more it never exceeds
  twice `poll_frequency` and the button never unkills (`KillButton.cpp:112`).
* ^X on USB flushes the ring without turning on an endpoint that was off because the
  ring was full (`USBSerial.cpp:312`): the console takes nothing any more until the port
  is set up anew. A packet between the flush and `nl_in_rx = 0` (313) is in the ring and
  not counted. "keys" in `Hasty`: `StallEnds`, `LinesAreWhole`. The same
  goes for a port closed with lines unread (342): "port" in `Hasty`, `StallEnds`.
* Behind a ! on USB, lines fill the ring while a move waits in the feed hold; the endpoint is
  turned off, and the ~ or ^X the move waits for is not received
  (`Robot.cpp:1446`): "keys" in `Hasty`, `InputIsTaken`.
* A `homing_order` may leave out an axis (three characters are enough, `Endstops.cpp:398`): it is then
  counted as homed, at 0, without having moved (962-970). In the model an order names every
  axis that is homed.
* A failed SCARA homing returns with `disable_arm_solution` still set
  (`Endstops.cpp:725-731`); SCARA is not modelled.

## Fairness

Safety runs assume none. `queue_live` assumes weak fairness of the thread (it
polls and is never blocked), of TIMER0 (100 kHz, the highest priority but one) and of
time. Nothing is assumed about what the main loop chooses to do, nor about the
arrival of commands, halts or limits. `heater` assumes weak fairness of the
thread and of the passing of seconds, and none of the sensor: it may stop being
read without the properties failing, since they compare the last reading.

`player` assumes weak fairness of the thread, and strong fairness of the ends of its
waits for the queue (`WaitReturns` of MotionQueue) and for the heater (which
reaches its target or, by TemperatureControl, halts the machine).

`host_link` assumes weak fairness of the firmware (the main loop polls), of the wire and of
the host (which repeats what is not answered), and strong fairness of the end of a wait
for room, again from `MotionQueue`. Faults are bounded by `troubles`, not assumed
away: a job can be done only if they end. `halting` assumes weak fairness of the
thread, of the two interrupts and of motion, and none of the user. `usb_console` and
`usb_long_line` assume weak fairness of the thread and of the interrupt (packets that the host has
written are delivered while the endpoint is on), and none of the host.

## Proofs

TLAPS checks the theorems below, for every value of the constants that the modules'
own assumptions allow. Each component has an inductive invariant of named parts, a lemma
for each action or group of actions, and theorems that read the checked properties
off it. No theorem about the queue, the heater, the planner or the count of lines keeps an
interrupt out of a window that the code leaves open; where a property fails after such an
interrupt, a history variable records that it came, and the property and the theorem speak of
the runs in which it did not. The hypotheses that are left are of three kinds.
`~Careless`, `~SlowThread` and `~Hasty` exclude behaviour that is listed above as wrong in the
code, and the runs have the same constants. `MinimumIsLowest`, `CounterHolds`, `HomingFits`, `TwoSeconds > 0` and
`~toggle_enable` are about the configuration. Those of `MotionQueueRefinement`
and the others of `HostLinkProofs` are about the moves and the job, or are another property of the run.

| module | theorems | under |
|---|---|---|
| `MotionQueueProofs` | `Invariant`, `RingStaysOrdered`, `RunningBlockIsOwned`, `CollectorFindsBlock`, `WaitStops` | |
| | `ThreadInvariant`, `HeldQueueIsStopped`, `BreaksAreNotReached` | |
| `MotionQueueRefinement` | `BlockInvariant`, `TickingIsUntouched`, `MotionQueueImplements` | |
| | `PositionIsAccounted` | `[]NoneTorn`, no full queue owes more than `MaxOwed` |
| `TemperatureControlProofs` | `HeaterTypes`, `HaltTurnsHeaterOff`, `HeaterIsSupervised`, `WaitReachesTarget` | |
| `PlayerProofs` | `PlayerInvariant`, `PlayerTypes`, `SuspendPopsState`, `ResumeRestoresAll` | `~Careless`, `PlainScripts` |
| `PlannerProofs` | `PlannerInvariant`, `TrapezoidsAreFeasible`, `SpeedStaysContinuous`, `BlocksStartAtMachineSpeed`, `PlanStaysFastest` | `MinimumIsLowest` |
| `HaltingProofs` | `PositionIsKept` | |
| | `ButtonIsHeld` | `~toggle_enable`, `~SlowThread`, `~Hasty` |
| | `HomedAxesAreKnown` | the same, `HomingFits`, `TwoSeconds > 0` |
| `HostLinkProofs` | `LinkInvariant` | |
| | `LinkImplementsNumberedLines` | `NoRenumbering` |
| | `LinesAreCounted` | `CounterHolds` |
| | `ExecutesAsMeant` | `PlainJob`, no "star" in `Damage`, `[]SetupFits` |
| `USBConsoleProofs` | `ConsoleInvariant`, `LinesStayWhole` | `Hasty \subseteq {"long"}` |

**The ring** (`IInv == RingOrder /\ RunningBlockOwned`). Order of the indices
is kept because the interrupt advances its tail only past a block it owns, the head
moves only when the ring is not full, the tail only up to the interrupt's tail; a flush
jumps to the head, which is always in order. So order and ownership have to be
proved together. The types are needed because the indices are compared modulo
the length, and include `StackEnds`: a return must find a caller. The interrupt is a
composition of functions of its part of the state; each has a lemma that it keeps
that part's types, order and ownership.

**The thread** (`ThreadInv == IInv /\ Frames /\ Writes /\ Loading /\ HoldInv /\ ReadyInv`).
`Frames` says which callers may be stacked at which label, `Writes` which stores to the
byte of flags may be pending there. The queue is held only from a label that
`wait_for_idle` has led to, and the byte that is loaded while it is held holds it as
well; so no interrupt falls between (`HoldInv`). The head block is ready wherever
`queue_head_block` may produce it (`ReadyInv`), and the collector is reached only with a
block to collect: neither `__debugbreak` is reached.

**The refinement** (`BlockInv`: `WordInv` what is locked, `TickingInv` and `StepsInv`
what the running block and the retired ones hold, `IdInv` the numbers of the blocks,
`ContInv` and `JogInv` a continuous jog, `DoomInv` a halt half way through a block).
`StepKinds` sorts the steps into those that do not concern a block and the few that do;
`TickOutcomes` gives TIMER0 five outcomes (nothing, a flush, a halt, a block begun, a
block retired). The hard case is a block that a halt has stopped with steps left: it
must not be taken again. `DoomInv` says that then the machine is halted and a flush is
stored, pending or about to be, also in the byte the thread has loaded, and that nobody
clears the halt before. With it each step of `MotionQueue` is a step of `MoveQueue` or a
stutter, also where a tick comes inside `calculate_trapezoid`: a block that is taken while the
thread has it in hand (`torn`) may not tick by its own flag, and its counters may be written
while it is stepped, but it is begun and retired once, in its place. `WordInv` says of any other block
that its flag agrees with `taken` and that the lock has kept the interrupt off it.

**The position** (`PositionInv == WholeInv /\ HaltInv /\ FlushInv /\ AccountInv`). Between
commands, and while the machine is not halted, where the planner thinks the queue will end is
where the motors are and the steps that are left in the queue. The property holds in the
main loop only; the invariant says what the difference is everywhere. `AccountInv`: it is the
steps left in the blocks from the interrupt's tail to the head, and those of a block that is
planned and not queued yet. It holds while the machine is `Live`: not halted, and with no
`reset_position_from_current_actuator_position` still to come. A tick takes a step from both
sides at once, and a block is retired only when it has none left, for which it has to be
known that the motors of the running block move as long as they have steps. `WholeInv`: a block that has
not begun has all the steps it was planned with.

What could leave steps in the queue uncounted is a flush. `HaltInv`: a queue that a halt has found not
empty is flushed before the halt can be cleared (`halted` is not cleared with a flush
pending and anything queued), also when a byte is loaded over which the interrupt has
written. `FlushInv`: a flush that is pending while the machine is live has nothing left to drop,
but in a jog, which holds the queue and ends in a resync. `Relives` says that a machine becomes
live again only by the resync, with the queue empty; there both sides are 0.
The steps are counted as the elements of a set, a step being a block and a number up to those
the block has left, so that the library's theorems about cardinalities replace an induction over
the queue. The hypothesis is that `MaxOwed` saturates nothing: `Length` blocks of the longest move are
no more than it.

**The heater.** `HaltInv` follows a halt through the three statements of `on_halt`:
a target set before the halt is undone by the last of them, a target set afterwards
(`late`) is the finding of `heater_busy`, a heater that is on after the second (`relit`) is one that a tick
turned on again. `SupervisedInv` ties the output to the target:
a heater that is on has a target that `thermistor_read_tick` compares, except at the
label that is about to turn it off, with `relit`, and with a target above off and up
to two degrees, at which the code does not look (`TemperatureControl.cpp:452`, 477).
The output remembered in `o` is that of the pin, unless a tick came between the resets of the two (`skewed`).
`WaitInv` says that while M109 waits the target is the one it was given, or undefined because the
interrupt has given up and either `temp_violated` says so or a store has undone it (`forgotten`).

**The player.** `Place` is the statement the thread is at, whether it is at it, in an
ON_IDLE or a halt called from it, or in the line executed before a resume. By
place the invariant says what a suspend has saved and not yet restored: whether its
state is on the robot's stack above those of the host (`StatesInv`), what a resume has
put back already (`RestoreInv`), and that a halt is the only way out of a suspend that
is under way (`SuspendInv`). `PlainScripts`: what the configuration executes around a suspend is a
move or a mode change. A line like M121, G28 or another suspend in its place takes what
the suspend relies on, as a careless host does.

**The planner.** The invariant is about entry speeds rather than trapezoids. Each block
that is still to run can brake from its entry speed to the next one (`Brakes`), at
all times: the reverse pass only raises entry speeds, to what can be braked from; the forward pass
only lowers them, and when it lowers the one after a block, the block before has been
entered at less. From the end of the queue back to where the passes are, trapezoids are those of the entry
speeds (`Settled`, `Planned`). `Behind` is the block from which on they are not: there
`recalculate` will stop, and if that block runs, its exit speed, which cannot be changed, is no higher than the
entry speed that comes after it. This is why the forward pass then enters the next
block at exactly that speed, and why skipping the blocks before is right. `MachineInv`
carries the speed over from finished blocks that are collected. Nothing is assumed about the
length of the queue, the moves or the junctions, except that every block gains some speed and that
no speed is below the minimum (`MinimumIsLowest`). The default of `minimum_planner_speed`
is 0; a higher one does not raise the other speeds, and then the invariant fails.

`PlanStands` says that all this holds unless `raced`. A block may be taken during a pass if it is before the ones the
pass has changed; taking it fixes its exit speed, with which the pass has not reckoned yet
(`TakenStep`). What the passes do to the shape of the queue (`ShapeInv`) holds in any case, and
when the collector empties the queue the machine stands at the minimum speed, from where
the plan starts anew (`EmptyAgain`).

That the plan is the fastest (`PlanStaysFastest`) is what `recalculate_flag` has to be right for.
`FastInv`: a waiting block is held back from behind or from ahead, by its corner or by what the block
before it can gain, or it can lose before the one after it; one whose flag is
cleared is held back from behind (`FromBehind`), so a move appended later cannot make it faster,
and a reverse pass may stop there. From a block that is held back, `HeldFromBehind` and
`HeldFromAhead` go to the block that holds it back, and on to the limit where this ends: two
neighbours cannot hold back each other, as each gains something. `Spread` says that no
entry speed is above any limit. Where the reference sums over the queue (`Reach`, a recursive
function) these lemmas take the first or the last counterexample (`LeastNumber`), as the provers
cannot use the library's induction rules, which have an operator as a parameter.

**Halting.** A motor is stopped by its own switch only in the two approaches of homing,
at the end of which the position is taken from the actuators; anything else that stops a
motor half way halts the machine. The invariant says so by what main() is doing
beneath ON_IDLE (`Where`), for every number of axes and also when TIMER2 falls inside a
store.

For the button, `HoldInv` keeps `unkill_timer` behind the polls that have seen it down, so
that UNKILL_FIRE means two seconds. That is not all: the button must also not clear a
*new* halt with the time of an old one. `CalmInv` says that once the button has been timed for
more than a poll everybody has seen the halt: no motor moves, no cycle of homing is still to
fail, and no limit is still to be told to the modules, so nothing halts the machine
again after the button has cleared the flag and before it leaves UNKILL_FIRE. `~SlowThread` and `~Hasty`
are the two ways in which this fails ("Other behaviour"); a locking button clears the
halt by design when it is released.

For homing, `HomedInv` follows the axes through a G28 (`TodoInv`, `StatusAt`, `AxesInv`).
In the fast approach an axis that is below its switch by more than a step has been
debounced for as long as it took to get there, so it is stopped before `Reach`; an axis whose
approach is still to come has not moved (`Awaited`); the retract then
leads it above the switch, and the slow approach, at a step a millisecond, ends within
`debounce_ms` of it. `HomingFits` says that the retract is longer than `Reach` and that the rail has room
for it; the code leaves both to the configuration, and the run's constants are at the
limit of both. A G28 begins with no axis further than `Below` behind its
switch (`StartHome`), and `JogInv` says that a jog that is still under way does not lead there. A halt anywhere in a G28 makes it end in `HomeHalted`, which clears all flags: `KnownInv`
needs it not to be cleared before, which is what the button's invariant says of
ON_IDLE within homing. Neither the number of axes nor their order matters.

**The host's link.** `LinkTypes` are the types of console, dispatch and host. `NumbersInv`:
the lines accepted carry the numbers from 1 to `currentline`; the refinement of
`NumberedLines` follows. `NoRenumbering`: there is no M110 within the job.

`LinesAreCounted` rests on `Counted`, what the counter will be after the thread's next store:
one less between the end of a line being taken out and the store of the decremented
counter, nothing between the flush and the clearing of it. What the interrupt adds to the counter
before such a store goes to `missed`. A counter that wraps while a line is taken out of a full ring is
the hard case of the arithmetic. `CounterHolds`: the
counter can count as many lines as the ring has room for (256 characters and a byte,
`SerialConsole.h:34`).

`ExecutesAsMeant` needs to know where in wire and buffer a line of the job may be. A line
without a number (M29, M999: `Breakers`) may close an upload or clear a halt in the middle of
the job; what follows it there must not be a line of the job, or data would be obeyed as
commands. `StreamInv` says that between such a line and a line of the job there is the M110
that begins a job, at the start of a line (`Covered`), so that the numbers do not match
before it; and that the host, once past the lines that set up the job, has put it
there (`PastSetup`). `UploadInv` is what has been obeyed so far. The theorem holds for stores that are
interrupted, too. `PlainJob` says what the host has to
keep to: no M110 and no M999 within the job, one M28, none in front of the job, and data only after it. That M110 is not lost
in a full ring is the hypothesis `[]SetupFits`. It depends on how many characters the host may still have in the ring
when it begins anew, which the run counts for its window and its troubles.

**The console on USB.** What the host has written goes through three places: the wire, the ring,
and the line the thread is putting together. `After(c)` is how many characters of its line come up to
`c`, and `Follows(p, c)` that `c` may come behind `p` of them; `RingInv`, `WireInv` and
`JoinInv` say so within the ring, on the wire, and where one ends and the other begins. So
nothing is missing from a line that reaches its end (`ReadInv`). A place may only be
emptied together with what belongs to it. While the rest of a line is dropped
(`flush_to_nl`) nothing has to follow, and the ring is empty. The interrupt drops only
without a complete line in the ring, and `CountInv` says that the line the thread has
begun to read is there, and that `nl_in_rx` counts those in the ring, but for the steps between
the flush and the reset of the counter, where nothing but a ? comes in. That is what the host
has to wait for: `StopInv` and `EofInv` say that behind a ^X or the end of a
file there is nothing else, `PortInv` that there is nothing to read while the port is
closed. `UploadInv` follows the request for an upload, also when it ends in `\r\n` and the `\n`
is still to come when it is obeyed. The host may write lines too long for the
ring at any time ("long"); "keys" and "port" are excluded as the property is then false
("Other behaviour"). `TakePacketKeeps` takes the first character of a packet after which the
invariant would fail, as it stands for an induction.

Only model-checked:

* liveness (`QueueHeadReturns`, `WaitReturns`, `QueueDrains`, `HeatingEnds`,
  `BadReadingHalts`, `RunawayHalts`, `HaltEndsPrint`, `SuspendEnds`, `StopIsObeyed`,
  `JobIsDone`, `PressHalts`, `LimitIsTold`, `StallEnds`, `InputIsTaken`): fairness is out of the prover's reach;
* `SetupFits`: it needs a count of all that a host may have sent and the ring still holds;
* `PositionAccounted` in behaviours in which a block is taken while its trapezoid is written:
  `queue_jog` checks it there too, the proof excludes them (`[]NoneTorn`).

## Plan

The components are modelled and proved as far as the plan went. These are left:

1. `MotionQueue`: `PositionAccounted` without `NoneTorn`; what a block that is rewritten while it is
   stepped has left needs an account of its own.
2. `HostLink`: a bound on what the ring holds by the window and the troubles, from which
   `SetupFits` follows; then `ExecutesAsMeant` has hypotheses about constants alone.
3. `Player` and `Halting`: history variables in place of `Careless`, `SlowThread`, `Hasty` and
   `TickDuringStore`, as the other modules have them.

## Not modelled

Most of the lines under `src/` are third-party code: FAT, uIP, the USB stack below the console, the LPC17xx
drivers, mbed, mri. Of the firmware's own modules: sensors' conversions,
kinematics, arcs, levelling and PID tuning are floating point arithmetic, in which
what could go wrong is not a matter of states; probing, drilling cycles, the
extruder and the tool manager turn a line of G-code into moves and waits,
which `MotionQueue` covers; the panel, the drivers of spindle and laser, current
control and configuration are sequential and set registers or values; switches and
the filament detector poll a pin and send a command; the memory pool is
an allocator used by the thread alone. `PROJECT.json` names the files.
