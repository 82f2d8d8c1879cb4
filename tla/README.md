# COATHEAL in TLA+

Models of the COATHEAL flight software (C++ onboard, Python ground station):
what its parts promise, checked by TLC on small instances and, where it pays,
proved by TLAPS for every instance. `PROJECT.json` lists the runs, the mutants
each property kills, the source lines each definition translates, the findings
and the hazards; this file explains them.

    tlc -workers 2 -config MCStepperMotion.cfg MCStepperMotion
    tlapm StepperMotionProofs.tla
    tlapm HeaterControlProofs.tla
    tlapm FallbackPlanProofs.tla
    tlapm LinkTrafficProofs.tla
    tlapm BendSequencesProofs.tla
    tlapm GroundTargetProofs.tla
    tlapm SensorManagerProofs.tla
    tlapm TelemetryProofs.tla

## 1. The system and its hard parts

The onboard program is one process with these threads: the control loop
(`SystemController::Run`, one *tick* after another), one command thread
(`command_server.cpp`: one command at a time, `HandleCommandLine`), one pulse
thread per motor, sensor workers, a discovery listener and a beacon sender.
They share state under a mutex per component (`overrides_mu_`, `sequence_mu_`,
`fallback_mu_`, one per `StepperChannel`, `MotionLock`, `TelemetryQueue`,
`TelemetryClient`, `LinkBudget`), and most of what can go wrong happens where a
step takes one of them, lets it go, and acts on what it saw.

| Part | State | Operations | What makes it hard | What makes it correct | Module |
|---|---|---|---|---|---|
| telemetry queue (`telemetry_queue.cpp`) | frames by index, runs, key index, file, dead bytes | enqueue, exact and cumulative acknowledge, prune, compact, retry, load | cut lines that still parse, closes nobody checks, failed renames, duplicates from retries, indexes in step | no frame lost to a kill; order kept; the file has what the memory has | `TelemetryQueue` |
| telemetry drain and client (`telemetry_drain.cpp`, `telemetry_client.cpp`) | the frame in flight, socket, stream | send, match ACK, time out, reconnect | resets between send and ACK, late ACKs, backlog against live frames | at-least-once; an ACK discharges its own frame; the queue drains | `TelemetryDelivery` |
| ground receiver (`gui/dispatch.py`) | received set, cursor, log | read, deduplicate, acknowledge, log | crash or failed ACK between the steps; frames that do not parse | a DATA frame makes at most one row | `TelemetryDelivery` |
| motion lock and channels (`motion_lock.cpp`, `stepper_channel.cpp`, `stepper_controller.cpp`) | holder; per motor position, target, mode, lock_held_ | move, bend, home, pull, stop, zero, microstep, enable, tick, pulse | three kinds of threads, early returns that keep the lock | one motor moves, only with the lock; every motion ends; a coast is latched | `MotionInterlock`, `StepperMotion` |
| failsafe plan (`fallback_planner.cpp`, `SystemController::TickFallbackPlan`) | plan, motor states, deadline, file | load, arm, disarm, tick, report, persist, restore | the mutex is free between decision and report; racing writes; restarts | order, once only, comes to an end | `FallbackPlan` |
| heaters (`thermal_controller.cpp`, `heater_scheduler.cpp`, `SystemController::Run`) | overrides, latch, energy, duties | 20 commands; compute, schedule, apply | commands between the steps of a tick; motion starting in between; four who ask for heat | latch, budget and interlock bind everybody | `HeaterControl` |
| bend sequences and modes (`SystemController::TickBendSequences`, `HandleCommandLine`) | per motor sequence, mode, link-loss gate | load, run, pause, resume, stop, clear; arm, disarm, safe; tick | commands that look at the motor, then take the mutex, then stop the motor; modes change in between | what a sequence moves stops with it; it moves to the step it is at; safe means none; it comes to an end | `BendSequences` |
| motor driver (`tmc5160_driver.cpp`, `stepper_channel.cpp`) | the books of the driver (healthy, losses, counters), the registers of the chip, the channel | configure and verify, poll, step, recover, enable, current, CHECK, retry | every SPI access may fail; the chip resets or cuts its coils between two looks; three callers find it | a healthy driver has the chip it believes in; no lost step is forgotten, and it is found in time | `Tmc5160`, `MotorSupervision` |
| resistance clicks (`hal/max31865_adapter.cpp`, `SensorManager::Max31865Loop`) | configuration byte of each chip, adapter open, conversion under way | probe, one-shot, read, clear fault; CHECK | no acknowledgement on SPI; a click that vanishes at any transfer; a kill in the middle of a one-shot | nothing unconverted is reported; no bias current goes unnoticed; what is there is detected | `ResistanceClicks` |
| temperature sensors (`hal/sequent_rtd_adapter.cpp`, `sensor_manager.cpp`) | handle of the card, caches with times, health, address of a scalar sensor | probe, read, publish, rediscover, snapshot; CHECK | handles that die, workers at their own pace, three writers of one resistance | nothing stale is valid; a card that is back is read again | `TemperatureSensors`, `SensorManager` |
| link budget and those who ask it (`link_budget.cpp`, `telemetry_client.cpp`, `command_server.cpp`) | entries by their end, waiters; socket, codec, connect hold, transmit flag | charge, hold, release, refund; dial, hello, send, reply, announce; silence, resume | four threads, windows that slide, answers that come after a reset, a mutex let go to wait | bytes per window; no hold forgotten; silence is silent | `LinkBudget`, `LinkTraffic` |
| choice of the ground station, radio silence (`telemetry_client.cpp`, `PersistRadioSilence`) | station heard last, active and candidate host, priorities, backoff; the silence flag in memory and file | observe, beacon, hello, dial, fail over; silence, resume, restore | three threads overwrite one advert and one candidate; check and datagram apart; kills | silence outlives a kill; a failover is for a higher priority; the client comes back | `GroundTarget` |
| pull events (`PumpPullEvents`), phase state machine, relay tuner, command server's connections | | | edges seen once a tick; debounce over gaps | | not modelled |

They meet at few places: the control loop enqueues a frame per tick and drains
the queue; the plan, the sequences and the operator move the motors; every
motion takes the MotionLock, which the heater scheduler asks; the link status
of the drain starts the fallback, which starts the plan and the floor heating.

## 2. The modules

**`TelemetryQueue`** is `TelemetryQueue` of the code: `frames` (`frames_`),
`runs` (`runs_`), `by_key` (`by_key_`), `disk` (`pending.queue`, whether
persistence is on, dead bytes). `Enqueue`, `AcknowledgeExact`, `Acknowledge`,
`Initialize` are whole public operations, the pruning, retry and compaction at
their end included; `InitializeInMemory` is `Initialize` with no disk; `Crash`
is the death of the process, in the middle of an append if one may be under
way; `Expire` makes a frame old. A disk operation fails at most `MaxFaults`
times. A frame is its key and what is left of its text: whole, cut behind the
key (`known`), or cut before it (`lost`, the key cannot be read off the frame any
more, though the line still has it). A line that was cut (`Cut`) may still parse
and is loaded as such a frame; what is appended to it (`Merged`) may read as more
text, as the new line, or as a frame under a key nobody gave out (`MadeUp`).
`disk.open` says that the last line has no newline. Nothing checks the close of
the temporary file in `CompactLocked`, so `Compact` may also leave a `Short` file
and take it for good; the history `disk.lost` names what that file left out. A
line is one byte.

**`TelemetryDelivery`** extends it with the drain (`EnqueueLive`,
`StartEvents`, `Send`, `ReceiveAck`, ...), the connection (`Connect`,
`AckTimeout`, `ResetConnection`) and the receiver (`Accept`, `Receive`,
`AckSent`, `Log`, `GroundCrash`), which do their steps in any interleaving. A cut
frame is parsed, or acknowledged by the key that can be read off it
(`ReceiveUnparseable`), which the drain may find to be another one
(`MismatchedAck`), or, its key lost, not answered at all (`ReceiveUnknown`,
`NoAnswer`). A frame that arrives as it was sent is taken to decode.
**`ReliableTransfer`** says what is promised: a frame is discharged only after
it arrived. `DeliversAtLeastOnce` is that specification under the mapping of
`discharged` to the frames taken and no longer owed.

**`StepperMotion`** has a record `ch[m]` per channel with the fields of
`StepperChannel`, `holder` of the lock, and `cmd`, the command of several steps
under way. One action per operation under the channel's mutex; `ArmPullCycle`
and `SetPositionZero`, which let it go, are three and two. A pulse comes at any
time, and the driver may take it, stall or fail; but none comes to a motor that
is told to go slower than a microstep a second, by its speed (`step_hz`) or by
what its acceleration lets the last microstep be taken at (`Pulses`): it crawls
(`Crawls`). **`MotionInterlock`** is the
motion layer for everybody else: a holder and a set of motors in motion.

**`FallbackPlan`** has the plan, its file, the texts on their way to the file,
and a program counter for the control loop: `Gate` (is the fallback active),
`Look` (snapshots of the motors), `Decide` (`FallbackPlanner::Tick`), `Move`,
`Report` (`ReportStartResult`), `Save`, and the write in two steps: `Open`, which
empties the file and may fail, and `Close`, which writes from the start over
whatever the other thread has written meanwhile (`Overlaid`: the new text, an
unreadable one, or one that reads as the new text with the last motors of the
old) and may fail unnoticed (`Cut`). A text put together of two, or cut, is marked
`mixed`. The commands come in between. `Restart` kills the process anywhere and
loads the file. The motors are `MotionInterlock`'s, with the reason of the last
end added; the history `bent` has the motors whose bend was accepted.

**`HeaterControl`** has the overrides (`over`), who owns the heaters (`test`,
`tune`), the latch and the energy, the duties (`on`), and a program counter for
the tick: `Copy`, `Compute`, `Schedule`, `Apply`, then the bends of the control
loop itself. Twenty commands come in between, and a motion command is two steps:
it zeroes the duties and then takes the lock. The history `given` has the duties
that stood when the operator last gave one in the open loop of the bench, which a
target, an off, a duty given with debug off, a reset or `DISARM_DEBUG` take back.
It uses `MotionInterlock` by `INSTANCE`.

**`BendSequences`** has a record `seq[m]` per motor (`BendSequenceRuntime`), the
mode, and a channel reduced to where it is, where it goes and whether it is
enabled, zeroed and in doubt. `tick` is the control loop: `Gate` and the stop at
the loss of the link, the failsafe plan (what it may do to a motor, at any
time), then under `sequence_mu_` motor by motor `LookAtSequence` and
`StartStep`, then the pause on a fault. `cmd` is the command thread: `Disarm`,
`EnterSafe` and the stops change the mode or the sequences first and stop the
motors one by one after; `CheckRun`, `CheckMove`, `CheckResume` look first and
act later. `driven` remembers which motions a sequence gave.

**`LinkBudget`** has the operations of the ledger on a record of open holds and
of closed entries by their end, counted from now. **`LinkTraffic`** has `ledger`
and everybody who asks it: `loop` is `SendFrame` (`Dial`, `Connects`, the ways a
HELLO ends, `AskRoom` which lets the client's mutex go, `Send`, the ways an
exchange ends), `server` is `SendPacedReply` with the command before it,
`allowed` are the beacon and the listener between their check and their
datagram. Beside them is the real link: `wire` counts the bytes that went
through in each tick of the window, whoever sent them, and `late` the answers
that a reset did not stop, which come at any time while they may and draw a
reset each. The peer acknowledges with a segment of its own or with its answer,
in time, late or never. Two things are not on this wire because the share does
not promise to hold them: the resets of a connection closed from outside an
exchange (`docs/link-budget.md`, the unaccounted 250 bytes), and the header of a
reply's first segment (the ground station's share). The codec is taken to be
there, the ground station to be one host, the model of the kernel's shaper to be
off: it can only refuse a charge, which is allowed at any time anyway (a frame
may give up waiting, a dial may never come).

**`GroundTarget`** has what the client keeps under `mu_` about whom to dial:
`latest` (`latest_gs_`), `link` (`connected_`, `active_host_`,
`current_priority_`), `candidate`, `failover`, `retry`. `SendFrame` is reduced to
how it leaves these: `DialFails`, `Connects`, `HelloFails`, `NotNow`,
`ExchangeFails` (what it costs is in `LinkTraffic`, what it carries in
`TelemetryDelivery`). `GsBeacon` and `GsHello` are the listener, which checks,
lets the mutex go and answers (`SendOnboardHelloReply`); `BeaconAllowed` and
`SendOnboardBeacon` the beacon thread; `ObserveGroundStation`, `RadioSilence`,
`RadioResume` and `PersistRadioSilence` the command thread, which changes the
memory first and the file after. `Restart` may fall anywhere. `static_ground_ip`
and `telemetry_host` are one `Configured` host (the code tries them in this
order), an advert's ports go with its host.

**`Tmc5160`** is the driver object of one motor with the registers of its chip.
A call of the driver runs under `io_mu_` and makes several SPI accesses of which
any may fail, so each is an operator from driver and chip to the set of its
results (`Reinitialize`, `Poll`, `Step`, `SetCurrent`, ...), built from
`WriteRegister` and `ReadRegister` with `Then`. **`MotorSupervision`** puts a
`StepperChannel` on top: `IssuePulse` of the pulse thread, the tick as
`PollTick` and `TickRetry` (the retry of a driver that is not healthy), the
operator's commands, CHECK in its two steps, and the hardware (`ChipReset`,
`CutOff`, `Undervoltage`, ...). `chip.slip` is the truth nobody sees: the rotor
is not where the channel counts it, because the power stage was off, the chip was
reset, a corrupted XTARGET took it elsewhere (`Astray`), or a step was counted
with the enable line off, as after `OpenGpio`. `chip.unseen` says that the code
has destroyed what it could have been found by: flags cleared unread and registers
rewritten (`Reinitialize`, `EnableOff`), or steps with the enable line off, a
register nobody reads while stepping (`Advance`). Its specification is `MotorSpec`, so that
one module of proofs can extend it together with `StepperMotion`.

**`ResistanceClicks`** has the two MAX31865 clicks transfer by transfer
(`ProbeClick`, `Readback`, `BiasOn`, `OneShot`, `ReadCode`, `BiasOff`,
`ClearFault`); a transfer to a click that is not there succeeds and reads the
idle level. The worker and CHECK take turns under `clicks_io_mu_` and publish
after it. **`TemperatureSensors`** has the Sequent card with its handle, the
caches with their ages, and a scalar sensor with its rediscovery.
**`SensorManager`** puts both under one configuration (`setup`: which workers
run, which source the resistances have), with the snapshot of the tick, CHECK,
time and kills.

`StepperMotion` implements `MotionInterlock` (checked by the run `motion`,
proved in `StepperMotionProofs`), which is what the other two build on. The same
module has the proofs about `MotorSupervision`, the other view of a motor.
`HeaterControlProofs`, `FallbackPlanProofs`, `LinkTrafficProofs`,
`BendSequencesProofs`, `GroundTargetProofs` and `SensorManagerProofs` hold the
theorems of those six, `TelemetryProofs` those of queue and delivery.

The `MC*` modules only give constants; definitions whose names carry an
underscore and a comment `mutant:` are plausible bugs that the named property
must catch (`PROJECT.json`, "mutants"); nothing else uses them.

## 3. The runs

| Run | Bounds | What it shows |
|---|---|---|
| `queue` | 3 frames in each of 2 processes, one disk fault, room for 3 lines, compaction at 2 dead lines (1.46 M states, 80 s) | indexes exact, order of production, no pending frame outside the file but those an unnoticed failure lost, clean steady state, nothing lost to a kill |
| `delivery` | 2 frames per process, one of them an event, one crash of each side, one reset (248 000 states, 90 s) | at-least-once as a refinement; at most one row per DATA frame and no ACK for another frame; the queue drains, unless a frame whose key is lost is pending |
| `delivery_logged` | one process, one reset | **violated**: a frame acknowledged and discharged without a row |
| `motion` | 2 motors, positions within one step of home, two divisors, speeds on either side of a microstep a second, 4 commands (617 000 states, 110 s) | interlock discipline, retract to home, coasts latched, motions end unless they crawl, refinement of `MotionInterlock` |
| `motion_lock_latched` | the same, 3 commands | **violated**: a zero-length move keeps the lock with nothing moving |
| `fallback` | 2 motors, 3 commands, restarts and failed writes in all (1.10 M states, 150 s) | states agree in memory and in any file that is not mixed, order, no bend twice, the plan settles |
| `heater` | 2 heaters, 1 motor, at most 1 active, a budget of 2 heater-ticks, 4 commands | latch, budget, overlap with motion of at most a tick, one owner, off is off, no heat without a reading but by a duty given so |
| `sequences` | 2 motors, one sequence there and back (first step with hold), 3 commands | what a sequence moves stops when it does, goes to the step it is at, is spared by the loss of the link; none in SAFE; it ends |
| `link` | share 9, window of 2 ticks, tails of 0 or 1 tick, a frame of 2 bytes and one byte for all else, 2 announcers | no window on the wire above the share; no hold forgotten; nothing goes on in silence |
| `target` | two consoles with beacons and a command from the Pi; rediscover period and grace of one tick, backoff up to 2 | silence outlives kills and lets at most one datagram of each thread out; failovers are justified; the client connects again and again |
| `supervision` | status every 3 steps, holdoff of one step, 2 polls, legs of 2 steps, 2 run currents, 2 events | a healthy driver has the chip it believes in, with currents within 110 %; no slip is forgotten but those the code makes unseen; it is found within the interval |
| `sensors` | 2 channels, 2 clicks, one scalar sensor; each sensor alone with 1 to 3 troubles, then card and clicks together under each source | resistances are of their source and were converted; nothing stale is valid; a card is back in two readings; no bias goes unnoticed; a click that is there is detected |

Why the bounds are enough. Three frames give runs of every shape (split, head,
tail, whole) and two processes a reload of a reloaded file. Two motors are
enough for every contention for the lock, as a third would only wait like the
second. One step of travel makes a leg that is under way and one that has
ended, and two divisors a rescale that rounds. Three
events load, arm and disturb a plan; the disturbance may be a restart or a failed
write between any two steps, and a plan loaded before is among the initial
states. Four commands arm,
open the bench, ask for heat and disturb. A budget of two is reached by the
second tick that heats. Two steps are a sequence with a step to come back from
and a last one; three commands run it, pause it and put the program in SAFE, or
run two at once and disturb them. A share of nine holds a frame's exchange (8) or a
connection's (9) and a little more, as 1600 bytes do, so that everybody has to
wait for everybody; every term of every cost is needed there: with any one of
them less, TLC finds a window that is too full. A window of two ticks has a
boundary that entries cross, and answers are late by up to the tail they are
charged for. Two consoles and a loopback peer are a host of every kind: a
priority above, one below and none; a grace and a period of one tick have a
beacon on either side of them, and a backoff that doubles once reaches its cap.
An interval of three steps is longer than a leg, so a slip is carried over from
one leg to the next, and two events (of the chip, of the bus, or a command of
another current) are one that hides another: a reset while the bus is down, a
change of current that breaks off. The two currents differ in both registers, so
what broke off between them shows; the other 991 that `CalculateCurrent` grants
are the theorem's. One trouble of the clicks may fall on each transfer of a
conversion; three of the card make it vanish, come back as another and vanish
again; ages of two ticks are on both sides of the limit.

`CHECK_DEADLOCK FALSE` stands only in the queue's and the delivery's
configurations: there the bounds on frames, processes and crashes really end a
behaviour. Everywhere else a system that stops is an error.

## 4. Fairness

Only where a liveness property needs it, and only for what the code schedules:

- `StepperMotion`: the pulse thread of a motor that is fast enough goes on pulsing
  and the control loop goes on ticking (one `WF` of `Pulse` and of the ends of
  holds and legs: one motor moves at a time). Below one microstep a second
  `PulseThreadBody` waits and never pulses (`stepper_channel.cpp:413`), and
  `SetSpeed` and `SetAccel` take any value above 0: `Pulse` is then not enabled,
  and `MotionEnds` exempts the motor as long as it crawls. No fairness for
  commands, stalls or faults.
- `FallbackPlan`: the control loop ticks, the deadline passes, and a motion
  ends (`MotionEnds` of `StepperMotion`, so for speeds and accelerations of a
  microstep a second or more). None for commands, restarts and a file that fails.
- `TelemetryDelivery`: the control loop, the receiver and the connection make
  progress, a drain whose frame nobody answers gives up at its deadline
  (`NoAnswer`); resets and crashes are bounded, as nothing arrives over a link that
  is reset for ever.
- `BendSequences`: the control loop ticks, and every leg and every hold ends, which
  again takes a speed of a microstep a second or more for granted. None for
  commands, aborts and faults.
- `GroundTarget`: time passes, and a ground station that is dialled again and
  again answers once (`SF` of `Connects`, without which nobody is ever
  reached). `Reconnects` takes for granted that the radio is on and some station
  is heard within the rediscover period all along (beacons come every 2 s, the
  period is 30 s).
- `HeaterControl`, `TelemetryQueue`, `LinkTraffic`, `MotorSupervision` and
  `SensorManager` state safety only and have none: what must be found there is
  found within a count of steps or readings (`FoundInTime`, `BackInTwo`).

`PlanSettles` takes for granted that the fallback stays active at float and
exempts one case: a MotionLock taken with nothing moving, which
`motion_lock_latched` shows to be reachable and which blocks the plan for good.
`SequenceEnds` exempts the same: a sequence then waits for the lock for good.
`QueueDrains` exempts a queue with a frame whose key is lost: see section 6.

## 5. What is proved

Every theorem is about the very specification the runs check, for every value
of the constants that its named assumption allows. The inductive invariants
were also checked by TLC as invariants of the run's configuration, but for what
`QueueInv` says of any file, which TLC cannot enumerate.

**`StepperMotionProofs`**: any set of motors, any range of positions, travel,
divisors, relative moves and number of commands, from `MotionAssumption`
(`NoMotor` is no motor; the numbers are numbers; divisors are positive).

- `MotionSafe`: `Spec => []LockDiscipline` (types, `LockAgrees`, `OneMotor`).
- `MotionImplements`: `Spec => GivesInterlock`, the refinement.
- `CoastLatched`: `Spec => CoastIsLatched`.
- `RetractsSafe`: `Spec => []RetractsHome`.

`OneMotor` is not inductive: a channel in motion that merely *was* given the
lock says nothing of the next step. The invariant is `TypeOK`, `LockAgrees`
(the lock and the channels agree on who holds it, the pull being armed between
its two steps included) and `MotionHasLock` (a channel that is not idle
believes it holds the lock). Every operation does one of three things to the
lock, so there are three lemmas (`KeepInv`, `BeginInv`, `EndInv`), one lemma
per operation that cites one of them with the record it writes, and `StepInv`
collects them. The refinement is the same case split: a step keeps, begins or
ends, and maps to a stutter or `Change`, to `Acquire` or `Change`, to `Release`
or a stutter. `CoastLatched` goes through the operations once more: most leave
`enabled` alone, and each of the four that clear it writes the latch with it. `RetractsHome` is
not inductive, since it says nothing before the retract: `Homeward` adds that a
channel which moves or holds and will retract has home to go back to; what an
idle one remembers of an aborted pull is of no account, and home stays 0 when
the divisor changes (`RescaleHome`).

The second half of the module is the driver: any intervals, holdoff, number of
polls, stall mode, currents, legs and events, from `DriverAssumption`,
`CurrentAssumption` (the configured current is one that `CalculateCurrent`
grants; with another the driver is never healthy) and `BoundAssumption`.

- `ChipSafe`, `SlipSafe`, `FoundSafe`: `MotorSpec => []P` for `ChipSound`,
  `SlipIsKnown`, `FoundInTime`.

A call of the driver makes up to ten accesses and any may fail, so the invariant
must be one that every call keeps wherever it breaks off. `Fit(d, c, u)` says
of a driver, its chip and the latch of the channel: the books are the chip's
(`Matched`, which is `ChipSound` without the 110 %); a short, a low supply and a
hot die have their flag up as long as they last (`Flagged`); and a slip is
remembered (`Kept`).
`Kept` is stronger than `SlipIsKnown`: a flag of the chip that the driver has
booked already (`uv` with `d.uv`, `err` with `d.err`) holds no slip, since the
next look counts it no more (the overtemperature shutdown with `d.ot` alone
does), and a flag holds one only of an enabled motor,
since a poll of a disabled one books nothing. Without this a second look at the
same episode would forget what the property says is known. `Aware` is what
remembers a slip without the flags: the latch, a loss on the books, a driver that
is not healthy, or `unseen`. The last is the code's admission: what a call clears
or rewrites without counting is named by the call, and the theorems are about
every other slip. That these exist is section 6's.

The proof goes up by accesses (`ReadIn`, `WriteIn`, `LostIn`: a failed one costs
the driver its GPIO lines at most, `Regrip`), parts of calls (`ConfiguredIn`,
`RestoreIn`, `FlagsIn`, `StepLossIn`), calls (`ReinitIn`, `RecoverIn`, `PollIn`,
`OffIn`, `OnIn`, `CurrentIn`, `MicrostepIn`, `ConfirmIn`, `StepIn`), and actions
(`PulseKeeps`, `RetryKeeps`, ...). A call's lemma says besides `Fit` what it does
to the counter of steps: it is as before, unless the driver is not healthy any
more; `Step` counts one, or has put everything on record; `Enable` starts anew,
after it has looked at everything. This is what `FoundInTime` needs:
`channel.blind <= driver.steps` is the rest of `MotorInv`, whatever the holdoff
and the status bytes did in between, and the driver's counter stays below
`kResetCheckInterval` by its type. `CurrentWithin`, a theorem of its own, adds to
`ChipSafe` that the clamps and roundings of `CalculateCurrent` stay within 110 % of the request over
the whole range: its own check (`tmc5160_driver.cpp:264-282`) is made only at the
low end, and is needed only there.

**`HeaterControlProofs`**: any heaters, motors, limits, budget and number of
commands, from `HeaterAssumption`.

- `OwnersSafe`, `LatchSafe`, `BudgetSafe`, `OverlapSafe`, `DutiesSafe`:
  `Spec => []P` for `OwnersSound`, `LatchHolds`, `BudgetHolds`, `OneTickLate`,
  `DutiesHold`.

What is true of the duties is only true of what the tick has in hand: a command
may change overrides, latch and lock between any two of its steps. So the
invariant follows the program counter. `Allowed(S)` is what a computation
grants: no latched heater, nothing when the tick began off, no heater without a
reading; `Granted(S)` is what the scheduler adds: nothing once the budget is
spent, and with the lock taken only what was scheduled before. After `Compute`
the requested heaters are `Allowed` (`RequestedOK`); after `Schedule` the
scheduled ones are `Allowed` and `Granted` (`ScheduledOK`); what is `on` is so
from `Apply` to the next tick (`OnOK`). `AtRest` says what the tick has
forgotten when it starts again, `BusyHolds` that what moves holds the lock. A
heater without a reading is `Allowed` only by a duty that was given in the open
loop: `OverGiven` says that the overrides, as long as they are open, hold no duty
but those, through every command that changes the one or the other, and
`TickGiven` that the tick's copy of them does.

**`FallbackPlanProofs`**: any number of motors, texts, commands and restarts,
from `FallbackAssumption` and `TextAssumption` (`NoText` is no plan).

- `PlansSafe`, `OrderSafe`, `BentOnceSafe`: `Spec => []P` for `PlansSound`,
  `InIdOrder`, `BentOnce`.

The plan exists in several copies (in memory, in the file, as texts that wait
to be written), and a restart may make the file's the current one. The
invariant says of every copy that is not `mixed` that it is `Good`: the states of the motors agree
with the state of the plan (`StateAgrees`), finished motors come before the
running one and that before the pending ones (`InOrder`), and some motor is
configured. That alone is lost at `Report`, which runs after the mutex was
free: `Starting` says that until then the plan is the one the planner decided
for, with that motor running, or one that a command disarmed and perhaps armed
again, of which nothing has run; `Reported` that the report has a result;
`Writing` that a thread has one text at a time. For `BentOnce`, `BentStay` says that
a motor whose bend was accepted is not pending again: `Report` puts back only the
motor that was refused the lock, `Skip` passes over, a command that makes a motor
pending takes it out of `bent`, and a restart keeps there what its file still
has.

**`LinkTrafficProofs`**: any sizes, share, window and tails, from
`BudgetAssumption` and `TrafficAssumption` (answers come no later than the abort
tail; a reset is no longer than a pure ACK).

- `ShareSafe`: `Spec => []ShareSound` (types, with the ledger within the share,
  and `WindowCapped`).
- `HoldsSafe`: `Spec => []HoldsEnd`.
- `SilenceSafe`: `Spec => []SilenceHolds`.

The last two are inductive with the types of what they mention. First come the
lemmas of the ledger: each operation keeps it well formed and touches the hold it
names and no other (`HeldBooks`, `ReleasedAtBooks`, ...). Then one lemma per step,
of which the failures of an exchange share `AbortExchangeInv` and the steps of a
reply `ReplyStep`. `Books` is the type without the bound that admission gives.

`WindowCapped` compares two folds of which neither says anything of the other.
The invariant that carries it is `Cover`, *every byte is inside its charge*:

- `HoldsExact`: each hold is, to the byte, what the step of its exchange says;
- `Counted`: for every past moment of the window, what went out since, what may
  still come in, and `Due`, what the exchanges under way may still emit or
  provoke, are together no more than the holds and the entries that end after
  that moment; for every future moment, what may come in after it is covered by
  entries that end no earlier (this is what the abort tail is for);
- `Capped`: holds and entries together stay below the share (admission).

At the far end of the window `Counted` and `Capped` give `WindowCapped`. A step is
described by five numbers (`Moves`): the bytes admitted, closed, closed at the
abort tail, emitted and provoked; `Spent` says when such a step keeps `Cover`, and
each action's lemma shows its numbers. `Tick` is the one step where the entries
and the wire slide (`CountedPassed`).

The folds are reasoned about as sizes of sets: `FoldIsSum` shows that
`SumFunction(f)`, defined by a choice of the next element, is the number of pairs
`<<a, i>>` with `i \in 1 .. f[a]`, by the least set on which it could differ, and
the lemmas before it say what one more element, a changed element and a shift do
to that number.

The proof found what the cap rests on without the code saying so: an exchange
that is given up draws three resets (its own, one for a late TCP ACK, one for a
late answer) and is charged for two. The third fits because the pure ACK that
the charge holds for the answer is then not sent, and `kReset` (84) is no more
than `kPureAck` (90, `link_budget.hpp:26,28`). With a longer reset TLC finds a
HELLO that is lost with every late segment coming in, and a window over the
share: hence `Reset <= Pure` in `TrafficAssumption`.

**`BendSequencesProofs`**: any number of motors, positions, names, lists of bends
and commands, from `SequenceAssumption` (lists are not empty, 0 is a position).

- `MotionSafe`, `StepSafe`, `SafeSafe`: `Spec => []P` for `MotionHasSequence`,
  `StepsSound`, `SafeHasNoSequence`.
- `SparesSafe`: `Spec => FallbackSpares`, an action property.
- `OrderSafe`: `Spec => StepsInOrder`, an action property stated in the proof
  module: a sequence that keeps running keeps its name and its definition, and its
  step index moves by one at most, with the motor at rest at the target of the step
  that was queued. It is the safety half of `SequenceEnds`, which TLC checks.

The first three need each other: a sequence that is looked at and changed has a
motor that none moves, because one that moves is a step queued
(`MovesToItsStep`), and a step queued with its motor busy is waited for. `RunOK`
says that a running sequence is at one of its steps, `TickOK` that the loop is
about to start only what still wants to start (the mutex is held), `CmdOK` what
the command under way looked at before, and that in SAFE nothing runs once the
sequences are cleared. Steps that change no sequence go by `KeepInv` and
`CommandInv`, commands that change one by `SequenceInv`. For `FallbackSpares`,
`QuietOK` says that what is to be stopped has had no active sequence since the
gate looked, although sequences may be started meanwhile: only the ticker gives
them motion, and it comes later in the same loop. For `StepsInOrder`, `Stays` is
what every step but one does to a runtime: it leaves name, definition and index
alone, or the sequence does not run before and after. Loading and clearing spare a
definition in use, and a start needs a runtime that does not run; only
`LookAtSequence` moves on, after it has compared the motor's position.

**`GroundTargetProofs`**: any hosts, priorities, periods and backoff, from
`TargetAssumption`.

- `SilenceSafe`, `FailoverSafe`: `Spec => []P` for `SilenceKept`,
  `FailoverJustified`.

`SilenceKept` speaks of the time after the acknowledgement only and says nothing
of the flag, so it is not inductive. `FlagHolds` adds that the flag stays while
the silence is remembered, also while RADIO_RESUME has changed the memory and
not yet the file (a kill then comes back silent), and that RADIO_SILENCE under
way has the radio off. `SpeechHolds` adds that a thread which asked before the
silence has sent nothing in it yet. `FailoverJustified` is inductive: only the
listener changes the candidate while connected, and only a dial changes whom it
is compared with.

**`SensorManagerProofs`**: any sets of channels, heaters, scalar sensors,
addresses, workers and troubles, any age limit, the two clicks, from
`ClickAssumption`, `TemperatureAssumption` and `SetupAssumption`.

- `BiasSafe`, `FreshSafe`, `BackSafe`, `SamplesSafe`: `Spec => []P` for
  `BiasKnown`, `FreshValues`, `BackInTwo`, `SamplesSound`.
- `PresentSafe`: `Spec => PresentIsDetected`, an action property.

The bias rests on `BiasWhere`: the bias of a click whose adapter is open is on
only at the steps shot, read and off of the conversation with that very click;
past the probe the adapter of the conversation is open; and a click that is not
there has no bias. The first part alone does not survive a failed transfer, since
only the last part says that a click which was gone meanwhile came back without
its bias. `PresentSafe` uses it at the readback: an adapter that asks whether the
click answers as configured has not biased it yet.

`Measured` says why no old code is reported: when it is read, the conversion the
one-shot asked for is pending with the bias on, unless the click was gone and
has no code. `TempInv` has, beside the types, that no value is older than its age
says, in the cache and in the hands of a worker that hangs (`CacheYoung`), that
TEMP_OK of a tick is renewed before time passes twice (`VerdictFresh`), and that
a card which failed a pass has no dead handle left (`HeardSoon`), which makes the
second pass succeed.

**`TelemetryProofs`**: any number of frames, processes, disk faults, resets,
replays and crashes and any limits, from `QueueAssumption` and
`DeliveryAssumption`.

- `RepresentationSafe`, `OrderSafe`, `FileSafe`, `DurableSafe`: `Spec => []P`
  for `Representation`, `ProductionOrder`, `FileAgrees`, `Durable` of the queue.
- `OneRowSafe`: `DSpec => []OneRowEach`.
- `DeliveryImplements`: `DSpec => DeliversAtLeastOnce` when `MaxBytes = 0`, the
  refinement. With a limit a frame dropped for want of room is discharged
  undelivered, which is what the limit is for.

A rewrite gives the pending frames new places in their order. That order is the
rank of an index, which is onto by the well-founded minimum and by counting
(`RankOnto`, `NthOrder`), so nothing is proved by induction over data.
`SqueezeFacts`, `AppendFacts`, `PatchFacts` and `ShortFacts` say what a rewritten,
an appended, a written-over and a short file hold; `InsertRuns` and `RemoveRuns`
that the runs stay maximal when one index comes and when a set of them goes (the
greatest removed index below, the least above). Order and identity are by key:
what a line is cut to or made of keeps the key of the first part, or is `MadeUp`
(`CutFacts`, `MergedFacts`). Each operator on the disk has a lemma (`CompactDisk`,
`MaybeCompactDisk`, `RetryDisk`, `SettleDisk`, `AppendDisk`) and each action one on
top of it. `QueueInv` joins what none of the properties says alone: every key in
memory, in the file and in flight is at most the last one given out (`Counters`,
`UpTo`), so a new frame is the newest; the runs and the keys are those of the
frames; the file and what is `lost` cover the memory, and if no byte is counted
dead the file has no other key (`Agrees`); while no disk operation has failed a
process that runs has the last line closed (`Closed`), so that no frame is
appended to a cut one, and no key is in the file twice. For `OneRowEach` the delivery adds that one frame at a time is under way
(`Exchange`) and what the console remembers (`Dedup`), for the refinement that
what has left the queue was taken in by the ground (`Taken`).

Every invariant and every action property that a run checks has a theorem, and so
have the two refinements. Only model-checked is the liveness (`QueueDrains`,
`MotionEnds`, `PlanSettles`, `SequenceEnds`, `Reconnects`): fairness is beyond the
prover.

## 6. Findings

Two violation runs with the text each contradicts (`PROJECT.json`, "findings"):
`delivery_logged` and `motion_lock_latched`. Twelve configurations that are not
runs show one disagreement each (two of them two); TLC finds it violated in
seconds (`tlc -config MCGroundTargetDisplaced.cfg MCGroundTarget`):

| Configuration | Property | The code | The text |
|---|---|---|---|
| `MCTelemetryQueueZombie.cfg` | `AckRemoves` | `telemetry_queue.cpp:131`: the retry in `Enqueue` compacts with the new frame and then appends it again; acknowledged once, it is back after a restart | `telemetry_queue.hpp:49` |
| `MCTelemetryQueueShort.cfg` | `DiskCoversMemory` | `telemetry_queue.cpp:301-337`: nothing checks the close of the temporary file; on a full disk the short file replaces the good one, `CompactLocked` returns true and `dead_bytes_` is 0 | `docs/link-budget.md:254`: "The durable queue keeps every frame the ground station has not acknowledged" |
| `MCTelemetryDeliveryTorn.cfg` | `DrainsAnyway` | `telemetry_queue.cpp:414-445` loads a line cut inside the frame; if no key can be read off it, `ack_for_raw_line` answers nothing (`protocol.py:441`), and the onboard sends it again and again, with a reset each time | `protocol.py:432-435`: "Acknowledging what cannot be parsed is what lets the onboard drop the frame from its durable queue instead of re-sending it on every reconnect for the rest of the flight" |
| `MCFallbackPlanAgain.cfg` | `NeverAgain` | `system_controller.cpp:541-556`: serialising and writing are apart, so an older text may land last, or a kill come before the save; after a restart the finished plan is armed or running again | `docs/protocol.md:327-328`: "A done or failed plan never runs again — across restarts included — until FALLBACK_DISARM"; `docs/onboard.md:59-60` |
| `MCFallbackPlanDisarm.cfg` | `DisarmClears` | `system_controller.cpp:658`: `fallback_mu_` is free between the decision and the report of a start; a FALLBACK_DISARM in between is overwritten | `docs/protocol.md:268` |
| `MCHeaterControlBlind.cfg` | `BlindIsOff`, `BlindIsOffInFlight` | `thermal_controller.cpp:252`: in the open loop a heater without a reading keeps its duty; `SET_BENCH_MODE OFF` (`system_controller.cpp:2305`) leaves the open loop standing | `docs/protocol.md:345-346`: "Any invalid PT100 channel forces its matching heater off, including in open-loop duty mode"; `docs/onboard.md:101-102` |
| `MCBendSequencesDisarm.cfg` | `DisarmStops` | `system_controller.cpp:1818`: DISARM stops the motors and leaves the sequences running; the next bend starts in STANDBY | `docs/protocol.md:220` |
| `MCMotorSupervisionOff.cfg` | `DisabledIsOff` | `stepper_channel.cpp:235`: a retry during a disable whose access failed leaves the chopper on while the channel is disabled | `tmc5160_driver.cpp:566` |
| `MCMotorSupervisionReset.cfg` | `ResetIsLatched` | `tmc5160_driver.cpp:1340`: a reset found by CHECK or by the retry is recovered without a step-loss event | `docs/protocol.md:354-361` |
| `MCMotorSupervisionUnseen.cfg` | `StepsArePowered`, `MismatchIsLatched` | `tmc5160_driver.cpp:359-364`, `:489-497`: lines that are reopened leave the enable line off, and after a CHECK the driver is healthy, counts steps and takes none; `:749-753` and the CHECK write XTARGET and XACTUAL anew without comparing them | `docs/protocol.md:354-357`: the onboard "watches everything that can make that count wrong, counts each occurrence as a step-loss event (`loss`) and latches the motor's position as uncertain" |
| `MCSensorManagerHealth.cfg` | `RtdHealthIsFresh` | `sensor_manager.cpp:963`: the health of the card is copied without its age, a worker that hangs leaves it OK | `docs/rev-c-instruction-manual.md:797` |
| `MCGroundTargetDisplaced.cfg` | `LowerNeverDisplaces` | `telemetry_client.cpp:1008`: every peer overwrites `latest_gs_`, which the next dial takes: after one failed send a lower-priority console gets the telemetry | `telemetry_client.cpp:1018`: "A lower-priority peer never displaces a known target, connected or not" |

More was met while modelling and is no configuration:

- A move slower than one microstep a second never advances and never ends
  (`stepper_channel.cpp:413`, `:596`). It keeps the MotionLock, so that all heaters
  are off and the other motor waits, until the operator stops it.
- Two writes of the plan that overlap, or one that fails when it is closed, leave a
  file that `Deserialize` may accept as a plan nobody had, done with a motor still
  pending for one (`system_controller.cpp:549-556`, `fallback_planner.cpp:353-414`;
  `docs/protocol.md:336-337` has only "a missing or corrupt file means no plan").
  `PlansSound` and `InIdOrder` name these files (`mixed`).
- The heater duties of a tick may be applied up to a tick after a motion took the
  lock (`OneTickLate` says how long), and the plan learns that its bend was cut
  short from the channel's `last_source`, read at the next tick
  (`system_controller.cpp:621`), which a command in between overwrites.
- A failover candidate keeps the time it was first heard for as long as the
  connection lasts (`telemetry_client.cpp:429`): if the second beacon comes after
  the grace, no later one of the same station confirms it.
- RADIO_SILENCE is acknowledged also when its flag could not be written
  (`system_controller.cpp:513`), and the acknowledgement may be followed by one
  beacon and one answer (`docs/manual-operations.md:146` says it is the only
  packet); `SilenceKept` bounds the second and exempts the first.

Properties of passing runs also name what the code excludes on purpose:
`LatchHolds` does not cover `HEATER_TEST`, which sets its duty after the latch
is applied (`system_controller.cpp:1052`) although `docs/onboard.md:94` says that
the heater "stays off until `RESET_CTRL`"; `BudgetHolds` does not cover the open
loop of the bench; `DutiesHold` grants a heater without a reading only a duty
that was given with debug armed on the bench and not taken back since, which
`SET_BENCH_MODE OFF` leaves standing; `SlipIsKnown` and `FoundInTime` do not cover
what is `unseen`: the flags that a CHECK, a retry or a disable clears unread, a
mismatch that is written over, steps with the enable line off; `FileAgrees` does not
cover what is `lost`: the frames that a rewrite which failed unnoticed left out, and
the one appended to the line it cut, until the next whole rewrite.

## 7. What is left out

Values: temperatures, duties, speeds, currents and texts are reduced to what a
guard tells apart (a heater is on, a reading is valid, a motor is ready), chosen
anew whenever the code reads them. Clocks: a deadline has passed or not, a frame
is old or not. The configuration is the flight one with pulse threads
(`use_pulse_thread`), so motion is not clocked by the tick. Not modelled at all,
with the reason, are the components of status `not_modelled` in `PROJECT.json`.

Hazards seen in the code and covered by no property, beside the findings above:

- `telemetry_queue.cpp:46`: a failure of `create_directories` at start leaves the
  queue in memory, and the retry compacts it over the backlog that was not read.
- `telemetry_queue.cpp:390`: retention compares system-clock times; a clock set
  forward makes the whole backlog too old.
- `system_controller.cpp:926`: `link_loss_fallback_active_` is a plain bool of the
  control loop which the command thread reads.
- `system_controller.cpp:1301`: pull events are made from edges of the lock seen
  once a tick; a pull shorter than a tick is missed.
- `state_manager.cpp:62`: the debounce counters advance only while the fallback is
  active and are kept in between.

## 8. Plan

1. `StateManager` and the pull events, which need the tick's order of snapshot
   and commands; `PidAutoTuner` against a reference.
2. The shaper of `LinkBudget`, the ground station's ledger, and the connections
   of the command server.
