---------------------------- MODULE HeaterControl ----------------------------
(***************************************************************************)
(* The heaters: the operator's overrides, the control loop that turns them *)
(* into duties (system_controller.cpp, Run; thermal_controller.cpp;        *)
(* heater_scheduler.cpp), and the motors they must yield to.               *)
(*                                                                         *)
(* A tick copies the overrides, computes what is requested, schedules it   *)
(* against the MotionLock and the energy budget, and sets the PWM duties;  *)
(* it may then bend a motor itself.  The command thread comes in between   *)
(* any two of these steps, and starts motions too.  The motors are those   *)
(* of MotionInterlock, which StepperMotion is proved to implement.         *)
(*                                                                         *)
(* A duty is left out but for being zero or not, so the power of every     *)
(* heater that is on counts the same.                                      *)
(***************************************************************************)
EXTENDS Integers, FiniteSetsExt

CONSTANTS
  Heater, NoHeater, Motor, NoMotor,
  BenchMode,    (* runtime.bench_mode of the configuration                    *)
  MaxActive,    (* power.max_active_heaters                                   *)
  Budget,       (* power.energy_budget_wh, in ticks of one heater             *)
  MaxCommands   (* bound: commands of the operator                            *)

ASSUME HeaterAssumption ==
  /\ NoHeater \notin Heater /\ NoMotor \notin Motor
  /\ IsFiniteSet(Heater)
  /\ BenchMode \in BOOLEAN /\ MaxActive \in Nat
  /\ Budget \in Nat \ {0} /\ MaxCommands \in Nat

VARIABLES
  mode,         (* mode_                                                      *)
  over,         (* control_overrides_, and the one-shot reset_control         *)
  given,        (* history: the duties that stood when the operator last gave *)
                (* one with debug armed, until a command takes that back      *)
  test, tune,   (* the heater of a HEATER_TEST, of a PID_TUNE                 *)
  bench, debug, (* runtime.bench_mode now, debug_armed_                       *)
  hot,          (* channel_latched_                                           *)
  energy, exhausted,
  on,           (* heaters with a PWM duty above zero                         *)
  tick,         (* the control loop: where it is, its copies and results      *)
  inhibited,    (* the command thread has inhibited the heaters to move       *)
  fresh,        (* history: a motion began since the last schedule            *)
  holder, busy, (* MotionInterlock                                            *)
  commands

settings == <<mode, over, given, bench, debug>>
control == <<hot, energy, exhausted>>
motion == <<holder, busy, fresh>>
vars == <<settings, test, tune, control, on, tick, inhibited, motion, commands>>

Interlock == INSTANCE MotionInterlock

Cleared == [off |-> FALSE, all |-> FALSE, duty |-> {}, target |-> {}, open |-> FALSE,
            reset |-> FALSE]
Off == [Cleared EXCEPT !.off = TRUE]
Idle == [pc |-> "copy", mode |-> "STANDBY", fallback |-> FALSE, off |-> FALSE,
         duty |-> {}, target |-> {}, open |-> FALSE, blind |-> {}, by |-> "control",
         given |-> {}, bench |-> FALSE, requested |-> {}, scheduled |-> {}]
DebugArmed == bench /\ debug
At(pc) == tick.pc = pc

-----------------------------------------------------------------------------
(* The commands.  The command thread does one at a time.                     *)
Command ==
  /\ ~inhibited
  /\ commands < MaxCommands /\ commands' = commands + 1
  /\ UNCHANGED <<control, on, tick, inhibited, motion>>

(* ARM, DISARM, ENTER_SAFE, EXIT_SAFE.                                       *)
TakenBack == given' = {}
TurnOff == over' = [Off EXCEPT !.reset = over.reset] /\ test' = NoHeater /\ TakenBack
ChangeMode ==
  /\ Command
  /\ \/ mode = "STANDBY" /\ mode' = "RUN" /\ UNCHANGED <<over, given, test>>
     \/ mode = "RUN" /\ mode' = "STANDBY" /\ TurnOff
     \/ mode' = "SAFE" /\ TurnOff
     \/ mode = "SAFE" /\ mode' = "STANDBY"
        /\ over' = [over EXCEPT !.off = FALSE] /\ UNCHANGED <<given, test>>
  /\ UNCHANGED <<tune, bench, debug>>

(* SET_HEATER_DUTY and SET_ALL_DUTY, open loop when debug is armed;          *)
(* SET_TEMP_TARGET and SET_ALL_TEMP_TARGETS, never open loop.                *)
SetHeat(all, duty, target, open) ==
  /\ Command
  /\ mode = "RUN" /\ tune = NoHeater
  /\ over' = [over EXCEPT !.off = FALSE, !.all = all, !.duty = duty, !.target = target,
                          !.open = open]
  /\ UNCHANGED <<mode, test, tune, bench, debug>>
Given(duty) == given' = IF DebugArmed THEN duty ELSE {}
SetHeaterDuty(h) ==
  /\ SetHeat(FALSE, over.duty \cup {h}, over.target \ {h}, DebugArmed)
  /\ Given(over.duty \cup {h})
SetAllDuty == SetHeat(TRUE, {}, {}, DebugArmed) /\ Given(Heater)
SetTempTarget_StaysOpen(h) ==  \* mutant: a target leaves the other duties open loop
  SetHeat(FALSE, over.duty \ {h}, over.target \cup {h}, over.open) /\ TakenBack
SetTempTarget(h) ==
  SetHeat(FALSE, over.duty \ {h}, over.target \cup {h}, FALSE) /\ TakenBack
SetAllTempTargets == SetHeat(FALSE, {}, Heater, FALSE) /\ TakenBack

(* CLEAR_TEMP_TARGET, CLEAR_TEMP_TARGETS.                                    *)
ClearTempTargets(S) ==
  /\ Command
  /\ over' = [over EXCEPT !.target = @ \ S]
  /\ UNCHANGED <<mode, given, test, tune, bench, debug>>

(* HEATERS_OFF; SHUTDOWN_SAFE.                                               *)
HeatersOff == Command /\ TurnOff /\ UNCHANGED <<mode, tune, bench, debug>>

ClearOverrides ==
  /\ Command
  /\ over' = [Cleared EXCEPT !.reset = over.reset] /\ TakenBack
  /\ UNCHANGED <<mode, test, tune, bench, debug>>

ResetCtrl ==
  /\ Command
  /\ over' = [over EXCEPT !.reset = TRUE, !.open = FALSE] /\ TakenBack
  /\ test' = NoHeater
  /\ UNCHANGED <<mode, tune, bench, debug>>

(* ARM_DEBUG, DISARM_DEBUG, and SET_BENCH_MODE OFF, which leaves the rest.   *)
ArmDebug ==
  /\ Command
  /\ bench /\ debug' = TRUE
  /\ UNCHANGED <<mode, over, given, test, tune, bench>>
DisarmDebug ==
  /\ Command
  /\ DebugArmed /\ debug' = FALSE
  /\ over' = [over EXCEPT !.open = FALSE] /\ test' = NoHeater /\ TakenBack
  /\ UNCHANGED <<mode, tune, bench>>
SetBenchModeOff ==
  /\ Command
  /\ DebugArmed /\ bench' = FALSE
  /\ UNCHANGED <<mode, over, given, test, tune, debug>>

HeaterTest(h) ==
  /\ Command
  /\ DebugArmed /\ tune = NoHeater /\ mode = "RUN" /\ holder = NoMotor
  /\ over' = [over EXCEPT !.off = FALSE]
  /\ test' = h
  /\ UNCHANGED <<mode, given, tune, bench, debug>>

PidTune_OverTest(h) ==         \* mutant: a tune starts during a HEATER_TEST
  /\ Command
  /\ mode = "RUN" /\ tune = NoHeater
  /\ ~over.all /\ h \notin over.duty \cup over.target \cup hot
  /\ tune' = h
  /\ UNCHANGED <<settings, test>>
PidTune(h) ==
  /\ Command
  /\ mode = "RUN" /\ tune = NoHeater /\ test = NoHeater
  /\ ~over.all /\ h \notin over.duty \cup over.target \cup hot
  /\ tune' = h
  /\ UNCHANGED <<settings, test>>

PidTuneAbort ==
  Command /\ tune # NoHeater /\ tune' = NoHeater /\ UNCHANGED <<settings, test>>

(* STEPPER_MOVE and the like, PULL: the heaters off, then the motion.        *)
InhibitHeatersForMotion == on' = {}
Moves(m) ==
  \/ Interlock!Acquire(m) /\ fresh' = TRUE
  \/ Interlock!Change(m) /\ UNCHANGED fresh
  \/ UNCHANGED motion                    \* refused, or already there

CommandInhibits ==
  /\ ~inhibited /\ inhibited' = TRUE
  /\ commands < MaxCommands /\ commands' = commands + 1
  /\ mode = "RUN"
  /\ InhibitHeatersForMotion
  /\ UNCHANGED <<settings, test, tune, control, tick, motion>>

CommandMoves(m) ==
  /\ inhibited /\ inhibited' = FALSE
  /\ Moves(m)
  /\ UNCHANGED <<settings, test, tune, control, on, tick, commands>>

(* The motion goes on, and ends: the pulse thread, a stop, a disable.        *)
MotionGoesOn(m) ==
  /\ Interlock!Change(m) \/ Interlock!Release(m)
  /\ UNCHANGED <<fresh, settings, test, tune, control, on, tick, inhibited, commands>>

-----------------------------------------------------------------------------
(* The tick begins: it copies the overrides, does a reset, and decides       *)
(* whether the link-loss fallback is active.                                 *)
Copy ==
  /\ At("copy")
  /\ over' = [over EXCEPT !.reset = FALSE]
  /\ IF over.reset
     THEN /\ hot' = {}
          /\ energy' = IF exhausted THEN 0 ELSE energy
          /\ exhausted' = FALSE
     ELSE UNCHANGED control
  /\ \E fallback \in {FALSE, mode = "RUN"} :
       tick' = [tick EXCEPT !.pc = "compute", !.mode = mode, !.fallback = fallback,
                            !.off = over.off \/ mode # "RUN",
                            !.duty = IF over.all THEN Heater ELSE over.duty,
                            !.target = over.target, !.open = over.open, !.given = given]
  /\ UNCHANGED <<mode, given, bench, debug, test, tune, on, inhibited, motion, commands>>

(* ComputeRequestedDuty: heaters with a duty, a target, or below the floor   *)
(* in the fallback, some of which may need no heat now.  A heater whose      *)
(* sample has no valid reading is heated by an open-loop duty alone.         *)
Asked == IF tick.off THEN {}
         ELSE tick.duty \cup tick.target \cup (IF tick.fallback THEN Heater ELSE {})
Sees(blind) == (Heater \ blind) \cup (IF tick.open THEN tick.duty ELSE {})
Wanted_Override(latched, blind) ==    \* mutant: a duty is not held to the latch
  (Asked \cap Sees(blind)) \ (latched \ tick.duty)
Wanted(latched, blind) == (Asked \cap Sees(blind)) \ latched

(* A tune that goes on owns the heaters, and a test does before it.          *)
TuneEnds(latched, blind) == tick.fallback \/ tick.off \/ tune \in latched \cup blind
TestEnds == ~DebugArmed \/ tick.mode # "RUN" \/ holder # NoMotor

(* What a tick may request: the heater of the test; that of the tune, as its *)
(* relay is now; or as much of what is wanted as needs heat now.             *)
Requests(tested, tuned, wanted) ==
  CASE tested # NoHeater -> {{tested}}
    [] tuned # NoHeater /\ tested = NoHeater -> {{tuned}, {}}
    [] OTHER -> SUBSET wanted
Requester(tested, tuned) ==
  CASE tested # NoHeater -> "test"
    [] tuned # NoHeater /\ tested = NoHeater -> "tune"
    [] OTHER -> "control"

Compute(overheated, blind) ==
  LET latched == hot \cup overheated
  IN  /\ At("compute")
      /\ overheated \cap blind = {}
      /\ hot' = latched
      /\ tune' \in {NoHeater, tune} /\ (TuneEnds(latched, blind) => tune' = NoHeater)
      /\ test' \in {NoHeater, test} /\ (TestEnds => test' = NoHeater)
      /\ \E S \in Requests(test', tune', Wanted(latched, blind)) :
           tick' = [tick EXCEPT !.pc = "schedule", !.requested = S, !.blind = blind,
                                !.by = Requester(test', tune')]
      /\ UNCHANGED <<settings, energy, exhausted, on, inhibited, motion, commands>>

(* HeaterScheduler::Schedule.  In the open-loop test of the bench the request *)
(* is taken as it is.  A tune whose duty is cut is aborted.                  *)
OpenLoop == tick.mode = "RUN" /\ DebugArmed /\ tick.open /\ tick.by # "tune"
Ranked(S) == {T \in SUBSET S : Cardinality(T) = Min({Cardinality(S), MaxActive})}
Grants(S) ==
  /\ tick' = [tick EXCEPT !.pc = "apply", !.bench = OpenLoop, !.scheduled = S]
  /\ tune' = IF tick.by = "tune" /\ S # tick.requested THEN NoHeater ELSE tune
  /\ fresh' = FALSE

Spend_Late(S) ==               \* mutant: the tick that spends the budget is heated
  /\ energy' = Min({energy + Cardinality(S), Budget})
  /\ exhausted' = (energy' = Budget)
  /\ Grants(S)
Spend(S) ==
  /\ energy' = Min({energy + Cardinality(S), Budget})
  /\ exhausted' = (energy' = Budget)
  /\ Grants(IF exhausted' THEN {} ELSE S)

ScheduleOpenLoop ==
  /\ OpenLoop
  /\ Grants(tick.requested) /\ UNCHANGED <<energy, exhausted>>
ScheduleNothing ==
  /\ ~OpenLoop /\ (holder # NoMotor \/ exhausted)
  /\ Grants({}) /\ UNCHANGED <<energy, exhausted>>
Free_Always == ~exhausted      \* mutant: the scheduler has no lock
Free == holder = NoMotor /\ ~exhausted
ScheduleHeat ==
  /\ ~OpenLoop /\ Free
  /\ \E S \in Ranked(tick.requested) : Spend(S)

Schedule ==
  /\ At("schedule")
  /\ ScheduleOpenLoop \/ ScheduleNothing \/ ScheduleHeat
  /\ UNCHANGED <<settings, test, hot, on, inhibited, holder, busy, commands>>

Apply ==
  /\ At("apply")
  /\ on' = tick.scheduled
  /\ tick' = [Idle EXCEPT !.pc = "bend", !.fallback = tick.fallback, !.off = tick.off,
                          !.given = tick.given, !.blind = tick.blind, !.by = tick.by,
                          !.bench = tick.bench]
  /\ UNCHANGED <<settings, test, tune, control, inhibited, motion, commands>>

(* The bends of the fallback plan and of the sequences, on the same thread.  *)
NextTick == tick' = [Idle EXCEPT !.by = tick.by, !.bench = tick.bench]
EndTick ==
  /\ At("bend") /\ NextTick
  /\ UNCHANGED <<settings, test, tune, control, on, inhibited, motion, commands>>
LandedSafing ==                \* the fallback, landed: heaters and motors off
  /\ At("bend") /\ tick.fallback
  /\ TurnOff
  /\ holder' = NoMotor /\ busy' = {}
  /\ UNCHANGED <<mode, bench, debug, tune, control, on, tick, inhibited, fresh, commands>>
TickInhibits ==
  /\ At("bend") /\ tick' = [tick EXCEPT !.pc = "move"]
  /\ InhibitHeatersForMotion
  /\ UNCHANGED <<settings, test, tune, control, inhibited, motion, commands>>
TickMoves(m) ==
  /\ At("move") /\ NextTick
  /\ Moves(m)
  /\ UNCHANGED <<settings, test, tune, control, on, inhibited, commands>>

-----------------------------------------------------------------------------
Init ==
  /\ mode = "STANDBY" /\ over = Cleared /\ given = {} /\ bench = BenchMode /\ debug = FALSE
  /\ test = NoHeater /\ tune = NoHeater
  /\ hot = {} /\ energy = 0 /\ exhausted = FALSE
  /\ on = {}
  /\ tick = Idle
  /\ inhibited = FALSE /\ fresh = FALSE
  /\ Interlock!Init
  /\ commands = 0

CommandStep ==
  \/ ChangeMode \/ HeatersOff \/ ClearOverrides \/ ResetCtrl \/ PidTuneAbort
  \/ SetAllDuty \/ SetAllTempTargets \/ ClearTempTargets(Heater)
  \/ ArmDebug \/ DisarmDebug \/ SetBenchModeOff
  \/ \E h \in Heater :
       \/ SetHeaterDuty(h) \/ SetTempTarget(h) \/ ClearTempTargets({h})
       \/ HeaterTest(h) \/ PidTune(h)
  \/ CommandInhibits
  \/ \E m \in Motor : CommandMoves(m)

TickStep ==
  \/ Copy
  \/ \E overheated, blind \in SUBSET Heater : Compute(overheated, blind)
  \/ Schedule \/ Apply
  \/ EndTick \/ LandedSafing \/ TickInhibits
  \/ \E m \in Motor : TickMoves(m)

Next == CommandStep \/ TickStep \/ \E m \in Motor : MotionGoesOn(m)

Spec == Init /\ [][Next]_vars

-----------------------------------------------------------------------------
TypeOK ==
  /\ mode \in {"STANDBY", "RUN", "SAFE"}
  /\ over \in [off : BOOLEAN, all : BOOLEAN, duty : SUBSET Heater,
               target : SUBSET Heater, open : BOOLEAN, reset : BOOLEAN]
  /\ given \subseteq Heater
  /\ test \in Heater \cup {NoHeater} /\ tune \in Heater \cup {NoHeater}
  /\ bench \in BOOLEAN /\ debug \in BOOLEAN /\ inhibited \in BOOLEAN /\ fresh \in BOOLEAN
  /\ hot \subseteq Heater /\ on \subseteq Heater
  /\ energy \in 0 .. Budget /\ exhausted \in BOOLEAN
  /\ tick \in [pc : {"copy", "compute", "schedule", "apply", "bend", "move"},
               mode : {"STANDBY", "RUN", "SAFE"}, fallback : BOOLEAN, off : BOOLEAN,
               duty : SUBSET Heater, target : SUBSET Heater, open : BOOLEAN,
               given : SUBSET Heater, blind : SUBSET Heater, by : {"control", "tune", "test"},
               bench : BOOLEAN, requested : SUBSET Heater, scheduled : SUBSET Heater]
  /\ holder \in Motor \cup {NoMotor} /\ busy \subseteq Motor
  /\ commands \in 0 .. MaxCommands

(* Between two ticks the duties are those of the last tick, or less.         *)
Applied == tick.pc \in {"bend", "move", "copy", "compute"}

(* No override re-arms a heater whose sample was too hot (thermal_controller *)
(* .cpp), but for a HEATER_TEST of the bench.                                *)
LatchHolds == Applied /\ tick.by # "test" => on \cap hot = {}

(* A spent energy budget turns every heater off until a reset, however the   *)
(* heat was asked for, but for the open loop of the bench.                   *)
BudgetHolds == Applied /\ exhausted /\ ~tick.bench => on = {}

(* A heater is on with a motor in motion only if the motion began after the  *)
(* tick had looked at the lock: the next tick turns it off.                  *)
OneTickLate == Applied /\ busy # {} /\ on # {} => fresh \/ tick.bench

(* A tune and a test never share the heaters.                                *)
OneOwner == tune = NoHeater \/ test = NoHeater

(* With the types: the state the 20 commands and the tick leave behind for   *)
(* each other (HEATER_TEST and PID_AUTOTUNE refuse each other).              *)
OwnersSound == TypeOK /\ OneOwner

(* What is heated outside a HEATER_TEST: nothing by a tick that began out of  *)
(* RUN or with the heaters off, whatever tune, target, duty or fallback was   *)
(* under way; and of the heaters whose sample has no valid reading, those     *)
(* alone whose duty stood when the operator last gave one with debug armed.   *)
(* A target, a duty given without debug, an off, a reset or a DISARM_DEBUG    *)
(* takes that back for all of them; SET_BENCH_MODE OFF does not               *)
(* (thermal_controller.cpp: "bench/debug open-loop duty overrides             *)
(* deliberately skip only that feedback-validity clamp").                     *)
DutiesHold ==
  Applied /\ tick.pc # "compute" /\ tick.by # "test" =>
    /\ tick.off => on = {}
    /\ on \cap tick.blind \subseteq tick.given

(* "Any invalid PT100 channel forces its matching heater off, including in    *)
(* open-loop duty mode" (docs/protocol.md, docs/onboard.md); and, should the  *)
(* open loop of the bench be meant to be excepted, at least outside the bench.*)
BlindIsOff == Applied /\ tick.pc # "compute" => on \cap tick.blind = {}
BlindIsOffInFlight == ~bench => BlindIsOff
=============================================================================
