---------------------------- MODULE StepperMotion ----------------------------
(***************************************************************************)
(* The motors: one StepperChannel each (onboard/src/stepper_channel.cpp)   *)
(* and the MotionLock they share (motion_lock.cpp), driven by three kinds  *)
(* of threads: the command server, the control loop (Tick, the bends of    *)
(* the fallback plan and of the sequences, their stops), and one pulse     *)
(* thread per motor.                                                       *)
(*                                                                         *)
(* Everything a channel does runs under its own mutex and is one action,   *)
(* but for two commands: ArmPullCycle looks at enabled_, lets the mutex    *)
(* go, takes the MotionLock, and takes the mutex again; SetPositionZero    *)
(* takes a snapshot, decides, and then zeroes.                             *)
(*                                                                         *)
(* A command that is refused changes nothing and is left out.  Of the speed*)
(* ramp only its end is kept: whether the motor is ever fast enough to be  *)
(* pulsed.  A hold is running or over.                                     *)
(***************************************************************************)
EXTENDS Integers

CONSTANTS
  Motor, NoMotor,
  MaxPosition,  (* max_position_steps                                         *)
  Travel,       (* pull_travel_full_steps                                     *)
  PullHold,     (* pull_hold_s > 0                                            *)
  Divisor,      (* the microstep divisors                                     *)
  Delta,        (* relative moves the operator commands                       *)
  MaxHz, DefaultHz,        (* speeds, in full steps/s and                     *)
  MaxAccel, DefaultAccel,  (* accelerations, in full steps/s^2, of some scale *)
  Unit,         (* 1 microstep/s in the scale of the speeds; 2 a = Unit is    *)
                (* the acceleration a whose last microstep is taken at it     *)
  MaxCommands   (* bound: commands and bends                                  *)

ASSUME MotionAssumption ==
  /\ NoMotor \notin Motor
  /\ MaxPosition \in Nat /\ Travel \in Nat /\ PullHold \in BOOLEAN
  /\ Divisor \subseteq Nat \ {0} /\ Delta \subseteq Int
  /\ MaxHz \in Nat /\ DefaultHz \in 1 .. MaxHz
  /\ MaxAccel \in Nat /\ DefaultAccel \in 1 .. MaxAccel
  /\ Unit \in Nat
  /\ MaxCommands \in Nat

VARIABLES
  holder,       (* MotionLock::holder_                                        *)
  ch,           (* the channels, a record each                                *)
  cmd,          (* <<op, motor>>: the command of two steps under way          *)
  commands      (* how many so far                                            *)

vars == <<holder, ch, cmd, commands>>

Mode == {"Idle", "Moving", "Holding", "Retracting"}
Channel ==
  [position : Int, target : Int, retract_target : Int,
   mode : Mode,                    \* and moving_: Moving or Retracting
   enabled : BOOLEAN,
   hold : BOOLEAN,                 \* hold_remaining_s_ > 0
   retract_after_hold : BOOLEAN,
   lock_held : BOOLEAN,
   microstep : Nat \ {0},
   step_hz : Nat, accel : Nat,
   position_uncertain : BOOLEAN]

NoCommand == <<"none", NoMotor>>
Turning(c) == c.mode \in {"Moving", "Retracting"}
Magnitude(x) == IF x < 0 THEN -x ELSE x

(* llround(x * new / old)                                                    *)
Rescale(x, new, old) ==
  LET n == (2 * Magnitude(x) * new + old) \div (2 * old)
  IN  IF x < 0 THEN -n ELSE n

(* PulseThreadBody pulses at 1 microstep/s or more; the ramp, UpdateRamp-    *)
(* Speed, ends at the speed set or at the one the motor can still brake from.*)
Pulses(c) ==
  /\ c.step_hz * c.microstep >= Unit
  /\ c.accel * Magnitude(c.target - c.position) * c.microstep >= Unit
Crawls(c) == Turning(c) /\ c.position # c.target /\ ~Pulses(c)

-----------------------------------------------------------------------------
(* What an operation on channel m does to the lock: nothing; takes it for    *)
(* the motion, AcquireLockForMotion; gives it back, ReleaseLockIfHeld.       *)
Keep(m, c) == ch' = [ch EXCEPT ![m] = c] /\ UNCHANGED holder

Begin_Shared(m, c) ==          \* mutant: the answer of TryAcquire is ignored
  /\ holder' = IF holder = NoMotor THEN m ELSE holder
  /\ ch' = [ch EXCEPT ![m] = [c EXCEPT !.lock_held = TRUE]]
Begin(m, c) ==
  /\ \/ ch[m].lock_held /\ UNCHANGED holder
     \/ ~ch[m].lock_held /\ holder = NoMotor /\ holder' = m
  /\ ch' = [ch EXCEPT ![m] = [c EXCEPT !.lock_held = TRUE]]

End(m, c) ==
  /\ holder' = IF ch[m].lock_held /\ holder = m THEN NoMotor ELSE holder
  /\ ch' = [ch EXCEPT ![m] = [c EXCEPT !.lock_held = FALSE]]

AtRest(c) ==
  [c EXCEPT !.target = c.position, !.retract_target = c.position,
            !.mode = "Idle", !.hold = FALSE, !.retract_after_hold = FALSE]

Counted == commands < MaxCommands /\ commands' = commands + 1

(* A command of the operator: the command thread does one at a time.         *)
Operator == cmd = NoCommand /\ Counted /\ UNCHANGED cmd

-----------------------------------------------------------------------------
(* A new target, with or without a hold there, and the point a retract would *)
(* go back to.  The lock is taken only if there is something to do.          *)
Aimed(c, target, hold, back) ==
  [c EXCEPT !.target = target, !.hold = hold, !.retract_target = back,
            !.retract_after_hold = FALSE,
            !.mode = IF c.position # target THEN "Moving"
                     ELSE IF hold THEN "Holding" ELSE "Idle"]
Aim(m, c) == IF c.mode # "Idle" THEN Begin(m, c) ELSE Keep(m, c)

MoveSteps(m, delta) ==
  LET t == ch[m].target + delta
  IN  /\ Operator
      /\ ch[m].enabled
      /\ Magnitude(t) <= MaxPosition
      /\ Aim(m, Aimed(ch[m], t, FALSE, ch[m].position))

(* By the operator (STEPPER_MOVETO, STEPPER_BEND), and by the control loop   *)
(* for the fallback plan and for a sequence, at any moment.                  *)
MoveToSteps(m, t, hold) ==
  /\ Counted /\ UNCHANGED cmd
  /\ ch[m].enabled
  /\ Magnitude(t) <= MaxPosition
  /\ Aim(m, Aimed(ch[m], t, hold, ch[m].position))

Home(m) ==
  /\ Operator
  /\ ch[m].enabled
  /\ Aim(m, Aimed(ch[m], 0, FALSE, 0))

(* STEPPER_STOP; the control loop's stop when the link-loss fallback begins  *)
(* and when a sequence faults.                                               *)
Stop(m) == End(m, AtRest(ch[m])) /\ UNCHANGED <<cmd, commands>>

(* SET_POSITION_ZERO: the controller finds the motor idle; the channel is    *)
(* zeroed.                                                                   *)
CheckZero(m) ==
  /\ cmd = NoCommand /\ Counted
  /\ ch[m].mode = "Idle"
  /\ cmd' = <<"zero", m>>
  /\ UNCHANGED <<holder, ch>>

SetPositionZero(m) ==
  /\ cmd = <<"zero", m>>
  /\ cmd' = NoCommand
  /\ End(m, AtRest([ch[m] EXCEPT !.position = 0, !.position_uncertain = FALSE]))
  /\ UNCHANGED commands

AcknowledgeStepLoss(m) ==
  /\ Operator
  /\ Keep(m, [ch[m] EXCEPT !.position_uncertain = FALSE])

SetMicrostep(m, d) ==
  LET c == ch[m]
      new(x) == Rescale(x, d, c.microstep)
  IN  /\ Operator
      /\ Keep(m, [c EXCEPT !.microstep = d, !.position = new(c.position),
                           !.target = new(c.target),
                           !.retract_target = new(c.retract_target)])

(* At any moment; SetSpeed by the control loop too, before a bend.           *)
SetSpeed(m, hz) ==
  Counted /\ UNCHANGED cmd /\ Keep(m, [ch[m] EXCEPT !.step_hz = hz])
SetAccel(m, a) == Operator /\ Keep(m, [ch[m] EXCEPT !.accel = a])

Enable(m) == Operator /\ Keep(m, [ch[m] EXCEPT !.enabled = TRUE])

(* By the operator, and by the control loop once landed.  Torn down whether  *)
(* the driver could be disabled or not.                                      *)
Disable_NoLatch(m) ==          \* mutant: the coasting rotor is not noticed
  /\ Counted /\ UNCHANGED cmd
  /\ End(m, [ch[m] EXCEPT !.enabled = FALSE, !.mode = "Idle"])
Disable(m) ==
  LET c == ch[m]
  IN  /\ Counted /\ UNCHANGED cmd
      /\ End(m, [c EXCEPT !.enabled = FALSE, !.mode = "Idle",
                          !.position_uncertain = @ \/ Turning(c)])

-----------------------------------------------------------------------------
(* PULL_ARM, PULL_EXECUTE: ArmPullCycle in its three steps.                  *)
CheckPull(m) ==
  /\ cmd = NoCommand /\ Counted
  /\ ch[m].enabled /\ ~ch[m].position_uncertain
  /\ cmd' = <<"check", m>>
  /\ UNCHANGED <<holder, ch>>

AcquirePull(m) ==
  /\ cmd = <<"check", m>>
  /\ IF holder = NoMotor THEN holder' = m /\ cmd' = <<"arm", m>>
                         ELSE cmd' = NoCommand /\ UNCHANGED holder
  /\ UNCHANGED <<ch, commands>>

ArmPull_KeepsLock(m) ==        \* mutant: a pull too long leaves the lock taken
  LET c == ch[m]
      t == Travel * c.microstep
      armed == [c EXCEPT !.lock_held = TRUE, !.retract_target = 0,
                         !.retract_after_hold = TRUE]
  IN  /\ cmd = <<"arm", m>>
      /\ cmd' = NoCommand
      /\ IF MaxPosition < t
         THEN Keep(m, [armed EXCEPT !.lock_held = FALSE])
         ELSE Keep(m, [armed EXCEPT
                !.target = t, !.hold = PullHold, !.step_hz = MaxHz,
                !.mode = IF c.position # t THEN "Moving" ELSE "Holding"])
      /\ UNCHANGED commands
ArmPull(m) ==
  LET c == ch[m]
      t == Travel * c.microstep
      armed == [c EXCEPT !.lock_held = TRUE, !.retract_target = 0,
                         !.retract_after_hold = TRUE]
  IN  /\ cmd = <<"arm", m>>
      /\ cmd' = NoCommand
      /\ IF MaxPosition < t
         THEN /\ ch' = [ch EXCEPT ![m] = [armed EXCEPT !.lock_held = FALSE]]
              /\ holder' = IF holder = m THEN NoMotor ELSE holder
         ELSE Keep(m, [armed EXCEPT
                !.target = t, !.hold = PullHold, !.step_hz = MaxHz,
                !.mode = IF c.position # t THEN "Moving" ELSE "Holding"])
      /\ UNCHANGED commands

-----------------------------------------------------------------------------
(* The pulse thread: IssuePulses(1).  The driver takes the step, or asks for *)
(* the move to be stopped (a stall), or refuses the step.  Whatever it does  *)
(* it may report a step loss.                                                *)
Loss(c) == {[c EXCEPT !.position_uncertain = u] : u \in {c.position_uncertain, TRUE}}
Stepped(c) ==
  [c EXCEPT !.position = IF c.target > @ THEN @ + 1 ELSE @ - 1]

Pulse(m) ==
  LET c == ch[m]
  IN  /\ Turning(c) /\ c.enabled /\ c.position # c.target /\ Pulses(c)
      /\ \/ \E d \in Loss(Stepped(c)) : Keep(m, d)
         \/ \E d \in {c, Stepped(c)} :
              End(m, AtRest([d EXCEPT !.position_uncertain = TRUE]))
         \/ End(m, [c EXCEPT !.enabled = FALSE, !.target = c.position,
                             !.mode = "Idle", !.hold = FALSE,
                             !.retract_after_hold = FALSE,
                             !.position_uncertain = TRUE])
      /\ UNCHANGED <<cmd, commands>>

(* StepperChannel::Tick.  First the driver: re-probed when unhealthy, which  *)
(* may fail to energise it again, or polled while nothing moves.             *)
Probed(c) ==
  CASE c.mode = "Idle" ->
         UNION {Loss([c EXCEPT !.enabled = e]) : e \in {c.enabled, FALSE}}
    [] c.mode = "Holding" /\ c.enabled -> Loss(c)
    [] OTHER -> {c}

TickAborts(m) ==               \* the poll ends a hold
  /\ ch[m].mode = "Holding" /\ ch[m].enabled
  /\ End(m, AtRest([ch[m] EXCEPT !.position_uncertain = TRUE]))

TickOverheats(m, c) ==
  /\ c.enabled
  /\ End(m, [AtRest(c) EXCEPT !.enabled = FALSE, !.position_uncertain = TRUE])

HoldRuns(m, c) == c.mode = "Holding" /\ Keep(m, c)

HoldOver_Stays(m, c) ==        \* mutant: what a pull returns to is not looked at
  /\ c.mode = "Holding"
  /\ Keep(m, [c EXCEPT !.hold = FALSE, !.mode = "Retracting"])
HoldOver(m, c) ==
  LET over == [c EXCEPT !.hold = FALSE]
  IN  /\ c.mode = "Holding"
      /\ IF c.retract_after_hold /\ c.position # c.retract_target
         THEN Keep(m, [over EXCEPT !.target = c.retract_target,
                                   !.mode = "Retracting"])
         ELSE End(m, [over EXCEPT
                !.target = IF c.retract_after_hold THEN c.retract_target ELSE @,
                !.mode = "Idle", !.retract_after_hold = FALSE])

LegEnds_MovesOnly(m, c) ==     \* mutant: the end of a retract is not seen
  /\ c.mode = "Moving" /\ c.position = c.target
  /\ IF c.hold THEN Keep(m, [c EXCEPT !.mode = "Holding"])
               ELSE End(m, [c EXCEPT !.mode = "Idle"])
LegEnds(m, c) ==
  /\ Turning(c) /\ c.position = c.target
  /\ IF c.mode = "Moving" /\ c.hold
     THEN Keep(m, [c EXCEPT !.mode = "Holding"])
     ELSE End(m, [c EXCEPT !.mode = "Idle",
                           !.retract_after_hold = @ /\ c.mode # "Retracting"])

Tick(m) ==
  /\ \/ TickAborts(m)
     \/ \E c \in Probed(ch[m]) :
          \/ TickOverheats(m, c)
          \/ c.mode = "Idle" /\ Keep(m, c)
          \/ HoldRuns(m, c) \/ HoldOver(m, c)
          \/ LegEnds(m, c)
  /\ UNCHANGED <<cmd, commands>>

-----------------------------------------------------------------------------
Init ==
  /\ holder = NoMotor
  /\ \E d \in Divisor :           \* pull.microstep, the same for all
       ch \in [Motor -> {[position |-> 0, target |-> 0, retract_target |-> 0,
                          mode |-> "Idle", enabled |-> e, hold |-> FALSE,
                          retract_after_hold |-> FALSE, lock_held |-> FALSE,
                          microstep |-> d, step_hz |-> DefaultHz,
                          accel |-> DefaultAccel,
                          position_uncertain |-> FALSE] : e \in BOOLEAN}]
  /\ cmd = NoCommand
  /\ commands = 0

Step(m) ==
  \/ \E d \in Delta : MoveSteps(m, d)
  \/ \E t \in -MaxPosition .. MaxPosition, hold \in BOOLEAN : MoveToSteps(m, t, hold)
  \/ Home(m)
  \/ Stop(m)
  \/ CheckZero(m) \/ SetPositionZero(m)
  \/ AcknowledgeStepLoss(m)
  \/ \E d \in Divisor : SetMicrostep(m, d)
  \/ \E hz \in 1 .. MaxHz : SetSpeed(m, hz)
  \/ \E a \in 1 .. MaxAccel : SetAccel(m, a)
  \/ Enable(m) \/ Disable(m)
  \/ CheckPull(m) \/ AcquirePull(m) \/ ArmPull(m)
  \/ Pulse(m) \/ Tick(m)

Next == \E m \in Motor : Step(m)

(* A pulse thread keeps pulsing a motor fast enough to be pulsed; one that   *)
(* crawls it leaves waiting.  The control loop keeps ticking, so a hold runs *)
(* out and the end of a leg is seen.  One motor moves at a time, so it is    *)
(* that one which advances.                                                  *)
TickEnds(m) ==
  /\ \E c \in Probed(ch[m]) : HoldOver(m, c) \/ LegEnds(m, c)
  /\ UNCHANGED <<cmd, commands>>
Fairness == WF_vars(\E m \in Motor : Pulse(m) \/ TickEnds(m))

Spec == Init /\ [][Next]_vars /\ Fairness

-----------------------------------------------------------------------------
TypeOK ==
  /\ holder \in Motor \cup {NoMotor}
  /\ ch \in [Motor -> Channel]
  /\ cmd \in {NoCommand} \cup ({"zero", "check", "arm"} \X Motor)
  /\ commands \in 0 .. MaxCommands

(* Whatever the three kinds of threads do, a motor that moves or holds has   *)
(* the MotionLock: no two motors are in motion, and the heater interlock     *)
(* sees every motion (motion_lock.hpp).                                      *)
OneMotor == \A m \in Motor : ch[m].mode # "Idle" => holder = m

(* The lock and the channels agree on who holds it: a channel that believes  *)
(* it holds the lock does, and the lock is held by such a channel or by a    *)
(* pull being armed.                                                         *)
LockAgrees ==
  \A m \in Motor :
    /\ holder = m <=> ch[m].lock_held \/ cmd = <<"arm", m>>
    /\ ~(ch[m].lock_held /\ cmd = <<"arm", m>>)

(* What motion_lock.hpp and stepper_channel.hpp promise together, on every    *)
(* path of every operation: the channels are well typed, agree with the lock *)
(* on who holds it, and one motor at a time is in motion, with the lock.     *)
LockDiscipline == TypeOK /\ LockAgrees /\ OneMotor

(* A pull always retracts to home: no earlier move's return point, zeroing   *)
(* or change of the divisor leaves it another end.                           *)
RetractsHome ==
  \A m \in Motor : ch[m].mode = "Retracting" =>
    ch[m].target = 0 /\ ch[m].retract_after_hold

(* A motor de-energised while it turns coasts: whatever cut the power, its   *)
(* position is latched uncertain in the same step.                           *)
CoastIsLatched ==
  [][\A m \in Motor :
       Turning(ch[m]) /\ ch[m].enabled /\ ~ch'[m].enabled =>
         ch'[m].position_uncertain]_vars

(* The motion layer gives the rest of the program the interlock it promises. *)
Interlock == INSTANCE MotionInterlock
  WITH busy <- {m \in Motor : ch[m].mode # "Idle"}
GivesInterlock == Interlock!Spec

(* A motion of an energised motor comes to its end, or the motor is          *)
(* de-energised, or it is left to crawl: SetSpeed and SetAccel take any value*)
(* above 0, and a motor told to go slower than one microstep a second is     *)
(* never pulsed.                                                             *)
MotionEnds ==
  \A m \in Motor :
    ch[m].mode # "Idle" /\ ch[m].enabled ~>
      ch[m].mode = "Idle" \/ ~ch[m].enabled \/ Crawls(ch[m])

(* The lock is held only while there is a motion left to release it          *)
(* (stepper_channel.cpp, SetEnabled: "the lock latched with no motion left   *)
(* to release it: all six heaters forced off and the other motor locked      *)
(* out, indefinitely").                                                      *)
LockHasMotion == \A m \in Motor : ch[m].lock_held => ch[m].mode # "Idle"
=============================================================================
