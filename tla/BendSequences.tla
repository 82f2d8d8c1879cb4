---------------------------- MODULE BendSequences -----------------------------
(***************************************************************************)
(* Bend sequences: lists of absolute bends that the operator loads and     *)
(* runs, one per motor, and that the control loop steps through            *)
(* (onboard/src/system_controller.cpp, TickBendSequences), together with   *)
(* what may stop them or move a motor under them: the modes, the link-loss *)
(* fallback, the operator's own motion, faults.                            *)
(*                                                                         *)
(* The control loop holds sequence_mu_ from its first look at a sequence   *)
(* to its last move; the command thread holds it while it changes one, and *)
(* not while it looks at the motor before or stops it after.               *)
(*                                                                         *)
(* A motion gets to its target and ends at any time after; it may be       *)
(* aborted anywhere. Microsteps, speeds and hold times are left out, and   *)
(* so is the phase, on which no sequence depends.                          *)
(***************************************************************************)
EXTENDS Integers, Sequences

CONSTANTS
  MotorCount, NoMotor,
  Name, NoName,   (* names of sequences                                       *)
  Position,       (* where a motor may be; 0 is its zero                      *)
  Definition,     (* the lists of bends the operator loads                    *)
  NoDefinition,
  MaxCommands     (* bound: commands, and what the failsafe plan does         *)

Bend == [target : Position, hold : BOOLEAN]

ASSUME SequenceAssumption ==
  /\ MotorCount \in Nat \ {0} /\ NoMotor \notin 0 .. MotorCount - 1
  /\ NoName \notin Name
  /\ 0 \in Position
  /\ Definition \subseteq Seq(Bend) \ {<<>>} /\ NoDefinition \notin Definition
  /\ MaxCommands \in Nat

Motor == 0 .. MotorCount - 1
First(S) == {m \in S : \A k \in S : m <= k}

VARIABLES
  mode,           (* mode_                                                    *)
  fallback,       (* link_loss_fallback_active_                               *)
  seq,            (* bend_sequences_, a record each                           *)
  motor,          (* the channels, and motor_zeroed_                          *)
  holder, busy,   (* MotionInterlock                                          *)
  driven,         (* those busy with a move that a sequence gave              *)
  tick,           (* where the control loop is                                *)
  cmd,            (* the command under way                                    *)
  commands

motors == <<motor, holder, busy, driven>>
vars == <<mode, fallback, seq, motors, tick, cmd, commands>>

Runtime ==
  [definitions : [Name -> Definition \cup {NoDefinition}],
   active_name : Name \cup {NoName},
   step_index : Nat, running : BOOLEAN, paused : BOOLEAN, step_queued : BOOLEAN]

Channel ==
  [position : Position, target : Position,
   enabled : BOOLEAN, zeroed : BOOLEAN, uncertain : BOOLEAN]

Steps(r) == r.definitions[r.active_name]
Active(m) == seq[m].running /\ ~seq[m].paused
Turning(m) == m \in busy /\ motor[m].position # motor[m].target

(* sequence_mu_ is the control loop's.                                       *)
Locked == tick.pc \in {"sequence", "start"}

-----------------------------------------------------------------------------
(* The motors.  One that turns may be anywhere short of its target: its      *)
(* position is brought up to date when something is done to it.              *)
Where(m) ==
  IF Turning(m) THEN Position \ {motor[m].target} ELSE {motor[m].position}

Frees(S) ==
  /\ holder' = IF holder \in S THEN NoMotor ELSE holder
  /\ busy' = busy \ S
  /\ driven' = driven \ S

(* A move takes the lock if there is something to do.                        *)
Blocked(m) == holder \notin {NoMotor, m}
Needed(from, target, hold) == from # target \/ hold
Moves(m, target, hold) ==
  /\ motor[m].enabled
  /\ \E p \in Where(m) :
       /\ motor' = [motor EXCEPT ![m] = [@ EXCEPT !.position = p, !.target = target]]
       /\ IF Needed(p, target, hold)
          THEN ~Blocked(m) /\ holder' = m /\ busy' = busy \cup {m}
          ELSE UNCHANGED holder /\ busy' = busy \ {m}
MoveRefused(m, target, hold) ==
  /\ motor[m].enabled => Blocked(m) /\ \E p \in Where(m) : Needed(p, target, hold)
  /\ UNCHANGED motors

StopsAll(S) ==
  /\ \E p \in [S -> Position] :
       /\ \A m \in S : p[m] \in Where(m)
       /\ motor' = [m \in Motor |->
            IF m \in S THEN [motor[m] EXCEPT !.position = p[m], !.target = p[m]] ELSE motor[m]]
  /\ Frees(S)
Stops(m) == StopsAll({m})

(* A motor that turns coasts; at the end of a leg it may still count as such.*)
Disables(m) ==
  /\ \E p \in Where(m), lost \in BOOLEAN :
       /\ motor[m].uncertain \/ Turning(m) => lost
       /\ lost => motor[m].uncertain \/ m \in busy
       /\ motor' = [motor EXCEPT ![m] = [@ EXCEPT !.position = p, !.target = p,
                                                 !.enabled = FALSE, !.uncertain = lost]]
  /\ Frees({m})

Still == UNCHANGED <<mode, fallback, seq, tick, cmd, commands>>

(* The last pulse, with or without a step loss that stops nothing; the end   *)
(* of the leg or of the hold.                                                *)
Arrives(m) ==
  /\ Turning(m)
  /\ \E lost \in {motor[m].uncertain, TRUE} :
       motor' = [motor EXCEPT ![m] = [@ EXCEPT !.position = motor[m].target,
                                               !.uncertain = lost]]
  /\ UNCHANGED <<holder, busy, driven>> /\ Still

Ends(m) ==
  /\ m \in busy /\ ~Turning(m)
  /\ Frees({m})
  /\ UNCHANGED motor /\ Still

(* A safety of the channel: stall, lost steps, too hot.  The last step may   *)
(* have been made.                                                           *)
Aborts(m) ==
  /\ m \in busy
  /\ \E p \in Where(m) \cup {motor[m].target}, on \in {motor[m].enabled, FALSE} :
       motor' = [motor EXCEPT ![m] = [@ EXCEPT !.position = p, !.target = p,
                                               !.enabled = on, !.uncertain = TRUE]]
  /\ Frees({m})
  /\ Still

-----------------------------------------------------------------------------
(* The control loop.                                                         *)
At(pc) == tick.pc = pc
Goto(pc) == tick' = [tick EXCEPT !.pc = pc]
Counted == commands < MaxCommands /\ commands' = commands + 1

(* The fallback is active in RUN with the link lost for long.  When it       *)
(* begins, the motors without a running sequence are to be stopped.          *)
Gate_StopsAll ==               \* mutant: the sequences are not looked at
  /\ At("gate")
  /\ \E active \in BOOLEAN :
       /\ active => mode = "RUN"
       /\ fallback' = active
       /\ tick' = [tick EXCEPT !.pc = IF active /\ ~fallback THEN "quiet" ELSE "plan",
                               !.quiet = IF active /\ ~fallback THEN Motor ELSE {}]
  /\ UNCHANGED <<mode, seq, motors, cmd, commands>>
Gate ==
  /\ At("gate")
  /\ \E active \in BOOLEAN :
       /\ active => mode = "RUN"
       /\ fallback' = active
       /\ tick' = [tick EXCEPT !.pc = IF active /\ ~fallback THEN "quiet" ELSE "plan",
                               !.quiet = IF active /\ ~fallback
                                         THEN {m \in Motor : ~seq[m].running} ELSE {}]
  /\ UNCHANGED <<mode, seq, motors, cmd, commands>>

StopNonSequenceMotionOnFallback ==
  /\ At("quiet")
  /\ IF tick.quiet = {} THEN Goto("plan") /\ UNCHANGED motors
     ELSE \E m \in First(tick.quiet) :
            Stops(m) /\ tick' = [tick EXCEPT !.quiet = @ \ {m}]
  /\ UNCHANGED <<mode, fallback, seq, cmd, commands>>

(* The failsafe plan: perhaps a bend; after the landing the motors are to go *)
(* off, one by one (once: each of them counts).                              *)
TickFallbackPlan ==
  /\ At("plan")
  /\ \/ Goto("lock") /\ UNCHANGED <<motors, commands>>
     \/ /\ fallback /\ Counted /\ Goto("lock")
        /\ \E m \in Motor, target \in Position, hold \in BOOLEAN :
             /\ motor[m].zeroed
             /\ Moves(m, target, hold)
             /\ driven' = driven \ {m}
     \/ /\ fallback /\ Counted /\ UNCHANGED motors
        /\ tick' = [tick EXCEPT !.pc = "landed", !.quiet = Motor]
  /\ UNCHANGED <<mode, fallback, seq, cmd>>

ApplyLandedSafing ==
  /\ \E m \in First(tick.quiet) :
       \/ At("landed") /\ Stops(m) /\ Goto("off")
       \/ /\ At("off") /\ Disables(m)
          /\ tick' = [tick EXCEPT !.pc = IF tick.quiet = {m} THEN "lock" ELSE "landed",
                                  !.quiet = @ \ {m}]
  /\ UNCHANGED <<mode, fallback, seq, cmd, commands>>

(* TickBendSequences: lock, and motor by motor look and perhaps move.        *)
LockSequences ==
  /\ At("lock")
  /\ tick' = [tick EXCEPT !.pc = "sequence", !.motor = 0]
  /\ UNCHANGED <<mode, fallback, seq, motors, cmd, commands>>

NextMotor_SkipsLast ==         \* mutant: one motor too few
  tick' = IF tick.motor + 2 >= MotorCount
          THEN [tick EXCEPT !.pc = "fault", !.motor = NoMotor]
          ELSE [tick EXCEPT !.pc = "sequence", !.motor = @ + 1]
NextMotor ==
  tick' = IF tick.motor = MotorCount - 1
          THEN [tick EXCEPT !.pc = "fault", !.motor = NoMotor]
          ELSE [tick EXCEPT !.pc = "sequence", !.motor = @ + 1]

Over(r) == [r EXCEPT !.running = FALSE, !.step_queued = FALSE, !.active_name = NoName]
Faulted(r) == [r EXCEPT !.paused = TRUE, !.step_queued = FALSE]

(* A sequence that is neither idle nor paused nor waiting for its motor: the *)
(* step it is at begins, or has ended; short, there, or as the last.          *)
Waits(m) == ~Active(m) \/ (seq[m].step_queued /\ m \in busy)
LookAtSequence ==
  LET m == tick.motor
      r == seq[m]
      arrived == motor[m].position = Steps(r)[r.step_index].target
      last == r.step_index = Len(Steps(r))
      next == [r EXCEPT !.step_index = @ + 1, !.step_queued = FALSE]
      Becomes(new) == seq' = [seq EXCEPT ![m] = new]
  IN  /\ At("sequence")
      /\ IF Waits(m) THEN UNCHANGED seq /\ NextMotor
         ELSE IF Steps(r) = NoDefinition
         THEN Becomes([r EXCEPT !.running = FALSE, !.paused = TRUE]) /\ NextMotor
         ELSE \/ ~r.step_queued /\ UNCHANGED seq /\ Goto("start")
              \/ r.step_queued /\ ~arrived /\ Becomes(Faulted(r)) /\ NextMotor
              \/ r.step_queued /\ arrived /\ last /\ Becomes(Over(next)) /\ NextMotor
              \/ r.step_queued /\ arrived /\ ~last /\ Becomes(next) /\ Goto("start")
      /\ UNCHANGED <<mode, fallback, motors, cmd, commands>>

StartStep ==
  LET m == tick.motor
      bend == Steps(seq[m])[seq[m].step_index]
  IN  /\ At("start")
      /\ NextMotor
      /\ \/ /\ Moves(m, bend.target, bend.hold)
            /\ driven' = (driven \cup {m}) \cap busy'
            /\ seq' = [seq EXCEPT ![m].step_queued = TRUE]
         \/ /\ MoveRefused(m, bend.target, bend.hold)
            /\ seq' = [seq EXCEPT ![m].paused = ~motor[m].enabled]
      /\ UNCHANGED <<mode, fallback, cmd, commands>>

(* A backend unhealthy, or the overtemperature latch.                        *)
PauseOnFault ==
  LET S == {m \in Motor : Active(m)}
  IN  /\ At("fault") /\ Goto("gate")
      /\ \/ UNCHANGED <<seq, motors>>
         \/ /\ seq' = [m \in Motor |-> IF m \in S THEN Faulted(seq[m]) ELSE seq[m]]
            /\ StopsAll(S)
      /\ UNCHANGED <<mode, fallback, cmd, commands>>

-----------------------------------------------------------------------------
(* The command thread: one command at a time, of one step or of several.     *)
NoCommand == [op |-> "none", motors |-> {}, name |-> NoName]
Idle == cmd = NoCommand
Then(op, S) == cmd' = [op |-> op, motors |-> S, name |-> NoName]
Command == Idle /\ Counted

ChangesMode(old, new) ==
  Command /\ mode \in old /\ mode' = new /\ UNCHANGED <<fallback, seq, motors, tick>>
Arm == ChangesMode({"STANDBY"}, "RUN") /\ UNCHANGED cmd
ExitSafe == ChangesMode({"SAFE"}, "STANDBY") /\ UNCHANGED cmd
Disarm == ChangesMode({"RUN"}, "STANDBY") /\ Then("stop", Motor)
EnterSafe == ChangesMode({"STANDBY", "RUN", "SAFE"}, "SAFE") /\ Then("clear", Motor)

(* stop_all_sequences.                                                       *)
Cleared(r) ==
  [r EXCEPT !.running = FALSE, !.paused = FALSE, !.step_queued = FALSE,
            !.active_name = NoName, !.step_index = 1]
ClearsAll_NotPaused ==         \* mutant: only what runs is cleared
  ~Locked /\ seq' = [m \in Motor |-> IF Active(m) THEN Cleared(seq[m]) ELSE seq[m]]
ClearsAll == ~Locked /\ seq' = [m \in Motor |-> Cleared(seq[m])]

StopAllSequences ==
  /\ cmd.op = "clear" /\ ClearsAll /\ Then("stop", Motor)
  /\ UNCHANGED <<mode, fallback, motors, tick, commands>>
ForceStop ==
  Command /\ ClearsAll /\ Then("stop", Motor) /\ UNCHANGED <<mode, fallback, motors, tick>>
ShutdownSafe ==
  Command /\ ClearsAll /\ Then("off", Motor) /\ UNCHANGED <<mode, fallback, motors, tick>>

(* The motors one by one: stopped, and perhaps switched off.                 *)
Done(m) == cmd' = IF cmd.motors = {m} THEN NoCommand ELSE [cmd EXCEPT !.motors = @ \ {m}]
StopNextMotor ==
  /\ \E m \in First(cmd.motors) :
       \/ cmd.op = "stop" /\ Stops(m) /\ Done(m)
       \/ cmd.op = "off" /\ Stops(m) /\ cmd' = [cmd EXCEPT !.op = "disable"]
       \/ /\ cmd.op = "disable" /\ Disables(m)
          /\ cmd' = IF cmd.motors = {m} THEN NoCommand
                    ELSE [cmd EXCEPT !.op = "off", !.motors = @ \ {m}]
  /\ UNCHANGED <<mode, fallback, seq, tick, commands>>

(* STEPPER_STOP, STEPPER_ENABLE, STEPPER_DISABLE, STEPLOSS_ACK.              *)
StepperStop(m) == Command /\ Stops(m) /\ UNCHANGED <<mode, fallback, seq, tick, cmd>>
Enable(m) ==
  /\ Command /\ mode = "RUN"
  /\ motor' = [motor EXCEPT ![m].enabled = TRUE]
  /\ UNCHANGED <<mode, fallback, seq, holder, busy, driven, tick, cmd>>
Disable(m) == Command /\ Disables(m) /\ UNCHANGED <<mode, fallback, seq, tick, cmd>>
AcknowledgeStepLoss(m) ==
  /\ Command
  /\ motor' = [motor EXCEPT ![m].uncertain = FALSE]
  /\ UNCHANGED <<mode, fallback, seq, holder, busy, driven, tick, cmd>>

(* SET_POSITION_ZERO: the motor is seen idle, zeroed, and known to be zeroed.*)
CheckZero(m) ==
  /\ Command /\ m \notin busy
  /\ Then("zero", {m})
  /\ UNCHANGED <<mode, fallback, seq, motors, tick>>
SetPositionZero(m) ==
  /\ cmd.op = "zero" /\ cmd.motors = {m} /\ Then("zeroed", {m})
  /\ motor' = [motor EXCEPT ![m] =
       [@ EXCEPT !.position = 0, !.target = 0, !.uncertain = FALSE]]
  /\ Frees({m})
  /\ UNCHANGED <<mode, fallback, seq, tick, commands>>
MarkZeroed(m) ==
  /\ cmd.op = "zeroed" /\ cmd.motors = {m} /\ ~Locked /\ cmd' = NoCommand
  /\ motor' = [motor EXCEPT ![m].zeroed = TRUE]
  /\ UNCHANGED <<mode, fallback, seq, holder, busy, driven, tick, commands>>

(* STEPPER_MOVE, _MOVETO, _BEND, _HOME, _ROTATE and their mm forms.  Those   *)
(* that are absolute also want the motor zeroed.                             *)
CheckMove(m) ==
  /\ Command /\ mode = "RUN" /\ ~fallback
  /\ Then("move", {m})
  /\ UNCHANGED <<mode, fallback, seq, motors, tick>>
Move(m) ==
  /\ cmd.op = "move" /\ cmd.motors = {m} /\ cmd' = NoCommand
  /\ \/ \E target \in Position, hold \in BOOLEAN :
          Moves(m, target, hold) /\ driven' = driven \ {m}
     \/ \E target \in Position, hold \in BOOLEAN : MoveRefused(m, target, hold)
  /\ UNCHANGED <<mode, fallback, seq, tick, commands>>

-----------------------------------------------------------------------------
(* BENDSEQ_*.  A change of a sequence waits for sequence_mu_.                *)
Changes(m, r) ==
  /\ ~Locked
  /\ seq' = [seq EXCEPT ![m] = r]
  /\ UNCHANGED <<mode, fallback, tick>>

InUse(m, n) == seq[m].running /\ seq[m].active_name = n

Load(m, n, d) ==
  /\ Command /\ ~InUse(m, n)
  /\ Changes(m, [seq[m] EXCEPT !.definitions[n] = d])
  /\ UNCHANGED <<motors, cmd>>

Clear_Active(m, n) ==          \* mutant: the active sequence may be cleared
  /\ Command /\ seq[m].definitions[n] # NoDefinition
  /\ Changes(m, [seq[m] EXCEPT !.definitions[n] = NoDefinition])
  /\ UNCHANGED <<motors, cmd>>
Clear(m, n) ==
  /\ Command /\ ~InUse(m, n) /\ seq[m].definitions[n] # NoDefinition
  /\ Changes(m, [seq[m] EXCEPT !.definitions[n] = NoDefinition])
  /\ UNCHANGED <<motors, cmd>>
ClearAll(m) ==
  /\ Command /\ ~seq[m].running
  /\ Changes(m, [seq[m] EXCEPT !.definitions = [n \in Name |-> NoDefinition]])
  /\ UNCHANGED <<motors, cmd>>

CheckRun(m, n) ==
  /\ Command /\ mode = "RUN" /\ ~fallback
  /\ motor[m].zeroed /\ motor[m].enabled /\ ~motor[m].uncertain
  /\ cmd' = [op |-> "run", motors |-> {m}, name |-> n]
  /\ UNCHANGED <<mode, fallback, seq, motors, tick>>
Run(m) ==
  LET n == cmd.name
      started == [seq[m] EXCEPT !.active_name = n, !.step_index = 1, !.running = TRUE,
                                !.paused = FALSE, !.step_queued = FALSE]
  IN  /\ cmd.op = "run" /\ cmd.motors = {m} /\ cmd' = NoCommand
      /\ Changes(m, IF seq[m].definitions[n] = NoDefinition \/ seq[m].running
                    THEN seq[m] ELSE started)
      /\ UNCHANGED <<motors, commands>>

Pause_NoStop(m) ==             \* mutant: the motor is let go on
  /\ Command /\ seq[m].running
  /\ Changes(m, Faulted(seq[m]))
  /\ UNCHANGED <<motors, cmd>>
Pause(m) ==
  /\ Command /\ seq[m].running
  /\ Changes(m, Faulted(seq[m]))
  /\ Stops(m)
  /\ UNCHANGED cmd

CheckResume(m) ==
  /\ Command /\ mode = "RUN"
  /\ motor[m].zeroed /\ ~motor[m].uncertain
  /\ Then("resume", {m})
  /\ UNCHANGED <<mode, fallback, seq, motors, tick>>
Resume(m) ==
  /\ cmd.op = "resume" /\ cmd.motors = {m} /\ cmd' = NoCommand
  /\ Changes(m, IF seq[m].running /\ seq[m].paused
                THEN [seq[m] EXCEPT !.paused = FALSE, !.step_queued = FALSE] ELSE seq[m])
  /\ UNCHANGED <<motors, commands>>

StopSequence(m) ==
  /\ Command /\ Then("stop", {m})
  /\ Changes(m, Cleared(seq[m]))
  /\ UNCHANGED motors

-----------------------------------------------------------------------------
(* The program armed, with some motors commissioned (docs/manual-operations  *)
(* .md): enabled, zeroed, a sequence loaded for each name.                   *)
Init ==
  /\ mode = "RUN" /\ fallback = FALSE
  /\ \E S \in SUBSET Motor \ {{}} :
       /\ motor = [m \in Motor |->
            [position |-> 0, target |-> 0, enabled |-> m \in S, zeroed |-> m \in S,
             uncertain |-> FALSE]]
       /\ \E d \in Definition :
            seq = [m \in Motor |->
              [definitions |-> [n \in Name |-> IF m \in S THEN d ELSE NoDefinition],
               active_name |-> NoName, step_index |-> 1,
               running |-> FALSE, paused |-> FALSE, step_queued |-> FALSE]]
  /\ holder = NoMotor /\ busy = {} /\ driven = {}
  /\ tick = [pc |-> "gate", motor |-> NoMotor, quiet |-> {}]
  /\ cmd = NoCommand /\ commands = 0

TickStep ==
  \/ Gate \/ StopNonSequenceMotionOnFallback \/ TickFallbackPlan \/ ApplyLandedSafing
  \/ LockSequences \/ LookAtSequence \/ StartStep \/ PauseOnFault

CommandStep ==
  \/ Arm \/ Disarm \/ EnterSafe \/ ExitSafe \/ ForceStop \/ ShutdownSafe
  \/ StopAllSequences \/ StopNextMotor
  \/ \E m \in Motor :
       \/ StepperStop(m) \/ Enable(m) \/ Disable(m) \/ AcknowledgeStepLoss(m)
       \/ CheckZero(m) \/ SetPositionZero(m) \/ MarkZeroed(m)
       \/ CheckMove(m) \/ Move(m)
       \/ \E n \in Name, d \in Definition : Load(m, n, d)
       \/ \E n \in Name : Clear(m, n) \/ CheckRun(m, n)
       \/ ClearAll(m) \/ Run(m) \/ Pause(m) \/ CheckResume(m) \/ Resume(m) \/ StopSequence(m)

Next ==
  \/ TickStep \/ CommandStep
  \/ \E m \in Motor : Arrives(m) \/ Ends(m) \/ Aborts(m)

(* The control loop ticks, and every leg and every hold ends.                *)
Fairness ==
  /\ WF_vars(TickStep)
  /\ \A m \in Motor : WF_vars(Arrives(m)) /\ WF_vars(Ends(m))

Spec == Init /\ [][Next]_vars /\ Fairness

-----------------------------------------------------------------------------
TypeOK ==
  /\ mode \in {"STANDBY", "RUN", "SAFE"} /\ fallback \in BOOLEAN
  /\ seq \in [Motor -> Runtime]
  /\ motor \in [Motor -> Channel]
  /\ holder \in Motor \cup {NoMotor} /\ busy \subseteq Motor /\ driven \subseteq busy
  /\ tick \in [pc : {"gate", "quiet", "plan", "landed", "off", "lock", "sequence", "start",
                    "fault"},
               motor : Motor \cup {NoMotor}, quiet : SUBSET Motor]
  /\ cmd \in [op : {"none", "clear", "stop", "off", "disable", "zero", "zeroed", "move", "run",
                    "resume"},
              motors : SUBSET Motor, name : Name \cup {NoName}]
  /\ commands \in 0 .. MaxCommands

(* A motor that a sequence moves has that sequence running, or the command   *)
(* that ended it is about to stop the motor: whatever stops or pauses a      *)
(* sequence, between any two steps of the control loop, stops its motion.    *)
MotionHasSequence ==
  \A m \in driven : Active(m) \/ (cmd.op \in {"stop", "off", "disable"} /\ m \in cmd.motors)

(* It moves to the target of the step the sequence is at, which is loaded    *)
(* as it was when it started (BENDSEQ_LOAD: "cannot replace active           *)
(* sequence"; BENDSEQ_CLEAR: "cannot clear active sequence").                *)
MovesToItsStep ==
  \A m \in driven : Active(m) =>
    /\ seq[m].step_queued
    /\ Steps(seq[m]) # NoDefinition
    /\ motor[m].target = Steps(seq[m])[seq[m].step_index].target

(* With the types: what TickBendSequences and the commands leave each other. *)
StepsSound == TypeOK /\ MovesToItsStep

(* Once ENTER_SAFE has been acknowledged no sequence runs, paused or not,    *)
(* and none moves a motor, until the operator starts one.                    *)
SafeHasNoSequence ==
  mode = "SAFE" /\ Idle => \A m \in Motor : ~seq[m].running /\ m \notin driven

(* "Active sequence continues; non-sequence motion stops" (docs/             *)
(* architecture.md): the stop at the loss of the link spares what a sequence *)
(* moves, one resumed or started in between included.                        *)
FallbackSpares ==
  [][StopNonSequenceMotionOnFallback => \A m \in driven : Active(m) => m \in busy']_vars

(* A sequence comes to its end or is paused: stops, faults, zeroing, moves   *)
(* of the operator and waits for the lock leave none of them stuck, unless   *)
(* the MotionLock is left taken with nothing moving.                         *)
SequenceEnds ==
  \A m \in Motor : Active(m) ~> ~Active(m) \/ (holder # NoMotor /\ busy = {})

(* "Disable outputs, clear heater overrides, stop steppers" (docs/protocol   *)
(* .md, DISARM): with the command acknowledged, no sequence moves a motor    *)
(* out of RUN.                                                               *)
DisarmStops == mode = "STANDBY" /\ Idle => driven = {}
=============================================================================
