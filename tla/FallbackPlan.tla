----------------------------- MODULE FallbackPlan -----------------------------
(***************************************************************************)
(* The link-loss failsafe plan: one bend per motor, loaded and armed by    *)
(* the operator, started by the control loop once the link is lost         *)
(* (onboard/src/fallback_planner.cpp), and kept in a file across restarts. *)
(*                                                                         *)
(* Two threads share the planner under fallback_mu_.  The control loop     *)
(* looks at the motors, asks the planner, moves the motor, reports to the  *)
(* planner and saves the plan, and holds the mutex for none of the gaps    *)
(* (system_controller.cpp, TickFallbackPlan); the command thread changes   *)
(* the plan and saves it.                                                  *)
(*                                                                         *)
(* The motors are those of MotionInterlock, which StepperMotion is proved  *)
(* to implement.  Temperatures and which motors are enabled, zeroed and     *)
(* healthy are whatever they are at each tick; targets, holds and speeds   *)
(* are left out.                                                           *)
(***************************************************************************)
EXTENDS Integers, FiniteSetsExt

CONSTANTS
  MotorCount, NoMotor,
  NoText,       (* no plan: nothing to write, or a file missing or unreadable *)
  MaxEvents     (* bound: commands, moves and stops of the operator, deaths   *)
                (* of the process and writes that fail, in all                *)

ASSUME FallbackAssumption ==
  /\ MotorCount \in Nat
  /\ NoMotor \notin 0 .. MotorCount - 1
  /\ MaxEvents \in Nat

Motor == 0 .. MotorCount - 1

VARIABLES
  plan,         (* FallbackPlanner: state_, the motors' states, the deadline  *)
  dirty,        (* dirty_                                                     *)
  file,         (* fallback_plan.txt                                          *)
  text,         (* what a thread has serialised and not yet written           *)
  opened,       (* threads that have opened the file, and truncated it        *)
  tick,         (* the control loop: where it is, what it does and has seen   *)
  command,      (* the command thread has a change to save                    *)
  holder, busy, (* MotionInterlock                                            *)
  aborted,      (* motors whose last_source begins with "safety:"             *)
  bent,         (* history: motors whose bend was accepted, until a command   *)
                (* gives them another, or a restart finds a file without it   *)
  events

motors == <<holder, busy, aborted>>
disk == <<file, text, opened>>
vars == <<plan, dirty, disk, tick, command, motors, bent, events>>

Counted == events < MaxEvents /\ events' = events + 1

PlanState == {"none", "armed", "running", "done", "failed"}
MotorState == {"unconfigured", "pending", "running", "done", "skipped", "failed"}

(* What the planner saves.  History: whether it is put together of two texts *)
(* or is a part of one, as only a file can be, and a plan loaded from it.    *)
Saved == [state : PlanState, motor : [Motor -> MotorState], mixed : BOOLEAN]
Thread == {"tick", "command"}

ASSUME TextAssumption == NoText \notin Saved

Configured(mo) == {m \in Motor : mo[m] # "unconfigured"}
AllSettled(mo) == \A m \in Motor : mo[m] \notin {"pending", "running"}
Outcome(mo) == IF \E m \in Motor : mo[m] = "failed" THEN "failed" ELSE "done"
Armed == plan.state \in {"armed", "running"}

NoPlan == [state |-> "none", motor |-> [m \in Motor |-> "unconfigured"], mixed |-> FALSE,
           deadline |-> "off"]
ResetToNone(p) ==
  [state |-> "none", deadline |-> "off", mixed |-> FALSE,
   motor |-> [m \in Motor |-> IF p.motor[m] = "unconfigured" THEN "unconfigured" ELSE "pending"]]

-----------------------------------------------------------------------------
(* What a motor does: a move or bend accepted, refused for the lock, ended.  *)
Free(m) == IF holder = m THEN NoMotor ELSE holder
Moves(m) ==
  /\ \/ m \notin busy /\ UNCHANGED <<holder, busy>>      \* already there
     \/ holder \in {NoMotor, m} /\ holder' = m /\ busy' = {m}
     \/ holder = m /\ busy' = {} /\ UNCHANGED holder     \* there now: lock kept
  /\ aborted' = aborted \ {m}
Blocked(m) == holder \notin {NoMotor, m}

StopsAll(S) ==
  /\ holder' = IF holder \in S THEN NoMotor ELSE holder
  /\ busy' = busy \ S
  /\ aborted' = aborted \ S

(* The end of a motion: it arrives, or a safety of the channel ends it.      *)
Arrive(m) ==
  /\ m \in busy
  /\ busy' = busy \ {m} /\ holder' = Free(m)
  /\ UNCHANGED <<plan, dirty, disk, tick, command, aborted, bent, events>>

Abort(m) ==
  /\ m \in busy
  /\ busy' = busy \ {m} /\ holder' = Free(m)
  /\ aborted' = aborted \cup {m}
  /\ UNCHANGED <<plan, dirty, disk, tick, command, bent, events>>

-----------------------------------------------------------------------------
(* PersistFallbackPlanIfDirty: serialise under the mutex; without it, open   *)
(* the file, which empties it, and write, from its start, when it is closed. *)
Snapshot == [state |-> plan.state, motor |-> plan.motor, mixed |-> plan.mixed]
Serialize(t) ==
  /\ text' = [text EXCEPT ![t] = IF dirty THEN Snapshot ELSE NoText]
  /\ dirty' = FALSE
  /\ UNCHANGED <<file, opened>>

Written(t) ==
  /\ text' = [text EXCEPT ![t] = NoText]
  /\ tick' = IF t = "tick" THEN [tick EXCEPT !.pc = "gate"] ELSE tick

(* The file cannot be opened: that is logged, and the text is gone.          *)
Open(t) ==
  /\ text[t] # NoText /\ t \notin opened
  /\ \/ /\ file' = NoText /\ opened' = opened \cup {t}
        /\ UNCHANGED <<text, tick, events>>
     \/ /\ Counted /\ Written(t)
        /\ UNCHANGED <<file, opened>>
  /\ UNCHANGED <<plan, dirty, command, motors, bent>>

(* A text over an older one that the other thread wrote meanwhile: what is   *)
(* longer of the older shows behind it, and is unreadable, nothing, or the   *)
(* lines of its last motors, as the lengths have it, which are left out; the *)
(* last line of a motor is what Deserialize takes.                           *)
Behind(new, old, j) ==
  [new EXCEPT !.mixed = TRUE,
              !.motor = [m \in Motor |-> IF m >= j /\ old.motor[m] # "unconfigured"
                                        THEN old.motor[m] ELSE new.motor[m]]]
Overlaid(new, old) ==
  {new} \cup (IF old = NoText THEN {} ELSE {NoText} \cup {Behind(new, old, j) : j \in Motor})

(* Nothing checks the close: of a write that fails, a part, or nothing, may  *)
(* be in the file.                                                           *)
Cut(new, j) ==
  [new EXCEPT !.mixed = TRUE,
              !.motor = [m \in Motor |-> IF m >= j THEN "unconfigured" ELSE new.motor[m]]]
Close(t) ==
  /\ t \in opened /\ opened' = opened \ {t}
  /\ \/ file' \in Overlaid(text[t], file) /\ UNCHANGED events
     \/ /\ Counted
        /\ file' \in {file, NoText} \cup Overlaid(text[t], file)
                      \cup {Cut(text[t], j) : j \in Motor}
  /\ Written(t)
  /\ UNCHANGED <<plan, dirty, command, motors, bent>>

Change(p) == plan' = p /\ dirty' = TRUE

(* The command thread: one command at a time, saved before the next.         *)
CommandIdle == ~command /\ text["command"] = NoText
PlanCommand(p) ==
  /\ CommandIdle /\ Counted
  /\ Change(p)
  /\ command' = TRUE
  /\ UNCHANGED <<disk, tick, motors>>

SetMotorPlan(m) ==
  /\ plan.state # "running"
  /\ IF plan.state \in {"done", "failed"}
     THEN PlanCommand([ResetToNone(plan) EXCEPT !.motor[m] = "pending"]) /\ bent' = {}
     ELSE PlanCommand([plan EXCEPT !.motor[m] = "pending"]) /\ bent' = bent \ {m}

Arm_AnyState ==                \* mutant: a finished plan may be armed
  /\ Configured(plan.motor) # {}
  /\ plan.state # "running"
  /\ PlanCommand([plan EXCEPT !.state = "armed"]) /\ UNCHANGED bent
Arm ==
  /\ Configured(plan.motor) # {}
  /\ plan.state \notin {"running", "done", "failed"}
  /\ PlanCommand([plan EXCEPT !.state = "armed"]) /\ UNCHANGED bent

Disarm == PlanCommand(ResetToNone(plan)) /\ bent' = {}

CommandSaves ==
  /\ command /\ command' = FALSE
  /\ Serialize("command")
  /\ UNCHANGED <<plan, tick, motors, bent, events>>

(* The operator's own use of the motors.                                     *)
OperatorMoves(m) ==
  /\ CommandIdle /\ Counted
  /\ Moves(m)
  /\ UNCHANGED <<plan, dirty, disk, tick, command, bent>>

OperatorStops(m) ==
  /\ CommandIdle /\ Counted
  /\ StopsAll({m})
  /\ UNCHANGED <<plan, dirty, disk, tick, command, bent>>

-----------------------------------------------------------------------------
(* The control loop.  A tick decides whether the fallback is active (it may  *)
(* be in RUN, with the link lost), and stops the motors when it begins, but  *)
(* for those a sequence runs on.  The phase matters only while it is active. *)
At(pc) == tick.pc = pc
Gate ==
  /\ At("gate")
  /\ \E active \in BOOLEAN, phase \in {"float", "landed", "other"}, sequence \in SUBSET Motor :
       /\ active \/ phase = "other"
       /\ tick' = [tick EXCEPT !.pc = "look", !.active = active, !.phase = phase]
       /\ IF active /\ ~tick.active
          THEN StopsAll(Motor \ sequence)
          ELSE UNCHANGED motors
  /\ UNCHANGED <<plan, dirty, disk, command, bent, events>>

(* The tick's view of the motors.  Which of them are ready (enabled, zeroed  *)
(* and healthy) and which are in the window of temperatures is chosen at     *)
(* Decide.                                                                   *)
Look ==
  /\ At("look")
  /\ tick' = [tick EXCEPT !.pc = "decide", !.moving = busy, !.aborted = aborted]
  /\ UNCHANGED <<plan, dirty, disk, command, motors, bent, events>>

(* FallbackPlanner::Tick.  A motor that no longer moves is done, or failed.  *)
Completed_Ignored(mo) ==       \* mutant: a bend that ended is not seen
  mo
Completed(mo) ==
  [m \in Motor |->
     IF mo[m] = "running" /\ m \notin tick.moving
     THEN IF m \in tick.aborted THEN "failed" ELSE "done"
     ELSE mo[m]]

Window == tick.active /\ tick.phase = "float"
Late == plan.deadline = "passed"
Waits(mo, ready) ==            \* pending, and not to be skipped
  {m \in Motor : mo[m] = "pending" /\ (m \in ready \/ ~Late)}
Skip_None(mo, m) ==            \* mutant: passed over, and pending still
  mo
Skip(mo, m) == [i \in Motor |-> IF i < m /\ mo[i] = "pending" THEN "skipped" ELSE mo[i]]

(* The first motor that waits starts when it is ready, and warm enough or    *)
(* late; those before it are skipped.                                        *)
Decision(mo, ready, warm) ==
  LET W == Waits(mo, ready)
      m == IF W = {} THEN MotorCount ELSE Min(W)
  IN  IF m \in ready /\ (m \in warm \/ Late)
      THEN [motor |-> [Skip(mo, m) EXCEPT ![m] = "running"], start |-> m]
      ELSE [motor |-> Skip(mo, m), start |-> NoMotor]

Decide(ready, warm) ==
  LET mo == Completed(plan.motor)
      state == IF plan.state = "running" /\ AllSettled(mo) THEN Outcome(mo) ELSE plan.state
      open == state \in {"armed", "running"} /\ Window
      d == IF open /\ \A m \in Motor : mo[m] # "running"
           THEN Decision(mo, ready, warm) ELSE [motor |-> mo, start |-> NoMotor]
      after == CASE d.start # NoMotor -> "running"
                 [] open /\ AllSettled(d.motor) -> Outcome(d.motor)
                 [] OTHER -> state
  IN  /\ At("decide")
      /\ plan' = [plan EXCEPT !.state = after, !.motor = d.motor,
                              !.deadline = IF open /\ @ = "off" THEN "started" ELSE @]
      /\ dirty' = (dirty \/ d.motor # plan.motor \/ after # plan.state)
      /\ tick' = [tick EXCEPT !.pc = IF d.start = NoMotor THEN "save" ELSE "move",
                              !.motor = d.start,
                              !.moving = {}, !.aborted = {}]
      /\ UNCHANGED <<disk, command, motors, bent, events>>

(* The bend is accepted, waits for the lock, or is refused: the motor was    *)
(* disabled or rescaled since, or the speed is not one it can do.            *)
Move ==
  /\ At("move")
  /\ \/ /\ Moves(tick.motor)
        /\ tick' = [tick EXCEPT !.pc = "report", !.result = "accepted"]
        /\ bent' = bent \cup (IF plan.motor[tick.motor] = "running" THEN {tick.motor} ELSE {})
     \/ /\ Blocked(tick.motor)
        /\ tick' = [tick EXCEPT !.pc = "report", !.result = "retry"]
        /\ UNCHANGED <<motors, bent>>
     \/ /\ tick' = [tick EXCEPT !.pc = "report", !.result = "refused"]
        /\ UNCHANGED <<motors, bent>>
  /\ UNCHANGED <<plan, dirty, disk, command, events>>

(* ReportStartResult.                                                        *)
Retried(p, m) ==
  [p EXCEPT !.motor[m] = "pending",
            !.state = IF \E i \in Motor \ {m} : p.motor[i] = "done" THEN "running" ELSE "armed"]
Refused(p, m) == [p EXCEPT !.motor[m] = "failed", !.state = "failed"]
Report ==
  /\ At("report")
  /\ tick' = [tick EXCEPT !.pc = "save", !.motor = NoMotor, !.result = "none"]
  /\ CASE tick.result = "accepted" -> UNCHANGED <<plan, dirty>>
       [] tick.result = "retry"    -> Change(Retried(plan, tick.motor))
       [] tick.result = "refused"  -> Change(Refused(plan, tick.motor))
  /\ UNCHANGED <<disk, command, motors, bent, events>>

(* Landed without a link: once, the motors are stopped and disabled.  Then   *)
(* the plan is saved, and the tick is over when there is nothing to write.   *)
Save ==
  /\ At("save")
  /\ \/ UNCHANGED motors
     \/ tick.active /\ tick.phase = "landed" /\ StopsAll(Motor)
  /\ Serialize("tick")
  /\ tick' = [tick EXCEPT !.pc = IF dirty THEN "write" ELSE "gate"]
  /\ UNCHANGED <<plan, command, bent, events>>

DeadlinePasses ==
  /\ plan.deadline = "started"
  /\ plan' = [plan EXCEPT !.deadline = "passed"]
  /\ UNCHANGED <<dirty, disk, tick, command, motors, bent, events>>

-----------------------------------------------------------------------------
(* LoadFrom.  A motor saved as running is running again, though nothing      *)
(* moves; the deadline starts over.                                          *)
Restored_AsPending(f) ==       \* mutant: the states of the motors are not read
  IF f = NoText THEN NoPlan
  ELSE [state |-> IF f.state = "none" THEN "none" ELSE "armed", deadline |-> "off",
        mixed |-> f.mixed,
        motor |-> [m \in Motor |-> IF f.motor[m] = "unconfigured" THEN "unconfigured"
                                   ELSE "pending"]]
Restored(f) ==
  IF f = NoText \/ (f.state # "none" /\ Configured(f.motor) = {}) THEN NoPlan
  ELSE [state |-> f.state, motor |-> f.motor, mixed |-> f.mixed, deadline |-> "off"]

FirstTick ==
  [pc |-> "gate", active |-> FALSE, phase |-> "other", motor |-> NoMotor, result |-> "none",
   moving |-> {}, aborted |-> {}]

(* The process dies, and starts: the file is what it was just then.          *)
Restart ==
  /\ Counted
  /\ plan' = Restored(file)
  /\ dirty' = FALSE /\ command' = FALSE
  /\ text' = [t \in Thread |-> NoText] /\ opened' = {}
  /\ bent' = {m \in bent : file # NoText /\ file.motor[m] \notin {"unconfigured", "pending"}}
  /\ tick' = FirstTick
  /\ holder' = NoMotor /\ busy' = {} /\ aborted' = {}
  /\ UNCHANGED file

(* The process starts with no file, or with a bend for every motor loaded    *)
(* before and not armed.                                                     *)
Loaded == [state |-> "none", mixed |-> FALSE, motor |-> [m \in Motor |-> "pending"]]
Init ==
  /\ file \in {NoText, Loaded}
  /\ plan = Restored(file) /\ dirty = FALSE
  /\ text = [t \in Thread |-> NoText] /\ opened = {}
  /\ tick = FirstTick /\ command = FALSE
  /\ holder = NoMotor /\ busy = {} /\ aborted = {}
  /\ bent = {}
  /\ events = 0

TickStep ==
  \/ Gate \/ Look
  \/ \E ready \in SUBSET Motor, warm \in SUBSET Motor : Decide(ready, warm)
  \/ Move \/ Report \/ Save
  \/ Open("tick") \/ Close("tick")

CommandStep ==
  \/ \E m \in Motor :
       SetMotorPlan(m) \/ OperatorMoves(m) \/ OperatorStops(m)
  \/ Arm \/ Disarm \/ CommandSaves \/ Open("command") \/ Close("command")

Next ==
  \/ TickStep \/ CommandStep
  \/ \E m \in Motor : Arrive(m) \/ Abort(m)
  \/ DeadlinePasses \/ Restart

(* The control loop ticks, a motion ends, and time passes.                   *)
Fairness ==
  /\ WF_vars(TickStep)
  /\ WF_vars(DeadlinePasses)
  /\ \A m \in Motor : WF_vars(Arrive(m))

Spec == Init /\ [][Next]_vars /\ Fairness

-----------------------------------------------------------------------------
TypeOK ==
  /\ plan \in [state : PlanState, motor : [Motor -> MotorState], mixed : BOOLEAN,
               deadline : {"off", "started", "passed"}]
  /\ dirty \in BOOLEAN /\ command \in BOOLEAN
  /\ file \in Saved \cup {NoText}
  /\ text \in [Thread -> Saved \cup {NoText}]
  /\ opened \subseteq {t \in Thread : text[t] # NoText}
  /\ tick \in [pc : {"gate", "look", "decide", "move", "report", "save", "write"},
               active : BOOLEAN, phase : {"float", "landed", "other"},
               motor : Motor \cup {NoMotor},
               result : {"none", "accepted", "retry", "refused"},
               moving : SUBSET Motor, aborted : SUBSET Motor]
  /\ holder \in Motor \cup {NoMotor} /\ busy \subseteq Motor
  /\ aborted \subseteq Motor /\ bent \subseteq Motor
  /\ events \in 0 .. MaxEvents

(* Whatever is in memory, in the file, or about to be written, is a plan the *)
(* planner can go on from: the state agrees with the motors' states, though  *)
(* a command may come between any two steps of a tick.  Two writes at once,  *)
(* or one that fails, may leave a file that does not agree, and a restart    *)
(* may load it: the plan is then wrong until it is disarmed, or loaded anew. *)
StateAgrees(p) ==
  /\ p.state = "none" => \A m \in Motor : p.motor[m] \in {"unconfigured", "pending"}
  /\ p.state = "armed" => \A m \in Motor : p.motor[m] \notin {"running", "done"}
  /\ p.state = "done" => AllSettled(p.motor) /\ \A m \in Motor : p.motor[m] # "failed"
  /\ p.state = "failed" => \E m \in Motor : p.motor[m] = "failed"
Copies == {plan, file} \cup {text[t] : t \in Thread}
PlansAgree == \A p \in Copies : p # NoText /\ ~p.mixed => StateAgrees(p)

(* With the types: what FallbackPlanner and the text of its file may hold.   *)
PlansSound == TypeOK /\ PlansAgree

(* "Motors run in id order (M0 then M1, one at a time)" (docs/protocol.md):  *)
(* when a bend runs, every motor before it has settled, unless the plan was  *)
(* loaded from a file put together of two.                                   *)
InIdOrder ==
  ~plan.mixed =>
    \A m \in Motor : plan.motor[m] = "running" =>
      \A i \in Motor \ {m} :
        /\ plan.motor[i] # "running"
        /\ i < m => plan.motor[i] # "pending"

(* A bend that was accepted is not started a second time: the report, the    *)
(* commands between decision and report, aborts, retries of other motors and *)
(* restarts that find it in the file leave it behind, in whatever state the  *)
(* plan is.                                                                  *)
BentOnce == At("move") => tick.motor \notin bent

(* "A done or failed plan never runs again - across restarts included -      *)
(* until" the operator changes it (docs/protocol.md).                        *)
Over(p) == p.state \in {"done", "failed"}
Runs(p) == p.state \in {"armed", "running"} /\ \E m \in Motor : p.motor[m] = "pending"
NeverAgain ==
  [][Over(plan) /\ Runs(plan') => Disarm \/ \E m \in Motor : SetMotorPlan(m)]_vars

(* With the fallback active at float for good, an armed plan comes to its    *)
(* end, bends that wait for the lock, motors that are not ready and aborted  *)
(* bends included, unless the MotionLock is left taken with nothing moving.  *)
PlanSettles ==
  <>[](tick.active /\ tick.phase = "float") =>
    (Armed ~> ~Armed \/ (holder # NoMotor /\ busy = {}))

(* "Clear the plan state to none" (docs/protocol.md, FALLBACK_DISARM): after *)
(* it only a command, or a restart, gives the plan another state.            *)
DisarmClears ==
  [][plan.state = "none" /\ plan'.state # "none" => Arm \/ Restart]_vars
=============================================================================
