------------------------- MODULE FallbackPlanProofs --------------------------
(***************************************************************************)
(* FallbackPlan for any number of motors, commands, restarts and failed    *)
(* writes: whatever is in memory, in the file or on its way there is a     *)
(* plan the planner can go on from, unless two writes were mixed or one    *)
(* was cut; the bends come in order, and each but once.                    *)
(***************************************************************************)
EXTENDS FallbackPlan, WellFoundedInduction, TLAPS

(* A plan the planner can go on from: the state agrees with the motors, one  *)
(* bend at a time in the order of the motors, and it is for some motor.      *)
InOrder(mo) ==
  \A m \in Motor : mo[m] = "running" =>
    \A i \in Motor \ {m} :
      /\ mo[i] # "running"
      /\ i < m => mo[i] # "pending"
Sound(p) ==
  /\ StateAgrees(p)
  /\ InOrder(p.motor)
  /\ p.state # "none" => Configured(p.motor) # {}
Good(p) == ~p.mixed => Sound(p)

(* Between the planner's decision to bend a motor and its report, the plan   *)
(* is as it was decided, or disarmed and perhaps armed again: no other plan  *)
(* can be in its place.                                                      *)
Untouched(mo) == \A m \in Motor : mo[m] \in {"unconfigured", "pending"}
Starting ==
  tick.pc \in {"move", "report"} =>
    /\ tick.motor \in Motor
    /\ \/ plan.mixed
       \/ plan.state = "running" /\ plan.motor[tick.motor] = "running"
       \/ plan.state \in {"none", "armed"} /\ Untouched(plan.motor)

Reported == tick.pc = "report" => tick.result # "none"

(* A thread has one text at a time, and the control loop only while it       *)
(* writes it.                                                                *)
Writing ==
  /\ command => text["command"] = NoText
  /\ text["tick"] # NoText => tick.pc = "write"

Inv ==
  /\ TypeOK
  /\ Good(plan)
  /\ file # NoText => Good(file)
  /\ \A t \in Thread : text[t] # NoText => Good(text[t])
  /\ Starting
  /\ Reported
  /\ Writing

PlanType ==
  [state : PlanState, motor : [Motor -> MotorState], mixed : BOOLEAN,
   deadline : {"off", "started", "passed"}]
TickType ==
  [pc : {"gate", "look", "decide", "move", "report", "save", "write"},
   active : BOOLEAN, phase : {"float", "landed", "other"},
   motor : Motor \cup {NoMotor},
   result : {"none", "accepted", "retry", "refused"},
   moving : SUBSET Motor, aborted : SUBSET Motor]
MotorsType ==
  holder \in Motor \cup {NoMotor} /\ busy \subseteq Motor /\ aborted \subseteq Motor

-----------------------------------------------------------------------------
(* Only the state and the motors of a plan matter.                           *)
LEMMA SameGood ==
  ASSUME NEW p, NEW q, p.state = q.state, p.motor = q.motor, p.mixed = q.mixed, Good(p)
  PROVE  Good(q)
BY DEF Good, Sound, StateAgrees

LEMMA SnapshotGood ==
  ASSUME TypeOK, Good(plan)
  PROVE  Snapshot \in Saved /\ Good(Snapshot)
<1>1. /\ Snapshot.state = plan.state /\ Snapshot.motor = plan.motor
      /\ Snapshot.mixed = plan.mixed
  BY DEF Snapshot
<1>2. Snapshot \in Saved
  BY DEF TypeOK, Snapshot, Saved
<1> QED
  BY <1>1, <1>2, SameGood

(* FALLBACK_DISARM, and a plan loaded after one that is over.                *)
LEMMA ResetGood ==
  ASSUME NEW p \in PlanType
  PROVE  /\ ResetToNone(p) \in PlanType /\ Good(ResetToNone(p))
         /\ ResetToNone(p).state = "none" /\ Untouched(ResetToNone(p).motor)
         /\ Sound(ResetToNone(p))
<1> DEFINE q == ResetToNone(p)
<1>1. /\ q \in PlanType /\ q.state = "none"
      /\ \A m \in Motor : q.motor[m] \in {"unconfigured", "pending"}
  BY DEF ResetToNone, PlanType, PlanState, MotorState
<1> QED
  BY <1>1 DEF Good, Sound, StateAgrees, InOrder, Untouched

LEMMA NoPlanGood == NoPlan \in PlanType /\ Good(NoPlan)
<1>1. NoPlan \in PlanType
  BY DEF NoPlan, PlanType, PlanState, MotorState
<1> QED
  BY <1>1 DEF NoPlan, Good, Sound, StateAgrees, InOrder

LEMMA MotorsStep ==
  ASSUME MotorsType,
         \/ \E m \in Motor : Moves(m)
         \/ \E S \in SUBSET Motor : StopsAll(S)
         \/ UNCHANGED motors
  PROVE  MotorsType'
BY DEF MotorsType, Moves, StopsAll, motors

-----------------------------------------------------------------------------
(* The commands that change the plan.                                        *)
LEMMA PlanCommandInv ==
  ASSUME Inv, NEW p \in PlanType, Good(p), PlanCommand(p),
         tick.pc \in {"move", "report"} =>
           p.mixed \/ (p.state \in {"none", "armed"} /\ Untouched(p.motor)),
         bent' \subseteq Motor
  PROVE  Inv'
<1> USE DEF Inv, PlanCommand, Change, Counted
<1>1. TypeOK'
  BY FallbackAssumption DEF TypeOK, PlanType, motors, disk
<1>2. Good(plan)'
  <2>1. plan' = p
    OBVIOUS
  <2> QED
    BY <2>1 DEF Good, Sound, StateAgrees, InOrder
<1>3. Starting' /\ Reported' /\ Writing'
  BY DEF Starting, Reported, Writing, disk, CommandIdle
<1>4. /\ file' # NoText => Good(file)'
      /\ \A t \in Thread : text'[t] # NoText => Good(text[t])'
  BY DEF Good, Sound, StateAgrees, InOrder, disk
<1> QED
  BY <1>1, <1>2, <1>3, <1>4

LEMMA SetMotorPlanInv ==
  ASSUME Inv, NEW m \in Motor, SetMotorPlan(m)
  PROVE  Inv'
<1> USE DEF Inv
<1> DEFINE q == IF plan.state \in {"done", "failed"} THEN ResetToNone(plan) ELSE plan
           p == [q EXCEPT !.motor[m] = "pending"]
<1>1. plan \in PlanType
  BY DEF TypeOK, PlanType
<1>2. /\ q \in PlanType /\ q.state \in {"none", "armed"} /\ Good(q)
      /\ ~q.mixed => \A i \in Motor : q.motor[i] # "running"
  <2>1. CASE plan.state \in {"done", "failed"}
    BY <1>1, <2>1, ResetGood DEF Untouched
  <2>2. CASE plan.state \notin {"done", "failed"}
    BY <1>1, <2>2 DEF SetMotorPlan, PlanType, PlanState, Good, Sound, StateAgrees
  <2> QED
    BY <2>1, <2>2
<1>3. tick.pc \in {"move", "report"} => q.mixed \/ Untouched(q.motor)
  BY <1>1, ResetGood DEF Starting, SetMotorPlan
<1> HIDE DEF q
<1>4. /\ p \in PlanType /\ p.state = q.state /\ p.mixed = q.mixed
      /\ p.motor = [q.motor EXCEPT ![m] = "pending"] /\ m \in DOMAIN q.motor
  BY <1>2 DEF PlanType, MotorState
<1> HIDE DEF p
<1>5. Good(p)
  <2> SUFFICES ASSUME ~q.mixed PROVE Sound(p)
    BY <1>4 DEF Good
  <2>1. StateAgrees(p)
    BY <1>2, <1>4 DEF Good, Sound, StateAgrees, PlanType
  <2>2. InOrder(p.motor)
    BY <1>2, <1>4 DEF InOrder, PlanType
  <2>3. Configured(p.motor) # {}
    BY <1>2, <1>4 DEF Configured, PlanType
  <2> QED
    BY <2>1, <2>2, <2>3 DEF Sound
<1>6. tick.pc \in {"move", "report"} => p.mixed \/ Untouched(p.motor)
  BY <1>2, <1>3, <1>4 DEF Untouched, PlanType
<1>7. PlanCommand(p) /\ bent' \subseteq Motor
  BY DEF SetMotorPlan, p, q, TypeOK
<1> QED
  BY <1>4, <1>2, <1>5, <1>6, <1>7, PlanCommandInv

LEMMA ArmInv ==
  ASSUME Inv, Arm
  PROVE  Inv'
<1> USE DEF Inv
<1> DEFINE p == [plan EXCEPT !.state = "armed"]
<1>1. plan \in PlanType /\ plan.state \in {"none", "armed"}
  BY DEF TypeOK, PlanType, Arm, PlanState
<1>2. p \in PlanType /\ p.state = "armed" /\ p.motor = plan.motor /\ p.mixed = plan.mixed
  BY <1>1 DEF PlanType, PlanState
<1>3. PlanCommand(p) /\ bent' \subseteq Motor
  BY DEF Arm, TypeOK
<1> HIDE DEF p
<1>4. Good(p)
  BY <1>1, <1>2 DEF Good, Sound, StateAgrees, Arm
<1>5. tick.pc \in {"move", "report"} => p.mixed \/ Untouched(p.motor)
  BY <1>1, <1>2 DEF Starting
<1> QED
  BY <1>1, <1>2, <1>3, <1>4, <1>5, PlanCommandInv

LEMMA DisarmInv ==
  ASSUME Inv, Disarm
  PROVE  Inv'
<1>1. plan \in PlanType
  BY DEF Inv, TypeOK, PlanType
<1> QED
  BY <1>1, ResetGood, PlanCommandInv DEF Disarm

-----------------------------------------------------------------------------
(* Steps that leave the plan as it is.                                       *)
LEMMA KeepInv ==
  ASSUME Inv, TypeOK', Starting', Reported', Writing', plan' = plan,
         file' \in {file, NoText} \cup {text[t] : t \in Thread} \cup {p \in Saved : p.mixed},
         \A t \in Thread : text'[t] \in {text[t], NoText, Snapshot}
  PROVE  Inv'
<1>1. Good(plan)' /\ \A p : Good(p)' <=> Good(p)
  BY DEF Inv, Good, Sound, StateAgrees, InOrder
<1>2. file' # NoText => Good(file')
  BY DEF Inv, Good
<1>3. \A t \in Thread : text'[t] # NoText => Good(text'[t])
  BY SnapshotGood DEF Inv
<1> QED
  BY <1>1, <1>2, <1>3 DEF Inv, Good, Sound, StateAgrees, InOrder

LEMMA SerializeType ==
  ASSUME TypeOK, Good(plan), Writing, NEW t \in Thread, Serialize(t),
         t = "command" => command, t = "tick" => tick.pc # "write"
  PROVE  /\ text' \in [Thread -> Saved \cup {NoText}]
         /\ dirty' \in BOOLEAN
         /\ \A u \in Thread : text'[u] \in {text[u], NoText, Snapshot}
         /\ file' = file /\ opened' = opened /\ opened \subseteq {u \in Thread : text'[u] # NoText}
<1>1. text[t] = NoText
  BY DEF Writing, Thread
<1> QED
  BY <1>1, SnapshotGood DEF TypeOK, Serialize

(* What a write may leave: the text, nothing, or a mixture.                  *)
LEMMA MixtureType ==
  ASSUME NEW new \in Saved, NEW old \in Saved \cup {NoText}, NEW j \in Motor
  PROVE  /\ Overlaid(new, old) \subseteq {new, NoText} \cup {p \in Saved : p.mixed}
         /\ Cut(new, j) \in Saved /\ Cut(new, j).mixed
<1>1. new.motor \in [Motor -> MotorState] /\ "unconfigured" \in MotorState
  BY DEF Saved, MotorState
<1>2. ASSUME NEW mo \in [Motor -> MotorState], NEW p, p = [new EXCEPT !.mixed = TRUE, !.motor = mo]
      PROVE  p \in Saved /\ p.mixed
  BY <1>2 DEF Saved
<1>3. ASSUME NEW i \in Motor, old \in Saved
      PROVE  Behind(new, old, i) \in Saved /\ Behind(new, old, i).mixed
  <2> DEFINE mo == [m \in Motor |-> IF m >= i /\ old.motor[m] # "unconfigured"
                                    THEN old.motor[m] ELSE new.motor[m]]
  <2>1. mo \in [Motor -> MotorState]
    BY <1>1, <1>3 DEF Saved
  <2>2. Behind(new, old, i) = [new EXCEPT !.mixed = TRUE, !.motor = mo]
    BY DEF Behind
  <2> HIDE DEF mo
  <2> QED
    BY <1>2, <2>1, <2>2
<1>4. Cut(new, j) \in Saved /\ Cut(new, j).mixed
  <2> DEFINE mo == [m \in Motor |-> IF m >= j THEN "unconfigured" ELSE new.motor[m]]
  <2>1. mo \in [Motor -> MotorState]
    BY <1>1
  <2>2. Cut(new, j) = [new EXCEPT !.mixed = TRUE, !.motor = mo]
    BY DEF Cut
  <2> HIDE DEF mo
  <2> QED
    BY <1>2, <2>1, <2>2
<1> QED
  BY <1>3, <1>4 DEF Overlaid

LEMMA WrittenType ==
  ASSUME Inv, NEW t \in Thread, Written(t) \/ UNCHANGED <<text, tick>>
  PROVE  /\ text' \in [Thread -> Saved \cup {NoText}]
         /\ \A u \in Thread : text'[u] \in {text[u], NoText}
         /\ tick' \in TickType /\ tick'.pc \in {tick.pc, "gate"}
         /\ tick'.motor = tick.motor /\ tick'.result = tick.result
         /\ text'["tick"] # NoText => tick'.pc = "write"
         /\ command => text'["command"] = NoText
<1> USE DEF Inv
<1>1. CASE UNCHANGED <<text, tick>>
  BY <1>1 DEF TypeOK, TickType, Writing
<1>2. CASE Written(t)
  <2>1. /\ tick' \in TickType /\ tick'.pc \in {tick.pc, "gate"}
        /\ tick'.motor = tick.motor /\ tick'.result = tick.result
    BY <1>2 DEF TypeOK, TickType, Written
  <2>2. text' = [text EXCEPT ![t] = NoText]
    BY <1>2 DEF Written
  <2>3. text'["tick"] # NoText => tick' = tick /\ text["tick"] # NoText
    BY <1>2 DEF Written, TypeOK, Thread
  <2> QED
    BY <2>1, <2>2, <2>3 DEF TypeOK, Writing, Thread
<1> QED
  BY <1>1, <1>2

LEMMA OpenInv ==
  ASSUME Inv, NEW t \in Thread, Open(t)
  PROVE  Inv'
<1> USE DEF Inv
<1>1. Written(t) \/ UNCHANGED <<text, tick>>
  BY DEF Open
<1>2. /\ file' \in {file, NoText} /\ events' \in 0 .. MaxEvents
      /\ opened' \subseteq {u \in Thread : text'[u] # NoText}
  BY FallbackAssumption DEF Open, TypeOK, Counted, Written
<1>3. TypeOK'
  BY <1>1, <1>2, WrittenType DEF TypeOK, Open, TickType, motors
<1>4. Starting' /\ Reported' /\ Writing' /\ plan' = plan
  BY <1>1, WrittenType DEF Starting, Reported, Writing, Open
<1> QED
  BY <1>1, <1>2, <1>3, <1>4, WrittenType, KeepInv

LEMMA CloseInv ==
  ASSUME Inv, NEW t \in Thread, Close(t)
  PROVE  Inv'
<1> USE DEF Inv
<1>1. Written(t) /\ text[t] \in Saved /\ file \in Saved \cup {NoText}
  BY DEF Close, TypeOK
<1>2. file' \in {text[t], file, NoText} \cup {p \in Saved : p.mixed}
  <2>1. \/ file' \in {file, NoText} \cup Overlaid(text[t], file)
        \/ \E j \in Motor : file' = Cut(text[t], j)
    BY DEF Close
  <2>2. CASE Motor = {}
    BY <1>1, <2>1, <2>2 DEF Overlaid
  <2>3. CASE Motor # {}
    BY <1>1, <2>1, <2>3, MixtureType
  <2> QED
    BY <2>2, <2>3
<1>3. /\ events' \in 0 .. MaxEvents
      /\ opened' \subseteq {u \in Thread : text'[u] # NoText}
  BY FallbackAssumption DEF Close, TypeOK, Counted, Written
<1>4. TypeOK'
  BY <1>1, <1>2, <1>3, WrittenType DEF TypeOK, Close, TickType, motors
<1>5. Starting' /\ Reported' /\ Writing' /\ plan' = plan
  BY <1>1, WrittenType DEF Starting, Reported, Writing, Close
<1> QED
  BY <1>1, <1>2, <1>4, <1>5, WrittenType, KeepInv

LEMMA CommandSavesInv ==
  ASSUME Inv, CommandSaves
  PROVE  Inv'
<1> USE DEF Inv
<1>1. /\ text' \in [Thread -> Saved \cup {NoText}] /\ dirty' \in BOOLEAN
      /\ \A u \in Thread : text'[u] \in {text[u], NoText, Snapshot}
      /\ file' = file /\ opened' = opened /\ opened \subseteq {u \in Thread : text'[u] # NoText}
  BY SerializeType DEF CommandSaves, Thread
<1>2. TypeOK'
  <2>1. /\ command' = FALSE
        /\ UNCHANGED <<plan, tick, holder, busy, aborted, bent, events>>
    BY DEF CommandSaves, motors
  <2>2. /\ plan' \in PlanType /\ command' \in BOOLEAN /\ file' \in Saved \cup {NoText}
    BY <1>1, <2>1 DEF TypeOK, PlanType
  <2>3. tick' \in TickType
    BY <2>1 DEF TypeOK, TickType
  <2>4. /\ MotorsType'
        /\ bent' \subseteq Motor /\ events' \in 0 .. MaxEvents
    BY <2>1 DEF TypeOK, MotorsType
  <2> QED
    BY <1>1, <2>2, <2>3, <2>4 DEF TypeOK, PlanType, TickType, MotorsType
<1>3. Starting' /\ Reported' /\ Writing'
  BY DEF Starting, Reported, Writing, CommandSaves, Serialize, TypeOK, Thread
<1> QED
  BY <1>1, <1>2, <1>3, KeepInv DEF CommandSaves

(* The motors alone: the operator's moves and stops, the ends of motions.    *)
LEMMA MotorsInv ==
  ASSUME Inv, MotorsType', UNCHANGED <<plan, dirty, disk, tick, command, bent>>,
         events' \in 0 .. MaxEvents
  PROVE  Inv'
<1> USE DEF Inv
<1>1. TypeOK'
  BY DEF TypeOK, MotorsType, disk
<1>2. Starting' /\ Reported' /\ Writing' /\ file' = file /\ text' = text
  BY DEF Starting, Reported, Writing, disk
<1> QED
  BY <1>1, <1>2, KeepInv

LEMMA OperatorInv ==
  ASSUME Inv, NEW m \in Motor, OperatorMoves(m) \/ OperatorStops(m) \/ Arrive(m) \/ Abort(m)
  PROVE  Inv'
<1>1. MotorsType
  BY DEF Inv, TypeOK, MotorsType
<1>2. events \in 0 .. MaxEvents
  BY DEF Inv, TypeOK
<1>3. CASE OperatorMoves(m)
  BY <1>1, <1>2, <1>3, FallbackAssumption, MotorsStep, MotorsInv DEF OperatorMoves, Counted
<1>4. CASE OperatorStops(m)
  <2>1. {m} \in SUBSET Motor
    OBVIOUS
  <2> QED
    BY <1>1, <1>2, <1>4, <2>1, FallbackAssumption, MotorsStep, MotorsInv
    DEF OperatorStops, Counted
<1>5. CASE Arrive(m) \/ Abort(m)
  <2>1. MotorsType'
    BY <1>1, <1>5 DEF Arrive, Abort, Free, MotorsType
  <2> QED
    BY <1>2, <1>5, <2>1, MotorsInv DEF Arrive, Abort
<1> QED
  BY <1>3, <1>4, <1>5

-----------------------------------------------------------------------------
(* The control loop.                                                         *)
LEMMA GateInv ==
  ASSUME Inv, Gate
  PROVE  Inv'
<1> USE DEF Inv
<1>1. PICK active \in BOOLEAN, phase \in {"float", "landed", "other"},
           sequence \in SUBSET Motor :
        /\ tick' = [tick EXCEPT !.pc = "look", !.active = active, !.phase = phase]
        /\ IF active /\ ~tick.active THEN StopsAll(Motor \ sequence) ELSE UNCHANGED motors
  BY DEF Gate
<1>2. MotorsType'
  <2>1. MotorsType /\ Motor \ sequence \in SUBSET Motor
    BY DEF TypeOK, MotorsType
  <2> QED
    BY <1>1, <2>1, MotorsStep
<1>3. tick' \in TickType /\ tick'.pc = "look"
  BY <1>1 DEF TypeOK, TickType
<1>4. TypeOK'
  BY <1>2, <1>3 DEF Gate, TypeOK, TickType, MotorsType, disk
<1>5. Starting' /\ Reported' /\ Writing' /\ file' = file /\ text' = text
  BY <1>3 DEF Starting, Reported, Writing, Gate, At, disk
<1> QED
  BY <1>4, <1>5, KeepInv DEF Gate

LEMMA LookInv ==
  ASSUME Inv, Look
  PROVE  Inv'
<1> USE DEF Inv
<1>1. tick' \in TickType /\ tick'.pc = "decide"
  BY DEF Look, TypeOK, TickType
<1>2. TypeOK'
  BY <1>1 DEF Look, TypeOK, TickType, motors, disk
<1>3. Starting' /\ Reported' /\ Writing' /\ file' = file /\ text' = text
  BY <1>1 DEF Starting, Reported, Writing, Look, At, disk
<1> QED
  BY <1>2, <1>3, KeepInv DEF Look

LEMMA SaveInv ==
  ASSUME Inv, Save
  PROVE  Inv'
<1> USE DEF Inv
<1>1. /\ text' \in [Thread -> Saved \cup {NoText}] /\ dirty' \in BOOLEAN
      /\ \A u \in Thread : text'[u] \in {text[u], NoText, Snapshot}
      /\ file' = file /\ opened' = opened /\ opened \subseteq {u \in Thread : text'[u] # NoText}
  BY SerializeType DEF Save, Thread, At
<1>2. MotorsType'
  <2>1. MotorsType /\ Motor \in SUBSET Motor
    BY DEF TypeOK, MotorsType
  <2> QED
    BY <2>1, MotorsStep DEF Save
<1>3. /\ tick' \in TickType /\ tick'.pc \in {"write", "gate"}
      /\ tick'.pc = IF dirty THEN "write" ELSE "gate"
  BY DEF Save, TypeOK, TickType
<1>4. TypeOK'
  BY <1>1, <1>2, <1>3 DEF Save, TypeOK, TickType, MotorsType
<1>5. Starting' /\ Reported' /\ Writing'
  BY <1>3 DEF Starting, Reported, Writing, Save, Serialize, TypeOK, Thread
<1> QED
  BY <1>1, <1>4, <1>5, KeepInv DEF Save

LEMMA MoveInv ==
  ASSUME Inv, Move
  PROVE  Inv'
<1> USE DEF Inv
<1>1. tick.pc = "move" /\ tick.motor \in Motor
  BY DEF Move, At, Starting
<1>2. MotorsType'
  <2>1. MotorsType
    BY DEF TypeOK, MotorsType
  <2> QED
    BY <1>1, <2>1, MotorsStep DEF Move
<1>3. PICK r \in {"accepted", "retry", "refused"} :
        tick' = [tick EXCEPT !.pc = "report", !.result = r]
  BY DEF Move
<1>4. tick' \in TickType /\ tick'.pc = "report" /\ tick'.motor = tick.motor
      /\ tick'.result # "none"
  BY <1>3 DEF TypeOK, TickType
<1>5. TypeOK'
  BY <1>1, <1>2, <1>4 DEF Move, TypeOK, TickType, MotorsType, disk
<1>6. Starting' /\ Reported' /\ Writing' /\ file' = file /\ text' = text
  BY <1>1, <1>4 DEF Move, Starting, Reported, Writing, disk
<1> QED
  BY <1>5, <1>6, KeepInv DEF Move

(* A motor that waits for the lock, or is refused, may be written over a     *)
(* plan that was disarmed since: what results is still a good plan.          *)
LEMMA ReportInv ==
  ASSUME Inv, Report
  PROVE  Inv'
<1> USE DEF Inv
<1>1. tick.pc = "report" /\ tick.motor \in Motor
      /\ tick.result \in {"accepted", "retry", "refused"}
  BY DEF Report, At, Starting, Reported, TypeOK
<1>2. tick' \in TickType /\ tick'.pc = "save"
  BY DEF Report, TypeOK, TickType
<1>3. Starting' /\ Reported' /\ Writing' /\ file' = file /\ text' = text
  BY <1>1, <1>2 DEF Starting, Reported, Writing, Report, disk
<1>4. CASE plan' = plan /\ dirty' = dirty
  <2>1. TypeOK'
    BY <1>2, <1>4 DEF Report, TypeOK, TickType, motors, disk
  <2> QED
    BY <1>3, <1>4, <2>1, KeepInv DEF Report
<1>5. CASE tick.result # "accepted"
  <2> DEFINE m == tick.motor
  <2>1. /\ plan' \in PlanType /\ dirty' \in BOOLEAN /\ plan'.mixed = plan.mixed
        /\ \/ /\ plan'.motor = [plan.motor EXCEPT ![m] = "pending"]
              /\ plan'.state = IF \E i \in Motor \ {m} : plan.motor[i] = "done"
                               THEN "running" ELSE "armed"
           \/ /\ plan'.motor = [plan.motor EXCEPT ![m] = "failed"]
              /\ plan'.state = "failed"
    <3>1. plan \in PlanType /\ m \in Motor
      BY <1>1 DEF TypeOK, PlanType
    <3>2. CASE tick.result = "retry"
      <4>1. plan' = Retried(plan, m) /\ dirty' = TRUE
        BY <3>2 DEF Report, Change
      <4> QED
        BY <3>1, <4>1 DEF Retried, PlanType, PlanState, MotorState
    <3>3. CASE tick.result = "refused"
      <4>1. plan' = Refused(plan, m) /\ dirty' = TRUE
        BY <3>3 DEF Report, Change
      <4> QED
        BY <3>1, <4>1 DEF Refused, PlanType, PlanState, MotorState
    <3> QED
      BY <1>1, <1>5, <3>2, <3>3
  <2>2. ~plan.mixed => \A i \in Motor \ {m} : plan.motor[i] # "running"
    BY <1>1 DEF Starting, Untouched, Good, Sound, InOrder
  <2>3. plan.motor \in [Motor -> MotorState]
    BY DEF TypeOK
  <2>4. TypeOK'
    BY <1>2, <2>1 DEF Report, TypeOK, TickType, PlanType, motors, disk
  <2>5. ~plan.mixed => \A i \in Motor : plan'.motor[i] # "running"
    BY <1>1, <2>1, <2>2, <2>3
  <2>6. ~plan.mixed => StateAgrees(plan')
    BY <1>1, <2>1, <2>3, <2>5 DEF StateAgrees
  <2>7. Configured(plan'.motor) # {}
    BY <1>1, <2>1, <2>3 DEF Configured
  <2>8. Good(plan)'
    BY <2>1, <2>5, <2>6, <2>7 DEF Good, Sound, InOrder, StateAgrees
  <2>9. /\ file' # NoText => Good(file)'
        /\ \A t \in Thread : text'[t] # NoText => Good(text[t])'
    BY <1>3 DEF Good, Sound, StateAgrees, InOrder
  <2> QED
    BY <1>3, <2>4, <2>8, <2>9
<1> QED
  BY <1>1, <1>4, <1>5 DEF Report

-----------------------------------------------------------------------------
(* FallbackPlanner::Tick.  What has ended is done or failed.                 *)
LEMMA CompletedMotors ==
  ASSUME TypeOK
  PROVE  /\ Completed(plan.motor) \in [Motor -> MotorState]
         /\ \A m \in Motor :
              \/ Completed(plan.motor)[m] = plan.motor[m]
              \/ plan.motor[m] = "running" /\ Completed(plan.motor)[m] \in {"done", "failed"}
<1>1. plan.motor \in [Motor -> MotorState]
  BY DEF TypeOK
<1> QED
  BY <1>1 DEF Completed, MotorState

(* A decision bends one motor, and leaves none before it pending; or it only *)
(* skips some.                                                               *)
Kept(mo, new, i) == new[i] = mo[i] \/ (mo[i] = "pending" /\ new[i] = "skipped")
Bends(d, mo) ==
  /\ d.start \in Motor /\ d.motor[d.start] = "running" /\ mo[d.start] = "pending"
  /\ \A i \in Motor \ {d.start} :
       Kept(mo, d.motor, i) /\ (i < d.start => d.motor[i] # "pending")
Skips(d, mo) == d.start = NoMotor /\ \A i \in Motor : Kept(mo, d.motor, i)

(* A set of natural numbers has its smallest in it.                          *)
LEMMA MinIn ==
  ASSUME NEW S \in SUBSET Nat, S # {}
  PROVE  Min(S) \in S
<1>1. PICK x \in S : \A y \in S : <<y, x>> \notin OpToRel(<, Nat)
  BY WFMin, NatLessThanWellFounded, Zenon
<1>2. \A y \in S : ~(y < x)
  BY <1>1 DEF OpToRel
<1>3. \A y \in S : x <= y
  BY <1>2
<1> QED
  BY <1>3, Zenon DEF Min

LEMMA DecisionMotors ==
  ASSUME NEW mo \in [Motor -> MotorState],
         NEW ready \in SUBSET Motor, NEW warm \in SUBSET Motor,
         NEW d, d = Decision(mo, ready, warm)
  PROVE  d.motor \in [Motor -> MotorState] /\ (Bends(d, mo) \/ Skips(d, mo))
<1> DEFINE W == Waits(mo, ready)
           m == IF W = {} THEN MotorCount ELSE Min(W)
           s == Skip(mo, m)
<1>1. /\ s \in [Motor -> MotorState]
      /\ \A i \in Motor : s[i] = mo[i] \/ (mo[i] = "pending" /\ s[i] = "skipped")
      /\ \A i \in Motor : i < m => s[i] # "pending"
  BY DEF Skip, MotorState
<1>0. m \in Motor => mo[m] = "pending"
  <2>1. W \in SUBSET Motor /\ Motor \subseteq Nat /\ MotorCount \notin Motor
    BY FallbackAssumption DEF Waits, Motor
  <2>2. W # {} => Min(W) \in W
    BY <2>1, MinIn
  <2> QED
    BY <2>1, <2>2 DEF Waits
<1> HIDE DEF m, s
<1>2. CASE m \in ready /\ (m \in warm \/ Late)
  <2>1. d = [motor |-> [s EXCEPT ![m] = "running"], start |-> m]
    BY <1>2 DEF Decision, m, s
  <2>2. m \in Motor
    BY <1>2
  <2> QED
    BY <1>0, <1>1, <2>1, <2>2 DEF MotorState, Bends, Kept
<1>3. CASE ~(m \in ready /\ (m \in warm \/ Late))
  <2>1. d = [motor |-> s, start |-> NoMotor]
    BY <1>3 DEF Decision, m, s
  <2> QED
    BY <1>1, <2>1 DEF Skips, Kept
<1> QED
  BY <1>2, <1>3

LEMMA DecideInv ==
  ASSUME Inv, NEW ready \in SUBSET Motor, NEW warm \in SUBSET Motor, Decide(ready, warm)
  PROVE  Inv'
<1> USE DEF Inv
<1> DEFINE mo == Completed(plan.motor)
           state == IF plan.state = "running" /\ AllSettled(mo) THEN Outcome(mo) ELSE plan.state
           open == state \in {"armed", "running"} /\ Window
           d == IF open /\ \A m \in Motor : mo[m] # "running"
                THEN Decision(mo, ready, warm) ELSE [motor |-> mo, start |-> NoMotor]
           after == CASE d.start # NoMotor -> "running"
                      [] open /\ AllSettled(d.motor) -> Outcome(d.motor)
                      [] OTHER -> state
<1>1. /\ plan' = [plan EXCEPT !.state = after, !.motor = d.motor,
                              !.deadline = IF open /\ @ = "off" THEN "started" ELSE @]
      /\ dirty' = (dirty \/ d.motor # plan.motor \/ after # plan.state)
      /\ tick' = [tick EXCEPT !.pc = IF d.start = NoMotor THEN "save" ELSE "move",
                              !.motor = d.start, !.moving = {}, !.aborted = {}]
      /\ UNCHANGED <<disk, command, motors, bent, events>>
  BY DEF Decide
<1>2. /\ mo \in [Motor -> MotorState] /\ plan.motor \in [Motor -> MotorState]
      /\ \A m \in Motor : \/ mo[m] = plan.motor[m]
                          \/ plan.motor[m] = "running" /\ mo[m] \in {"done", "failed"}
  <2>1. TypeOK /\ plan.motor \in [Motor -> MotorState]
    BY DEF TypeOK
  <2> HIDE DEF Inv
  <2>2. /\ Completed(plan.motor) \in [Motor -> MotorState]
        /\ \A m \in Motor :
             \/ Completed(plan.motor)[m] = plan.motor[m]
             \/ plan.motor[m] = "running" /\ Completed(plan.motor)[m] \in {"done", "failed"}
    BY <2>1, CompletedMotors
  <2> QED
    BY <2>1, <2>2
<1>3. plan.state \in PlanState /\ (~plan.mixed => Sound(plan))
  BY DEF Good, TypeOK
<1> HIDE DEF mo
<1>4. ~plan.mixed => InOrder(mo)
  BY <1>2, <1>3 DEF Sound, InOrder, MotorState
<1>5. /\ state \in PlanState
      /\ \/ state = plan.state
         \/ /\ state = Outcome(mo) /\ AllSettled(mo) /\ state \in {"done", "failed"}
            /\ plan.state = "running"
  BY <1>3 DEF Outcome, PlanState
<1>6. /\ d.motor \in [Motor -> MotorState]
      /\ \/ open /\ (\A m \in Motor : mo[m] # "running") /\ Bends(d, mo)
         \/ open /\ Skips(d, mo)
         \/ ~open /\ Skips(d, mo) /\ d.motor = mo
  <2>1. CASE open /\ \A m \in Motor : mo[m] # "running"
    <3>1. d = Decision(mo, ready, warm)
      BY <2>1
    <3> HIDE DEF d, open, state, after, Inv
    <3> QED
      BY <1>2, <2>1, <3>1, DecisionMotors
  <2>2. CASE ~(open /\ \A m \in Motor : mo[m] # "running")
    <3>1. d = [motor |-> mo, start |-> NoMotor]
      BY <2>2
    <3> HIDE DEF d, open, state, after, Inv
    <3> QED
      BY <1>2, <3>1 DEF Skips, Kept
  <2> QED
    BY <2>1, <2>2
<1>7. /\ open => state \in {"armed", "running"}
      /\ d.start # NoMotor => after = "running"
      /\ d.start = NoMotor => \/ after = state
                              \/ open /\ after = Outcome(d.motor) /\ AllSettled(d.motor)
  <2>1. open => state \in {"armed", "running"}
    OBVIOUS
  <2>0. d.start # NoMotor => ~AllSettled(d.motor)
    BY <1>6 DEF Bends, Skips, AllSettled
  <2> HIDE DEF d, open, state, Inv
  <2>2. d.start # NoMotor => after = "running"
    BY <2>0
  <2>3. CASE d.start = NoMotor /\ open /\ AllSettled(d.motor)
    BY <2>1, <2>2, <2>3
  <2>4. CASE d.start = NoMotor /\ ~(open /\ AllSettled(d.motor))
    BY <2>1, <2>2, <2>4
  <2> QED
    BY <2>1, <2>2, <2>3, <2>4
<1> HIDE DEF d, open, state, after
<1>8. /\ \/ d.start \in Motor /\ d.start # NoMotor /\ open
         \/ d.start = NoMotor
      /\ ~open => d.start = NoMotor /\ d.motor = mo
      /\ \A i \in Motor :
           \/ d.motor[i] = mo[i]
           \/ mo[i] = "pending" /\ d.motor[i] = "skipped"
           \/ d.start = i /\ d.motor[i] = "running"
  <2>1. NoMotor \notin Motor
    BY FallbackAssumption DEF Motor
  <2> QED
    BY <1>6, <2>1 DEF Bends, Skips, Kept
<1>9. after \in PlanState
  BY <1>5, <1>7 DEF Outcome, PlanState
<1>10. /\ plan' \in PlanType /\ plan'.state = after /\ plan'.motor = d.motor
       /\ plan'.mixed = plan.mixed
  <2>1. plan \in PlanType
    BY DEF TypeOK, PlanType
  <2> QED
    BY <1>1, <1>6, <1>9, <2>1 DEF PlanType
<1>11. ASSUME ~plan.mixed PROVE Sound(plan')
  <2>1. Sound(plan)
    BY <1>3, <1>11
  <2>2. InOrder(d.motor)
    <3>1. CASE (\A m \in Motor : mo[m] # "running") /\ Bends(d, mo)
      BY <3>1 DEF InOrder, Bends, Kept
    <3>2. CASE Skips(d, mo)
      BY <1>4, <1>11, <3>2 DEF InOrder, Skips, Kept
    <3> QED
      BY <1>6, <3>1, <3>2
  <2>3. after # "none" => Configured(d.motor) # {}
    <3>1. Configured(plan.motor) \subseteq Configured(d.motor)
      BY <1>2, <1>8 DEF Configured
    <3>2. plan.state = "none" => after = "none"
      BY <1>5, <1>7, <1>8
    <3> QED
      BY <2>1, <3>1, <3>2 DEF Sound
  <2>4. StateAgrees(plan')
    <3>1. CASE after = "none"
      <4>1. plan.state = "none" /\ d.motor = mo
        BY <1>5, <1>7, <1>8, <3>1 DEF Outcome
      <4> QED
        BY <1>2, <1>10, <2>1, <3>1, <4>1 DEF Sound, StateAgrees
    <3>2. CASE after = "armed"
      <4>1. plan.state = "armed" /\ d.start = NoMotor
        BY <1>5, <1>7, <3>2 DEF Outcome
      <4>2. \A i \in Motor : mo[i] \notin {"running", "done"}
        BY <1>2, <2>1, <4>1 DEF Sound, StateAgrees
      <4>3. \A i \in Motor : d.motor[i] \notin {"running", "done"}
        <5>1. \A i \in Motor : d.start # i
          BY <4>1, FallbackAssumption DEF Motor
        <5> QED
          BY <1>8, <4>2, <5>1
      <4> QED
        BY <1>10, <3>2, <4>3 DEF StateAgrees
    <3>3. CASE after = "running"
      BY <1>10, <3>3 DEF StateAgrees
    <3>4. CASE after \in {"done", "failed"}
      <4>1. d.start = NoMotor
        BY <1>7, <3>4
      <4>2. CASE after = Outcome(d.motor) /\ AllSettled(d.motor)
        BY <1>10, <3>4, <4>2 DEF StateAgrees, Outcome
      <4>3. CASE after = state
        <5>1. d.motor = mo
          BY <1>7, <1>8, <3>4, <4>3
        <5>2. CASE state = plan.state
          BY <1>2, <1>10, <2>1, <3>4, <4>3, <5>1, <5>2 DEF Sound, StateAgrees, AllSettled
        <5>3. CASE state = Outcome(mo) /\ AllSettled(mo)
          BY <1>10, <3>4, <4>3, <5>1, <5>3 DEF StateAgrees, Outcome
        <5> QED
          BY <1>5, <5>2, <5>3
      <4> QED
        BY <1>7, <4>1, <4>2, <4>3
    <3> QED
      BY <1>9, <3>1, <3>2, <3>3, <3>4 DEF PlanState
  <2> QED
    BY <1>10, <2>2, <2>3, <2>4 DEF Sound
<1>14. Good(plan)'
  BY <1>10, <1>11 DEF Good, Sound, StateAgrees, InOrder
<1>15. tick' \in TickType /\ tick'.motor = d.start /\ tick'.result = tick.result
       /\ tick'.pc = IF d.start = NoMotor THEN "save" ELSE "move"
  BY <1>1, <1>8 DEF TickType, TypeOK
<1>16. TypeOK'
  BY <1>1, <1>10, <1>15 DEF TypeOK, PlanType, TickType, motors, disk
<1>17. Starting' /\ Reported' /\ Writing'
  <2>0. Writing'
    BY <1>1 DEF Writing, Decide, At, disk
  <2>1. CASE d.start = NoMotor
    BY <1>15, <2>0, <2>1 DEF Starting, Reported
  <2>2. CASE d.start # NoMotor
    <3>1. d.start \in Motor /\ d.motor[d.start] = "running" /\ after = "running"
      BY <1>6, <1>7, <2>2 DEF Bends, Skips
    <3> QED
      BY <1>10, <1>15, <2>0, <2>2, <3>1 DEF Starting, Reported
  <2> QED
    BY <2>1, <2>2
<1>18. /\ file' # NoText => Good(file)'
       /\ \A t \in Thread : text'[t] # NoText => Good(text[t])'
  BY <1>1 DEF Good, Sound, StateAgrees, InOrder, disk
<1> QED
  BY <1>14, <1>16, <1>17, <1>18

-----------------------------------------------------------------------------
LEMMA DeadlineInv ==
  ASSUME Inv, DeadlinePasses
  PROVE  Inv'
<1> USE DEF Inv
<1>1. /\ plan' \in PlanType /\ plan'.state = plan.state /\ plan'.motor = plan.motor
      /\ plan'.mixed = plan.mixed
  BY DEF DeadlinePasses, TypeOK, PlanType
<1>2. TypeOK'
  BY <1>1 DEF DeadlinePasses, TypeOK, PlanType, motors, disk
<1>3. Good(plan)' /\ Starting' /\ Reported' /\ Writing'
  BY <1>1 DEF DeadlinePasses, Good, Sound, StateAgrees, InOrder, Starting, Reported, Writing, disk
<1>4. /\ file' # NoText => Good(file)'
      /\ \A t \in Thread : text'[t] # NoText => Good(text[t])'
  BY DEF DeadlinePasses, Good, Sound, StateAgrees, InOrder, disk
<1> QED
  BY <1>2, <1>3, <1>4

(* LoadFrom gives a good plan from a good text.                              *)
LEMMA RestoredGood ==
  ASSUME NEW f \in Saved \cup {NoText}, f # NoText => Good(f)
  PROVE  Restored(f) \in PlanType /\ Good(Restored(f))
<1>1. CASE f = NoText \/ (f.state # "none" /\ Configured(f.motor) = {})
  BY <1>1, NoPlanGood DEF Restored
<1>2. CASE ~(f = NoText \/ (f.state # "none" /\ Configured(f.motor) = {}))
  <2> DEFINE p == [state |-> f.state, motor |-> f.motor, mixed |-> f.mixed, deadline |-> "off"]
  <2>1. p \in PlanType /\ p.state = f.state /\ p.motor = f.motor /\ p.mixed = f.mixed
    BY <1>2 DEF Saved, PlanType
  <2>2. Restored(f) = p
    BY <1>2 DEF Restored
  <2> HIDE DEF p
  <2>3. Good(p)
    BY <1>2, <2>1, SameGood
  <2> QED
    BY <2>1, <2>2, <2>3
<1> QED
  BY <1>1, <1>2

LEMMA FirstTickType == FirstTick \in TickType /\ FirstTick.pc = "gate"
BY DEF FirstTick, TickType

LEMMA RestartInv ==
  ASSUME Inv, Restart
  PROVE  Inv'
<1> USE DEF Inv
<1>1. file' = file /\ file \in Saved \cup {NoText}
  BY DEF Restart, TypeOK
<1>2. plan' = Restored(file) /\ text' = [t \in Thread |-> NoText] /\ tick' = FirstTick
  BY DEF Restart
<1>3. plan' \in PlanType /\ Good(plan')
  BY <1>1, <1>2, RestoredGood
<1>4. events' \in 0 .. MaxEvents /\ bent' \subseteq Motor /\ opened' = {}
  BY FallbackAssumption DEF Restart, TypeOK, Counted
<1>5. TypeOK'
  BY <1>1, <1>2, <1>3, <1>4, FirstTickType
  DEF Restart, TypeOK, PlanType, TickType
<1>6. Starting' /\ Reported' /\ Writing'
  BY <1>2, FirstTickType DEF Starting, Reported, Writing, Restart, Thread
<1>7. Good(plan)'
  BY <1>3 DEF Good, Sound, StateAgrees, InOrder
<1>8. /\ file' # NoText => Good(file)'
      /\ \A t \in Thread : text'[t] # NoText => Good(text[t])'
  BY <1>1, <1>2 DEF Good, Sound, StateAgrees, InOrder
<1> QED
  BY <1>5, <1>6, <1>7, <1>8

LEMMA InitInv == Init => Inv
<1> SUFFICES ASSUME Init PROVE Inv
  OBVIOUS
<1>1. Loaded \in Saved /\ Good(Loaded)
  <2>1. Loaded \in Saved
    BY DEF Loaded, Saved, PlanState, MotorState
  <2>2. Good(Loaded)
    BY DEF Loaded, Good, Sound, StateAgrees, InOrder
  <2> QED
    BY <2>1, <2>2
<1>2. file \in Saved \cup {NoText} /\ (file # NoText => Good(file))
  BY <1>1 DEF Init
<1>3. plan \in PlanType /\ Good(plan)
  BY <1>2, RestoredGood DEF Init
<1>4. events \in 0 .. MaxEvents
  BY FallbackAssumption DEF Init
<1>5. tick \in TickType /\ tick.pc = "gate" /\ text = [t \in Thread |-> NoText]
  BY FirstTickType DEF Init
<1>6. TypeOK
  BY <1>2, <1>3, <1>4, <1>5 DEF Init, TypeOK, PlanType, TickType
<1> QED
  BY <1>2, <1>3, <1>5, <1>6 DEF Inv, Init, Starting, Reported, Writing, Thread

LEMMA NextInv == Inv /\ [Next]_vars => Inv'
<1> SUFFICES ASSUME Inv, [Next]_vars PROVE Inv'
  OBVIOUS
<1>1. CASE Gate \/ Look \/ Move \/ Report \/ Save
  BY <1>1, GateInv, LookInv, MoveInv, ReportInv, SaveInv
<1>2. ASSUME NEW ready \in SUBSET Motor, NEW warm \in SUBSET Motor, Decide(ready, warm)
      PROVE  Inv'
  BY <1>2, DecideInv
<1>3. ASSUME NEW t \in Thread, Open(t) \/ Close(t) PROVE Inv'
  BY <1>3, OpenInv, CloseInv
<1>4. ASSUME NEW m \in Motor, SetMotorPlan(m) \/ OperatorMoves(m) \/ OperatorStops(m)
      PROVE  Inv'
  BY <1>4, SetMotorPlanInv, OperatorInv
<1>5. CASE Arm \/ Disarm \/ CommandSaves
  BY <1>5, ArmInv, DisarmInv, CommandSavesInv
<1>6. ASSUME NEW m \in Motor, Arrive(m) \/ Abort(m) PROVE Inv'
  BY <1>6, OperatorInv
<1>7. CASE DeadlinePasses \/ Restart
  BY <1>7, DeadlineInv, RestartInv
<1>8. CASE UNCHANGED vars
  BY <1>8
  DEF vars, motors, disk, Inv, TypeOK, Good, Sound, StateAgrees, InOrder, Starting,
      Reported, Writing
<1> QED
  BY <1>1, <1>2, <1>3, <1>4, <1>5, <1>6, <1>7, <1>8 DEF Next, TickStep, CommandStep, Thread

LEMMA Invariant == Spec => []Inv
  BY InitInv, NextInv, PTL DEF Spec

-----------------------------------------------------------------------------
(* The bends accepted before: their motors are neither pending nor without a *)
(* plan, and the control loop is not about to move one of them, nor to take  *)
(* one back.                                                                 *)
BentStay ==
  /\ \A m \in bent : plan.motor[m] \notin {"unconfigured", "pending"}
  /\ tick.pc = "move" \/ (tick.pc = "report" /\ tick.result # "accepted") =>
       tick.motor \notin bent

LEMMA BentStayKept ==
  ASSUME Inv, BentStay, plan'.motor = plan.motor, bent' = bent,
         \/ tick' = tick
         \/ tick'.pc \notin {"move", "report"}
  PROVE  BentStay'
BY DEF BentStay

LEMMA CommandBentStay ==
  ASSUME Inv, BentStay, Arm \/ Disarm \/ \E m \in Motor : SetMotorPlan(m)
  PROVE  BentStay'
<1>1. TypeOK
  BY DEF Inv
<1>2. CASE Arm
  BY <1>2 DEF Arm, PlanCommand, Change, BentStay
<1>3. CASE bent' = {}
  BY <1>3 DEF BentStay
<1>4. ASSUME NEW m \in Motor, SetMotorPlan(m), plan.state \notin {"done", "failed"}
      PROVE  BentStay'
  <2>1. /\ plan' = [plan EXCEPT !.motor[m] = "pending"] /\ bent' = bent \ {m}
        /\ tick' = tick
    BY <1>4 DEF SetMotorPlan, PlanCommand, Change
  <2>2. bent \subseteq Motor /\ plan.motor \in [Motor -> MotorState] /\ plan \in PlanType
    BY <1>1 DEF TypeOK, PlanType
  <2>3. \A i \in Motor \ {m} : plan'.motor[i] = plan.motor[i]
    BY <2>1, <2>2 DEF PlanType
  <2> QED
    BY <2>1, <2>2, <2>3 DEF BentStay
<1> QED
  BY <1>2, <1>3, <1>4 DEF Disarm, SetMotorPlan

LEMMA MoveBentStay ==
  ASSUME Inv, BentStay, Move
  PROVE  BentStay'
<1>1. /\ tick.pc = "move" /\ plan' = plan /\ tick.motor \in Motor
      /\ tick \in TickType
  BY DEF Move, At, Inv, Starting, TypeOK, TickType
<1>2. CASE /\ tick' = [tick EXCEPT !.pc = "report", !.result = "accepted"]
           /\ bent' = bent \cup (IF plan.motor[tick.motor] = "running" THEN {tick.motor} ELSE {})
  BY <1>1, <1>2 DEF BentStay, TickType
<1>3. CASE /\ \E r \in {"retry", "refused"} :
                tick' = [tick EXCEPT !.pc = "report", !.result = r]
           /\ bent' = bent
  BY <1>1, <1>3 DEF BentStay, TickType
<1> QED
  BY <1>2, <1>3 DEF Move

LEMMA ReportBentStay ==
  ASSUME Inv, BentStay, Report
  PROVE  BentStay'
<1>1. /\ tick.pc = "report" /\ tick.motor \in Motor /\ bent' = bent
      /\ tick' \in TickType /\ tick'.pc = "save"
      /\ tick.result \in {"accepted", "retry", "refused"}
  BY DEF Report, At, Inv, Starting, Reported, TypeOK, TickType
<1>2. bent \subseteq Motor /\ plan.motor \in [Motor -> MotorState] /\ plan \in PlanType
  BY DEF Inv, TypeOK, PlanType
<1>3. CASE tick.result = "accepted"
  BY <1>1, <1>3, BentStayKept DEF Report
<1>4. CASE tick.result # "accepted"
  <2>1. \/ plan'.motor = [plan.motor EXCEPT ![tick.motor] = "pending"]
        \/ plan'.motor = [plan.motor EXCEPT ![tick.motor] = "failed"]
    BY <1>1, <1>2, <1>4 DEF Report, Change, Retried, Refused, PlanType
  <2>2. \A i \in Motor \ {tick.motor} : plan'.motor[i] = plan.motor[i]
    BY <1>2, <2>1
  <2> QED
    BY <1>1, <1>2, <1>4, <2>2 DEF BentStay
<1> QED
  BY <1>3, <1>4

LEMMA DecideBentStay ==
  ASSUME Inv, BentStay,
         NEW ready \in SUBSET Motor, NEW warm \in SUBSET Motor, Decide(ready, warm)
  PROVE  BentStay'
<1> DEFINE mo == Completed(plan.motor)
           state == IF plan.state = "running" /\ AllSettled(mo) THEN Outcome(mo) ELSE plan.state
           open == state \in {"armed", "running"} /\ Window
           d == IF open /\ \A m \in Motor : mo[m] # "running"
                THEN Decision(mo, ready, warm) ELSE [motor |-> mo, start |-> NoMotor]
<1>1. TypeOK /\ plan \in PlanType /\ bent \subseteq Motor /\ tick \in TickType
  BY DEF Inv, TypeOK, PlanType, TickType
<1>2. /\ plan'.motor = d.motor /\ bent' = bent
      /\ tick' = [tick EXCEPT !.pc = IF d.start = NoMotor THEN "save" ELSE "move",
                              !.motor = d.start, !.moving = {}, !.aborted = {}]
  BY <1>1 DEF Decide, PlanType
<1>3. /\ mo \in [Motor -> MotorState]
      /\ \A m \in bent : mo[m] \notin {"unconfigured", "pending"}
  BY <1>1, CompletedMotors DEF BentStay
<1> HIDE DEF mo
<1>4. Bends(d, mo) \/ Skips(d, mo)
  <2>1. CASE open /\ \A m \in Motor : mo[m] # "running"
    <3>1. d = Decision(mo, ready, warm)
      BY <2>1
    <3> HIDE DEF d, open, state
    <3> QED
      BY <1>3, <3>1, DecisionMotors
  <2>2. CASE ~(open /\ \A m \in Motor : mo[m] # "running")
    <3>1. d = [motor |-> mo, start |-> NoMotor]
      BY <2>2
    <3> HIDE DEF d, open, state
    <3> QED
      BY <3>1 DEF Skips, Kept
  <2> QED
    BY <2>1, <2>2
<1> HIDE DEF d, open, state
<1>5. \A m \in bent : d.motor[m] \notin {"unconfigured", "pending"}
  <2>1. CASE Skips(d, mo)
    BY <1>1, <1>3, <2>1 DEF Skips, Kept
  <2>2. CASE Bends(d, mo)
    BY <1>1, <1>3, <2>2 DEF Bends, Kept
  <2> QED
    BY <1>4, <2>1, <2>2
<1>6. d.start \notin bent \/ d.start = NoMotor
  BY <1>3, <1>4 DEF Bends, Skips
<1>7. tick'.motor = d.start /\ tick'.pc = IF d.start = NoMotor THEN "save" ELSE "move"
  BY <1>1, <1>2 DEF TickType
<1> QED
  BY <1>2, <1>5, <1>6, <1>7 DEF BentStay

LEMMA RestartBentStay ==
  ASSUME Inv, BentStay, Restart
  PROVE  BentStay'
<1>1. /\ plan' = Restored(file) /\ tick'.pc = "gate" /\ file \in Saved \cup {NoText}
      /\ \A m \in bent' : m \in Motor /\ file # NoText
                         /\ file.motor[m] \notin {"unconfigured", "pending"}
  BY DEF Restart, FirstTick, Inv, TypeOK
<1>2. CASE bent' = {}
  BY <1>1, <1>2 DEF BentStay
<1>3. CASE bent' # {}
  <2>1. plan'.motor = file.motor
    BY <1>1, <1>3 DEF Restored, Configured
  <2> QED
    BY <1>1, <2>1 DEF BentStay
<1> QED
  BY <1>2, <1>3

LEMMA BentStayInv == Inv /\ BentStay /\ [Next]_vars => BentStay'
<1> SUFFICES ASSUME Inv, BentStay, [Next]_vars PROVE BentStay'
  OBVIOUS
<1>1. CASE Arm \/ Disarm \/ \E m \in Motor : SetMotorPlan(m)
  BY <1>1, CommandBentStay
<1>2. CASE Move \/ Report \/ Restart
  BY <1>2, MoveBentStay, ReportBentStay, RestartBentStay
<1>3. ASSUME NEW ready \in SUBSET Motor, NEW warm \in SUBSET Motor, Decide(ready, warm)
      PROVE  BentStay'
  BY <1>3, DecideBentStay
<1>4. CASE Gate \/ Look \/ Save
  <2>1. plan' = plan /\ bent' = bent /\ tick'.pc \notin {"move", "report"}
    BY <1>4 DEF Gate, Look, Save, Inv, TypeOK
  <2> QED
    BY <2>1, BentStayKept
<1>5. ASSUME NEW t \in Thread, Open(t) \/ Close(t) PROVE BentStay'
  <2>1. plan' = plan /\ bent' = bent /\ (tick' = tick \/ tick'.pc = "gate")
    BY <1>5 DEF Open, Close, Written, Inv, TypeOK
  <2> QED
    BY <2>1, BentStayKept
<1>6. ASSUME NEW m \in Motor, OperatorMoves(m) \/ OperatorStops(m) \/ Arrive(m) \/ Abort(m)
      PROVE  BentStay'
  <2>1. plan' = plan /\ bent' = bent /\ tick' = tick
    BY <1>6 DEF OperatorMoves, OperatorStops, Arrive, Abort
  <2> QED
    BY <2>1, BentStayKept
<1>7. CASE DeadlinePasses \/ CommandSaves \/ UNCHANGED vars
  <2>1. plan'.motor = plan.motor /\ bent' = bent /\ tick' = tick
    BY <1>7 DEF DeadlinePasses, CommandSaves, vars, Inv, TypeOK
  <2> QED
    BY <2>1, BentStayKept
<1> QED
  BY <1>1, <1>2, <1>3, <1>4, <1>5, <1>6, <1>7 DEF Next, TickStep, CommandStep, Thread

-----------------------------------------------------------------------------
(* Every reachable state is well typed.                                      *)
LEMMA TypeSafe == Spec => []TypeOK
<1>1. Inv => TypeOK
  BY DEF Inv
<1> QED
  BY <1>1, Invariant, PTL

(* Whatever is in memory, in fallback_plan.txt or on its way there is a plan *)
(* the planner can go on from (Serialize, Deserialize, ReportStartResult),   *)
(* but for a file that two writes at once, or one that failed, put together. *)
THEOREM PlansSafe == Spec => []PlansSound
<1>1. Inv => PlansSound
  BY DEF Inv, Good, Sound, PlansSound, PlansAgree, Copies
<1> QED
  BY <1>1, Invariant, PTL

(* Bends run in the order of the motors, one at a time                       *)
(* (FallbackPlanner::Tick), by a plan that is not loaded from such a file.   *)
THEOREM OrderSafe == Spec => []InIdOrder
<1>1. Inv => InIdOrder
  BY DEF Inv, Good, Sound, InOrder, InIdOrder
<1> QED
  BY <1>1, Invariant, PTL

(* A bend that was accepted is not started a second time, whatever was       *)
(* loaded, commanded, refused or aborted since, and whatever file a restart  *)
(* found that has it settled (FallbackPlanner::Tick, LoadFrom).              *)
THEOREM BentOnceSafe == Spec => []BentOnce
<1>1. Init => BentStay
  BY FirstTickType DEF Init, BentStay
<1>2. BentStay => BentOnce
  BY DEF BentStay, BentOnce, At
<1> QED
  BY <1>1, <1>2, Invariant, BentStayInv, PTL DEF Spec
=============================================================================
