------------------------- MODULE HeaterControlProofs -------------------------
(***************************************************************************)
(* HeaterControl for any heaters, motors, budget and number of commands:   *)
(* the limits a tick respects when it computes and schedules bind the      *)
(* duties until the next tick has scheduled, whatever commands and motions *)
(* come between its steps.                                                 *)
(***************************************************************************)
EXTENDS HeaterControl, FiniteSetTheorems, TLAPS

(* What the computation of this tick promises of the heaters S: none whose   *)
(* sample was too hot, none without a reading but for a duty given with      *)
(* debug armed, and none at all with the heat off, but for a HEATER_TEST.    *)
Allowed(S) ==
  tick.by # "test" =>
    /\ S \cap hot = {}
    /\ tick.off => S = {}
    /\ S \cap tick.blind \subseteq tick.given

(* What the scheduler promises of them: nothing once the budget is spent,    *)
(* and with the lock taken only what was scheduled before it was.            *)
Granted(S) ==
  /\ exhausted /\ ~tick.bench => S = {}
  /\ S # {} /\ holder # NoMotor => fresh \/ tick.bench

RequestedOK == At("schedule") => Allowed(tick.requested)
ScheduledOK == At("apply") => Allowed(tick.scheduled) /\ Granted(tick.scheduled)
OnOK ==
  /\ Applied => Granted(on)
  /\ tick.pc \in {"bend", "move", "copy"} => Allowed(on)
  /\ At("compute") /\ tick.by # "test" => on \cap hot = {}
AtRest == At("copy") => ~tick.off /\ tick.blind = {}

(* What is open loop was given as such: in the overrides, and in the copy.   *)
OverGiven == over.open => (IF over.all THEN Heater ELSE over.duty) \subseteq given
TickGiven == At("compute") /\ tick.open => tick.duty \subseteq tick.given
BusyHolds == busy \subseteq {holder} \ {NoMotor}

Inv ==
  /\ TypeOK /\ OneOwner
  /\ RequestedOK /\ ScheduledOK /\ OnOK
  /\ AtRest /\ BusyHolds
  /\ OverGiven /\ TickGiven

-----------------------------------------------------------------------------
(* Of two integers Min is one, and not above the other.                      *)
LEMMA MinOfTwo ==
  ASSUME NEW a \in Int, NEW b \in Int
  PROVE  /\ Min({a, b}) \in {a, b}
         /\ Min({a, b}) <= a /\ Min({a, b}) <= b
<1>1. \E x \in {a, b} : \A y \in {a, b} : x <= y
  OBVIOUS
<1> QED
  BY <1>1 DEF Min

LEMMA SpentInBudget ==
  ASSUME NEW e \in 0 .. Budget, NEW S \in SUBSET Heater
  PROVE  Min({e + Cardinality(S), Budget}) \in 0 .. Budget
<1>1. Cardinality(S) \in Nat
  BY HeaterAssumption, FS_Subset, FS_CardinalityType
<1>2. Budget \in Nat
  BY HeaterAssumption
<1>3. e + Cardinality(S) \in Nat
  BY <1>1
<1> QED
  BY <1>2, <1>3, MinOfTwo

(* What a step of a motor may do, seen from the heaters: the lock is as it   *)
(* was, free, or newly taken.                                                *)
MotorSteps ==
  /\ holder' \in Motor \cup {NoMotor} /\ busy' \subseteq Motor
  /\ busy' \subseteq {holder'} \ {NoMotor}
  /\ fresh' \in BOOLEAN
  /\ \/ holder' = holder /\ fresh' = fresh
     \/ holder' = NoMotor
     \/ fresh' = TRUE

LEMMA MotionSteps ==
  ASSUME TypeOK, BusyHolds, NEW m \in Motor,
         \/ Moves(m)
         \/ (Interlock!Change(m) \/ Interlock!Release(m)) /\ UNCHANGED fresh
         \/ UNCHANGED motion
  PROVE  MotorSteps
BY HeaterAssumption
DEF TypeOK, BusyHolds, MotorSteps, Moves, motion, Interlock!Acquire,
    Interlock!Change, Interlock!Release

-----------------------------------------------------------------------------
(* The records that are written have their types.                            *)
OverType ==
  [off : BOOLEAN, all : BOOLEAN, duty : SUBSET Heater, target : SUBSET Heater,
   open : BOOLEAN, reset : BOOLEAN]
TickType ==
  [pc : {"copy", "compute", "schedule", "apply", "bend", "move"},
   mode : {"STANDBY", "RUN", "SAFE"}, fallback : BOOLEAN, off : BOOLEAN,
   duty : SUBSET Heater, target : SUBSET Heater, open : BOOLEAN,
   given : SUBSET Heater, blind : SUBSET Heater, by : {"control", "tune", "test"},
   bench : BOOLEAN, requested : SUBSET Heater, scheduled : SUBSET Heater]

LEMMA ClearedType ==
  /\ Cleared \in OverType
  /\ \A r \in BOOLEAN : /\ [Off EXCEPT !.reset = r] \in OverType
                        /\ ~[Off EXCEPT !.reset = r].open
                        /\ [Cleared EXCEPT !.reset = r] \in OverType
                        /\ ~[Cleared EXCEPT !.reset = r].open
BY DEF OverType, Cleared, Off

(* A command keeps the types, and changes nothing a tick has promised.       *)
LEMMA CommandType ==
  ASSUME TypeOK, Command,
         mode' \in {"STANDBY", "RUN", "SAFE"}, over' \in OverType,
         test' \in Heater \cup {NoHeater}, tune' \in Heater \cup {NoHeater},
         bench' \in BOOLEAN, debug' \in BOOLEAN, given' \subseteq Heater
  PROVE  TypeOK'
BY HeaterAssumption DEF TypeOK, Command, OverType, control, motion

-----------------------------------------------------------------------------
(* Whatever leaves the tick, the latch and the budget alone and turns no     *)
(* heater on keeps the invariant: the commands, and the motors.              *)
LEMMA QuietInv ==
  ASSUME Inv, TypeOK', OneOwner', OverGiven', MotorSteps,
         tick' = tick, hot' = hot, exhausted' = exhausted, on' \in {on, {}}
  PROVE  Inv'
<1>1. \A S : Allowed(S)' <=> Allowed(S)
  BY DEF Allowed
<1>2. \A S : Granted(S) => Granted(S)'
  BY DEF Granted, MotorSteps
<1>3. RequestedOK' /\ ScheduledOK'
  BY <1>1, <1>2 DEF Inv, RequestedOK, ScheduledOK, At, Allowed, Granted, MotorSteps
<1>4. OnOK'
  BY <1>1, <1>2 DEF Inv, OnOK, At, Applied, Allowed, Granted, MotorSteps
<1>5. AtRest' /\ BusyHolds' /\ TickGiven'
  BY DEF Inv, AtRest, At, BusyHolds, TickGiven, MotorSteps
<1> QED
  BY <1>3, <1>4, <1>5 DEF Inv

LEMMA CommandInv ==
  ASSUME Inv, Command, OneOwner', OverGiven', given' \subseteq Heater,
         mode' \in {"STANDBY", "RUN", "SAFE"}, over' \in OverType,
         test' \in Heater \cup {NoHeater}, tune' \in Heater \cup {NoHeater},
         bench' \in BOOLEAN, debug' \in BOOLEAN
  PROVE  Inv'
<1>1. TypeOK'
  BY CommandType DEF Inv
<1>2. MotorSteps
  BY DEF Command, motion, Inv, TypeOK, BusyHolds, MotorSteps
<1> QED
  BY <1>1, <1>2, QuietInv DEF Command, control

(* The commands that set overrides only.                                     *)
LEMMA OverInv ==
  ASSUME Inv, Command, over' \in OverType, UNCHANGED tune, UNCHANGED bench,
         OverGiven', given' \subseteq Heater,
         mode' \in {"STANDBY", "RUN", "SAFE"}, debug' \in BOOLEAN, test' \in {test, NoHeater}
  PROVE  Inv'
<1>1. OneOwner'
  BY DEF Inv, OneOwner
<1> QED
  BY <1>1, CommandInv DEF Inv, TypeOK

LEMMA SetHeatInv ==
  ASSUME Inv, NEW all \in BOOLEAN, NEW duty \in SUBSET Heater,
         NEW target \in SUBSET Heater, NEW open \in BOOLEAN,
         SetHeat(all, duty, target, open), given' \subseteq Heater,
         open => (IF all THEN Heater ELSE duty) \subseteq given'
  PROVE  Inv'
<1>1. over \in OverType
  BY DEF Inv, TypeOK, OverType
<1>2. over' = [over EXCEPT !.off = FALSE, !.all = all, !.duty = duty, !.target = target,
                           !.open = open]
  BY DEF SetHeat
<1>3. over' \in OverType
  BY <1>1, <1>2 DEF OverType
<1>4. over'.open = open /\ over'.all = all /\ over'.duty = duty
  BY <1>1, <1>2 DEF OverType
<1>5. OverGiven'
  BY <1>4 DEF OverGiven
<1> QED
  BY <1>3, <1>5, OverInv DEF SetHeat, Inv, TypeOK

LEMMA CommandStepInv ==
  ASSUME Inv, CommandStep
  PROVE  Inv'
<1> USE DEF Inv, TypeOK
<1>0. over \in OverType /\ over.duty \subseteq Heater /\ over.target \subseteq Heater
      /\ over.reset \in BOOLEAN /\ DebugArmed \in BOOLEAN
  BY DEF OverType, DebugArmed
<1>t. ASSUME TurnOff PROVE over' \in OverType /\ OverGiven' /\ given' \subseteq Heater
  <2>1. over' \in OverType /\ ~over'.open
    BY <1>t, <1>0, ClearedType DEF TurnOff
  <2> QED
    BY <1>t, <2>1 DEF TurnOff, TakenBack, OverGiven
<1>o. [over EXCEPT !.off = FALSE] \in OverType /\ [over EXCEPT !.open = FALSE] \in OverType
      /\ [over EXCEPT !.reset = TRUE, !.open = FALSE] \in OverType
      /\ \A S : [over EXCEPT !.target = @ \ S] \in OverType
  BY <1>0 DEF OverType
<1>c. ASSUME given' = given, over'.open = over.open, over'.all = over.all,
             over'.duty = over.duty
      PROVE  OverGiven' /\ given' \subseteq Heater
  BY <1>c DEF OverGiven
<1>f. /\ [over EXCEPT !.off = FALSE].open = over.open
      /\ [over EXCEPT !.off = FALSE].all = over.all
      /\ [over EXCEPT !.off = FALSE].duty = over.duty
  BY <1>0 DEF OverType
<1>1. CASE ChangeMode
  <2>1. over' \in OverType /\ OverGiven' /\ given' \subseteq Heater
    BY <1>1, <1>0, <1>t, <1>o, <1>c, <1>f DEF ChangeMode
  <2> QED
    BY <1>1, <2>1, OverInv DEF ChangeMode, TurnOff
<1>2. CASE HeatersOff
  BY <1>2, <1>t, OverInv DEF HeatersOff, TurnOff
<1>3. CASE ClearOverrides
  <2>1. over' \in OverType /\ ~over'.open
    BY <1>3, <1>0, ClearedType DEF ClearOverrides
  <2>2. OverGiven' /\ given' \subseteq Heater
    BY <1>3, <2>1 DEF ClearOverrides, TakenBack, OverGiven
  <2> QED
    BY <1>3, <2>1, <2>2, OverInv DEF ClearOverrides
<1>4. CASE ResetCtrl
  <2>1. ~over'.open /\ given' = {}
    BY <1>4, <1>0 DEF ResetCtrl, OverType, TakenBack
  <2>2. OverGiven'
    BY <2>1 DEF OverGiven
  <2> QED
    BY <1>4, <1>o, <2>1, <2>2, OverInv DEF ResetCtrl
<1>5. CASE PidTuneAbort
  <2>1. OneOwner' /\ OverGiven'
    BY <1>5 DEF PidTuneAbort, OneOwner, OverGiven, settings
  <2> QED
    BY <1>5, <1>0, <2>1, CommandInv DEF PidTuneAbort, settings
<1>6. CASE SetAllDuty
  <2>1. /\ given' \subseteq Heater
        /\ \/ SetHeat(TRUE, {}, {}, TRUE) /\ Heater \subseteq given'
           \/ SetHeat(TRUE, {}, {}, FALSE)
    BY <1>6, <1>0 DEF SetAllDuty, Given
  <2>2. CASE SetHeat(TRUE, {}, {}, TRUE) /\ Heater \subseteq given'
    BY <2>1, <2>2, SetHeatInv
  <2>3. CASE SetHeat(TRUE, {}, {}, FALSE)
    BY <2>1, <2>3, SetHeatInv
  <2> QED
    BY <2>1, <2>2, <2>3
<1>7. CASE SetAllTempTargets
  <2>1. SetHeat(FALSE, {}, Heater, FALSE) /\ given' \subseteq Heater
    BY <1>7 DEF SetAllTempTargets, TakenBack
  <2> QED
    BY <2>1, SetHeatInv
<1>8. ASSUME NEW S, ClearTempTargets(S) PROVE Inv'
  <2>1. over' = [over EXCEPT !.target = @ \ S] /\ given' = given
    BY <1>8 DEF ClearTempTargets
  <2>2. OverGiven' /\ given' \subseteq Heater
    BY <2>1, <1>0, <1>c DEF OverType
  <2> QED
    BY <1>8, <1>o, <2>2, OverInv DEF ClearTempTargets
<1>9. CASE ArmDebug
  BY <1>9, <1>0, <1>c, OverInv DEF ArmDebug
<1>10. CASE DisarmDebug
  <2>1. ~over'.open /\ given' = {}
    BY <1>10, <1>0 DEF DisarmDebug, OverType, TakenBack
  <2>2. OverGiven'
    BY <2>1 DEF OverGiven
  <2> QED
    BY <1>10, <1>o, <2>1, <2>2, OverInv DEF DisarmDebug
<1>11. CASE SetBenchModeOff
  <2>1. OneOwner' /\ OverGiven'
    BY <1>11 DEF SetBenchModeOff, OneOwner, OverGiven
  <2> QED
    BY <1>11, <1>0, <2>1, CommandInv DEF SetBenchModeOff
<1>12. ASSUME NEW h \in Heater, SetHeaterDuty(h) PROVE Inv'
  <2> DEFINE D == over.duty \cup {h}
             T == over.target \ {h}
  <2>1. /\ D \subseteq Heater /\ T \subseteq Heater /\ given' \subseteq Heater
        /\ \/ SetHeat(FALSE, D, T, TRUE) /\ D \subseteq given'
           \/ SetHeat(FALSE, D, T, FALSE)
    BY <1>12, <1>0 DEF SetHeaterDuty, Given
  <2> HIDE DEF D, T
  <2>2. CASE SetHeat(FALSE, D, T, TRUE) /\ D \subseteq given'
    BY <2>1, <2>2, SetHeatInv
  <2>3. CASE SetHeat(FALSE, D, T, FALSE)
    BY <2>1, <2>3, SetHeatInv
  <2> QED
    BY <2>1, <2>2, <2>3
<1>13. ASSUME NEW h \in Heater, SetTempTarget(h) PROVE Inv'
  <2>1. SetHeat(FALSE, over.duty \ {h}, over.target \cup {h}, FALSE) /\ given' \subseteq Heater
    BY <1>13 DEF SetTempTarget, TakenBack
  <2> QED
    BY <2>1, <1>0, SetHeatInv
<1>14. ASSUME NEW h \in Heater, HeaterTest(h) PROVE Inv'
  <2>1. OneOwner'
    BY <1>14 DEF HeaterTest, OneOwner
  <2>2. OverGiven' /\ given' \subseteq Heater
    BY <1>14, <1>c, <1>f DEF HeaterTest
  <2> QED
    BY <1>14, <1>o, <2>1, <2>2, CommandInv DEF HeaterTest
<1>15. ASSUME NEW h \in Heater, PidTune(h) PROVE Inv'
  <2>1. OneOwner' /\ OverGiven'
    BY <1>15 DEF PidTune, OneOwner, OverGiven, settings
  <2> QED
    BY <1>15, <1>0, <2>1, CommandInv DEF PidTune, settings
<1>16. CASE CommandInhibits
  <2>1. MotorSteps
    BY <1>16 DEF CommandInhibits, motion, BusyHolds, MotorSteps
  <2>2. TypeOK' /\ OneOwner' /\ OverGiven'
    BY <1>16, HeaterAssumption
    DEF CommandInhibits, InhibitHeatersForMotion, settings, control, motion, OneOwner,
        OverGiven
  <2> QED
    BY <1>16, <2>1, <2>2, QuietInv
    DEF CommandInhibits, InhibitHeatersForMotion, control
<1>17. ASSUME NEW m \in Motor, CommandMoves(m) PROVE Inv'
  <2>1. MotorSteps
    BY <1>17, MotionSteps DEF CommandMoves
  <2>2. TypeOK'
    <3>1. holder' \in Motor \cup {NoMotor} /\ busy' \subseteq Motor /\ fresh' \in BOOLEAN
      BY <2>1 DEF MotorSteps
    <3>2. /\ inhibited' \in BOOLEAN
          /\ UNCHANGED <<mode, over, given, bench, debug, test, tune, hot, energy, exhausted, on,
                         tick, commands>>
      BY <1>17 DEF CommandMoves, settings, control
    <3> QED
      BY <3>1, <3>2
  <2>3. OneOwner' /\ OverGiven'
    BY <1>17 DEF CommandMoves, OneOwner, OverGiven, settings
  <2> QED
    BY <1>17, <2>1, <2>2, <2>3, QuietInv DEF CommandMoves, control
<1> QED
  BY <1>1, <1>2, <1>3, <1>4, <1>5, <1>6, <1>7, <1>8, <1>9, <1>10, <1>11, <1>12,
     <1>13, <1>14, <1>15, <1>16, <1>17 DEF CommandStep

LEMMA MotionGoesOnInv ==
  ASSUME Inv, NEW m \in Motor, MotionGoesOn(m)
  PROVE  Inv'
<1>1. MotorSteps
  BY MotionSteps DEF MotionGoesOn, Inv
<1>2. TypeOK' /\ OneOwner' /\ OverGiven'
  BY <1>1
  DEF MotionGoesOn, MotorSteps, settings, control, OneOwner, OverGiven, Inv, TypeOK
<1> QED
  BY <1>1, <1>2, QuietInv DEF MotionGoesOn, control

-----------------------------------------------------------------------------
(* The steps of the tick.                                                    *)
Copies(t, p, m, f, o, d, g, b, s) ==
  [t EXCEPT !.pc = p, !.mode = m, !.fallback = f, !.off = o, !.duty = d, !.target = g,
            !.open = b, !.given = s]

LEMMA CopiedTick ==
  ASSUME NEW t \in TickType, NEW p \in {"copy", "compute"},
         NEW m \in {"STANDBY", "RUN", "SAFE"}, NEW f \in BOOLEAN, NEW o \in BOOLEAN,
         NEW d \in SUBSET Heater, NEW g \in SUBSET Heater, NEW b \in BOOLEAN,
         NEW s \in SUBSET Heater
  PROVE  Copies(t, p, m, f, o, d, g, b, s) \in TickType
BY DEF TickType, Copies

LEMMA CopyInv ==
  ASSUME Inv, Copy
  PROVE  Inv'
<1> USE DEF Inv, TypeOK
<1>1. over' \in OverType
  BY DEF Copy, OverType
<1>2. /\ hot' \subseteq Heater
      /\ energy' \in 0 .. Budget
      /\ hot' = {} \/ hot' = hot
  BY HeaterAssumption DEF Copy, control
<1>3. exhausted' \in BOOLEAN /\ (exhausted' => exhausted)
  BY DEF Copy, control
<1>4. PICK fallback \in BOOLEAN :
        tick' = [tick EXCEPT !.pc = "compute", !.mode = mode, !.fallback = fallback,
                             !.off = over.off \/ mode # "RUN",
                             !.duty = IF over.all THEN Heater ELSE over.duty,
                             !.target = over.target, !.open = over.open,
                             !.given = given]
  BY DEF Copy
<1>5. /\ tick'.pc = "compute" /\ tick'.by = tick.by /\ tick'.bench = tick.bench
      /\ tick'.open => tick'.duty \subseteq tick'.given
      /\ tick' \in TickType
  <2>1. /\ tick'.pc = "compute" /\ tick'.by = tick.by /\ tick'.bench = tick.bench
        /\ tick'.open => tick'.duty \subseteq tick'.given
    BY <1>4 DEF TickType, OverGiven
  <2> DEFINE p == "compute"
             o == over.off \/ mode # "RUN"
             d == IF over.all THEN Heater ELSE over.duty
             g == over.target
             b == over.open
  <2>2. /\ tick \in TickType /\ p \in {"copy", "compute"} /\ mode \in {"STANDBY", "RUN", "SAFE"}
        /\ o \in BOOLEAN /\ d \in SUBSET Heater /\ g \in SUBSET Heater
        /\ b \in BOOLEAN /\ given \in SUBSET Heater
    BY DEF TickType, OverType
  <2> HIDE DEF p, o, d, g, b, Inv, TypeOK
  <2>3. Copies(tick, p, mode, fallback, o, d, g, b, given) \in TickType
    BY <2>2, CopiedTick
  <2>4. tick' \in TickType
    BY <1>4, <2>3 DEF p, o, d, g, b, Copies
  <2> QED
    BY <2>1, <2>4
<1>6. TypeOK'
  BY <1>1, <1>2, <1>3, <1>5 DEF Copy, OverType, TickType, motion
<1>7. Granted(on)'
  BY <1>3, <1>5 DEF Copy, At, OnOK, Applied, Granted, motion
<1>8. tick'.by # "test" => on' \cap hot' = {}
  BY <1>2, <1>5 DEF Copy, At, OnOK, Allowed
<1>9. OnOK'
  BY <1>5, <1>7, <1>8 DEF OnOK, At
<1>10. OneOwner' /\ BusyHolds'
  BY DEF Copy, OneOwner, BusyHolds, motion
<1>11. OverGiven' /\ TickGiven'
  <2>1. over'.open = over.open /\ over'.all = over.all /\ over'.duty = over.duty
        /\ given' = given
    BY DEF Copy
  <2> QED
    BY <1>5, <2>1 DEF OverGiven, TickGiven
<1> QED
  BY <1>5, <1>6, <1>9, <1>10, <1>11 DEF RequestedOK, ScheduledOK, AtRest, At

LEMMA ComputeInv ==
  ASSUME Inv, NEW overheated \in SUBSET Heater, NEW blind \in SUBSET Heater,
         Compute(overheated, blind)
  PROVE  Inv'
<1> USE DEF Inv, TypeOK
<1> DEFINE latched == hot \cup overheated
<1>1. PICK S \in Requests(test', tune', Wanted(latched, blind)) :
        tick' = [tick EXCEPT !.pc = "schedule", !.requested = S, !.blind = blind,
                             !.by = Requester(test', tune')]
  BY DEF Compute
<1>2. /\ hot' = latched
      /\ tune' \in {NoHeater, tune} /\ (TuneEnds(latched, blind) => tune' = NoHeater)
      /\ test' \in {NoHeater, test}
      /\ UNCHANGED <<settings, energy, exhausted, on, inhibited, motion, commands>>
  BY DEF Compute
<1>3. /\ Wanted(latched, blind) \subseteq Heater
      /\ Wanted(latched, blind) \cap latched = {}
      /\ tick.off => Wanted(latched, blind) = {}
      /\ Wanted(latched, blind) \cap blind \subseteq tick.given
  <2>1. tick.open => tick.duty \subseteq tick.given
    BY DEF Compute, TickGiven
  <2> QED
    BY <2>1 DEF Wanted, Asked, Sees
<1>4. tune' # NoHeater => tune' \notin latched \cup blind /\ ~tick.off
  BY <1>2 DEF TuneEnds
<1>5. S \subseteq Heater /\ Requester(test', tune') \in {"control", "tune", "test"}
  <2>1. CASE test' # NoHeater
    BY <1>1, <1>2, <2>1 DEF Requests, Requester
  <2>2. CASE test' = NoHeater /\ tune' # NoHeater
    BY <1>1, <1>2, <2>2 DEF Requests, Requester
  <2>3. CASE test' = NoHeater /\ tune' = NoHeater
    BY <1>1, <1>3, <2>3 DEF Requests, Requester
  <2> QED
    BY <2>1, <2>2, <2>3
<1>6. Requester(test', tune') # "test" =>
        /\ S \cap latched = {}
        /\ tick.off => S = {}
        /\ S \cap blind \subseteq tick.given
  <2>1. CASE test' # NoHeater
    BY <2>1 DEF Requester
  <2>2. CASE test' = NoHeater /\ tune' # NoHeater
    BY <1>1, <1>4, <2>2 DEF Requests
  <2>3. CASE test' = NoHeater /\ tune' = NoHeater
    <3>1. S \subseteq Wanted(latched, blind)
      BY <1>1, <2>3 DEF Requests
    <3> QED
      BY <1>3, <3>1
  <2> QED
    BY <2>1, <2>2, <2>3
<1>7. /\ tick' \in TickType /\ tick'.pc = "schedule" /\ tick'.requested = S
      /\ tick'.blind = blind /\ tick'.by = Requester(test', tune')
      /\ tick'.off = tick.off /\ tick'.given = tick.given
  BY <1>1, <1>5 DEF TickType
<1> HIDE DEF latched
<1>8. TypeOK'
  <2>1. hot' \subseteq Heater
    BY <1>2 DEF latched
  <2> QED
    BY <1>2, <1>7, <2>1 DEF TickType, settings, motion
<1>9. RequestedOK'
  BY <1>2, <1>6, <1>7 DEF RequestedOK, Allowed
<1>10. OneOwner' /\ BusyHolds' /\ OverGiven'
  BY <1>2 DEF OneOwner, BusyHolds, OverGiven, settings, motion
<1> QED
  BY <1>7, <1>8, <1>9, <1>10 DEF ScheduledOK, OnOK, Applied, AtRest, TickGiven, At

(* What is granted is part of what is requested, with the lock free or as    *)
(* the open loop of the bench, and nothing with the budget spent.            *)
LEMMA ScheduleGrants ==
  ASSUME Inv, Schedule
  PROVE  \E S \in SUBSET tick.requested :
           /\ Grants(S)
           /\ energy' \in 0 .. Budget /\ exhausted' \in BOOLEAN
           /\ exhausted' /\ ~OpenLoop => S = {}
           /\ S # {} /\ holder # NoMotor => OpenLoop
<1> USE DEF Inv, TypeOK
<1>1. CASE ScheduleOpenLoop
  BY <1>1 DEF ScheduleOpenLoop
<1>2. CASE ScheduleNothing
  BY <1>2 DEF ScheduleNothing
<1>3. CASE ScheduleHeat
  <2>1. PICK S \in Ranked(tick.requested) : Spend(S)
    BY <1>3 DEF ScheduleHeat
  <2>2. S \subseteq tick.requested /\ S \in SUBSET Heater /\ holder = NoMotor
    BY <1>3, <2>1 DEF Ranked, ScheduleHeat, Free
  <2>3. energy' \in 0 .. Budget
    BY <2>1, <2>2, SpentInBudget DEF Spend
  <2>4. exhausted' \in BOOLEAN /\ Grants(IF exhausted' THEN {} ELSE S)
    BY <2>1 DEF Spend
  <2>5. CASE exhausted'
    BY <2>2, <2>3, <2>4, <2>5
  <2>6. CASE ~exhausted'
    BY <2>2, <2>3, <2>4, <2>6
  <2> QED
    BY <2>5, <2>6
<1> QED
  BY <1>1, <1>2, <1>3 DEF Schedule

LEMMA ScheduleInv ==
  ASSUME Inv, Schedule
  PROVE  Inv'
<1> USE DEF Inv, TypeOK
<1>1. PICK S \in SUBSET tick.requested :
        /\ Grants(S)
        /\ energy' \in 0 .. Budget /\ exhausted' \in BOOLEAN
        /\ exhausted' /\ ~OpenLoop => S = {}
        /\ S # {} /\ holder # NoMotor => OpenLoop
  BY ScheduleGrants
<1>2. OpenLoop \in BOOLEAN /\ S \subseteq Heater
  BY <1>1 DEF OpenLoop, DebugArmed
<1>3. /\ tick' = [tick EXCEPT !.pc = "apply", !.bench = OpenLoop, !.scheduled = S]
      /\ tune' \in {NoHeater, tune}
      /\ fresh' = FALSE
  BY <1>1 DEF Grants
<1>4. /\ tick' \in TickType /\ tick'.pc = "apply" /\ tick'.bench = OpenLoop
      /\ tick'.scheduled = S /\ tick'.by = tick.by /\ tick'.off = tick.off
      /\ tick'.given = tick.given /\ tick'.blind = tick.blind
  BY <1>2, <1>3 DEF TickType
<1>5. UNCHANGED <<settings, test, hot, on, inhibited, holder, busy, commands>> /\ At("schedule")
  BY DEF Schedule
<1>6. TypeOK'
  <2>1. energy' \in 0 .. Budget /\ exhausted' \in BOOLEAN /\ fresh' \in BOOLEAN
    BY <1>1, <1>3
  <2>2. tune' \in Heater \cup {NoHeater} /\ tick' \in TickType
    BY <1>3, <1>4
  <2> QED
    BY <1>5, <2>1, <2>2 DEF TickType, settings
<1>7. Allowed(S)'
  BY <1>4, <1>5 DEF RequestedOK, Allowed
<1>8. Granted(S)'
  BY <1>1, <1>4, <1>5 DEF Granted
<1>9. OneOwner' /\ BusyHolds' /\ OverGiven'
  BY <1>3, <1>5 DEF OneOwner, BusyHolds, OverGiven, settings
<1>10. ScheduledOK'
  <2>1. Allowed(tick.scheduled)' /\ Granted(tick.scheduled)'
    BY <1>4, <1>7, <1>8
  <2> QED
    BY <2>1 DEF ScheduledOK
<1>11. RequestedOK' /\ OnOK' /\ AtRest' /\ TickGiven'
  BY <1>4 DEF RequestedOK, OnOK, Applied, AtRest, TickGiven, At
<1> HIDE DEF TypeOK
<1> QED
  BY <1>6, <1>9, <1>10, <1>11

LEMMA ApplyInv ==
  ASSUME Inv, Apply
  PROVE  Inv'
<1> USE DEF Inv, TypeOK
<1>1. /\ tick' \in TickType /\ tick'.pc = "bend" /\ tick'.bench = tick.bench
      /\ tick'.by = tick.by /\ tick'.off = tick.off
      /\ tick'.given = tick.given /\ tick'.blind = tick.blind
  <2>1. tick \in TickType
    BY DEF TickType
  <2> HIDE DEF Inv, TypeOK
  <2>2. tick' = [Idle EXCEPT !.pc = "bend", !.fallback = tick.fallback, !.off = tick.off,
                             !.given = tick.given, !.blind = tick.blind, !.by = tick.by,
                             !.bench = tick.bench]
    BY DEF Apply
  <2>3. Idle \in TickType
    BY DEF TickType, Idle
  <2>4. /\ tick.fallback \in BOOLEAN /\ tick.off \in BOOLEAN /\ tick.bench \in BOOLEAN
        /\ tick.given \in SUBSET Heater /\ tick.blind \in SUBSET Heater
        /\ tick.by \in {"control", "tune", "test"}
    BY <2>1 DEF TickType
  <2> HIDE DEF Idle
  <2> QED
    BY <2>2, <2>3, <2>4 DEF TickType
<1>2. on' = tick.scheduled /\ At("apply")
      /\ UNCHANGED <<settings, test, tune, control, inhibited, motion, commands>>
  BY DEF Apply
<1>3. TypeOK'
  BY <1>1, <1>2 DEF TickType, settings, control, motion
<1>4. Allowed(on)'
  BY <1>1, <1>2 DEF ScheduledOK, Allowed, control
<1>5. Granted(on)'
  BY <1>1, <1>2 DEF ScheduledOK, Granted, control, motion
<1>6. OneOwner' /\ BusyHolds' /\ OverGiven'
  BY <1>2 DEF OneOwner, BusyHolds, OverGiven, settings, motion
<1> QED
  BY <1>1, <1>3, <1>4, <1>5, <1>6
  DEF RequestedOK, ScheduledOK, OnOK, AtRest, TickGiven, At

(* The end of the tick, with or without a motion of its own.                 *)
LEMMA NextTickInv ==
  ASSUME Inv, tick.pc \in {"bend", "move"}, NextTick, MotorSteps,
         UNCHANGED <<settings, test, tune, control, on, inhibited, commands>>
  PROVE  Inv'
<1> USE DEF Inv, TypeOK
<1>1. /\ tick' \in TickType /\ tick'.pc = "copy" /\ tick'.bench = tick.bench
      /\ tick'.by = tick.by /\ tick'.off = FALSE
      /\ tick'.blind = {}
  BY DEF NextTick, TickType, Idle
<1>2. TypeOK'
  BY <1>1 DEF TickType, settings, control, MotorSteps
<1>3. Allowed(on)'
  BY <1>1 DEF OnOK, Allowed, control
<1>4. Granted(on)'
  BY <1>1 DEF OnOK, Applied, Granted, control, MotorSteps
<1>5. OneOwner' /\ BusyHolds' /\ OverGiven'
  BY DEF OneOwner, BusyHolds, OverGiven, settings, MotorSteps
<1> QED
  BY <1>1, <1>2, <1>3, <1>4, <1>5
  DEF RequestedOK, ScheduledOK, OnOK, AtRest, TickGiven, At

LEMMA LandedSafingInv ==
  ASSUME Inv, LandedSafing
  PROVE  Inv'
<1> USE DEF Inv, TypeOK
<1>1. over' \in OverType /\ ~over'.open
  <2>1. over.reset \in BOOLEAN
    OBVIOUS
  <2> QED
    BY <2>1, ClearedType DEF LandedSafing, TurnOff
<1>2. MotorSteps
  BY DEF LandedSafing, BusyHolds, MotorSteps
<1>3. TypeOK'
  BY <1>1 DEF LandedSafing, TurnOff, TakenBack, OverType, control
<1>4. OneOwner' /\ OverGiven'
  BY <1>1 DEF LandedSafing, TurnOff, OneOwner, OverGiven
<1> QED
  BY <1>2, <1>3, <1>4, QuietInv DEF LandedSafing, control

LEMMA TickInhibitsInv ==
  ASSUME Inv, TickInhibits
  PROVE  Inv'
<1> USE DEF Inv, TypeOK
<1>1. tick' \in TickType /\ tick'.pc = "move"
  BY DEF TickInhibits, TickType
<1>2. on' = {} /\ UNCHANGED <<settings, test, tune, control, inhibited, motion, commands>>
  BY DEF TickInhibits, InhibitHeatersForMotion
<1>3. TypeOK'
  BY <1>1, <1>2 DEF TickType, settings, control, motion
<1>4. OneOwner' /\ BusyHolds' /\ OverGiven'
  BY <1>2 DEF OneOwner, BusyHolds, OverGiven, settings, motion
<1> QED
  BY <1>1, <1>2, <1>3, <1>4
  DEF RequestedOK, ScheduledOK, OnOK, Allowed, Granted, AtRest, TickGiven, At

-----------------------------------------------------------------------------
LEMMA InitInv == Init => Inv
<1> SUFFICES ASSUME Init PROVE Inv
  OBVIOUS
<1>1. over \in OverType /\ tick \in TickType
  BY ClearedType DEF Init, TickType, Idle
<1>2. energy \in 0 .. Budget /\ commands \in 0 .. MaxCommands
  BY HeaterAssumption DEF Init
<1>3. TypeOK
  BY <1>1, <1>2, HeaterAssumption
  DEF Init, TypeOK, OverType, TickType, Interlock!Init
<1>4. /\ tick.pc = "copy" /\ ~tick.off /\ tick.blind = {} /\ on = {}
      /\ ~over.open
  BY DEF Init, Idle, Cleared
<1> QED
  BY <1>3, <1>4
  DEF Inv, Init, OneOwner, RequestedOK, ScheduledOK, OnOK, Allowed, Granted, AtRest,
      BusyHolds, OverGiven, TickGiven, At, Interlock!Init

LEMMA NextInv == Inv /\ [Next]_vars => Inv'
<1> SUFFICES ASSUME Inv, [Next]_vars PROVE Inv'
  OBVIOUS
<1>1. CASE CommandStep
  BY <1>1, CommandStepInv
<1>2. CASE Copy
  BY <1>2, CopyInv
<1>3. ASSUME NEW overheated \in SUBSET Heater, NEW blind \in SUBSET Heater,
             Compute(overheated, blind)
      PROVE  Inv'
  BY <1>3, ComputeInv
<1>4. CASE Schedule
  BY <1>4, ScheduleInv
<1>5. CASE Apply
  BY <1>5, ApplyInv
<1>6. CASE EndTick
  <2>1. MotorSteps
    BY <1>6 DEF EndTick, motion, Inv, TypeOK, BusyHolds, MotorSteps
  <2> QED
    BY <1>6, <2>1, NextTickInv DEF EndTick, At
<1>7. CASE LandedSafing
  BY <1>7, LandedSafingInv
<1>8. CASE TickInhibits
  BY <1>8, TickInhibitsInv
<1>9. ASSUME NEW m \in Motor, TickMoves(m) PROVE Inv'
  <2>1. MotorSteps
    BY <1>9, MotionSteps DEF TickMoves, Inv
  <2> QED
    BY <1>9, <2>1, NextTickInv DEF TickMoves, At
<1>10. ASSUME NEW m \in Motor, MotionGoesOn(m) PROVE Inv'
  BY <1>10, MotionGoesOnInv
<1>11. CASE UNCHANGED vars
  BY <1>11
  DEF vars, settings, control, motion, Inv, TypeOK, OneOwner, RequestedOK, ScheduledOK,
      OnOK, Applied, Allowed, Granted, AtRest, BusyHolds, OverGiven, TickGiven, At
<1> QED
  BY <1>1, <1>2, <1>3, <1>4, <1>5, <1>6, <1>7, <1>8, <1>9, <1>10, <1>11
  DEF Next, TickStep

LEMMA Invariant == Spec => []Inv
  BY InitInv, NextInv, PTL DEF Spec

(* Every reachable state is well typed, and a tune and a test never share    *)
(* the heaters (HeaterTest and PidTune of the command thread, Compute of the *)
(* control loop).                                                            *)
THEOREM OwnersSafe == Spec => []OwnersSound
<1>1. Inv => OwnersSound
  BY DEF Inv, OwnersSound
<1> QED
  BY <1>1, Invariant, PTL

(* The overtemperature latch binds every override, the tune and the fallback *)
(* (thermal_controller.cpp), between any two steps of the two threads.       *)
THEOREM LatchSafe == Spec => []LatchHolds
<1>1. Inv => LatchHolds
  BY DEF Inv, OnOK, Allowed, LatchHolds, Applied, At
<1> QED
  BY <1>1, Invariant, PTL

(* A spent energy budget leaves nothing on (heater_scheduler.cpp).           *)
THEOREM BudgetSafe == Spec => []BudgetHolds
<1>1. Inv => BudgetHolds
  BY DEF Inv, OnOK, Granted, BudgetHolds
<1> QED
  BY <1>1, Invariant, PTL

(* A heater overlaps a motion only until the next schedule, whoever started  *)
(* the motion (motion_lock.cpp, heater_scheduler.cpp).                       *)
THEOREM OverlapSafe == Spec => []OneTickLate
<1>1. Inv => OneTickLate
  BY DEF Inv, OnOK, Granted, BusyHolds, OneTickLate
<1> QED
  BY <1>1, Invariant, PTL

(* A tick out of RUN or with the heaters off heats nothing, and a heater     *)
(* without a valid reading is on by a duty alone that stood when one was     *)
(* last given with debug armed, and was not taken back since (the commands   *)
(* and Run of system_controller.cpp, thermal_controller.cpp).                *)
THEOREM DutiesSafe == Spec => []DutiesHold
<1>1. Inv => DutiesHold
  BY DEF Inv, OnOK, Allowed, AtRest, DutiesHold, Applied, At
<1> QED
  BY <1>1, Invariant, PTL
=============================================================================
