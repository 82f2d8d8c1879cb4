------------------------- MODULE BendSequencesProofs -------------------------
(***************************************************************************)
(* BendSequences for any motors, lists of bends and number of commands:    *)
(* what a sequence moves is stopped with it and goes where it says, and in *)
(* SAFE there is none.                                                     *)
(***************************************************************************)
EXTENDS BendSequences, TLAPS

ModeType == mode \in {"STANDBY", "RUN", "SAFE"} /\ fallback \in BOOLEAN
SeqType == seq \in [Motor -> Runtime]
MotorsType ==
  /\ motor \in [Motor -> Channel]
  /\ holder \in Motor \cup {NoMotor} /\ busy \subseteq Motor /\ driven \subseteq busy
TickType ==
  tick \in [pc : {"gate", "quiet", "plan", "landed", "off", "lock", "sequence", "start",
                  "fault"},
            motor : Motor \cup {NoMotor}, quiet : SUBSET Motor]
CmdType ==
  cmd \in [op : {"none", "clear", "stop", "off", "disable", "zero", "zeroed", "move", "run",
                 "resume"},
           motors : SUBSET Motor, name : Name \cup {NoName}]
CountType == commands \in 0 .. MaxCommands

(* A running sequence is at one of its steps.                                *)
RunOK ==
  \A m \in Motor : seq[m].running =>
    /\ seq[m].active_name \in Name
    /\ Steps(seq[m]) # NoDefinition
    /\ seq[m].step_index \in 1 .. Len(Steps(seq[m]))

(* The control loop looks at a motor there is, and is about to start a step  *)
(* only of a sequence that wants it.                                         *)
TickOK ==
  /\ tick.pc \in {"sequence", "start"} => tick.motor \in Motor
  /\ tick.pc = "start" => Active(tick.motor) /\ ~seq[tick.motor].step_queued

(* The command under way: what it looked at, what it is yet to stop.         *)
CmdOK ==
  /\ cmd.op \in {"run", "resume", "move"} => mode = "RUN"
  /\ cmd.op = "run" => cmd.name \in Name
  /\ mode = "SAFE" /\ cmd.op # "clear" => \A m \in Motor : ~seq[m].running

Stopping(m) == cmd.op \in {"stop", "off", "disable"} /\ m \in cmd.motors

Inv ==
  /\ ModeType /\ SeqType /\ MotorsType /\ TickType /\ CmdType /\ CountType
  /\ RunOK /\ TickOK /\ CmdOK
  /\ MotionHasSequence /\ MovesToItsStep

(* What every step does that gives no move to a sequence.                    *)
MotorsKept ==
  /\ MotorsType'
  /\ driven' \subseteq driven
  /\ \A m \in driven' : motor'[m].target = motor[m].target

-----------------------------------------------------------------------------
LEMMA WhereType ==
  ASSUME MotorsType, NEW m \in Motor
  PROVE  Where(m) \subseteq Position
BY DEF MotorsType, Channel, Where

LEMMA StopsAllKeeps ==
  ASSUME MotorsType, NEW S \in SUBSET Motor, StopsAll(S)
  PROVE  MotorsKept /\ driven' = driven \ S
<1>1. PICK p \in [S -> Position] :
        /\ motor' = [m \in Motor |->
             IF m \in S THEN [motor[m] EXCEPT !.position = p[m], !.target = p[m]] ELSE motor[m]]
  BY DEF StopsAll
<1>2. motor' \in [Motor -> Channel]
  BY <1>1 DEF MotorsType, Channel
<1>3. \A m \in Motor \ S : motor'[m] = motor[m]
  BY <1>1
<1> QED
  BY <1>2, <1>3 DEF MotorsType, MotorsKept, StopsAll, Frees

LEMMA StopsKeeps ==
  ASSUME MotorsType, NEW m \in Motor, Stops(m)
  PROVE  MotorsKept /\ driven' = driven \ {m}
BY StopsAllKeeps DEF Stops

(* Whatever else changes one motor and lets it go.                           *)
LEMMA LetGoKeeps ==
  ASSUME MotorsType, NEW m \in Motor, NEW r \in Channel,
         motor' = [motor EXCEPT ![m] = r], Frees({m})
  PROVE  MotorsKept /\ driven' = driven \ {m}
BY DEF MotorsType, MotorsKept, Frees

LEMMA DisablesKeeps ==
  ASSUME MotorsType, NEW m \in Motor, Disables(m)
  PROVE  MotorsKept /\ driven' = driven \ {m}
<1>1. PICK p \in Where(m), lost \in BOOLEAN :
        motor' = [motor EXCEPT ![m] = [@ EXCEPT !.position = p, !.target = p,
                                                !.enabled = FALSE, !.uncertain = lost]]
  BY DEF Disables
<1>2. [motor[m] EXCEPT !.position = p, !.target = p, !.enabled = FALSE, !.uncertain = lost]
        \in Channel
  BY WhereType DEF MotorsType, Channel
<1> QED
  BY <1>1, <1>2, LetGoKeeps DEF Disables, MotorsType

LEMMA MovesChange ==
  ASSUME MotorsType, NEW m \in Motor, NEW target \in Position, NEW hold \in BOOLEAN,
         Moves(m, target, hold)
  PROVE  /\ motor' \in [Motor -> Channel]
         /\ holder' \in Motor \cup {NoMotor} /\ busy' \subseteq Motor
         /\ busy \ {m} \subseteq busy'
         /\ motor'[m].target = target
         /\ \A k \in Motor \ {m} : motor'[k] = motor[k]
<1>1. PICK p \in Where(m) :
        motor' = [motor EXCEPT ![m] = [@ EXCEPT !.position = p, !.target = target]]
  BY DEF Moves
<1>2. [motor[m] EXCEPT !.position = p, !.target = target] \in Channel
  BY WhereType DEF MotorsType, Channel
<1>3. /\ motor' \in [Motor -> Channel]
      /\ motor'[m].target = target
      /\ \A k \in Motor \ {m} : motor'[k] = motor[k]
  BY <1>1, <1>2 DEF MotorsType, Channel
<1> QED
  BY <1>3 DEF MotorsType, Moves

LEMMA MovesKeeps ==
  ASSUME MotorsType, NEW m \in Motor, NEW target \in Position, NEW hold \in BOOLEAN,
         Moves(m, target, hold), driven' = driven \ {m}
  PROVE  MotorsKept
BY MovesChange DEF MotorsKept, MotorsType

LEMMA SameMotorsKept ==
  ASSUME MotorsType, UNCHANGED motors
  PROVE  MotorsKept /\ driven' = driven
BY DEF MotorsType, MotorsKept, motors

LEMMA CountedType ==
  ASSUME CountType, Counted \/ UNCHANGED commands
  PROVE  CountType'
BY SequenceAssumption DEF CountType, Counted

-----------------------------------------------------------------------------
(* A step that changes no sequence and gives no move to one.                 *)
LEMMA KeepInv ==
  ASSUME Inv, MotorsKept, UNCHANGED <<seq, mode>>,
         fallback' \in BOOLEAN, TickType', CmdType', CountType',
         tick'.pc \in {"sequence", "start"} => UNCHANGED tick \/ tick'.motor \in Motor,
         tick'.pc = "start" => UNCHANGED tick,
         CmdOK',
         \A m \in driven' : Stopping(m) => Stopping(m)'
  PROVE  Inv'
<1>1. /\ ModeType' /\ SeqType' /\ RunOK'
  BY DEF Inv, ModeType, SeqType, RunOK, Steps
<1>2. TickOK'
  BY DEF Inv, TickOK, Active
<1>3. MotionHasSequence'
  BY DEF Inv, MotionHasSequence, MotorsKept, Active, Stopping
<1>4. MovesToItsStep'
  BY DEF Inv, MovesToItsStep, MotorsKept, Active, Steps, MotorsType
<1> QED
  BY <1>1, <1>2, <1>3, <1>4 DEF Inv, MotorsKept

(* One that changes sequences, which move no motor then, and of which the    *)
(* control loop is not about to start one.                                   *)
LEMMA ChangeInv ==
  ASSUME Inv, MotorsKept, UNCHANGED <<mode, fallback>>, SeqType', RunOK',
         TickType', TickOK', CmdType', CountType', CmdOK',
         \A m \in driven' : seq'[m] = seq[m] \/ ~Active(m)',
         \A m \in driven' : Active(m) => Active(m)' \/ Stopping(m)',
         \A m \in driven' : Stopping(m) => Stopping(m)'
  PROVE  Inv'
<1>1. ModeType'
  BY DEF Inv, ModeType
<1>2. MotionHasSequence'
  BY DEF Inv, MotionHasSequence, MotorsKept, Stopping
<1>3. MovesToItsStep'
  <2> SUFFICES ASSUME NEW m \in driven', Active(m)'
               PROVE  /\ seq'[m].step_queued
                      /\ Steps(seq'[m]) # NoDefinition
                      /\ motor'[m].target = Steps(seq'[m])[seq'[m].step_index].target
    BY DEF MovesToItsStep, Steps
  <2>1. seq'[m] = seq[m] /\ Active(m)
    BY DEF Active
  <2> QED
    BY <2>1 DEF Inv, MovesToItsStep, MotorsKept, Steps
<1> QED
  BY <1>1, <1>2, <1>3 DEF Inv, MotorsKept

LEMMA CmdKept ==
  ASSUME Inv, UNCHANGED <<mode, seq, cmd>>
  PROVE  CmdType' /\ CmdOK' /\ \A m \in Motor : Stopping(m) => Stopping(m)'
BY DEF Inv, CmdType, CmdOK, Stopping

-----------------------------------------------------------------------------
(* The motors' own threads.                                                  *)
LEMMA MotorStep ==
  ASSUME Inv, NEW m \in Motor, Arrives(m) \/ Ends(m) \/ Aborts(m)
  PROVE  Inv'
<1>1. MotorsType /\ driven \subseteq Motor
  BY DEF Inv, MotorsType
<1>2. Still
  BY DEF Arrives, Ends, Aborts
<1>3. MotorsKept
  <2>1. CASE Arrives(m)
    <3>1. PICK lost \in {motor[m].uncertain, TRUE} :
            motor' = [motor EXCEPT ![m] = [@ EXCEPT !.position = motor[m].target,
                                                    !.uncertain = lost]]
      BY <2>1 DEF Arrives
    <3>2. [motor[m] EXCEPT !.position = motor[m].target, !.uncertain = lost] \in Channel
      BY <1>1 DEF MotorsType, Channel
    <3>3. /\ motor' \in [Motor -> Channel]
          /\ \A k \in Motor : motor'[k].target = motor[k].target
      BY <1>1, <3>1, <3>2 DEF MotorsType, Channel
    <3> QED
      BY <1>1, <2>1, <3>3 DEF MotorsType, MotorsKept, Arrives
  <2>2. CASE Ends(m)
    BY <1>1, <2>2 DEF MotorsType, MotorsKept, Ends, Frees
  <2>3. CASE Aborts(m)
    <3>1. PICK p \in Where(m) \cup {motor[m].target}, on \in {motor[m].enabled, FALSE} :
            motor' = [motor EXCEPT ![m] = [@ EXCEPT !.position = p, !.target = p,
                                                    !.enabled = on, !.uncertain = TRUE]]
      BY <2>3 DEF Aborts
    <3>2. [motor[m] EXCEPT !.position = p, !.target = p, !.enabled = on, !.uncertain = TRUE]
            \in Channel
      BY <1>1, WhereType DEF MotorsType, Channel
    <3> QED
      BY <1>1, <2>3, <3>1, <3>2, LetGoKeeps DEF Aborts, MotorsType
  <2> QED
    BY <2>1, <2>2, <2>3
<1>4. TickType' /\ CountType'
  BY <1>2 DEF Inv, TickType, CountType, Still
<1>5. fallback' \in BOOLEAN
  BY <1>2 DEF Inv, ModeType, Still
<1> QED
  BY <1>1, <1>2, <1>3, <1>4, <1>5, CmdKept, KeepInv DEF Still, MotorsKept

-----------------------------------------------------------------------------
(* The control loop.                                                         *)
LEMMA ZeroIsMotor == 0 \in Motor
BY SequenceAssumption DEF Motor

LEMMA TickQuiet ==
  ASSUME TickType, NEW p \in {"quiet", "plan"}, NEW q \in SUBSET Motor,
         tick' = [tick EXCEPT !.pc = p, !.quiet = q]
  PROVE  TickType'
BY DEF TickType

LEMMA GateStep ==
  ASSUME Inv, Gate \/ StopNonSequenceMotionOnFallback \/ LockSequences
  PROVE  Inv'
<1>1. MotorsType /\ TickType /\ ModeType /\ driven \subseteq Motor
  BY DEF Inv, MotorsType
<1>2. UNCHANGED <<mode, seq, cmd, commands>>
  BY DEF Gate, StopNonSequenceMotionOnFallback, LockSequences
<1>3. MotorsKept
  <2>1. CASE StopNonSequenceMotionOnFallback
    <3>1. CASE UNCHANGED motors
      BY <1>1, <3>1, SameMotorsKept
    <3>2. CASE \E m \in First(tick.quiet) : Stops(m)
      <4>1. First(tick.quiet) \subseteq Motor
        BY <1>1 DEF First, TickType
      <4> QED
        BY <1>1, <3>2, <4>1, StopsKeeps
    <3> QED
      BY <2>1, <3>1, <3>2 DEF StopNonSequenceMotionOnFallback
  <2> QED
    BY <1>1, <2>1, SameMotorsKept DEF Gate, LockSequences
<1>4. TickType' /\ fallback' \in BOOLEAN
  <2>1. CASE Gate
    <3>1. PICK active \in BOOLEAN :
            /\ fallback' = active
            /\ tick' = [tick EXCEPT !.pc = IF active /\ ~fallback THEN "quiet" ELSE "plan",
                                    !.quiet = IF active /\ ~fallback
                                              THEN {m \in Motor : ~seq[m].running} ELSE {}]
      BY <2>1 DEF Gate
    <3> DEFINE p == IF active /\ ~fallback THEN "quiet" ELSE "plan"
               q == IF active /\ ~fallback THEN {m \in Motor : ~seq[m].running} ELSE {}
    <3>2. p \in {"quiet", "plan"} /\ q \in SUBSET Motor
      OBVIOUS
    <3>3. tick' = [tick EXCEPT !.pc = p, !.quiet = q]
      BY <3>1
    <3> HIDE DEF p, q
    <3>4. TickType'
      BY <1>1, <3>2, <3>3, TickQuiet
    <3> QED
      BY <3>1, <3>4
  <2>2. CASE StopNonSequenceMotionOnFallback
    BY <1>1, <2>2 DEF StopNonSequenceMotionOnFallback, TickType, ModeType, Goto
  <2>3. CASE LockSequences
    <3>1. tick' = [tick EXCEPT !.pc = "sequence", !.motor = 0] /\ UNCHANGED fallback
      BY <2>3 DEF LockSequences
    <3> QED
      BY <1>1, <3>1, ZeroIsMotor DEF TickType, ModeType
  <2> QED
    BY <2>1, <2>2, <2>3
<1>5. /\ tick'.pc \in {"sequence", "start"} => tick'.motor \in Motor
      /\ tick'.pc # "start"
  BY <1>1, ZeroIsMotor
     DEF Gate, StopNonSequenceMotionOnFallback, LockSequences, TickType, Goto, At
<1>6. CountType'
  BY <1>2, CountedType DEF Inv
<1> QED
  BY <1>1, <1>2, <1>3, <1>4, <1>5, <1>6, CmdKept, KeepInv DEF MotorsKept

LEMMA PlanStep ==
  ASSUME Inv, TickFallbackPlan \/ ApplyLandedSafing
  PROVE  Inv'
<1>1. MotorsType /\ TickType /\ ModeType /\ CountType /\ driven \subseteq Motor
  BY DEF Inv, MotorsType
<1>2. UNCHANGED <<mode, fallback, seq, cmd>>
  BY DEF TickFallbackPlan, ApplyLandedSafing
<1>3. MotorsKept
  <2>1. CASE TickFallbackPlan
    <3>1. CASE UNCHANGED motors
      BY <1>1, <3>1, SameMotorsKept
    <3>2. CASE ~UNCHANGED motors
      <4>1. PICK m \in Motor, target \in Position, hold \in BOOLEAN :
              Moves(m, target, hold) /\ driven' = driven \ {m}
        BY <2>1, <3>2 DEF TickFallbackPlan
      <4> QED
        BY <1>1, <4>1, MovesKeeps
    <3> QED
      BY <3>1, <3>2
  <2>2. CASE ApplyLandedSafing
    <3>1. PICK m \in Motor : Stops(m) \/ Disables(m)
      BY <1>1, <2>2 DEF ApplyLandedSafing, First, TickType
    <3> QED
      BY <1>1, <3>1, StopsKeeps, DisablesKeeps
  <2> QED
    BY <2>1, <2>2
<1>4. TickType' /\ tick'.pc \notin {"sequence", "start"}
  BY <1>1 DEF TickFallbackPlan, ApplyLandedSafing, TickType, Goto, At
<1>5. CountType'
  BY <1>1, CountedType DEF TickFallbackPlan, ApplyLandedSafing
<1> QED
  BY <1>1, <1>2, <1>3, <1>4, <1>5, CmdKept, KeepInv DEF MotorsKept, ModeType

LEMMA NextMotorOK ==
  ASSUME TickType, tick.motor \in Motor, NextMotor
  PROVE  /\ TickType' /\ tick'.pc # "start"
         /\ tick'.pc = "sequence" => tick'.motor \in Motor
<1>1. CASE tick.motor = MotorCount - 1
  BY <1>1 DEF NextMotor, TickType
<1>2. CASE tick.motor # MotorCount - 1
  <2>1. tick.motor + 1 \in Motor
    BY <1>2, SequenceAssumption DEF Motor
  <2>2. tick' = [tick EXCEPT !.pc = "sequence", !.motor = tick.motor + 1]
    BY <1>2 DEF NextMotor
  <2> QED
    BY <2>1, <2>2 DEF TickType
<1> QED
  BY <1>1, <1>2

(* A motor that a sequence moves has that sequence waiting for it.           *)
LEMMA DrivenWaits ==
  ASSUME Inv, NEW m \in driven
  PROVE  m \in Motor /\ Waits(m)
BY DEF Inv, MotorsType, MovesToItsStep, Waits

LEMMA FaultedParts ==
  ASSUME NEW r \in Runtime
  PROVE  /\ Faulted(r).running = r.running /\ Faulted(r).active_name = r.active_name
         /\ Faulted(r).step_index = r.step_index /\ Faulted(r).definitions = r.definitions
BY DEF Faulted, Runtime

LEMMA RuntimeParts ==
  ASSUME NEW r \in Runtime
  PROVE  /\ [r EXCEPT !.running = FALSE, !.paused = TRUE] \in Runtime
         /\ Faulted(r) \in Runtime /\ Cleared(r) \in Runtime /\ Over(r) \in Runtime
         /\ [r EXCEPT !.step_index = r.step_index + 1, !.step_queued = FALSE] \in Runtime
         /\ \A b \in BOOLEAN : /\ [r EXCEPT !.step_queued = b] \in Runtime
                              /\ [r EXCEPT !.paused = b] \in Runtime
<1>1. [r EXCEPT !.running = FALSE, !.paused = TRUE] \in Runtime
  BY DEF Runtime
<1>2. Faulted(r) \in Runtime
  BY DEF Runtime, Faulted
<1>3. Cleared(r) \in Runtime
  BY DEF Runtime, Cleared
<1>4. Over(r) \in Runtime
  BY DEF Runtime, Over
<1>5. [r EXCEPT !.step_index = r.step_index + 1, !.step_queued = FALSE] \in Runtime
  <2>1. r.step_index + 1 \in Nat
    BY DEF Runtime
  <2>2. ASSUME NEW n \in Nat
        PROVE  [r EXCEPT !.step_index = n, !.step_queued = FALSE] \in Runtime
    BY DEF Runtime
  <2> QED
    BY <2>1, <2>2
<1>6. ASSUME NEW b \in BOOLEAN
      PROVE  [r EXCEPT !.step_queued = b] \in Runtime /\ [r EXCEPT !.paused = b] \in Runtime
  BY DEF Runtime
<1> QED
  BY <1>1, <1>2, <1>3, <1>4, <1>5, <1>6

(* One sequence changes, of a motor that none moves.                         *)
LEMMA BecomesInv ==
  ASSUME Inv, NEW m \in Motor, NEW r \in Runtime, seq' = [seq EXCEPT ![m] = r],
         m \notin driven, UNCHANGED <<mode, fallback, motors, cmd, commands>>,
         r.running => /\ seq[m].running
                      /\ r.active_name \in Name
                      /\ Steps(r) # NoDefinition
                      /\ r.step_index \in 1 .. Len(Steps(r)),
         TickType', TickOK'
  PROVE  Inv'
<1>1. SeqType /\ RunOK /\ MotorsType /\ CountType /\ CmdType /\ CmdOK
  BY DEF Inv
<1>2. SeqType' /\ seq'[m] = r /\ \A k \in Motor \ {m} : seq'[k] = seq[k]
  BY <1>1 DEF SeqType
<1>3. RunOK'
  BY <1>1, <1>2 DEF RunOK, Steps
<1>4. CmdType' /\ CmdOK' /\ CountType'
  BY <1>1, <1>2 DEF CmdType, CmdOK, CountType
<1>5. MotorsKept /\ driven' = driven /\ driven \subseteq Motor
  BY <1>1, SameMotorsKept DEF MotorsType
<1>6. \A k \in driven' : seq'[k] = seq[k] /\ (Stopping(k) => Stopping(k)')
  BY <1>2, <1>5 DEF Stopping
<1> QED
  BY <1>2, <1>3, <1>4, <1>5, <1>6, ChangeInv DEF Active

LEMMA LookStep ==
  ASSUME Inv, LookAtSequence
  PROVE  Inv'
<1> DEFINE m == tick.motor
           r == seq[m]
           next == [r EXCEPT !.step_index = r.step_index + 1, !.step_queued = FALSE]
<1>1. /\ m \in Motor /\ r \in Runtime
      /\ SeqType /\ TickType /\ RunOK /\ MotorsType /\ CountType
  BY DEF Inv, TickOK, LookAtSequence, At, SeqType
<1>2. UNCHANGED <<mode, fallback, motors, cmd, commands>>
  BY DEF LookAtSequence
<1>3. CASE UNCHANGED seq
  <2>1. /\ TickType'
        /\ tick'.pc = "start" => tick'.motor = m /\ Active(m) /\ ~r.step_queued
        /\ tick'.pc = "sequence" => tick'.motor \in Motor
    <3>1. CASE NextMotor
      BY <1>1, <3>1, NextMotorOK
    <3>2. CASE ~NextMotor
      <4>1. \/ ~r.step_queued /\ Goto("start") /\ ~Waits(m)
            \/ seq' = [seq EXCEPT ![m] = next] /\ Goto("start") /\ ~Waits(m)
        BY <3>2 DEF LookAtSequence
      <4>2. ~r.step_queued
        <5>1. next.step_queued = FALSE
          BY <1>1 DEF Runtime
        <5> QED
          BY <1>1, <1>3, <4>1, <5>1 DEF SeqType
      <4> QED
        BY <1>1, <4>1, <4>2 DEF Goto, TickType, Waits
    <3> QED
      BY <3>1, <3>2
  <2>2. TickOK'
    BY <1>1, <1>3, <2>1 DEF TickOK, Active
  <2>3. CmdType' /\ CmdOK' /\ \A k \in Motor : Stopping(k) => Stopping(k)'
    BY <1>2, <1>3, CmdKept
  <2>4. MotorsKept /\ driven' = driven /\ driven \subseteq Motor
    BY <1>1, <1>2, SameMotorsKept DEF MotorsType
  <2>5. /\ SeqType' /\ RunOK' /\ CountType'
        /\ \A k \in driven' : Active(k) => Active(k)'
    BY <1>1, <1>2, <1>3 DEF SeqType, RunOK, Steps, CountType, Active
  <2> QED
    BY <1>2, <1>3, <2>1, <2>2, <2>3, <2>4, <2>5, ChangeInv
<1>4. CASE ~UNCHANGED seq
  <2>1. /\ ~Waits(m)
        /\ \/ /\ Steps(r) = NoDefinition
              /\ seq' = [seq EXCEPT ![m] = [r EXCEPT !.running = FALSE, !.paused = TRUE]]
              /\ NextMotor
           \/ seq' = [seq EXCEPT ![m] = Faulted(r)] /\ NextMotor
           \/ seq' = [seq EXCEPT ![m] = Over(next)] /\ NextMotor
           \/ /\ r.step_index # Len(Steps(r))
              /\ seq' = [seq EXCEPT ![m] = next] /\ Goto("start")
    BY <1>4 DEF LookAtSequence
  <2>2. /\ m \notin driven /\ Active(m)
        /\ r.running /\ ~r.paused /\ r.active_name \in Name /\ Steps(r) # NoDefinition
        /\ r.step_index \in 1 .. Len(Steps(r))
    BY <1>1, <2>1, DrivenWaits DEF Waits, Active, RunOK
  <2>3. CASE seq' = [seq EXCEPT ![m] = Faulted(r)] /\ NextMotor
    <3>1. /\ Faulted(r) \in Runtime
          /\ Faulted(r).running = r.running /\ Faulted(r).active_name = r.active_name
          /\ Faulted(r).step_index = r.step_index /\ Steps(Faulted(r)) = Steps(r)
      <4>1. Faulted(r) \in Runtime
        BY <1>1, RuntimeParts
      <4>2. /\ Faulted(r).running = r.running /\ Faulted(r).active_name = r.active_name
            /\ Faulted(r).step_index = r.step_index /\ Faulted(r).definitions = r.definitions
        BY <1>1, FaultedParts
      <4>3. Steps(Faulted(r)) = Steps(r)
        BY <4>2 DEF Steps
      <4> QED
        BY <4>1, <4>2, <4>3
    <3>2. TickType' /\ TickOK'
      BY <1>1, <2>3, NextMotorOK DEF TickOK
    <3> QED
      BY <1>1, <1>2, <2>2, <2>3, <3>1, <3>2, BecomesInv
  <2>4. CASE seq' = [seq EXCEPT ![m] = Over(next)] /\ NextMotor
    <3>1. Over(next) \in Runtime /\ Over(next).running = FALSE
      <4>1. next \in Runtime
        BY <1>1, RuntimeParts
      <4> HIDE DEF next
      <4>2. Over(next) \in Runtime
        BY <4>1, RuntimeParts
      <4>3. Over(next).running = FALSE
        BY <4>1 DEF Over, Runtime
      <4> QED
        BY <4>2, <4>3
    <3>2. TickType' /\ TickOK'
      BY <1>1, <2>4, NextMotorOK DEF TickOK
    <3> QED
      BY <1>1, <1>2, <2>2, <2>4, <3>1, <3>2, BecomesInv
  <2>5. CASE /\ r.step_index # Len(Steps(r))
             /\ seq' = [seq EXCEPT ![m] = next] /\ Goto("start")
    <3>1. /\ next \in Runtime /\ Steps(next) = Steps(r)
          /\ next.running = r.running /\ next.paused = r.paused
          /\ next.active_name = r.active_name /\ next.step_queued = FALSE
          /\ next.step_index = r.step_index + 1
      BY <1>1, RuntimeParts DEF Steps, Runtime
    <3>2. Len(Steps(r)) \in Nat
      <4>1. Steps(r) \in Definition
        BY <1>1, <2>2 DEF Steps, Runtime
      <4> QED
        BY <4>1, SequenceAssumption
    <3>3. next.step_index \in 1 .. Len(Steps(next))
      BY <2>2, <2>5, <3>1, <3>2
    <3>4. TickType' /\ tick'.pc = "start" /\ tick'.motor = m
      BY <1>1, <2>5 DEF Goto, TickType
    <3>5. seq'[m] = next
      BY <1>1, <2>5 DEF SeqType
    <3>6. TickOK'
      BY <1>1, <2>2, <3>1, <3>4, <3>5 DEF TickOK, Active
    <3> HIDE DEF next
    <3> QED
      BY <1>1, <1>2, <2>2, <2>5, <3>1, <3>3, <3>4, <3>6, BecomesInv
  <2> QED
    BY <2>1, <2>2, <2>3, <2>4, <2>5
<1> QED
  BY <1>3, <1>4

LEMMA BendType ==
  ASSUME SeqType, NEW m \in Motor, seq[m].active_name \in Name, Steps(seq[m]) # NoDefinition,
         seq[m].step_index \in 1 .. Len(Steps(seq[m]))
  PROVE  Steps(seq[m])[seq[m].step_index] \in Bend
<1>1. Steps(seq[m]) \in Definition
  BY DEF Steps, SeqType, Runtime
<1>2. Steps(seq[m]) \in Seq(Bend)
  BY <1>1, SequenceAssumption
<1> QED
  BY <1>2

LEMMA StartInv ==
  ASSUME Inv, StartStep
  PROVE  Inv'
<1> DEFINE m == tick.motor
           r == seq[m]
           bend == Steps(r)[r.step_index]
<1>1. /\ m \in Motor /\ r \in Runtime /\ Active(m) /\ ~r.step_queued
      /\ SeqType /\ TickType /\ RunOK /\ MotorsType /\ CountType /\ CmdType /\ CmdOK
  BY DEF Inv, TickOK, StartStep, At, SeqType
<1>2. /\ m \notin driven
      /\ r.running /\ ~r.paused /\ r.active_name \in Name /\ Steps(r) # NoDefinition
      /\ r.step_index \in 1 .. Len(Steps(r))
  BY <1>1 DEF Inv, MovesToItsStep, Active, RunOK
<1>3. bend.target \in Position /\ bend.hold \in BOOLEAN
  <2>1. bend \in Bend
    BY <1>1, <1>2, BendType
  <2> QED
    BY <2>1 DEF Bend
<1>4. UNCHANGED <<mode, fallback, cmd, commands>>
  BY DEF StartStep
<1>5. TickType' /\ TickOK'
  BY <1>1, NextMotorOK DEF StartStep, TickOK
<1>6. CASE /\ Moves(m, bend.target, bend.hold)
           /\ driven' = (driven \cup {m}) \cap busy'
           /\ seq' = [seq EXCEPT ![m].step_queued = TRUE]
  <2>1. /\ motor' \in [Motor -> Channel]
        /\ holder' \in Motor \cup {NoMotor} /\ busy' \subseteq Motor
        /\ motor'[m].target = bend.target
        /\ \A k \in Motor \ {m} : motor'[k] = motor[k]
    BY <1>1, <1>3, <1>6, MovesChange
  <2>2. MotorsType' /\ driven' \subseteq driven \cup {m} /\ driven' \subseteq Motor
    BY <1>6, <2>1 DEF MotorsType
  <2>3. /\ seq' = [seq EXCEPT ![m] = [r EXCEPT !.step_queued = TRUE]]
        /\ [r EXCEPT !.step_queued = TRUE] \in Runtime
    BY <1>1, <1>6, RuntimeParts DEF SeqType
  <2>4. /\ SeqType' /\ \A k \in Motor \ {m} : seq'[k] = seq[k]
        /\ seq'[m].definitions = r.definitions /\ seq'[m].active_name = r.active_name
        /\ seq'[m].step_index = r.step_index /\ seq'[m].running = r.running
        /\ seq'[m].paused = r.paused /\ seq'[m].step_queued = TRUE
    BY <1>1, <2>3 DEF SeqType, Runtime
  <2>5. RunOK'
    BY <1>1, <2>4 DEF RunOK, Steps
  <2>6. ModeType' /\ CmdType' /\ CmdOK' /\ CountType'
    BY <1>1, <1>4, <2>4 DEF Inv, ModeType, CmdType, CmdOK, CountType
  <2>7. MotionHasSequence'
    <3>1. seq'[m].running /\ ~seq'[m].paused
      BY <1>2, <2>4
    <3>2. ASSUME NEW k \in driven', k # m
          PROVE  Active(k)' \/ Stopping(k)'
      BY <1>4, <2>2, <2>4, <3>2 DEF Inv, MotionHasSequence, Active, Stopping
    <3> QED
      BY <3>1, <3>2 DEF MotionHasSequence, Stopping, Active
  <2>8. MovesToItsStep'
    <3> SUFFICES ASSUME NEW k \in driven', Active(k)'
                 PROVE  /\ seq'[k].step_queued
                        /\ Steps(seq'[k]) # NoDefinition
                        /\ motor'[k].target = Steps(seq'[k])[seq'[k].step_index].target
      BY DEF MovesToItsStep, Steps
    <3>1. CASE k = m
      <4>1. Steps(seq'[m]) = Steps(r)
        BY <2>4 DEF Steps
      <4> QED
        BY <1>2, <2>1, <2>4, <3>1, <4>1
    <3>2. CASE k # m
      <4>1. k \in driven /\ seq'[k] = seq[k] /\ motor'[k] = motor[k] /\ Active(k)
        BY <2>1, <2>2, <2>4, <3>2 DEF Active
      <4> QED
        BY <4>1 DEF Inv, MovesToItsStep, Steps
    <3> QED
      BY <3>1, <3>2
  <2> QED
    BY <1>5, <2>2, <2>4, <2>5, <2>6, <2>7, <2>8 DEF Inv
<1>7. CASE /\ MoveRefused(m, bend.target, bend.hold)
           /\ seq' = [seq EXCEPT ![m].paused = ~motor[m].enabled]
  <2> DEFINE after == [r EXCEPT !.paused = ~motor[m].enabled]
  <2>1. UNCHANGED motors
    BY <1>7 DEF MoveRefused
  <2>2. motor[m].enabled \in BOOLEAN
    BY <1>1 DEF MotorsType, Channel
  <2>3. seq' = [seq EXCEPT ![m] = after] /\ after \in Runtime
    BY <1>1, <1>7, <2>2, RuntimeParts DEF SeqType
  <2>4. /\ after.running = r.running /\ after.active_name = r.active_name
        /\ after.step_index = r.step_index /\ Steps(after) = Steps(r)
    BY <1>1 DEF Runtime, Steps
  <2> HIDE DEF after
  <2> QED
    BY <1>1, <1>2, <1>4, <1>5, <2>1, <2>3, <2>4, BecomesInv
<1> QED
  BY <1>6, <1>7 DEF StartStep

LEMMA PauseOnFaultStep ==
  ASSUME Inv, PauseOnFault
  PROVE  Inv'
<1> DEFINE S == {m \in Motor : Active(m)}
<1>1. /\ SeqType /\ TickType /\ RunOK /\ MotorsType /\ CountType /\ CmdType /\ CmdOK
      /\ driven \subseteq Motor
  BY DEF Inv, MotorsType
<1>2. UNCHANGED <<mode, fallback, cmd, commands>>
  BY DEF PauseOnFault
<1>3. TickType' /\ TickOK' /\ tick'.pc \notin {"sequence", "start"}
  BY <1>1 DEF PauseOnFault, Goto, TickType, TickOK
<1>4. CASE UNCHANGED <<seq, motors>>
  <2>1. MotorsKept /\ CmdType' /\ CmdOK' /\ \A k \in Motor : Stopping(k) => Stopping(k)'
    BY <1>1, <1>2, <1>4, CmdKept, SameMotorsKept
  <2>2. driven' \subseteq Motor
    BY <2>1, <1>1 DEF MotorsKept
  <2> QED
    BY <1>1, <1>2, <1>3, <1>4, <2>1, <2>2, KeepInv DEF CountType, Inv, ModeType
<1>5. CASE /\ seq' = [m \in Motor |-> IF m \in S THEN Faulted(seq[m]) ELSE seq[m]]
           /\ StopsAll(S)
  <2>1. MotorsKept /\ driven' = driven \ S
    BY <1>1, <1>5, StopsAllKeeps
  <2>2. /\ \A k \in Motor : Faulted(seq[k]) \in Runtime
        /\ \A k \in S : seq'[k] = Faulted(seq[k])
        /\ \A k \in Motor \ S : seq'[k] = seq[k]
    BY <1>1, <1>5, RuntimeParts DEF SeqType
  <2>3. SeqType'
    BY <1>1, <1>5, <2>2 DEF SeqType
  <2>4. \A k \in Motor : /\ seq'[k].running = seq[k].running
                         /\ seq'[k].active_name = seq[k].active_name
                         /\ seq'[k].step_index = seq[k].step_index
                         /\ seq'[k].definitions = seq[k].definitions
    <3>1. \A k \in Motor : seq[k] \in Runtime
      BY <1>1 DEF SeqType
    <3>2. \A k \in Motor : seq'[k] \in {seq[k], Faulted(seq[k])}
      BY <2>2
    <3> QED
      BY <3>1, <3>2, FaultedParts
  <2>5. RunOK' /\ CmdOK' /\ CmdType' /\ CountType'
    BY <1>1, <1>2, <2>4 DEF RunOK, Steps, CmdOK, CmdType, CountType
  <2>6. \A k \in driven' : seq'[k] = seq[k] /\ (Stopping(k) => Stopping(k)')
    BY <1>1, <1>2, <2>1, <2>2 DEF Stopping
  <2> QED
    BY <1>2, <1>3, <2>1, <2>3, <2>5, <2>6, ChangeInv DEF Active
<1> QED
  BY <1>4, <1>5 DEF PauseOnFault

-----------------------------------------------------------------------------
(* The commands that change no sequence: what they leave to be done.         *)
LEMMA CommandInv ==
  ASSUME Inv, MotorsKept, UNCHANGED <<fallback, seq, tick>>, CountType',
         mode' \in {"STANDBY", "RUN", "SAFE"}, CmdType',
         cmd'.op \in {"run", "resume", "move"} => mode' = "RUN",
         cmd'.op = "run" => cmd'.name \in Name,
         mode' = "SAFE" /\ cmd'.op # "clear" => mode = "SAFE" /\ cmd.op # "clear",
         \A m \in driven' : Stopping(m) => Stopping(m)'
  PROVE  Inv'
<1>1. /\ SeqType' /\ TickType' /\ RunOK' /\ TickOK' /\ CmdOK'
  BY DEF Inv, SeqType, TickType, RunOK, Steps, TickOK, Active, CmdOK
<1>2. driven' \subseteq driven /\ driven' \subseteq Motor
  BY DEF Inv, MotorsKept, MotorsType
<1>3. ModeType'
  BY DEF Inv, ModeType
<1>4. MotionHasSequence'
  BY <1>2 DEF Inv, MotionHasSequence, Active, Stopping
<1>5. MovesToItsStep'
  BY <1>2 DEF Inv, MovesToItsStep, MotorsKept, Active, Steps
<1> QED
  BY <1>1, <1>3, <1>4, <1>5 DEF Inv, MotorsKept

LEMMA ModeStep ==
  ASSUME Inv, Arm \/ ExitSafe \/ Disarm \/ EnterSafe
  PROVE  Inv'
<1>1. /\ Idle /\ UNCHANGED <<fallback, seq, motors, tick>>
      /\ Counted
  BY DEF Arm, ExitSafe, Disarm, EnterSafe, ChangesMode, Command
<1>2. MotorsKept /\ CountType' /\ CmdType
  BY <1>1, SameMotorsKept, CountedType DEF Inv
<1>3. cmd.op = "none"
  BY <1>1 DEF Idle, NoCommand
<1>4. \A m \in driven' : ~Stopping(m)
  BY <1>3 DEF Stopping
<1>5. CASE Arm \/ ExitSafe
  BY <1>1, <1>2, <1>3, <1>4, <1>5, CommandInv DEF Arm, ExitSafe, ChangesMode, CmdType
<1>6. CASE Disarm
  BY <1>1, <1>2, <1>3, <1>4, <1>6, CommandInv DEF Disarm, ChangesMode, CmdType, Then
<1>7. CASE EnterSafe
  BY <1>1, <1>2, <1>3, <1>4, <1>7, CommandInv DEF EnterSafe, ChangesMode, CmdType, Then
<1> QED
  BY <1>5, <1>6, <1>7 DEF Arm, ExitSafe, Disarm, EnterSafe

LEMMA StopNextMotorStep ==
  ASSUME Inv, StopNextMotor
  PROVE  Inv'
<1>1. MotorsType /\ CmdType /\ CountType /\ ModeType
  BY DEF Inv
<1>2. PICK m \in First(cmd.motors) :
        \/ cmd.op = "stop" /\ Stops(m) /\ Done(m)
        \/ cmd.op = "off" /\ Stops(m) /\ cmd' = [cmd EXCEPT !.op = "disable"]
        \/ /\ cmd.op = "disable" /\ Disables(m)
           /\ cmd' = IF cmd.motors = {m} THEN NoCommand
                     ELSE [cmd EXCEPT !.op = "off", !.motors = @ \ {m}]
  BY DEF StopNextMotor
<1>3. m \in Motor
  BY <1>1 DEF First, CmdType
<1>4. MotorsKept /\ driven' = driven \ {m}
  BY <1>1, <1>2, <1>3, StopsKeeps, DisablesKeeps
<1>5. UNCHANGED <<mode, fallback, seq, tick, commands>>
  BY DEF StopNextMotor
<1>6. CmdType' /\ cmd'.op \in {"none", "stop", "off", "disable"}
  <2>1. CASE cmd' = NoCommand
    BY <2>1 DEF CmdType, NoCommand
  <2>2. CASE cmd' = [cmd EXCEPT !.op = "disable"]
    BY <1>1, <2>2 DEF CmdType
  <2>3. CASE cmd.op = "stop" /\ cmd' = [cmd EXCEPT !.motors = @ \ {m}]
    BY <1>1, <2>3 DEF CmdType
  <2>4. CASE cmd' = [cmd EXCEPT !.op = "off", !.motors = @ \ {m}]
    <3>1. cmd.motors \ {m} \in SUBSET Motor
      BY <1>1 DEF CmdType
    <3> QED
      BY <1>1, <2>4, <3>1 DEF CmdType
  <2> QED
    BY <1>2, <2>1, <2>2, <2>3, <2>4 DEF Done
<1>7. cmd.op \in {"stop", "off", "disable"} /\ cmd.motors \subseteq Motor
  BY <1>1, <1>2 DEF CmdType
<1>8. \A k \in cmd.motors \ {m} : k \in cmd'.motors /\ cmd'.op \in {"stop", "off", "disable"}
  BY <1>1, <1>2 DEF CmdType, Done, NoCommand
<1>9. \A k \in driven' : Stopping(k) => Stopping(k)'
  BY <1>4, <1>8 DEF Stopping
<1>10. CountType'
  BY <1>1, <1>5 DEF CountType
<1> QED
  BY <1>1, <1>4, <1>5, <1>6, <1>7, <1>9, <1>10, CommandInv DEF ModeType

(* The commands that look at or change one motor.                            *)
LEMMA MotorCommandStep ==
  ASSUME Inv, NEW m \in Motor,
         \/ StepperStop(m) \/ Enable(m) \/ Disable(m) \/ AcknowledgeStepLoss(m)
         \/ CheckZero(m) \/ CheckMove(m) \/ CheckResume(m)
  PROVE  Inv'
<1>1. /\ Idle /\ Counted /\ UNCHANGED <<mode, fallback, seq, tick>>
      /\ MotorsType /\ ModeType /\ CmdType
  BY DEF StepperStop, Enable, Disable, AcknowledgeStepLoss, CheckZero, CheckMove, CheckResume,
         Command, Inv
<1>2. CountType' /\ cmd.op = "none" /\ \A k \in driven' : ~Stopping(k)
  BY <1>1, CountedType DEF Inv, Idle, NoCommand, Stopping
<1>3. MotorsKept
  <2>1. CASE StepperStop(m)
    BY <1>1, <2>1, StopsKeeps DEF StepperStop
  <2>2. CASE Disable(m)
    BY <1>1, <2>2, DisablesKeeps DEF Disable
  <2>3. CASE Enable(m)
    <3>1. motor' \in [Motor -> Channel] /\ \A k \in Motor : motor'[k].target = motor[k].target
      BY <1>1, <2>3 DEF Enable, MotorsType, Channel
    <3> QED
      BY <1>1, <2>3, <3>1 DEF Enable, MotorsType, MotorsKept
  <2>4. CASE AcknowledgeStepLoss(m)
    <3>1. motor' \in [Motor -> Channel] /\ \A k \in Motor : motor'[k].target = motor[k].target
      BY <1>1, <2>4 DEF AcknowledgeStepLoss, MotorsType, Channel
    <3> QED
      BY <1>1, <2>4, <3>1 DEF AcknowledgeStepLoss, MotorsType, MotorsKept
  <2>5. CASE CheckZero(m) \/ CheckMove(m) \/ CheckResume(m)
    BY <1>1, <2>5, SameMotorsKept DEF CheckZero, CheckMove, CheckResume
  <2> QED
    BY <2>1, <2>2, <2>3, <2>4, <2>5
<1>4. /\ CmdType' /\ cmd'.op \notin {"clear", "run"}
      /\ cmd'.op \in {"resume", "move"} => mode' = "RUN"
  BY <1>1, <1>2 DEF StepperStop, Enable, Disable, AcknowledgeStepLoss, CheckZero, CheckMove,
         CheckResume, CmdType, Then
<1> QED
  BY <1>1, <1>2, <1>3, <1>4, CommandInv DEF ModeType

LEMMA ZeroStep ==
  ASSUME Inv, NEW m \in Motor, SetPositionZero(m) \/ MarkZeroed(m)
  PROVE  Inv'
<1>1. /\ MotorsType /\ ModeType /\ CmdType /\ CountType
      /\ UNCHANGED <<mode, fallback, seq, tick, commands>>
      /\ cmd.op \in {"zero", "zeroed"} /\ cmd'.op \in {"zeroed", "none"}
      /\ cmd' = NoCommand \/ cmd' = [op |-> "zeroed", motors |-> {m}, name |-> NoName]
  BY DEF Inv, SetPositionZero, MarkZeroed, Then, NoCommand
<1>2. MotorsKept
  <2>1. CASE SetPositionZero(m)
    <3>1. [motor[m] EXCEPT !.position = 0, !.target = 0, !.uncertain = FALSE] \in Channel
      BY <1>1, SequenceAssumption DEF MotorsType, Channel
    <3>2. /\ motor' = [motor EXCEPT ![m] =
                [motor[m] EXCEPT !.position = 0, !.target = 0, !.uncertain = FALSE]]
          /\ Frees({m})
      BY <2>1 DEF SetPositionZero
    <3> QED
      BY <1>1, <3>1, <3>2, LetGoKeeps
  <2>2. CASE MarkZeroed(m)
    <3>1. motor' \in [Motor -> Channel] /\ \A k \in Motor : motor'[k].target = motor[k].target
      BY <1>1, <2>2 DEF MarkZeroed, MotorsType, Channel
    <3> QED
      BY <1>1, <2>2, <3>1 DEF MarkZeroed, MotorsType, MotorsKept
  <2> QED
    BY <2>1, <2>2
<1>3. CmdType' /\ CountType' /\ \A k \in driven' : ~Stopping(k)
  BY <1>1 DEF CmdType, NoCommand, CountType, Stopping
<1> QED
  BY <1>1, <1>2, <1>3, CommandInv DEF ModeType

LEMMA MoveStep ==
  ASSUME Inv, NEW m \in Motor, Move(m)
  PROVE  Inv'
<1>1. /\ MotorsType /\ ModeType /\ CmdType /\ CountType
      /\ UNCHANGED <<mode, fallback, seq, tick, commands>>
      /\ cmd.op = "move" /\ cmd' = NoCommand
  BY DEF Inv, Move
<1>2. MotorsKept
  <2>1. CASE UNCHANGED motors
    BY <1>1, <2>1, SameMotorsKept
  <2>2. CASE ~UNCHANGED motors
    <3>1. PICK target \in Position, hold \in BOOLEAN :
            Moves(m, target, hold) /\ driven' = driven \ {m}
      BY <2>2 DEF Move, MoveRefused
    <3> QED
      BY <1>1, <3>1, MovesKeeps
  <2> QED
    BY <2>1, <2>2
<1>3. /\ CmdType' /\ CountType' /\ cmd'.op = "none"
      /\ \A k \in driven' : ~Stopping(k)
  BY <1>1 DEF CmdType, NoCommand, CountType, Stopping
<1> QED
  BY <1>1, <1>2, <1>3, CommandInv DEF ModeType

-----------------------------------------------------------------------------
(* The commands that change sequences.  No sequence moves a motor of which   *)
(* it is neither active nor being stopped.                                   *)
LEMMA IdleDriven ==
  ASSUME Inv, cmd.op \notin {"stop", "off", "disable"}, NEW m \in driven
  PROVE  m \in Motor /\ Active(m) /\ ~Stopping(m)
BY DEF Inv, MotorsType, MotionHasSequence, Stopping

LEMMA ClearStep ==
  ASSUME Inv, StopAllSequences \/ ForceStop \/ ShutdownSafe
  PROVE  Inv'
<1>1. /\ SeqType /\ MotorsType /\ TickType /\ ModeType /\ CmdType /\ TickOK
      /\ ~Locked /\ seq' = [m \in Motor |-> Cleared(seq[m])]
      /\ UNCHANGED <<mode, fallback, motors, tick>>
      /\ \E op \in {"stop", "off"} : cmd' = [op |-> op, motors |-> Motor, name |-> NoName]
      /\ Counted \/ UNCHANGED commands
  BY DEF Inv, StopAllSequences, ForceStop, ShutdownSafe, ClearsAll, Then, Command
<1>2. SeqType' /\ \A m \in Motor : seq'[m].running = FALSE
  <2>1. \A m \in Motor : Cleared(seq[m]) \in Runtime /\ Cleared(seq[m]).running = FALSE
    <3>1. ASSUME NEW m \in Motor
          PROVE  Cleared(seq[m]) \in Runtime /\ Cleared(seq[m]).running = FALSE
      <4>1. seq[m] \in Runtime
        BY <1>1 DEF SeqType
      <4>2. Cleared(seq[m]).running = FALSE
        BY <4>1 DEF Runtime, Cleared
      <4> QED
        BY <4>1, <4>2, RuntimeParts
    <3> QED
      BY <3>1
  <2> QED
    BY <1>1, <2>1 DEF SeqType
<1>3. RunOK' /\ CmdOK' /\ CmdType' /\ TickType' /\ TickOK'
  BY <1>1, <1>2 DEF RunOK, CmdOK, CmdType, TickType, TickOK, Locked
<1>4. CountType'
  BY <1>1, CountedType DEF Inv
<1>5. MotorsKept /\ driven' \subseteq Motor
  BY <1>1, SameMotorsKept DEF MotorsType
<1>6. \A m \in driven' : Stopping(m)' /\ ~Active(m)'
  BY <1>1, <1>2, <1>5 DEF Stopping, Active
<1> QED
  BY <1>1, <1>2, <1>3, <1>4, <1>5, <1>6, ChangeInv

(* What they do to one sequence, r from then on: with its motor stopped, or  *)
(* about to be, or with no motion of a sequence in it.                       *)
LEMMA SequenceInv ==
  ASSUME Inv, NEW m \in Motor, NEW r \in Runtime, Changes(m, r), MotorsKept,
         cmd.op \notin {"stop", "off", "disable"}, CmdType', CountType',
         r.running => /\ r.active_name \in Name
                      /\ Steps(r) # NoDefinition
                      /\ r.step_index \in 1 .. Len(Steps(r))
                      /\ mode # "SAFE",
         cmd'.op \notin {"run", "resume", "move"}, cmd'.op = "clear" <=> cmd.op = "clear",
         \/ m \notin driven'
         \/ r.running = FALSE /\ cmd'.op = "stop" /\ m \in cmd'.motors
         \/ /\ r.running = seq[m].running /\ r.paused = seq[m].paused
            /\ r.step_queued = seq[m].step_queued /\ r.step_index = seq[m].step_index
            /\ Steps(r) = Steps(seq[m])
  PROVE  Inv'
<1>1. /\ SeqType /\ RunOK /\ TickType /\ TickOK /\ CmdOK /\ ModeType
      /\ ~Locked /\ UNCHANGED <<mode, fallback, tick>> /\ seq' = [seq EXCEPT ![m] = r]
      /\ driven' \subseteq driven /\ driven' \subseteq Motor
  BY DEF Inv, Changes, MotorsKept, MotorsType
<1>2. SeqType' /\ seq'[m] = r /\ \A k \in Motor \ {m} : seq'[k] = seq[k]
  BY <1>1 DEF SeqType
<1>3. RunOK' /\ TickType' /\ TickOK' /\ ModeType'
  BY <1>1, <1>2 DEF RunOK, Steps, TickType, TickOK, ModeType, Locked
<1>4. CmdOK'
  BY <1>1, <1>2 DEF CmdOK
<1>5. MotionHasSequence'
  <2> SUFFICES ASSUME NEW k \in driven'
               PROVE  (seq'[k].running /\ ~seq'[k].paused) \/ Stopping(k)'
    BY DEF MotionHasSequence, Active, Stopping
  <2>1. k \in Motor /\ seq[k].running /\ ~seq[k].paused
    BY <1>1, IdleDriven DEF Active
  <2> QED
    BY <1>2, <2>1 DEF Stopping
<1>6. MovesToItsStep'
  <2> SUFFICES ASSUME NEW k \in driven', Active(k)'
               PROVE  /\ seq'[k].step_queued
                      /\ Steps(seq'[k]) # NoDefinition
                      /\ motor'[k].target = Steps(seq'[k])[seq'[k].step_index].target
    BY DEF MovesToItsStep, Steps
  <2>1. /\ Active(k) /\ seq[k].step_queued /\ Steps(seq[k]) # NoDefinition
        /\ motor'[k].target = Steps(seq[k])[seq[k].step_index].target
    BY <1>1, IdleDriven DEF Inv, MovesToItsStep, MotorsKept
  <2> QED
    BY <1>1, <1>2, <2>1 DEF Active
<1> QED
  BY <1>2, <1>3, <1>4, <1>5, <1>6 DEF Inv, MotorsKept

LEMMA LoadStep ==
  ASSUME Inv, NEW m \in Motor, NEW n \in Name,
         (\E d \in Definition : Load(m, n, d)) \/ Clear(m, n)
  PROVE  Inv'
<1>1. PICK e \in Definition \cup {NoDefinition} :
        Changes(m, [seq[m] EXCEPT !.definitions[n] = e])
  BY DEF Load, Clear
<1> DEFINE after == [seq[m] EXCEPT !.definitions[n] = e]
<1>2. /\ Idle /\ Counted /\ ~InUse(m, n) /\ UNCHANGED <<motors, cmd>>
      /\ SeqType /\ MotorsType /\ CmdType /\ RunOK /\ CmdOK
  BY DEF Load, Clear, Command, Inv
<1>3. CountType' /\ CmdType' /\ MotorsKept /\ cmd.op = "none"
  BY <1>2, CountedType, SameMotorsKept DEF Inv, CmdType, Idle, NoCommand
<1>4. seq[m] \in Runtime
  BY <1>2 DEF SeqType
<1>5. /\ after \in Runtime
      /\ after.running = seq[m].running /\ after.paused = seq[m].paused
      /\ after.step_queued = seq[m].step_queued /\ after.step_index = seq[m].step_index
      /\ after.active_name = seq[m].active_name
      /\ after.definitions = [seq[m].definitions EXCEPT ![n] = e]
  BY <1>4 DEF Runtime
<1>6. seq[m].running => Steps(after) = Steps(seq[m])
  BY <1>2, <1>4, <1>5 DEF Steps, InUse, RunOK, Runtime
<1>7. seq[m].running => mode # "SAFE"
  BY <1>2, <1>3 DEF CmdOK
<1>8. m \in driven' => seq[m].running
  BY <1>2, <1>3, IdleDriven DEF motors, Active
<1>9. Changes(m, after)
  BY <1>1
<1>10. after.running => /\ after.active_name \in Name /\ Steps(after) # NoDefinition
                        /\ after.step_index \in 1 .. Len(Steps(after)) /\ mode # "SAFE"
  BY <1>2, <1>5, <1>6, <1>7 DEF RunOK
<1>11. /\ cmd'.op = "none"
       /\ m \in driven' => Steps(after) = Steps(seq[m])
  BY <1>2, <1>3, <1>6, <1>8
<1> HIDE DEF after
<1> QED
  BY <1>3, <1>5, <1>9, <1>10, <1>11, SequenceInv

LEMMA ClearAllStep ==
  ASSUME Inv, NEW m \in Motor, ClearAll(m)
  PROVE  Inv'
<1> DEFINE after == [seq[m] EXCEPT !.definitions = [n \in Name |-> NoDefinition]]
<1>1. /\ Idle /\ Counted /\ ~seq[m].running /\ UNCHANGED <<motors, cmd>> /\ Changes(m, after)
      /\ SeqType /\ MotorsType /\ CmdType
  BY DEF ClearAll, Command, Inv
<1>2. CountType' /\ CmdType' /\ MotorsKept /\ cmd.op = "none"
  BY <1>1, CountedType, SameMotorsKept DEF Inv, CmdType, Idle, NoCommand
<1>3. seq[m] \in Runtime
  BY <1>1 DEF SeqType
<1>4. after \in Runtime /\ after.running = seq[m].running
  BY <1>3 DEF Runtime
<1>5. m \notin driven'
  BY <1>1, <1>2, IdleDriven DEF motors, Active
<1> HIDE DEF after
<1> QED
  BY <1>1, <1>2, <1>4, <1>5, SequenceInv

LEMMA RunStep ==
  ASSUME Inv, NEW m \in Motor, Run(m)
  PROVE  Inv'
<1> DEFINE started == [seq[m] EXCEPT !.active_name = cmd.name, !.step_index = 1,
                                     !.running = TRUE, !.paused = FALSE, !.step_queued = FALSE]
           starts == seq[m].definitions[cmd.name] # NoDefinition /\ ~seq[m].running
           after == IF starts THEN started ELSE seq[m]
<1>1. /\ Changes(m, after) /\ cmd.op = "run" /\ cmd' = NoCommand
      /\ UNCHANGED <<motors, commands>>
      /\ SeqType /\ MotorsType /\ CmdType /\ CountType /\ RunOK /\ CmdOK
  BY DEF Run, Inv
<1>2. /\ mode = "RUN" /\ cmd.name \in Name /\ MotorsKept
      /\ CmdType' /\ CountType' /\ cmd'.op = "none"
  BY <1>1, SameMotorsKept DEF CmdOK, CmdType, NoCommand, CountType
<1>3. seq[m] \in Runtime
  BY <1>1 DEF SeqType
<1>4. CASE starts
  <2>1. /\ started \in Runtime /\ started.running /\ started.active_name = cmd.name
        /\ started.step_index = 1 /\ started.definitions = seq[m].definitions
    BY <1>2, <1>3 DEF Runtime
  <2>2. Steps(started) \in Definition
    BY <1>2, <1>3, <1>4, <2>1 DEF Steps, Runtime
  <2>3. Steps(started) # NoDefinition /\ 1 \in 1 .. Len(Steps(started))
    <3>1. Steps(started) \in Seq(Bend) /\ Steps(started) # <<>>
      BY <2>2, SequenceAssumption
    <3>2. Len(Steps(started)) \in Nat \ {0}
      BY <3>1
    <3> QED
      BY <2>2, <3>2, SequenceAssumption
  <2>4. m \notin driven'
    BY <1>1, <1>4, IdleDriven DEF motors, Active
  <2> HIDE DEF started
  <2> QED
    BY <1>1, <1>2, <1>4, <2>1, <2>3, <2>4, SequenceInv
<1>5. CASE ~starts
  BY <1>1, <1>2, <1>3, <1>5, SequenceInv DEF RunOK
<1> QED
  BY <1>4, <1>5

LEMMA PauseStep ==
  ASSUME Inv, NEW m \in Motor, Pause(m)
  PROVE  Inv'
<1>1. /\ Idle /\ Counted /\ UNCHANGED cmd /\ Changes(m, Faulted(seq[m]))
      /\ Stops(m) /\ SeqType /\ MotorsType /\ CmdType /\ RunOK /\ CmdOK
  BY DEF Pause, Command, Inv
<1>2. /\ CountType' /\ CmdType' /\ cmd.op = "none"
      /\ MotorsKept /\ m \notin driven'
  BY <1>1, CountedType, StopsKeeps DEF Inv, CmdType, Idle, NoCommand
<1>3. seq[m] \in Runtime
  BY <1>1 DEF SeqType
<1>4. /\ Faulted(seq[m]).running = seq[m].running
      /\ Faulted(seq[m]).active_name = seq[m].active_name
      /\ Faulted(seq[m]).step_index = seq[m].step_index
      /\ Steps(Faulted(seq[m])) = Steps(seq[m])
  BY <1>3 DEF Faulted, Runtime, Steps
<1>5. seq[m].running => mode # "SAFE"
  BY <1>1, <1>2 DEF CmdOK
<1>6. Faulted(seq[m]) \in Runtime
  BY <1>3, RuntimeParts
<1> QED
  BY <1>1, <1>2, <1>4, <1>5, <1>6, SequenceInv DEF RunOK

LEMMA ResumeStep ==
  ASSUME Inv, NEW m \in Motor, Resume(m)
  PROVE  Inv'
<1> DEFINE resumed == [seq[m] EXCEPT !.paused = FALSE, !.step_queued = FALSE]
           paused == seq[m].running /\ seq[m].paused
           after == IF paused THEN resumed ELSE seq[m]
<1>1. /\ Changes(m, after) /\ cmd.op = "resume" /\ cmd' = NoCommand
      /\ UNCHANGED <<motors, commands>>
      /\ SeqType /\ MotorsType /\ CmdType /\ CountType /\ RunOK /\ CmdOK
  BY DEF Resume, Inv
<1>2. /\ mode = "RUN" /\ MotorsKept /\ CmdType' /\ CountType' /\ cmd'.op = "none"
  BY <1>1, SameMotorsKept DEF CmdOK, CmdType, NoCommand, CountType
<1>3. seq[m] \in Runtime
  BY <1>1 DEF SeqType
<1>4. CASE paused
  <2>1. /\ resumed \in Runtime /\ resumed.running = seq[m].running
        /\ resumed.active_name = seq[m].active_name
        /\ resumed.step_index = seq[m].step_index /\ Steps(resumed) = Steps(seq[m])
    BY <1>3 DEF Runtime, Steps
  <2>2. m \notin driven'
    BY <1>1, <1>4, IdleDriven DEF motors, Active
  <2> HIDE DEF resumed
  <2> QED
    BY <1>1, <1>2, <1>4, <2>1, <2>2, SequenceInv DEF RunOK
<1>5. CASE ~paused
  BY <1>1, <1>2, <1>3, <1>5, SequenceInv DEF RunOK
<1> QED
  BY <1>4, <1>5

LEMMA StopSequenceStep ==
  ASSUME Inv, NEW m \in Motor, StopSequence(m)
  PROVE  Inv'
<1>1. /\ Idle /\ Counted /\ UNCHANGED motors /\ Changes(m, Cleared(seq[m]))
      /\ cmd' = [op |-> "stop", motors |-> {m}, name |-> NoName]
      /\ SeqType /\ MotorsType
  BY DEF StopSequence, Command, Then, Inv
<1>2. CountType' /\ CmdType' /\ MotorsKept /\ cmd.op = "none"
  BY <1>1, CountedType, SameMotorsKept DEF Inv, CmdType, Idle, NoCommand
<1>3. seq[m] \in Runtime
  BY <1>1 DEF SeqType
<1>4. Cleared(seq[m]) \in Runtime
  BY <1>3, RuntimeParts
<1>5. Cleared(seq[m]).running = FALSE
  BY <1>3 DEF Runtime, Cleared
<1> QED
  BY <1>1, <1>2, <1>4, <1>5, SequenceInv

-----------------------------------------------------------------------------
LEMMA CheckRunStep ==
  ASSUME Inv, NEW m \in Motor, NEW n \in Name, CheckRun(m, n)
  PROVE  Inv'
<1>1. /\ Idle /\ Counted /\ mode = "RUN" /\ UNCHANGED <<mode, fallback, seq, motors, tick>>
      /\ cmd' = [op |-> "run", motors |-> {m}, name |-> n]
      /\ MotorsType /\ ModeType
  BY DEF CheckRun, Command, Inv
<1>2. /\ CountType' /\ CmdType' /\ MotorsKept /\ cmd.op = "none"
      /\ \A k \in driven' : ~Stopping(k)
  BY <1>1, CountedType, SameMotorsKept DEF Inv, CmdType, Idle, NoCommand, Stopping
<1> QED
  BY <1>1, <1>2, CommandInv DEF ModeType

LEMMA InitInv == Init => Inv
<1> SUFFICES ASSUME Init PROVE Inv
  OBVIOUS
<1> DEFINE At0(S) == [m \in Motor |->
             [position |-> 0, target |-> 0, enabled |-> m \in S, zeroed |-> m \in S,
              uncertain |-> FALSE]]
           Loaded(S, d) == [m \in Motor |->
             [definitions |-> [n \in Name |-> IF m \in S THEN d ELSE NoDefinition],
              active_name |-> NoName, step_index |-> 1,
              running |-> FALSE, paused |-> FALSE, step_queued |-> FALSE]]
<1>0. PICK S \in SUBSET Motor : motor = At0(S) /\ \E d \in Definition : seq = Loaded(S, d)
  <2>1. \E S \in SUBSET Motor \ {{}} :
           motor = At0(S) /\ \E d \in Definition : seq = Loaded(S, d)
    BY Zenon DEF Init
  <2> HIDE DEF At0, Loaded
  <2> QED
    BY <2>1
<1>1. PICK d \in Definition : motor = At0(S) /\ seq = Loaded(S, d)
  BY <1>0
<1>2. SeqType /\ \A m \in Motor : seq[m].running = FALSE
  BY <1>1 DEF SeqType, Runtime
<1>3. MotorsType
  BY <1>1, SequenceAssumption DEF Init, MotorsType, Channel
<1>4. /\ tick = [pc |-> "gate", motor |-> NoMotor, quiet |-> {}]
      /\ cmd = [op |-> "none", motors |-> {}, name |-> NoName]
      /\ commands = 0 /\ driven = {} /\ mode = "RUN" /\ fallback = FALSE
  BY DEF Init, NoCommand
<1>5. ModeType /\ TickType /\ CmdType /\ CountType
  <2>1. ModeType /\ TickType
    BY <1>4 DEF ModeType, TickType
  <2>2. CmdType
    BY <1>4 DEF CmdType
  <2>3. CountType
    BY <1>4, SequenceAssumption DEF CountType
  <2> QED
    BY <2>1, <2>2, <2>3
<1>6. RunOK /\ TickOK /\ CmdOK /\ MotionHasSequence /\ MovesToItsStep
  BY <1>2, <1>4 DEF RunOK, TickOK, CmdOK, MotionHasSequence, MovesToItsStep
<1> QED
  BY <1>2, <1>3, <1>5, <1>6 DEF Inv

LEMMA StepInv == Inv /\ [Next]_vars => Inv'
<1> SUFFICES ASSUME Inv, [Next]_vars PROVE Inv'
  OBVIOUS
<1>1. CASE TickStep
  BY <1>1, GateStep, PlanStep, LookStep, StartInv, PauseOnFaultStep DEF TickStep
<1>2. CASE CommandStep
  BY <1>2, ModeStep, StopNextMotorStep, MotorCommandStep, ZeroStep, MoveStep, ClearStep,
     LoadStep, ClearAllStep, CheckRunStep, RunStep, PauseStep, ResumeStep, StopSequenceStep
     DEF CommandStep
<1>3. CASE \E m \in Motor : Arrives(m) \/ Ends(m) \/ Aborts(m)
  BY <1>3, MotorStep
<1>4. CASE UNCHANGED vars
  BY <1>4 DEF vars, motors, Inv, ModeType, SeqType, MotorsType, TickType, CmdType, CountType,
              RunOK, Steps, TickOK, Active, CmdOK, MotionHasSequence, MovesToItsStep
<1> QED
  BY <1>1, <1>2, <1>3, <1>4 DEF Next

(* In every state the runtimes, the tick and the command under way agree as  *)
(* Inv says (TickBendSequences, BENDSEQ_*, the mode commands).               *)
THEOREM InvHolds == Spec => []Inv
BY InitInv, StepInv, PTL DEF Spec

-----------------------------------------------------------------------------
(* The types: the steps of the control loop stay within the motors and the   *)
(* bends there are.                                                          *)
LEMMA TypeSafe == Spec => []TypeOK
<1>1. Inv => TypeOK
  BY DEF Inv, TypeOK, ModeType, SeqType, MotorsType, TickType, CmdType, CountType
<1> QED
  BY <1>1, InvHolds, PTL

(* No motion outlives the sequence that gave it, but until the stop of the   *)
(* command that ended it.                                                    *)
THEOREM MotionSafe == Spec => []MotionHasSequence
<1>1. Inv => MotionHasSequence
  BY DEF Inv
<1> QED
  BY <1>1, InvHolds, PTL

(* Every reachable state is well typed, and a sequence moves its motor to    *)
(* the step it is at.                                                        *)
THEOREM StepSafe == Spec => []StepsSound
<1>1. Inv => MovesToItsStep
  BY DEF Inv
<1>2. TypeOK /\ MovesToItsStep => StepsSound
  BY DEF StepsSound
<1> QED
  BY <1>1, <1>2, TypeSafe, InvHolds, PTL

(* In SAFE no sequence runs and none moves a motor.                          *)
THEOREM SafeSafe == Spec => []SafeHasNoSequence
<1>1. Inv => SafeHasNoSequence
  <2> SUFFICES ASSUME Inv, mode = "SAFE", Idle, NEW m \in Motor
               PROVE  ~seq[m].running /\ m \notin driven
    BY DEF SafeHasNoSequence
  <2>1. cmd.op = "none"
    BY DEF Idle, NoCommand
  <2>2. ~seq[m].running
    BY <2>1 DEF Inv, CmdOK
  <2> QED
    BY <2>1, <2>2, IdleDriven DEF Active
<1> QED
  BY <1>1, InvHolds, PTL

-----------------------------------------------------------------------------
(* What is to be stopped at the loss of the link had no sequence when that   *)
(* was looked at; one that starts since has not moved it yet.                *)
QuietOK == tick.pc = "quiet" => \A m \in tick.quiet \cap driven : ~Active(m)

(* While a motor waits for its stop no command touches a sequence.           *)
LEMMA StoppingKeepsSeq ==
  ASSUME cmd.op \in {"stop", "off", "disable"}, At("quiet"), [Next]_vars
  PROVE  UNCHANGED seq
<1>1. ~Idle /\ cmd.op \notin {"none", "clear", "zero", "zeroed", "move", "run", "resume"}
  BY DEF Idle, NoCommand
<1>2. CASE TickStep
  BY <1>2 DEF TickStep, Gate, StopNonSequenceMotionOnFallback, TickFallbackPlan,
              ApplyLandedSafing, LockSequences, LookAtSequence, StartStep, PauseOnFault, At
<1>3. CASE CommandStep
  <2>1. StopNextMotor
    BY <1>1, <1>3
       DEF CommandStep, Arm, Disarm, EnterSafe, ExitSafe, ForceStop, ShutdownSafe, ChangesMode,
           Command, StopAllSequences, StepperStop, Enable, Disable, AcknowledgeStepLoss,
           CheckZero, SetPositionZero, MarkZeroed, CheckMove, Move, Load, Clear, CheckRun,
           ClearAll, Run, Pause, CheckResume, Resume, StopSequence
  <2> QED
    BY <2>1 DEF StopNextMotor
<1>4. CASE (\E m \in Motor : Arrives(m) \/ Ends(m) \/ Aborts(m)) \/ UNCHANGED vars
  BY <1>4 DEF Arrives, Ends, Aborts, Still, vars
<1> QED
  BY <1>2, <1>3, <1>4 DEF Next

(* Sequences get no motion but at the start of a step.                       *)
LEMMA QuietDrivenShrinks ==
  ASSUME At("quiet"), [Next]_vars
  PROVE  driven' \subseteq driven
<1>1. CASE TickStep
  BY <1>1 DEF TickStep, Gate, StopNonSequenceMotionOnFallback, TickFallbackPlan,
              ApplyLandedSafing, LockSequences, LookAtSequence, StartStep, PauseOnFault, At,
              Stops, StopsAll, Frees, motors
<1>2. CASE CommandStep
  BY <1>2
     DEF CommandStep, Arm, Disarm, EnterSafe, ExitSafe, ForceStop, ShutdownSafe, ChangesMode,
         StopAllSequences, StepperStop, Enable, Disable, AcknowledgeStepLoss, StopNextMotor,
         CheckZero, SetPositionZero, MarkZeroed, CheckMove, Move, MoveRefused, Load, Clear,
         CheckRun, ClearAll, Run, Pause, CheckResume, Resume, StopSequence,
         Stops, StopsAll, Disables, Frees, motors
<1>3. CASE (\E m \in Motor : Arrives(m) \/ Ends(m) \/ Aborts(m)) \/ UNCHANGED vars
  BY <1>3 DEF Arrives, Ends, Aborts, Frees, vars, motors
<1> QED
  BY <1>1, <1>2, <1>3 DEF Next

(* Only the gate goes there.                                                 *)
LEMMA ToQuiet ==
  ASSUME TickType, tick.pc # "quiet", tick'.pc = "quiet", [Next]_vars
  PROVE  Gate
<1>1. ~UNCHANGED tick
  OBVIOUS
<1>2. TickStep
  BY <1>1
     DEF Next, CommandStep, Arm, Disarm, EnterSafe, ExitSafe, ForceStop, ShutdownSafe,
         ChangesMode, StopAllSequences, StepperStop, Enable, Disable, AcknowledgeStepLoss,
         StopNextMotor, CheckZero, SetPositionZero, MarkZeroed, CheckMove, Move, Load, Clear,
         CheckRun, ClearAll, Run, Pause, CheckResume, Resume, StopSequence, Changes, Arrives,
         Ends, Aborts, Still, vars
<1>3. ~(TickFallbackPlan \/ ApplyLandedSafing)
  BY DEF TickFallbackPlan, ApplyLandedSafing, Goto, TickType
<1>4. ~LockSequences
  BY DEF LockSequences, TickType
<1>5. ~NextMotor
  BY DEF NextMotor, TickType
<1>6. ~(LookAtSequence \/ StartStep)
  BY <1>5 DEF LookAtSequence, StartStep, Goto, TickType
<1>7. ~PauseOnFault
  BY DEF PauseOnFault, Goto, TickType
<1>8. ~StopNonSequenceMotionOnFallback
  BY DEF StopNonSequenceMotionOnFallback, At
<1> QED
  BY <1>2, <1>3, <1>4, <1>6, <1>7, <1>8 DEF TickStep

LEMMA QuietStep == Inv /\ QuietOK /\ [Next]_vars => QuietOK'
<1> SUFFICES ASSUME Inv, QuietOK, [Next]_vars, tick'.pc = "quiet",
                    NEW m \in tick'.quiet \cap driven'
             PROVE  ~(seq'[m].running /\ ~seq'[m].paused)
  BY DEF QuietOK, Active
<1>1. TickType
  BY DEF Inv
<1>2. CASE tick.pc = "quiet"
  <2>1. driven' \subseteq driven
    BY <1>2, QuietDrivenShrinks DEF At
  <2>2. tick'.quiet \subseteq tick.quiet
    <3>1. CASE StopNonSequenceMotionOnFallback
      BY <1>1, <3>1 DEF StopNonSequenceMotionOnFallback, TickType, Goto
    <3>2. CASE ~StopNonSequenceMotionOnFallback
      <4>1. UNCHANGED tick
        BY <1>2, <3>2
           DEF Next, TickStep, Gate, TickFallbackPlan, ApplyLandedSafing, LockSequences,
               LookAtSequence, StartStep, PauseOnFault, At, CommandStep, Arm, Disarm, EnterSafe,
               ExitSafe, ForceStop, ShutdownSafe, ChangesMode, StopAllSequences, StepperStop,
               Enable, Disable, AcknowledgeStepLoss, StopNextMotor, CheckZero, SetPositionZero,
               MarkZeroed, CheckMove, Move, Load, Clear, CheckRun, ClearAll, Run, Pause,
               CheckResume, Resume, StopSequence, Changes, Arrives, Ends, Aborts, Still, vars
      <4> QED
        BY <4>1
    <3> QED
      BY <3>1, <3>2
  <2>3. m \in driven /\ ~Active(m)
    BY <1>2, <2>1, <2>2 DEF QuietOK
  <2>4. cmd.op \in {"stop", "off", "disable"}
    BY <2>3 DEF Inv, MotionHasSequence
  <2> QED
    BY <1>2, <2>3, <2>4, StoppingKeepsSeq DEF At, Active
<1>3. CASE tick.pc # "quiet"
  <2>1. Gate
    BY <1>1, <1>3, ToQuiet
  <2>2. tick'.quiet \subseteq {k \in Motor : ~seq[k].running} /\ UNCHANGED seq
    BY <1>1, <2>1 DEF Gate, TickType
  <2> QED
    BY <2>2
<1> QED
  BY <1>2, <1>3

(* What the loss of the link stops is nothing that a sequence moves.         *)
THEOREM SparesSafe == Spec => FallbackSpares
<1>1. Init => QuietOK
  BY DEF Init, QuietOK
<1>2. Inv /\ QuietOK /\ StopNonSequenceMotionOnFallback =>
        \A m \in driven : Active(m) => m \in busy'
  <2> SUFFICES ASSUME Inv, QuietOK, StopNonSequenceMotionOnFallback,
                      NEW m \in driven, Active(m)
               PROVE  m \in busy'
    OBVIOUS
  <2>1. m \in busy /\ m \notin tick.quiet
    BY DEF Inv, MotorsType, QuietOK, StopNonSequenceMotionOnFallback, At
  <2> QED
    BY <2>1 DEF StopNonSequenceMotionOnFallback, First, Stops, StopsAll, Frees, motors
<1>3. Inv /\ QuietOK /\ [Next]_vars =>
        [StopNonSequenceMotionOnFallback =>
           \A m \in driven : Active(m) => m \in busy']_vars
  BY <1>2
<1> QED
  BY <1>1, <1>3, InvHolds, QuietStep, PTL DEF Spec, FallbackSpares
-----------------------------------------------------------------------------
(* The steps of a sequence in their order, none left out and none begun      *)
(* before the one ahead of it is over: while a sequence runs, paused and     *)
(* resumed as often as may be, its definition stays what it was and its      *)
(* step index moves by one at most, and only with the motor at rest at the   *)
(* target of the step that was queued (TickBendSequences, BENDSEQ_*,         *)
(* BendSequenceManager).                                                     *)
Ordered(m) ==
  seq[m].running /\ seq'[m].running =>
    /\ seq'[m].active_name = seq[m].active_name /\ Steps(seq'[m]) = Steps(seq[m])
    /\ \/ seq'[m].step_index = seq[m].step_index
       \/ /\ seq'[m].step_index = seq[m].step_index + 1
          /\ Active(m) /\ seq[m].step_queued /\ m \notin busy
          /\ motor[m].position = Steps(seq[m])[seq[m].step_index].target
StepsInOrder == [][\A m \in Motor : Ordered(m)]_seq

(* What a step may make of a runtime without moving it on.                   *)
Stays(r, s) ==
  r.running /\ s.running =>
    /\ s.active_name = r.active_name /\ Steps(s) = Steps(r)
    /\ s.step_index = r.step_index

LEMMA StaysOrdered ==
  ASSUME NEW m, Stays(seq[m], seq'[m])
  PROVE  Ordered(m)
BY DEF Stays, Ordered

LEMMA OneStays ==
  ASSUME SeqType, NEW m \in Motor, NEW r, seq' = [seq EXCEPT ![m] = r], Stays(seq[m], r)
  PROVE  \A k \in Motor : Ordered(k)
<1> SUFFICES ASSUME NEW k \in Motor PROVE Stays(seq[k], seq'[k])
  BY StaysOrdered
<1>1. CASE k = m
  BY <1>1 DEF SeqType
<1>2. CASE k # m
  <2>1. seq'[k] = seq[k]
    BY <1>2 DEF SeqType
  <2> QED
    BY <2>1 DEF Stays
<1> QED
  BY <1>1, <1>2

LEMMA SameOrdered ==
  ASSUME UNCHANGED seq
  PROVE  \A k \in Motor : Ordered(k)
BY DEF Ordered, Steps

(* What the runtimes become.                                                 *)
LEMMA StaysParts ==
  ASSUME NEW r \in Runtime
  PROVE  /\ Stays(r, Faulted(r)) /\ Stays(r, Cleared(r)) /\ Stays(r, Over(r))
         /\ Stays(r, [r EXCEPT !.running = FALSE, !.paused = TRUE])
         /\ Stays(r, [r EXCEPT !.paused = FALSE, !.step_queued = FALSE])
         /\ \A b \in BOOLEAN : /\ Stays(r, [r EXCEPT !.step_queued = b])
                              /\ Stays(r, [r EXCEPT !.paused = b])
<1>1. Stays(r, Faulted(r))
  BY FaultedParts DEF Stays, Steps
<1>2. ~Cleared(r).running /\ ~Over(r).running
  BY DEF Runtime, Cleared, Over
<1>3. Stays(r, [r EXCEPT !.running = FALSE, !.paused = TRUE])
  BY DEF Runtime, Stays
<1>4. Stays(r, [r EXCEPT !.paused = FALSE, !.step_queued = FALSE])
  BY DEF Runtime, Stays, Steps
<1>5. ASSUME NEW b \in BOOLEAN PROVE Stays(r, [r EXCEPT !.step_queued = b])
  BY DEF Runtime, Stays, Steps
<1>6. ASSUME NEW b \in BOOLEAN PROVE Stays(r, [r EXCEPT !.paused = b])
  BY DEF Runtime, Stays, Steps
<1> QED
  BY <1>1, <1>2, <1>3, <1>4, <1>5, <1>6 DEF Stays

LEMMA LookOrdered ==
  ASSUME Inv, LookAtSequence
  PROVE  \A k \in Motor : Ordered(k)
<1> DEFINE m == tick.motor
           r == seq[m]
           next == [r EXCEPT !.step_index = r.step_index + 1, !.step_queued = FALSE]
<1>1. /\ m \in Motor /\ r \in Runtime /\ SeqType
  BY DEF LookAtSequence, Inv, TickOK, SeqType, At
<1>2. \/ UNCHANGED seq
      \/ seq' = [seq EXCEPT ![m] = [r EXCEPT !.running = FALSE, !.paused = TRUE]]
      \/ seq' = [seq EXCEPT ![m] = Faulted(r)]
      \/ seq' = [seq EXCEPT ![m] = Over(next)]
      \/ /\ ~Waits(m) /\ r.step_queued
         /\ motor[m].position = Steps(r)[r.step_index].target
         /\ seq' = [seq EXCEPT ![m] = next]
  BY DEF LookAtSequence
<1>3. CASE UNCHANGED seq
  BY <1>3, SameOrdered
<1>4. CASE seq' = [seq EXCEPT ![m] = [r EXCEPT !.running = FALSE, !.paused = TRUE]]
  <2>1. Stays(r, [r EXCEPT !.running = FALSE, !.paused = TRUE])
    BY <1>1, StaysParts
  <2> QED
    BY <1>1, <1>4, <2>1, OneStays
<1>5. CASE seq' = [seq EXCEPT ![m] = Faulted(r)]
  <2>1. Stays(r, Faulted(r))
    BY <1>1, StaysParts
  <2> QED
    BY <1>1, <1>5, <2>1, OneStays
<1>6. CASE seq' = [seq EXCEPT ![m] = Over(next)]
  <2>1. next \in Runtime
    BY <1>1, RuntimeParts
  <2> HIDE DEF next
  <2>2. ~Over(next).running
    BY <2>1 DEF Runtime, Over
  <2>3. Stays(r, Over(next))
    BY <2>2 DEF Stays
  <2> QED
    BY <1>1, <1>6, <2>3, OneStays
<1>7. CASE /\ ~Waits(m) /\ r.step_queued
           /\ motor[m].position = Steps(r)[r.step_index].target
           /\ seq' = [seq EXCEPT ![m] = next]
  <2>1. /\ next.running = r.running /\ next.active_name = r.active_name
        /\ next.definitions = r.definitions /\ next.step_index = r.step_index + 1
    BY <1>1 DEF Runtime
  <2> HIDE DEF next
  <2>2. seq'[m] = next /\ \A k \in Motor \ {m} : seq'[k] = seq[k]
    BY <1>1, <1>7 DEF SeqType
  <2>3. Steps(next) = Steps(r)
    BY <2>1 DEF Steps
  <2>4. Active(m) /\ m \notin busy
    BY <1>7 DEF Waits
  <2>5. Ordered(m)
    BY <1>7, <2>1, <2>2, <2>3, <2>4 DEF Ordered
  <2>6. \A k \in Motor \ {m} : Ordered(k)
    BY <2>2 DEF Ordered, Steps
  <2> QED
    BY <2>5, <2>6
<1> QED
  BY <1>2, <1>3, <1>4, <1>5, <1>6, <1>7

LEMMA TickOrdered ==
  ASSUME Inv, TickStep
  PROVE  \A k \in Motor : Ordered(k)
<1>1. CASE \/ Gate \/ StopNonSequenceMotionOnFallback \/ TickFallbackPlan \/ ApplyLandedSafing
           \/ LockSequences
  <2>1. UNCHANGED seq
    BY <1>1 DEF Gate, StopNonSequenceMotionOnFallback, TickFallbackPlan, ApplyLandedSafing,
                LockSequences
  <2> QED
    BY <2>1, SameOrdered
<1>2. CASE LookAtSequence
  BY <1>2, LookOrdered
<1>3. CASE StartStep
  <2> DEFINE m == tick.motor
             r == seq[m]
             t == TRUE
             b == ~motor[m].enabled
  <2>1. m \in Motor /\ SeqType /\ r \in Runtime
    BY <1>3 DEF StartStep, Inv, TickOK, SeqType, At
  <2>2. t \in BOOLEAN /\ b \in BOOLEAN
    OBVIOUS
  <2>3. \/ seq' = [seq EXCEPT ![m] = [r EXCEPT !.step_queued = t]]
        \/ seq' = [seq EXCEPT ![m] = [r EXCEPT !.paused = b]]
    BY <1>3 DEF StartStep
  <2> HIDE DEF t, b
  <2>4. Stays(r, [r EXCEPT !.step_queued = t]) /\ Stays(r, [r EXCEPT !.paused = b])
    BY <2>1, <2>2, StaysParts
  <2> QED
    BY <2>1, <2>3, <2>4, OneStays
<1>4. CASE PauseOnFault
  <2>1. \A k \in Motor : seq'[k] \in {seq[k], Faulted(seq[k])}
    BY <1>4 DEF PauseOnFault, Inv, SeqType
  <2>2. \A k \in Motor : Stays(seq[k], seq[k]) /\ Stays(seq[k], Faulted(seq[k]))
    BY StaysParts DEF Stays, Inv, SeqType
  <2> QED
    BY <2>1, <2>2, StaysOrdered
<1> QED
  BY <1>1, <1>2, <1>3, <1>4 DEF TickStep

LEMMA ClearsOrdered ==
  ASSUME Inv, ClearsAll
  PROVE  \A k \in Motor : Ordered(k)
<1>1. \A k \in Motor : seq'[k] = Cleared(seq[k]) /\ Stays(seq[k], Cleared(seq[k]))
  BY StaysParts DEF ClearsAll, Inv, SeqType
<1> QED
  BY <1>1, StaysOrdered

LEMMA LoadOrdered ==
  ASSUME Inv, NEW m \in Motor, NEW n \in Name,
         (\E d \in Definition : Load(m, n, d)) \/ Clear(m, n)
  PROVE  \A k \in Motor : Ordered(k)
<1>1. PICK e \in Definition \cup {NoDefinition} :
        seq' = [seq EXCEPT ![m] = [seq[m] EXCEPT !.definitions[n] = e]]
  BY DEF Load, Clear, Changes
<1> DEFINE after == [seq[m] EXCEPT !.definitions[n] = e]
<1>2. SeqType /\ ~InUse(m, n) /\ seq[m] \in Runtime
  BY DEF Load, Clear, Inv, SeqType
<1>3. /\ after.running = seq[m].running /\ after.step_index = seq[m].step_index
      /\ after.active_name = seq[m].active_name
      /\ after.definitions = [seq[m].definitions EXCEPT ![n] = e]
  BY <1>2 DEF Runtime
<1>4. seq[m].running => seq[m].active_name \in Name
  BY DEF Inv, RunOK
<1>5. seq[m].running => Steps(after) = Steps(seq[m])
  BY <1>2, <1>3, <1>4 DEF Steps, InUse, Runtime
<1> HIDE DEF after
<1>6. Stays(seq[m], after)
  BY <1>3, <1>5 DEF Stays
<1>7. seq' = [seq EXCEPT ![m] = after]
  BY <1>1 DEF after
<1> QED
  BY <1>2, <1>6, <1>7, OneStays

LEMMA ChangeOrdered ==
  ASSUME Inv, NEW m \in Motor,
         ClearAll(m) \/ Run(m) \/ Pause(m) \/ Resume(m) \/ StopSequence(m)
  PROVE  \A k \in Motor : Ordered(k)
<1>1. SeqType /\ seq[m] \in Runtime /\ Stays(seq[m], seq[m])
  BY DEF Inv, SeqType, Stays
<1>2. CASE ClearAll(m) \/ (Run(m) /\ ~seq[m].running)
  <2>1. PICK r : seq' = [seq EXCEPT ![m] = r] /\ ~seq[m].running
    BY <1>2 DEF ClearAll, Run, Changes
  <2>2. Stays(seq[m], r)
    BY <2>1 DEF Stays
  <2> QED
    BY <1>1, <2>1, <2>2, OneStays
<1>3. CASE Run(m) /\ seq[m].running
  <2>1. seq' = [seq EXCEPT ![m] = seq[m]]
    BY <1>3 DEF Run, Changes
  <2> QED
    BY <1>1, <2>1, OneStays
<1>4. CASE Pause(m)
  <2>1. seq' = [seq EXCEPT ![m] = Faulted(seq[m])] /\ Stays(seq[m], Faulted(seq[m]))
    BY <1>1, <1>4, StaysParts DEF Pause, Changes
  <2> QED
    BY <1>1, <2>1, OneStays
<1>5. CASE Resume(m)
  <2> DEFINE resumed == [seq[m] EXCEPT !.paused = FALSE, !.step_queued = FALSE]
  <2>1. seq' = [seq EXCEPT ![m] = resumed] \/ seq' = [seq EXCEPT ![m] = seq[m]]
    BY <1>5 DEF Resume, Changes
  <2>2. Stays(seq[m], resumed)
    BY <1>1, StaysParts
  <2> HIDE DEF resumed
  <2> QED
    BY <1>1, <2>1, <2>2, OneStays
<1>6. CASE StopSequence(m)
  <2>1. seq' = [seq EXCEPT ![m] = Cleared(seq[m])] /\ Stays(seq[m], Cleared(seq[m]))
    BY <1>1, <1>6, StaysParts DEF StopSequence, Changes
  <2> QED
    BY <1>1, <2>1, OneStays
<1> QED
  BY <1>2, <1>3, <1>4, <1>5, <1>6

LEMMA CommandOrdered ==
  ASSUME Inv, CommandStep
  PROVE  \A k \in Motor : Ordered(k)
<1>1. CASE Arm \/ Disarm \/ EnterSafe \/ ExitSafe \/ StopNextMotor
  <2>1. UNCHANGED seq
    BY <1>1 DEF Arm, Disarm, EnterSafe, ExitSafe, ChangesMode, StopNextMotor
  <2> QED
    BY <2>1, SameOrdered
<1>2. CASE ForceStop \/ ShutdownSafe \/ StopAllSequences
  BY <1>2, ClearsOrdered DEF ForceStop, ShutdownSafe, StopAllSequences
<1>3. ASSUME NEW m \in Motor,
             \/ StepperStop(m) \/ Enable(m) \/ Disable(m) \/ AcknowledgeStepLoss(m)
             \/ CheckZero(m) \/ SetPositionZero(m) \/ MarkZeroed(m)
             \/ CheckMove(m) \/ Move(m) \/ CheckResume(m)
             \/ \E n \in Name : CheckRun(m, n)
      PROVE  \A k \in Motor : Ordered(k)
  <2>1. UNCHANGED seq
    BY <1>3 DEF StepperStop, Enable, Disable, AcknowledgeStepLoss, CheckZero, SetPositionZero,
                MarkZeroed, CheckMove, Move, CheckResume, CheckRun
  <2> QED
    BY <2>1, SameOrdered
<1> QED
  BY <1>1, <1>2, <1>3, LoadOrdered, ChangeOrdered DEF CommandStep

LEMMA StepOrdered ==
  ASSUME Inv, [Next]_vars
  PROVE  \A k \in Motor : Ordered(k)
<1>1. CASE TickStep
  BY <1>1, TickOrdered
<1>2. CASE CommandStep
  BY <1>2, CommandOrdered
<1>3. CASE (\E m \in Motor : Arrives(m) \/ Ends(m) \/ Aborts(m)) \/ UNCHANGED vars
  <2>1. UNCHANGED seq
    BY <1>3 DEF Arrives, Ends, Aborts, Still, vars
  <2> QED
    BY <2>1, SameOrdered
<1> QED
  BY <1>1, <1>2, <1>3 DEF Next

(* However it is paused, resumed, loaded beside or interrupted, a sequence   *)
(* that keeps running goes through the steps it was started with in order    *)
(* (TickBendSequences).                                                      *)
THEOREM OrderSafe == Spec => StepsInOrder
<1>1. Inv /\ [Next]_vars => [\A m \in Motor : Ordered(m)]_seq
  BY StepOrdered
<1> QED
  BY <1>1, InvHolds, PTL DEF Spec, StepsInOrder
=============================================================================
