------------------------- MODULE StepperMotionProofs -------------------------
(***************************************************************************)
(* The two specifications of the motors, for every value of their          *)
(* constants.                                                              *)
(*                                                                         *)
(* StepperMotion, for any set of motors, any travel, any divisors: the lock*)
(* discipline is inductive, so only one motor is ever in motion, and the   *)
(* motion layer implements MotionInterlock; a coast is latched, and a pull *)
(* goes back to home.                                                      *)
(*                                                                         *)
(* MotorSupervision, for any intervals, currents and stall mode: what every*)
(* call of the driver keeps of its chip, whatever access fails in it, is   *)
(* kept by the channel and its commands too, so healthy_ is true of the    *)
(* chip, a slip is remembered, and it is found in time.                    *)
(***************************************************************************)
EXTENDS StepperMotion, MotorSupervision, TLAPS

(* A channel that is not idle believes it holds the lock.  With LockAgrees   *)
(* it does, which is OneMotor.                                               *)
MotionHasLock == \A m \in Motor : ch[m].mode # "Idle" => ch[m].lock_held

Inv == TypeOK /\ LockAgrees /\ MotionHasLock

(* What a step that is not one of a pull's leaves of the command thread.     *)
QuietCommand ==
  /\ cmd' \in {NoCommand} \cup ({"zero", "check", "arm"} \X Motor)
  /\ \A m \in Motor : cmd' = <<"arm", m>> <=> cmd = <<"arm", m>>
  /\ commands' \in 0 .. MaxCommands

-----------------------------------------------------------------------------
(* An operation that leaves the lock alone keeps the invariant, unless it    *)
(* starts a motion without it.                                               *)
LEMMA KeepInv ==
  ASSUME Inv, QuietCommand, NEW m \in Motor, NEW c \in Channel, Keep(m, c),
         c.lock_held = ch[m].lock_held, c.mode # "Idle" => c.lock_held
  PROVE  Inv'
BY DEF Inv, TypeOK, LockAgrees, MotionHasLock, QuietCommand, Keep

(* AcquireLockForMotion keeps it, whatever motion follows.                   *)
LEMMA BeginInv ==
  ASSUME Inv, QuietCommand, NEW m \in Motor, NEW c \in Channel, Begin(m, c)
  PROVE  Inv'
<1> DEFINE d == [c EXCEPT !.lock_held = TRUE]
<1>1. d \in Channel /\ d.lock_held
  BY DEF Channel
<1>2. ch' = [ch EXCEPT ![m] = d]
  BY DEF Begin
<1> HIDE DEF d
<1>3. holder' = m /\ (holder = m \/ holder = NoMotor)
  BY DEF Begin, Inv, LockAgrees
<1>4. ~(cmd = <<"arm", m>>)
  BY MotionAssumption DEF Begin, Inv, LockAgrees
<1>5. TypeOK'
  BY <1>1, <1>2, <1>3 DEF Inv, TypeOK, QuietCommand
<1>6. LockAgrees'
  BY <1>1, <1>2, <1>3, <1>4, MotionAssumption
  DEF Inv, TypeOK, LockAgrees, QuietCommand
<1>7. MotionHasLock'
  BY <1>1, <1>2 DEF Inv, TypeOK, MotionHasLock
<1> QED
  BY <1>5, <1>6, <1>7 DEF Inv

(* ReleaseLockIfHeld keeps it when the channel is left idle.                 *)
LEMMA EndInv ==
  ASSUME Inv, QuietCommand, NEW m \in Motor, NEW c \in Channel, End(m, c),
         c.mode = "Idle"
  PROVE  Inv'
<1> DEFINE d == [c EXCEPT !.lock_held = FALSE]
<1>1. d \in Channel /\ ~d.lock_held /\ d.mode = "Idle"
  BY DEF Channel
<1>2. ch' = [ch EXCEPT ![m] = d]
  BY DEF End
<1> HIDE DEF d
<1>3. holder' = IF ch[m].lock_held THEN NoMotor ELSE holder
  BY DEF End, Inv, LockAgrees
<1>5. TypeOK'
  BY <1>1, <1>2, <1>3 DEF Inv, TypeOK, QuietCommand
<1>6. LockAgrees'
  BY <1>1, <1>2, <1>3, MotionAssumption
  DEF Inv, TypeOK, LockAgrees, QuietCommand
<1>7. MotionHasLock'
  BY <1>1, <1>2 DEF Inv, TypeOK, MotionHasLock
<1> QED
  BY <1>5, <1>6, <1>7 DEF Inv

-----------------------------------------------------------------------------
(* The records the operations write are channels.                            *)
LEMMA RescaleInt ==
  ASSUME NEW x \in Int, NEW new \in Nat \ {0}, NEW old \in Nat \ {0}
  PROVE  Rescale(x, new, old) \in Int
<1>1. Magnitude(x) \in Nat
  BY DEF Magnitude
<1>2. 2 * Magnitude(x) * new + old \in Int
  BY <1>1
<1>3. 2 * old \in Nat \ {0}
  OBVIOUS
<1>4. (2 * Magnitude(x) * new + old) \div (2 * old) \in Int
  BY <1>2, <1>3
<1> QED
  BY <1>4 DEF Rescale

LEMMA AtRestChannel ==
  ASSUME NEW c \in Channel
  PROVE  /\ AtRest(c) \in Channel
         /\ AtRest(c).mode = "Idle"
         /\ AtRest(c).position_uncertain = c.position_uncertain
BY DEF AtRest, Channel, Mode

LEMMA PlacedChannel ==
  ASSUME NEW c \in Channel, NEW x \in Int, NEW u \in BOOLEAN
  PROVE  [c EXCEPT !.position = x, !.position_uncertain = u] \in Channel
BY DEF Channel

LEMMA LossChannel ==
  ASSUME NEW c \in Channel, NEW d \in Loss(c)
  PROVE  /\ d \in Channel
         /\ d.lock_held = c.lock_held /\ d.mode = c.mode
         /\ d.enabled = c.enabled
BY DEF Loss, Channel

LEMMA ProbedChannel ==
  ASSUME NEW c \in Channel, NEW d \in Probed(c)
  PROVE  /\ d \in Channel
         /\ d.lock_held = c.lock_held /\ d.mode = c.mode
         /\ Turning(c) => d = c
<1>1. CASE c.mode = "Idle"
  <2>1. PICK e \in {c.enabled, FALSE} : d \in Loss([c EXCEPT !.enabled = e])
    BY <1>1 DEF Probed
  <2>2. /\ [c EXCEPT !.enabled = e] \in Channel
        /\ [c EXCEPT !.enabled = e].lock_held = c.lock_held
        /\ [c EXCEPT !.enabled = e].mode = c.mode
    BY DEF Channel
  <2> QED
    BY <1>1, <2>1, <2>2, LossChannel DEF Turning
<1>2. CASE c.mode = "Holding" /\ c.enabled
  BY <1>2, LossChannel DEF Probed, Turning
<1>3. CASE c.mode # "Idle" /\ ~(c.mode = "Holding" /\ c.enabled)
  BY <1>3 DEF Probed, Turning
<1> QED
  BY <1>1, <1>2, <1>3

LEMMA RatedChannel ==
  ASSUME NEW m \in Motor, ch[m] \in Channel, NEW x \in Nat,
         SetSpeed(m, x) \/ SetAccel(m, x)
  PROVE  \E c \in Channel :
           /\ Keep(m, c)
           /\ c.lock_held = ch[m].lock_held /\ c.mode = ch[m].mode
           /\ c.enabled = ch[m].enabled /\ c.target = ch[m].target
           /\ c.retract_target = ch[m].retract_target
           /\ c.retract_after_hold = ch[m].retract_after_hold
<1>1. [ch[m] EXCEPT !.step_hz = x] \in Channel /\ [ch[m] EXCEPT !.accel = x] \in Channel
  BY DEF Channel
<1>2. CASE SetSpeed(m, x)
  <2>1. Keep(m, [ch[m] EXCEPT !.step_hz = x])
    BY <1>2 DEF SetSpeed
  <2> USE <1>1
  <2> WITNESS [ch[m] EXCEPT !.step_hz = x] \in Channel
  <2> QED
    BY <2>1 DEF Channel
<1>3. CASE SetAccel(m, x)
  <2>1. Keep(m, [ch[m] EXCEPT !.accel = x])
    BY <1>3 DEF SetAccel
  <2> USE <1>1
  <2> WITNESS [ch[m] EXCEPT !.accel = x] \in Channel
  <2> QED
    BY <2>1 DEF Channel
<1> QED
  BY <1>2, <1>3

LEMMA AimedChannel ==
  ASSUME NEW c \in Channel, NEW t \in Int, NEW hold \in BOOLEAN, NEW back \in Int
  PROVE  /\ Aimed(c, t, hold, back) \in Channel
         /\ Aimed(c, t, hold, back).lock_held = c.lock_held
         /\ Aimed(c, t, hold, back).enabled = c.enabled
BY DEF Aimed, Channel, Mode

-----------------------------------------------------------------------------
(* One lemma per kind of operation.  A command that starts a motion takes    *)
(* the lock or leaves the channel idle.                                      *)
LEMMA CommandQuiet ==
  ASSUME Inv, UNCHANGED cmd, Counted \/ UNCHANGED commands
  PROVE  QuietCommand
BY MotionAssumption DEF QuietCommand, Inv, TypeOK, Counted

LEMMA AimInv ==
  ASSUME Inv, QuietCommand, NEW m \in Motor, NEW t \in Int, NEW hold \in BOOLEAN,
         NEW back \in Int, Aim(m, Aimed(ch[m], t, hold, back))
  PROVE  Inv'
<1> DEFINE c == Aimed(ch[m], t, hold, back)
<1>1. ch[m] \in Channel
  BY DEF Inv, TypeOK
<1>2. c \in Channel /\ c.lock_held = ch[m].lock_held
  BY <1>1, AimedChannel
<1>3. IF c.mode # "Idle" THEN Begin(m, c) ELSE Keep(m, c)
  BY DEF Aim
<1> HIDE DEF c
<1> QED
  BY <1>2, <1>3, BeginInv, KeepInv

LEMMA StartInv ==
  ASSUME Inv, NEW m \in Motor,
         (\E d \in Delta : MoveSteps(m, d))
         \/ (\E t \in -MaxPosition .. MaxPosition, hold \in BOOLEAN :
               MoveToSteps(m, t, hold))
         \/ Home(m)
  PROVE  Inv'
<1>1. ch[m].position \in Int /\ ch[m].target \in Int
  BY DEF Inv, TypeOK, Channel
<1>2. QuietCommand
  BY CommandQuiet DEF MoveSteps, MoveToSteps, Home, Operator
<1>3. ASSUME NEW d \in Delta, MoveSteps(m, d)
      PROVE  Inv'
  <2>1. ch[m].target + d \in Int
    BY <1>1, MotionAssumption
  <2> QED
    BY <1>1, <1>2, <1>3, <2>1, AimInv DEF MoveSteps
<1>4. ASSUME NEW t \in -MaxPosition .. MaxPosition, NEW hold \in BOOLEAN,
             MoveToSteps(m, t, hold)
      PROVE  Inv'
  <2>1. t \in Int
    BY MotionAssumption
  <2> QED
    BY <1>1, <1>2, <1>4, <2>1, AimInv DEF MoveToSteps
<1>5. ASSUME Home(m)
      PROVE  Inv'
  <2>1. 0 \in Int /\ FALSE \in BOOLEAN
    OBVIOUS
  <2>2. Aim(m, Aimed(ch[m], 0, FALSE, 0))
    BY <1>5 DEF Home
  <2> QED
    BY <1>2, <2>1, <2>2, AimInv
<1> QED
  BY <1>3, <1>4, <1>5

(* An operation that ends the motion, wherever the channel was.              *)
LEMMA StopInv ==
  ASSUME Inv, NEW m \in Motor,
         Stop(m) \/ SetPositionZero(m) \/ Disable(m)
  PROVE  Inv'
<1>1. ch[m] \in Channel
  BY DEF Inv, TypeOK
<1>2. ASSUME Stop(m)
      PROVE  Inv'
  <2>1. QuietCommand
    BY <1>2, CommandQuiet DEF Stop
  <2> QED
    BY <1>1, <1>2, <2>1, AtRestChannel, EndInv DEF Stop
<1>3. ASSUME SetPositionZero(m)
      PROVE  Inv'
  <2> DEFINE c == [ch[m] EXCEPT !.position = 0, !.position_uncertain = FALSE]
  <2>1. c \in Channel
    <3>1. 0 \in Int /\ FALSE \in BOOLEAN
      OBVIOUS
    <3> QED
      BY <1>1, <3>1, PlacedChannel
  <2>2. End(m, AtRest(c))
    BY <1>3 DEF SetPositionZero
  <2> HIDE DEF c
  <2>3. QuietCommand
    BY <1>3 DEF SetPositionZero, QuietCommand, NoCommand, Inv, TypeOK
  <2> QED
    BY <2>1, <2>2, <2>3, AtRestChannel, EndInv
<1>4. ASSUME Disable(m)
      PROVE  Inv'
  <2> DEFINE c == [ch[m] EXCEPT !.enabled = FALSE, !.mode = "Idle",
                     !.position_uncertain = @ \/ Turning(ch[m])]
  <2>1. c \in Channel /\ c.mode = "Idle"
    BY <1>1 DEF Channel, Mode
  <2>2. End(m, c)
    BY <1>4 DEF Disable
  <2> HIDE DEF c
  <2>3. QuietCommand
    BY <1>4, CommandQuiet DEF Disable
  <2> QED
    BY <2>1, <2>2, <2>3, EndInv
<1> QED
  BY <1>2, <1>3, <1>4

(* An operation that touches neither the motion nor the lock.                *)
LEMMA TuneInv ==
  ASSUME Inv, NEW m \in Motor,
         CheckZero(m) \/ AcknowledgeStepLoss(m) \/ Enable(m) \/ CheckPull(m)
         \/ (\E d \in Divisor : SetMicrostep(m, d))
         \/ (\E hz \in 1 .. MaxHz : SetSpeed(m, hz))
         \/ (\E a \in 1 .. MaxAccel : SetAccel(m, a))
  PROVE  Inv'
<1>1. ch[m] \in Channel
  BY DEF Inv, TypeOK
<1>2. ASSUME CheckZero(m) \/ CheckPull(m)
      PROVE  Inv'
  BY <1>2, MotionAssumption DEF CheckZero, CheckPull, NoCommand, Counted, Inv, TypeOK,
     LockAgrees, MotionHasLock
<1>3. ASSUME AcknowledgeStepLoss(m)
      PROVE  Inv'
  <2> DEFINE c == [ch[m] EXCEPT !.position_uncertain = FALSE]
  <2>1. /\ c \in Channel
        /\ c.lock_held = ch[m].lock_held /\ c.mode = ch[m].mode
    BY <1>1 DEF Channel
  <2>2. Keep(m, c) /\ QuietCommand
    BY <1>3, CommandQuiet DEF AcknowledgeStepLoss, Operator
  <2> HIDE DEF c
  <2> QED
    BY <2>1, <2>2, KeepInv DEF Inv, MotionHasLock
<1>4. ASSUME Enable(m)
      PROVE  Inv'
  <2> DEFINE c == [ch[m] EXCEPT !.enabled = TRUE]
  <2>1. /\ c \in Channel
        /\ c.lock_held = ch[m].lock_held /\ c.mode = ch[m].mode
    BY <1>1 DEF Channel
  <2>2. Keep(m, c) /\ QuietCommand
    BY <1>4, CommandQuiet DEF Enable, Operator
  <2> HIDE DEF c
  <2> QED
    BY <2>1, <2>2, KeepInv DEF Inv, MotionHasLock
<1>5. ASSUME NEW d \in Divisor, SetMicrostep(m, d)
      PROVE  Inv'
  <2> DEFINE old == ch[m].microstep
             c == [ch[m] EXCEPT !.microstep = d,
                     !.position = Rescale(ch[m].position, d, old),
                     !.target = Rescale(ch[m].target, d, old),
                     !.retract_target = Rescale(ch[m].retract_target, d, old)]
  <2>1. /\ d \in Nat \ {0} /\ old \in Nat \ {0}
        /\ ch[m].position \in Int /\ ch[m].target \in Int
        /\ ch[m].retract_target \in Int
    BY <1>1, MotionAssumption DEF Channel
  <2>2. /\ Rescale(ch[m].position, d, old) \in Int
        /\ Rescale(ch[m].target, d, old) \in Int
        /\ Rescale(ch[m].retract_target, d, old) \in Int
    BY <2>1, RescaleInt
  <2>3. /\ c \in Channel
        /\ c.lock_held = ch[m].lock_held /\ c.mode = ch[m].mode
    BY <1>1, <2>1, <2>2 DEF Channel
  <2>4. Keep(m, c) /\ QuietCommand
    BY <1>5, CommandQuiet DEF SetMicrostep, Operator
  <2> HIDE DEF c
  <2> QED
    BY <2>3, <2>4, KeepInv DEF Inv, MotionHasLock
<1>6. ASSUME NEW x \in Nat,
             SetSpeed(m, x) \/ SetAccel(m, x)
      PROVE  Inv'
  <2>1. PICK c \in Channel :
          Keep(m, c) /\ c.lock_held = ch[m].lock_held /\ c.mode = ch[m].mode
    BY <1>1, <1>6, RatedChannel
  <2>3. QuietCommand
    BY <1>6, CommandQuiet DEF SetSpeed, SetAccel, Operator
  <2> QED
    BY <2>1, <2>3, KeepInv DEF Inv, MotionHasLock
<1>7. 1 .. MaxHz \subseteq Nat /\ 1 .. MaxAccel \subseteq Nat
  BY MotionAssumption
<1> QED
  BY <1>2, <1>3, <1>4, <1>5, <1>6, <1>7

(* A pull being armed: the lock belongs to the command between its second    *)
(* and its third step, then to the channel.                                  *)
LEMMA ArmedChannel ==
  ASSUME NEW c \in Channel, NEW r \in Int
  PROVE  LET d == [c EXCEPT !.lock_held = TRUE, !.retract_target = r,
                            !.retract_after_hold = TRUE]
         IN  d \in Channel /\ d.lock_held = TRUE /\ d.mode = c.mode
BY DEF Channel

LEMMA PullingChannel ==
  ASSUME NEW c \in Channel, NEW x \in Int, NEW h \in BOOLEAN, NEW mode \in Mode,
         NEW hz \in Nat,
         NEW d, d = [c EXCEPT !.target = x, !.hold = h, !.step_hz = hz, !.mode = mode]
  PROVE  d \in Channel /\ d.lock_held = c.lock_held
BY DEF Channel

LEMMA PullInv ==
  ASSUME Inv, NEW m \in Motor, AcquirePull(m) \/ ArmPull(m)
  PROVE  Inv'
<1>1. ch[m] \in Channel
  BY DEF Inv, TypeOK
<1>2. ASSUME AcquirePull(m)
      PROVE  Inv'
  BY <1>2, MotionAssumption
  DEF AcquirePull, NoCommand, Inv, TypeOK, LockAgrees, MotionHasLock
<1>3. ASSUME ArmPull(m)
      PROVE  Inv'
  <2> DEFINE t == Travel * ch[m].microstep
             mode == IF ch[m].position # t THEN "Moving" ELSE "Holding"
             armed == [ch[m] EXCEPT !.lock_held = TRUE, !.retract_target = 0,
                                    !.retract_after_hold = TRUE]
             refused == [armed EXCEPT !.lock_held = FALSE]
             pulling == [armed EXCEPT !.target = t, !.hold = PullHold,
                                      !.step_hz = MaxHz, !.mode = mode]
  <2>1. /\ t \in Int /\ mode \in Mode /\ PullHold \in BOOLEAN
        /\ TRUE \in BOOLEAN /\ FALSE \in BOOLEAN /\ 0 \in Int /\ MaxHz \in Nat
    BY <1>1, MotionAssumption DEF Channel, Mode
  <2>2. armed \in Channel /\ armed.lock_held = TRUE /\ armed.mode = ch[m].mode
    BY <1>1, <2>1, ArmedChannel
  <2> HIDE DEF armed, mode, t
  <2>3. /\ refused \in Channel /\ refused.lock_held = FALSE
        /\ refused.mode = armed.mode
    BY <2>2 DEF Channel
  <2>4. pulling \in Channel /\ pulling.lock_held = armed.lock_held
    BY <2>1, <2>2, PullingChannel, Zenon
  <2>5. /\ cmd = <<"arm", m>> /\ cmd' = NoCommand /\ UNCHANGED commands
        /\ \/ Keep(m, pulling)
           \/ /\ ch' = [ch EXCEPT ![m] = refused]
              /\ holder' = IF holder = m THEN NoMotor ELSE holder
    BY <1>3 DEF ArmPull, armed, mode, t
  <2>6. holder = m /\ ~ch[m].lock_held /\ ch[m].mode = "Idle"
    BY <1>1, <2>5 DEF Inv, LockAgrees, MotionHasLock, Channel, Mode
  <2> HIDE DEF refused, pulling
  <2>7. TypeOK'
    BY <2>3, <2>4, <2>5 DEF Inv, TypeOK, Keep
  <2>8. LockAgrees'
    BY <2>2, <2>3, <2>4, <2>5, <2>6, MotionAssumption
    DEF Inv, TypeOK, LockAgrees, Keep, NoCommand
  <2>9. MotionHasLock'
    BY <2>2, <2>3, <2>4, <2>5, <2>6 DEF Inv, TypeOK, MotionHasLock, Keep
  <2> QED
    BY <2>7, <2>8, <2>9 DEF Inv
<1> QED
  BY <1>2, <1>3

(* The pulse thread.                                                         *)
LEMMA SteppedChannel ==
  ASSUME NEW c \in Channel
  PROVE  /\ Stepped(c) \in Channel
         /\ Stepped(c).lock_held = c.lock_held /\ Stepped(c).mode = c.mode
<1> DEFINE x == IF c.target > c.position THEN c.position + 1 ELSE c.position - 1
<1>1. x \in Int
  BY DEF Channel
<1>2. Stepped(c) = [c EXCEPT !.position = x]
  BY DEF Stepped, Channel
<1> HIDE DEF x
<1> QED
  BY <1>1, <1>2 DEF Channel

LEMMA UncertainChannel ==
  ASSUME NEW c \in Channel
  PROVE  [c EXCEPT !.position_uncertain = TRUE] \in Channel
BY DEF Channel

LEMMA RefusedChannel ==
  ASSUME NEW c \in Channel
  PROVE  LET d == [c EXCEPT !.enabled = FALSE, !.target = c.position,
                            !.mode = "Idle", !.hold = FALSE,
                            !.retract_after_hold = FALSE,
                            !.position_uncertain = TRUE]
         IN  d \in Channel /\ d.mode = "Idle" /\ d.position_uncertain
BY DEF Channel, Mode

LEMMA PulseInv ==
  ASSUME Inv, NEW m \in Motor, Pulse(m)
  PROVE  Inv'
<1>1. ch[m] \in Channel /\ (ch[m].mode # "Idle" => ch[m].lock_held)
  BY DEF Inv, TypeOK, MotionHasLock
<1>2. QuietCommand
  BY CommandQuiet DEF Pulse
<1>3. ASSUME NEW d \in Loss(Stepped(ch[m])), Keep(m, d)
      PROVE  Inv'
  BY <1>1, <1>2, <1>3, SteppedChannel, LossChannel, KeepInv
<1>4. ASSUME NEW d \in {ch[m], Stepped(ch[m])},
             End(m, AtRest([d EXCEPT !.position_uncertain = TRUE]))
      PROVE  Inv'
  <2>1. d \in Channel
    BY <1>1, SteppedChannel
  <2>2. [d EXCEPT !.position_uncertain = TRUE] \in Channel
    BY <2>1, UncertainChannel
  <2> QED
    BY <1>2, <1>4, <2>2, AtRestChannel, EndInv
<1>5. ASSUME End(m, [ch[m] EXCEPT !.enabled = FALSE, !.target = ch[m].position,
                       !.mode = "Idle", !.hold = FALSE,
                       !.retract_after_hold = FALSE,
                       !.position_uncertain = TRUE])
      PROVE  Inv'
  BY <1>1, <1>2, <1>5, RefusedChannel, EndInv
<1> QED
  BY <1>3, <1>4, <1>5 DEF Pulse

(* The tick of the control loop.                                             *)
LEMMA OverChannel ==
  ASSUME NEW c \in Channel, NEW t \in Int, NEW mode \in Mode
  PROVE  /\ [c EXCEPT !.hold = FALSE] \in Channel
         /\ [c EXCEPT !.hold = FALSE].lock_held = c.lock_held
         /\ [c EXCEPT !.target = t, !.mode = "Retracting"] \in Channel
         /\ [c EXCEPT !.target = t, !.mode = "Retracting"].lock_held = c.lock_held
         /\ [c EXCEPT !.target = t, !.mode = "Idle",
                      !.retract_after_hold = FALSE] \in Channel
         /\ [c EXCEPT !.target = t, !.mode = "Idle",
                      !.retract_after_hold = FALSE].mode = "Idle"
         /\ [c EXCEPT !.mode = "Holding"] \in Channel
         /\ [c EXCEPT !.mode = "Holding"].lock_held = c.lock_held
BY DEF Channel, Mode

LEMMA TickInv ==
  ASSUME Inv, NEW m \in Motor, Tick(m)
  PROVE  Inv'
<1>1. ch[m] \in Channel /\ (ch[m].mode # "Idle" => ch[m].lock_held)
  BY DEF Inv, TypeOK, MotionHasLock
<1>2. QuietCommand
  BY CommandQuiet DEF Tick
<1>3. ASSUME TickAborts(m)
      PROVE  Inv'
  <2>1. [ch[m] EXCEPT !.position_uncertain = TRUE] \in Channel
    BY <1>1, UncertainChannel
  <2> QED
    BY <1>2, <1>3, <2>1, AtRestChannel, EndInv DEF TickAborts
<1>4. ASSUME NEW c \in Probed(ch[m]),
             \/ TickOverheats(m, c)
             \/ c.mode = "Idle" /\ Keep(m, c)
             \/ HoldRuns(m, c) \/ HoldOver(m, c)
             \/ LegEnds(m, c)
      PROVE  Inv'
  <2>1. c \in Channel /\ c.lock_held = ch[m].lock_held /\ c.mode = ch[m].mode
    BY <1>1, ProbedChannel
  <2>2. ASSUME TickOverheats(m, c)
        PROVE  Inv'
    <3> DEFINE d == [AtRest(c) EXCEPT !.enabled = FALSE, !.position_uncertain = TRUE]
    <3>1. AtRest(c) \in Channel /\ AtRest(c).mode = "Idle"
      BY <2>1, AtRestChannel
    <3>2. d \in Channel /\ d.mode = "Idle"
      BY <3>1 DEF Channel
    <3> QED
      BY <1>2, <2>2, <3>2, EndInv DEF TickOverheats
  <2>3. ASSUME Keep(m, c)
        PROVE  Inv'
    BY <1>1, <1>2, <2>1, <2>3, KeepInv
  <2>4. ASSUME HoldOver(m, c)
        PROVE  Inv'
    <3> DEFINE over == [c EXCEPT !.hold = FALSE]
               t == IF c.retract_after_hold THEN c.retract_target ELSE over.target
               retract == [over EXCEPT !.target = c.retract_target,
                                       !.mode = "Retracting"]
               rest == [over EXCEPT !.target = t, !.mode = "Idle",
                                    !.retract_after_hold = FALSE]
    <3>1. c.retract_target \in Int /\ "Idle" \in Mode
      BY <2>1 DEF Channel, Mode
    <3>2. over \in Channel /\ over.lock_held = c.lock_held
      BY <2>1, <3>1, OverChannel
    <3>3. t \in Int
      BY <3>1, <3>2 DEF Channel
    <3>4. c.mode = "Holding" /\ (Keep(m, retract) \/ End(m, rest))
      BY <2>4 DEF HoldOver
    <3> HIDE DEF over, t
    <3>5. retract \in Channel /\ retract.lock_held = over.lock_held
      BY <3>1, <3>2, OverChannel
    <3>6. rest \in Channel /\ rest.mode = "Idle"
      BY <3>1, <3>2, <3>3, OverChannel
    <3> HIDE DEF retract, rest
    <3> QED
      BY <1>1, <1>2, <2>1, <3>2, <3>4, <3>5, <3>6, KeepInv, EndInv
  <2>5. ASSUME LegEnds(m, c)
        PROVE  Inv'
    <3> DEFINE held == [c EXCEPT !.mode = "Holding"]
               rest == [c EXCEPT !.mode = "Idle",
                          !.retract_after_hold = @ /\ c.mode # "Retracting"]
    <3>1. held \in Channel /\ held.lock_held = c.lock_held
      BY <2>1 DEF Channel, Mode
    <3>2. rest \in Channel /\ rest.mode = "Idle"
      BY <2>1 DEF Channel, Mode
    <3>3. Turning(c) /\ (Keep(m, held) \/ End(m, rest))
      BY <2>5 DEF LegEnds
    <3> HIDE DEF held, rest
    <3> QED
      BY <1>1, <1>2, <2>1, <3>1, <3>2, <3>3, KeepInv, EndInv DEF Turning
  <2> QED
    BY <1>4, <2>2, <2>3, <2>4, <2>5 DEF HoldRuns
<1> QED
  BY <1>3, <1>4 DEF Tick

-----------------------------------------------------------------------------
LEMMA InitInv ==
  ASSUME Init
  PROVE  Inv
<1>1. ASSUME NEW m \in Motor
      PROVE  ch[m] \in Channel /\ ch[m].mode = "Idle" /\ ~ch[m].lock_held
  <2>1. PICK d \in Divisor, e \in BOOLEAN :
          ch[m] = [position |-> 0, target |-> 0, retract_target |-> 0,
                   mode |-> "Idle", enabled |-> e, hold |-> FALSE,
                   retract_after_hold |-> FALSE, lock_held |-> FALSE,
                   microstep |-> d, step_hz |-> DefaultHz,
                   accel |-> DefaultAccel, position_uncertain |-> FALSE]
    BY <1>1 DEF Init
  <2> QED
    BY <2>1, MotionAssumption DEF Channel, Mode
<1>2. ch \in [Motor -> Channel]
  BY <1>1 DEF Init
<1>3. TypeOK
  BY <1>2, MotionAssumption DEF Init, TypeOK
<1> QED
  BY <1>1, <1>3, MotionAssumption DEF Init, Inv, LockAgrees, MotionHasLock, NoCommand

LEMMA NextInv ==
  ASSUME Inv, [Next]_vars
  PROVE  Inv'
<1>1. CASE UNCHANGED vars
  BY <1>1 DEF vars, Inv, TypeOK, LockAgrees, MotionHasLock
<1>2. ASSUME NEW m \in Motor, Step(m)
      PROVE  Inv'
  BY <1>2, StartInv, StopInv, TuneInv, PullInv, PulseInv, TickInv DEF Step
<1> QED
  BY <1>1, <1>2 DEF Next

(* The lock discipline of the motion layer, for any set of motors: the       *)
(* types, the agreement of lock and channels, and that one motor at a time   *)
(* is in motion.                                                             *)
THEOREM MotionSafe == Spec => []LockDiscipline
<1>1. Inv => LockDiscipline
  BY DEF Inv, LockDiscipline, LockAgrees, MotionHasLock, OneMotor
<1> QED
  BY <1>1, InitInv, NextInv, PTL DEF Spec

-----------------------------------------------------------------------------
(* The lock never passes from one motor to another in one step.              *)
LEMMA NoHandOver ==
  ASSUME Inv, [Next]_vars
  PROVE  holder' = holder \/ holder = NoMotor \/ holder' = NoMotor
<1>1. CASE UNCHANGED vars
  BY <1>1 DEF vars
<1>2. ASSUME NEW m \in Motor, NEW c, Keep(m, c) \/ Begin(m, c) \/ End(m, c)
      PROVE  holder' = holder \/ holder = NoMotor \/ holder' = NoMotor
  BY <1>2 DEF Keep, Begin, End
<1>3. ASSUME NEW m \in Motor, Step(m)
      PROVE  holder' = holder \/ holder = NoMotor \/ holder' = NoMotor
  <2>1. CASE (\E d \in Delta : MoveSteps(m, d)) \/ Home(m)
             \/ (\E t \in -MaxPosition .. MaxPosition, hold \in BOOLEAN :
                   MoveToSteps(m, t, hold))
    BY <1>2, <2>1 DEF MoveSteps, MoveToSteps, Home, Aim
  <2>2. CASE Stop(m) \/ SetPositionZero(m) \/ Disable(m)
    BY <1>2, <2>2 DEF Stop, SetPositionZero, Disable
  <2>3. CASE CheckZero(m) \/ AcknowledgeStepLoss(m) \/ Enable(m) \/ CheckPull(m)
             \/ (\E d \in Divisor : SetMicrostep(m, d))
             \/ (\E hz \in 1 .. MaxHz : SetSpeed(m, hz))
             \/ (\E a \in 1 .. MaxAccel : SetAccel(m, a))
    BY <1>2, <2>3
    DEF CheckZero, AcknowledgeStepLoss, Enable, CheckPull, SetMicrostep, SetSpeed, SetAccel
  <2>4. CASE AcquirePull(m) \/ ArmPull(m)
    BY <1>2, <2>4 DEF AcquirePull, ArmPull
  <2>5. CASE Pulse(m)
    BY <1>2, <2>5 DEF Pulse
  <2>6. CASE Tick(m)
    BY <1>2, <2>6
    DEF Tick, TickAborts, TickOverheats, HoldRuns, HoldOver, LegEnds
  <2> QED
    BY <1>3, <2>1, <2>2, <2>3, <2>4, <2>5, <2>6 DEF Step
<1> QED
  BY <1>1, <1>3 DEF Next

(* What moves is at most the holder.                                         *)
LEMMA BusyHolder ==
  ASSUME Inv
  PROVE  {m \in Motor : ch[m].mode # "Idle"} \subseteq {holder} \ {NoMotor}
BY MotionAssumption DEF Inv, MotionHasLock, LockAgrees

LEMMA InterlockStep ==
  ASSUME Inv, Inv', holder' = holder \/ holder = NoMotor \/ holder' = NoMotor
  PROVE  [Interlock!Next]_<<holder, {m \in Motor : ch[m].mode # "Idle"}>>
<1> DEFINE b == {m \in Motor : ch[m].mode # "Idle"}
<1>1. b \subseteq {holder} \ {NoMotor}
  BY BusyHolder
<1>2. b' \subseteq {holder'} \ {NoMotor}
  BY MotionAssumption DEF Inv, MotionHasLock, LockAgrees
<1>3. holder \in Motor \cup {NoMotor} /\ holder' \in Motor \cup {NoMotor}
  BY DEF Inv, TypeOK
<1>4. CASE holder = NoMotor /\ holder' = NoMotor
  <2>1. b' = b
    BY <1>1, <1>2, <1>4
  <2> QED
    BY <1>4, <2>1
<1>5. CASE holder = NoMotor /\ holder' # NoMotor
  <2>1. b' \in {{}, {holder'}}
    BY <1>2
  <2>2. PICK m \in Motor : m = holder'
    BY <1>3, <1>5
  <2>3. Interlock!Acquire(m)
    BY <1>5, <2>1, <2>2 DEF Interlock!Acquire
  <2>4. Interlock!Next
    BY <2>2, <2>3 DEF Interlock!Next
  <2> QED
    BY <2>4
<1>6. CASE holder # NoMotor /\ holder' = NoMotor
  <2>1. b' = {}
    BY <1>2, <1>6
  <2>2. PICK m \in Motor : m = holder
    BY <1>3, <1>6
  <2>3. Interlock!Release(m)
    BY <1>6, <2>1, <2>2 DEF Interlock!Release
  <2>4. Interlock!Next
    BY <2>2, <2>3 DEF Interlock!Next
  <2> QED
    BY <2>4
<1>7. CASE holder # NoMotor /\ holder' = holder
  <2>1. b' \in {{}, {holder}}
    BY <1>2, <1>7
  <2>2. PICK m \in Motor : m = holder
    BY <1>3, <1>7
  <2>3. Interlock!Change(m)
    BY <1>7, <2>1, <2>2 DEF Interlock!Change
  <2>4. Interlock!Next
    BY <2>2, <2>3 DEF Interlock!Next
  <2> QED
    BY <2>4
<1> QED
  BY <1>4, <1>5, <1>6, <1>7

(* The motion layer implements the interlock it promises to the heaters and  *)
(* to the other motor.                                                       *)
THEOREM MotionImplements == Spec => GivesInterlock
<1>1. Init => Interlock!Init
  BY InitInv, BusyHolder DEF Init, Interlock!Init
<1>2. Inv /\ [Next]_vars =>
        [Interlock!Next]_<<holder, {m \in Motor : ch[m].mode # "Idle"}>>
  BY NextInv, NoHandOver, InterlockStep
<1> QED
  BY <1>1, <1>2, InitInv, NextInv, PTL DEF Spec, GivesInterlock, Interlock!Spec

-----------------------------------------------------------------------------
(* A channel that is de-energised while it turns is latched uncertain.       *)
Latches(c, d) == Turning(c) /\ c.enabled /\ ~d.enabled => d.position_uncertain

LEMMA OneLatches ==
  ASSUME Inv, NEW m \in Motor, NEW c \in Channel,
         Keep(m, c) \/ Begin(m, c) \/ End(m, c), Latches(ch[m], c)
  PROVE  \A i \in Motor : Latches(ch[i], ch'[i])
<1>1. PICK d \in Channel : /\ ch' = [ch EXCEPT ![m] = d]
                          /\ d.enabled = c.enabled
                          /\ d.position_uncertain = c.position_uncertain
  <2>1. ASSUME NEW b \in BOOLEAN
        PROVE  LET d == [c EXCEPT !.lock_held = b]
               IN  /\ d \in Channel /\ d.enabled = c.enabled
                   /\ d.position_uncertain = c.position_uncertain
    BY DEF Channel
  <2>2. \/ ch' = [ch EXCEPT ![m] = c]
        \/ ch' = [ch EXCEPT ![m] = [c EXCEPT !.lock_held = TRUE]]
        \/ ch' = [ch EXCEPT ![m] = [c EXCEPT !.lock_held = FALSE]]
    BY DEF Keep, Begin, End
  <2> QED
    BY <2>1, <2>2
<1> QED
  BY <1>1 DEF Inv, TypeOK, Latches

(* An operation that leaves the motor energised, or finds it at rest.        *)
LEMMA StillOn ==
  ASSUME NEW c, NEW d, d.enabled = c.enabled \/ ~Turning(c)
  PROVE  Latches(c, d)
BY DEF Latches

LEMMA CommandLatches ==
  ASSUME Inv, NEW m \in Motor,
         \/ \E d \in Delta : MoveSteps(m, d)
         \/ \E t \in -MaxPosition .. MaxPosition, hold \in BOOLEAN : MoveToSteps(m, t, hold)
         \/ Home(m)
  PROVE  \A i \in Motor : Latches(ch[i], ch'[i])
<1>1. ch[m] \in Channel /\ ch[m].position \in Int /\ ch[m].target \in Int
  BY DEF Inv, TypeOK, Channel
<1>2. ASSUME NEW t \in Int, NEW hold \in BOOLEAN, NEW back \in Int,
             Aim(m, Aimed(ch[m], t, hold, back))
      PROVE  \A i \in Motor : Latches(ch[i], ch'[i])
  <2> DEFINE c == Aimed(ch[m], t, hold, back)
  <2>1. c \in Channel /\ c.enabled = ch[m].enabled
    <3> DEFINE e == ch[m]
    <3>1. e \in Channel
      BY <1>1
    <3> HIDE DEF e
    <3>2. Aimed(e, t, hold, back) \in Channel
      BY <3>1, AimedChannel
    <3>3. Aimed(e, t, hold, back).enabled = e.enabled
      BY <3>1, AimedChannel
    <3> QED
      BY <3>2, <3>3 DEF e
  <2>2. Keep(m, c) \/ Begin(m, c)
    BY <1>2 DEF Aim
  <2> HIDE DEF c
  <2> QED
    BY <2>1, <2>2, StillOn, OneLatches
<1>3. ASSUME NEW d \in Delta, MoveSteps(m, d)
      PROVE  \A i \in Motor : Latches(ch[i], ch'[i])
  <2>1. ch[m].target + d \in Int
    BY <1>1, MotionAssumption
  <2> QED
    BY <1>1, <1>2, <1>3, <2>1 DEF MoveSteps
<1>4. ASSUME NEW t \in -MaxPosition .. MaxPosition, NEW hold \in BOOLEAN,
             MoveToSteps(m, t, hold)
      PROVE  \A i \in Motor : Latches(ch[i], ch'[i])
  <2>1. t \in Int
    BY MotionAssumption
  <2> QED
    BY <1>1, <1>2, <1>4, <2>1 DEF MoveToSteps
<1>5. ASSUME Home(m)
      PROVE  \A i \in Motor : Latches(ch[i], ch'[i])
  <2>1. 0 \in Int /\ FALSE \in BOOLEAN
    OBVIOUS
  <2>2. Aim(m, Aimed(ch[m], 0, FALSE, 0))
    BY <1>5 DEF Home
  <2> QED
    BY <1>2, <2>1, <2>2
<1> QED
  BY <1>3, <1>4, <1>5

LEMMA PlainLatches ==
  ASSUME Inv, NEW m \in Motor,
         \/ Stop(m) \/ SetPositionZero(m) \/ Disable(m)
         \/ CheckZero(m) \/ AcknowledgeStepLoss(m) \/ Enable(m) \/ CheckPull(m)
         \/ \E d \in Divisor : SetMicrostep(m, d)
         \/ (\E hz \in 1 .. MaxHz : SetSpeed(m, hz))
         \/ (\E a \in 1 .. MaxAccel : SetAccel(m, a))
         \/ AcquirePull(m)
  PROVE  \A i \in Motor : Latches(ch[i], ch'[i])
<1>1. ch[m] \in Channel
  BY DEF Inv, TypeOK
<1>2. CASE Stop(m)
  <2>1. AtRest(ch[m]) \in Channel /\ AtRest(ch[m]).enabled = ch[m].enabled
    BY <1>1, AtRestChannel DEF AtRest, Channel
  <2> QED
    BY <1>2, <2>1, StillOn, OneLatches DEF Stop
<1>3. CASE SetPositionZero(m)
  <2> DEFINE c == [ch[m] EXCEPT !.position = 0, !.position_uncertain = FALSE]
  <2>1. c \in Channel /\ c.enabled = ch[m].enabled
    <3>1. 0 \in Int /\ FALSE \in BOOLEAN
      OBVIOUS
    <3>2. c \in Channel
      BY <1>1, <3>1, PlacedChannel
    <3> QED
      BY <1>1, <3>2 DEF Channel
  <2>2. End(m, AtRest(c))
    BY <1>3 DEF SetPositionZero
  <2> HIDE DEF c
  <2>3. AtRest(c) \in Channel /\ AtRest(c).enabled = c.enabled
    BY <2>1, AtRestChannel DEF AtRest, Channel
  <2> QED
    BY <2>1, <2>2, <2>3, StillOn, OneLatches
<1>4. CASE Disable(m)
  <2> DEFINE c == [ch[m] EXCEPT !.enabled = FALSE, !.mode = "Idle",
                     !.position_uncertain = @ \/ Turning(ch[m])]
  <2>1. c \in Channel /\ (Turning(ch[m]) => c.position_uncertain)
    BY <1>1 DEF Channel, Mode
  <2>2. End(m, c)
    BY <1>4 DEF Disable
  <2> HIDE DEF c
  <2> QED
    BY <2>1, <2>2, OneLatches DEF Latches
<1>5. CASE CheckZero(m) \/ CheckPull(m) \/ AcquirePull(m)
  BY <1>5 DEF CheckZero, CheckPull, AcquirePull, Latches
<1>6. CASE AcknowledgeStepLoss(m)
  <2>1. LET c == [ch[m] EXCEPT !.position_uncertain = FALSE]
        IN  c \in Channel /\ c.enabled = ch[m].enabled
    BY <1>1 DEF Channel
  <2> QED
    BY <1>6, <2>1, StillOn, OneLatches DEF AcknowledgeStepLoss
<1>7. CASE Enable(m)
  <2>1. LET c == [ch[m] EXCEPT !.enabled = TRUE]
        IN  c \in Channel /\ c.enabled
    BY <1>1 DEF Channel
  <2> QED
    BY <1>7, <2>1, OneLatches DEF Enable, Latches
<1>8. ASSUME NEW d \in Divisor, SetMicrostep(m, d)
      PROVE  \A i \in Motor : Latches(ch[i], ch'[i])
  <2>1. ch'[m].enabled = ch[m].enabled /\ \A i \in Motor \ {m} : ch'[i] = ch[i]
    BY <1>1, <1>8 DEF SetMicrostep, Keep, Channel, Inv, TypeOK
  <2> QED
    BY <2>1 DEF Latches
<1>9. ASSUME NEW x \in Nat, SetSpeed(m, x) \/ SetAccel(m, x)
      PROVE  \A i \in Motor : Latches(ch[i], ch'[i])
  BY <1>1, <1>9, RatedChannel, StillOn, OneLatches
<1>10. 1 .. MaxHz \subseteq Nat /\ 1 .. MaxAccel \subseteq Nat
  BY MotionAssumption
<1> QED
  BY <1>2, <1>3, <1>4, <1>5, <1>6, <1>7, <1>8, <1>9, <1>10

LEMMA ArmLatches ==
  ASSUME Inv, NEW m \in Motor, ArmPull(m)
  PROVE  \A i \in Motor : Latches(ch[i], ch'[i])
<1>1. ch[m] \in Channel /\ ch \in [Motor -> Channel]
  BY DEF Inv, TypeOK
<1>2. ~Turning(ch[m]) /\ \A i \in Motor \ {m} : ch'[i] = ch[i]
  BY <1>1, MotionAssumption
  DEF ArmPull, Keep, Inv, LockAgrees, MotionHasLock, Turning, NoCommand
<1> QED
  BY <1>2 DEF Latches

LEMMA PulseLatches ==
  ASSUME Inv, NEW m \in Motor, Pulse(m)
  PROVE  \A i \in Motor : Latches(ch[i], ch'[i])
<1>1. ch[m] \in Channel
  BY DEF Inv, TypeOK
<1>2. /\ Stepped(ch[m]) \in Channel /\ Stepped(ch[m]).enabled = ch[m].enabled
  BY <1>1, SteppedChannel DEF Stepped, Channel
<1>3. ASSUME NEW d \in Loss(Stepped(ch[m])), Keep(m, d)
      PROVE  \A i \in Motor : Latches(ch[i], ch'[i])
  BY <1>2, <1>3, LossChannel, StillOn, OneLatches
<1>4. ASSUME NEW d \in {ch[m], Stepped(ch[m])},
             End(m, AtRest([d EXCEPT !.position_uncertain = TRUE]))
      PROVE  \A i \in Motor : Latches(ch[i], ch'[i])
  <2> DEFINE c == [d EXCEPT !.position_uncertain = TRUE]
  <2>1. d \in Channel /\ d.enabled = ch[m].enabled
    BY <1>1, <1>2
  <2>2. c \in Channel /\ c.enabled = d.enabled
    BY <2>1, UncertainChannel DEF Channel
  <2> HIDE DEF c
  <2>3. AtRest(c) \in Channel /\ AtRest(c).enabled = c.enabled
    BY <2>2, AtRestChannel DEF AtRest, Channel
  <2> QED
    BY <1>4, <2>1, <2>2, <2>3, StillOn, OneLatches DEF c
<1>5. ASSUME End(m, [ch[m] EXCEPT !.enabled = FALSE, !.target = ch[m].position,
                       !.mode = "Idle", !.hold = FALSE,
                       !.retract_after_hold = FALSE,
                       !.position_uncertain = TRUE])
      PROVE  \A i \in Motor : Latches(ch[i], ch'[i])
  BY <1>1, <1>5, RefusedChannel, OneLatches DEF Latches
<1> QED
  BY <1>3, <1>4, <1>5 DEF Pulse

LEMMA TickLatches ==
  ASSUME Inv, NEW m \in Motor, Tick(m)
  PROVE  \A i \in Motor : Latches(ch[i], ch'[i])
<1>1. ch[m] \in Channel /\ ch \in [Motor -> Channel]
  BY DEF Inv, TypeOK
<1>2. ASSUME NEW c, Keep(m, c) \/ End(m, c)
      PROVE  \A i \in Motor \ {m} : Latches(ch[i], ch'[i])
  BY <1>1, <1>2 DEF Keep, End, Latches
<1>3. CASE ~Turning(ch[m])
  <2>1. Latches(ch[m], ch'[m])
    BY <1>3 DEF Latches
  <2>2. \E c : Keep(m, c) \/ End(m, c)
    BY DEF Tick, TickAborts, TickOverheats, HoldRuns, HoldOver, LegEnds
  <2> QED
    BY <1>2, <2>1, <2>2
<1>4. CASE Turning(ch[m])
  <2>1. TickOverheats(m, ch[m]) \/ LegEnds(m, ch[m])
    BY <1>1, <1>4, ProbedChannel DEF Tick, TickAborts, HoldRuns, HoldOver, Turning
  <2>2. CASE TickOverheats(m, ch[m])
    <3> DEFINE d == [AtRest(ch[m]) EXCEPT !.enabled = FALSE, !.position_uncertain = TRUE]
    <3>1. AtRest(ch[m]) \in Channel
      BY <1>1, AtRestChannel
    <3>2. d \in Channel /\ d.position_uncertain
      BY <3>1 DEF Channel
    <3> QED
      BY <2>2, <3>2, OneLatches DEF TickOverheats, Latches
  <2>3. CASE LegEnds(m, ch[m])
    <3> DEFINE c == ch[m]
               held == [c EXCEPT !.mode = "Holding"]
               rest == [c EXCEPT !.mode = "Idle",
                          !.retract_after_hold = @ /\ c.mode # "Retracting"]
    <3>1. held \in Channel /\ held.enabled = c.enabled
      BY <1>1 DEF Channel, Mode
    <3>2. rest \in Channel /\ rest.enabled = c.enabled
      BY <1>1 DEF Channel, Mode
    <3>3. Keep(m, held) \/ End(m, rest)
      BY <2>3 DEF LegEnds
    <3> HIDE DEF held, rest
    <3> QED
      BY <3>1, <3>2, <3>3, StillOn, OneLatches
  <2> QED
    BY <2>1, <2>2, <2>3
<1> QED
  BY <1>3, <1>4

(* A power cut while a motor turns latches its position as uncertain in the  *)
(* same step, on every path that cuts it (SetEnabled, a refused pulse,       *)
(* over-temperature, a failed probe).                                        *)
THEOREM CoastLatched == Spec => CoastIsLatched
<1>1. Inv /\ [Next]_vars =>
        [\A m \in Motor :
           Turning(ch[m]) /\ ch[m].enabled /\ ~ch'[m].enabled =>
             ch'[m].position_uncertain]_vars
  <2> SUFFICES ASSUME Inv, NEW m \in Motor, Step(m)
               PROVE  \A i \in Motor : Latches(ch[i], ch'[i])
    BY DEF Next, Latches
  <2> QED
    BY CommandLatches, PlainLatches, ArmLatches, PulseLatches, TickLatches DEF Step
<1> QED
  BY <1>1, InitInv, NextInv, PTL DEF Spec, CoastIsLatched

-----------------------------------------------------------------------------
(* Where a pull returns to: a channel on its way back aims at home, and one  *)
(* that will go back once its hold is over has home to go back to.  What an  *)
(* idle channel remembers of an earlier pull does not matter.                *)
Homeward(c) ==
  /\ c.mode = "Retracting" => c.target = 0 /\ c.retract_after_hold
  /\ c.mode # "Idle" /\ c.retract_after_hold => c.retract_target = 0

HomeInv == \A m \in Motor : Homeward(ch[m])

LEMMA OneHomeward ==
  ASSUME Inv, HomeInv, NEW m \in Motor, NEW c \in Channel,
         Keep(m, c) \/ Begin(m, c) \/ End(m, c), Homeward(c)
  PROVE  HomeInv'
<1>1. PICK d \in Channel : ch' = [ch EXCEPT ![m] = d] /\ Homeward(d)
  <2>1. ASSUME NEW b \in BOOLEAN
        PROVE  LET d == [c EXCEPT !.lock_held = b] IN d \in Channel /\ Homeward(d)
    BY DEF Channel, Homeward
  <2>2. \/ ch' = [ch EXCEPT ![m] = c]
        \/ ch' = [ch EXCEPT ![m] = [c EXCEPT !.lock_held = TRUE]]
        \/ ch' = [ch EXCEPT ![m] = [c EXCEPT !.lock_held = FALSE]]
    BY DEF Keep, Begin, End
  <2> QED
    BY <2>1, <2>2
<1> QED
  BY <1>1 DEF Inv, TypeOK, HomeInv

(* An operation that leaves the channel at rest.                             *)
LEMMA RestHomeward ==
  ASSUME NEW c, c.mode = "Idle"
  PROVE  Homeward(c)
BY DEF Homeward

LEMMA AimedHomeward ==
  ASSUME NEW c \in Channel, NEW t \in Int, NEW hold \in BOOLEAN, NEW back \in Int
  PROVE  Homeward(Aimed(c, t, hold, back))
BY DEF Aimed, Channel, Homeward

LEMMA LossHomeward ==
  ASSUME NEW c \in Channel, Homeward(c), NEW d \in Loss(c)
  PROVE  Homeward(d)
BY DEF Loss, Channel, Homeward

LEMMA SteppedHomeward ==
  ASSUME NEW c \in Channel, Homeward(c)
  PROVE  Homeward(Stepped(c))
<1> DEFINE x == IF c.target > c.position THEN c.position + 1 ELSE c.position - 1
<1>1. Stepped(c) = [c EXCEPT !.position = x]
  BY DEF Stepped, Channel
<1> HIDE DEF x
<1> QED
  BY <1>1 DEF Channel, Homeward

LEMMA ProbedHomeward ==
  ASSUME NEW c \in Channel, Homeward(c), NEW d \in Probed(c)
  PROVE  Homeward(d)
<1>1. CASE c.mode = "Idle"
  BY <1>1, ProbedChannel, RestHomeward
<1>2. CASE c.mode = "Holding" /\ c.enabled
  BY <1>2, LossHomeward DEF Probed
<1>3. CASE c.mode # "Idle" /\ ~(c.mode = "Holding" /\ c.enabled)
  BY <1>3 DEF Probed
<1> QED
  BY <1>1, <1>2, <1>3

(* Home stays home when the divisor changes.                                 *)
LEMMA RescaleHome ==
  ASSUME NEW new \in Nat \ {0}, NEW old \in Nat \ {0}
  PROVE  Rescale(0, new, old) = 0
<1>1. Magnitude(0) = 0
  BY DEF Magnitude
<1>2. 2 * 0 * new + old = old
  OBVIOUS
<1>3. old \div (2 * old) = 0
  OBVIOUS
<1> QED
  BY <1>1, <1>2, <1>3 DEF Rescale

LEMMA CommandHomeward ==
  ASSUME Inv, HomeInv, NEW m \in Motor,
         \/ \E d \in Delta : MoveSteps(m, d)
         \/ \E t \in -MaxPosition .. MaxPosition, hold \in BOOLEAN : MoveToSteps(m, t, hold)
         \/ Home(m)
  PROVE  HomeInv'
<1>1. ch[m] \in Channel /\ ch[m].position \in Int /\ ch[m].target \in Int
  BY DEF Inv, TypeOK, Channel
<1>2. ASSUME NEW t \in Int, NEW hold \in BOOLEAN, NEW back \in Int,
             Aim(m, Aimed(ch[m], t, hold, back))
      PROVE  HomeInv'
  <2> DEFINE c == Aimed(ch[m], t, hold, back)
  <2>1. c \in Channel /\ Homeward(c)
    <3>1. ch[m] \in Channel
      BY <1>1
    <3> QED
      BY <3>1, AimedChannel, AimedHomeward
  <2>2. Keep(m, c) \/ Begin(m, c)
    BY <1>2 DEF Aim
  <2> HIDE DEF c
  <2> QED
    BY <2>1, <2>2, OneHomeward
<1>3. ASSUME NEW d \in Delta, MoveSteps(m, d)
      PROVE  HomeInv'
  <2>1. ch[m].target + d \in Int
    BY <1>1, MotionAssumption
  <2> QED
    BY <1>1, <1>2, <1>3, <2>1 DEF MoveSteps
<1>4. ASSUME NEW t \in -MaxPosition .. MaxPosition, NEW hold \in BOOLEAN,
             MoveToSteps(m, t, hold)
      PROVE  HomeInv'
  <2>1. t \in Int
    BY MotionAssumption
  <2> QED
    BY <1>1, <1>2, <1>4, <2>1 DEF MoveToSteps
<1>5. ASSUME Home(m)
      PROVE  HomeInv'
  <2>1. 0 \in Int /\ FALSE \in BOOLEAN
    OBVIOUS
  <2>2. Aim(m, Aimed(ch[m], 0, FALSE, 0))
    BY <1>5 DEF Home
  <2> QED
    BY <1>2, <2>1, <2>2
<1> QED
  BY <1>3, <1>4, <1>5

LEMMA PlainHomeward ==
  ASSUME Inv, HomeInv, NEW m \in Motor,
         \/ Stop(m) \/ SetPositionZero(m) \/ Disable(m)
         \/ CheckZero(m) \/ AcknowledgeStepLoss(m) \/ Enable(m) \/ CheckPull(m)
         \/ \E d \in Divisor : SetMicrostep(m, d)
         \/ (\E hz \in 1 .. MaxHz : SetSpeed(m, hz))
         \/ (\E a \in 1 .. MaxAccel : SetAccel(m, a))
         \/ AcquirePull(m)
  PROVE  HomeInv'
<1>1. ch[m] \in Channel /\ Homeward(ch[m])
  BY DEF Inv, TypeOK, HomeInv
<1>2. CASE Stop(m)
  BY <1>1, <1>2, AtRestChannel, RestHomeward, OneHomeward DEF Stop
<1>3. CASE SetPositionZero(m)
  <2> DEFINE c == [ch[m] EXCEPT !.position = 0, !.position_uncertain = FALSE]
  <2>1. c \in Channel
    <3>1. 0 \in Int /\ FALSE \in BOOLEAN
      OBVIOUS
    <3> QED
      BY <1>1, <3>1, PlacedChannel
  <2>2. End(m, AtRest(c))
    BY <1>3 DEF SetPositionZero
  <2> HIDE DEF c
  <2> QED
    BY <2>1, <2>2, AtRestChannel, RestHomeward, OneHomeward
<1>4. CASE Disable(m)
  <2> DEFINE c == [ch[m] EXCEPT !.enabled = FALSE, !.mode = "Idle",
                     !.position_uncertain = @ \/ Turning(ch[m])]
  <2>1. c \in Channel /\ c.mode = "Idle"
    BY <1>1 DEF Channel, Mode
  <2>2. End(m, c)
    BY <1>4 DEF Disable
  <2> HIDE DEF c
  <2> QED
    BY <2>1, <2>2, RestHomeward, OneHomeward
<1>5. CASE CheckZero(m) \/ CheckPull(m) \/ AcquirePull(m)
  BY <1>5 DEF CheckZero, CheckPull, AcquirePull, HomeInv
<1>6. CASE AcknowledgeStepLoss(m)
  <2>1. LET c == [ch[m] EXCEPT !.position_uncertain = FALSE]
        IN  c \in Channel /\ Homeward(c)
    BY <1>1 DEF Channel, Homeward
  <2> QED
    BY <1>6, <2>1, OneHomeward DEF AcknowledgeStepLoss
<1>7. CASE Enable(m)
  <2>1. LET c == [ch[m] EXCEPT !.enabled = TRUE] IN c \in Channel /\ Homeward(c)
    BY <1>1 DEF Channel, Homeward
  <2> QED
    BY <1>7, <2>1, OneHomeward DEF Enable
<1>8. ASSUME NEW d \in Divisor, SetMicrostep(m, d)
      PROVE  HomeInv'
  <2> DEFINE old == ch[m].microstep
             x == Rescale(ch[m].position, d, old)
             y == Rescale(ch[m].target, d, old)
             z == Rescale(ch[m].retract_target, d, old)
             c == [ch[m] EXCEPT !.microstep = d, !.position = x, !.target = y,
                                !.retract_target = z]
  <2>1. /\ d \in Nat \ {0} /\ old \in Nat \ {0}
        /\ ch[m].position \in Int /\ ch[m].target \in Int
        /\ ch[m].retract_target \in Int
    BY <1>1, MotionAssumption DEF Channel
  <2>2. x \in Int /\ y \in Int /\ z \in Int
    BY <2>1, RescaleInt
  <2>3. /\ ch[m].target = 0 => y = 0
        /\ ch[m].retract_target = 0 => z = 0
    BY <2>1, RescaleHome
  <2>4. Keep(m, c)
    BY <1>8 DEF SetMicrostep
  <2> HIDE DEF old, x, y, z
  <2>5. c \in Channel /\ Homeward(c)
    BY <1>1, <2>1, <2>2, <2>3 DEF Channel, Homeward
  <2> QED
    BY <2>4, <2>5, OneHomeward
<1>9. ASSUME NEW x \in Nat, SetSpeed(m, x) \/ SetAccel(m, x)
      PROVE  HomeInv'
  <2>1. PICK c \in Channel :
          /\ Keep(m, c) /\ c.mode = ch[m].mode /\ c.target = ch[m].target
          /\ c.retract_target = ch[m].retract_target
          /\ c.retract_after_hold = ch[m].retract_after_hold
    BY <1>1, <1>9, RatedChannel
  <2> QED
    BY <1>1, <2>1, OneHomeward DEF Homeward
<1>10. 1 .. MaxHz \subseteq Nat /\ 1 .. MaxAccel \subseteq Nat
  BY MotionAssumption
<1> QED
  BY <1>2, <1>3, <1>4, <1>5, <1>6, <1>7, <1>8, <1>9, <1>10

LEMMA ArmedHome ==
  ASSUME NEW c \in Channel, NEW r \in Int
  PROVE  LET d == [c EXCEPT !.lock_held = TRUE, !.retract_target = r,
                            !.retract_after_hold = TRUE]
         IN  d.retract_target = r /\ d.retract_after_hold = TRUE
BY DEF Channel

LEMMA PullingHomeward ==
  ASSUME NEW c \in Channel, c.retract_target = 0, c.retract_after_hold,
         NEW x \in Int, NEW h \in BOOLEAN, NEW mode \in Mode, mode # "Retracting"
  PROVE  Homeward([c EXCEPT !.target = x, !.hold = h, !.step_hz = MaxHz,
                            !.mode = mode])
BY DEF Channel, Homeward

LEMMA ArmHomeward ==
  ASSUME Inv, HomeInv, NEW m \in Motor, ArmPull(m)
  PROVE  HomeInv'
<1>1. ch[m] \in Channel /\ ch \in [Motor -> Channel]
  BY DEF Inv, TypeOK
<1>2. ch[m].mode = "Idle"
  BY <1>1, MotionAssumption DEF ArmPull, Inv, LockAgrees, MotionHasLock, NoCommand
<1> DEFINE t == Travel * ch[m].microstep
           mode == IF ch[m].position # t THEN "Moving" ELSE "Holding"
           armed == [ch[m] EXCEPT !.lock_held = TRUE, !.retract_target = 0,
                                  !.retract_after_hold = TRUE]
           refused == [armed EXCEPT !.lock_held = FALSE]
           pulling == [armed EXCEPT !.target = t, !.hold = PullHold,
                                    !.step_hz = MaxHz, !.mode = mode]
<1>3. t \in Int /\ mode \in Mode /\ mode # "Retracting" /\ PullHold \in BOOLEAN
  BY <1>1, MotionAssumption DEF Channel, Mode
<1>4. /\ armed \in Channel /\ armed.mode = "Idle"
      /\ armed.retract_target = 0 /\ armed.retract_after_hold
  <2>1. 0 \in Int
    OBVIOUS
  <2> QED
    BY <1>1, <1>2, <2>1, ArmedChannel, ArmedHome
<1>5. ch' = [ch EXCEPT ![m] = refused] \/ ch' = [ch EXCEPT ![m] = pulling]
  BY DEF ArmPull, Keep
<1> HIDE DEF armed, mode, t
<1>6. Homeward(refused)
  BY <1>4 DEF Channel, Homeward
<1>7. Homeward(pulling)
  BY <1>3, <1>4, PullingHomeward
<1> HIDE DEF refused, pulling
<1> QED
  BY <1>1, <1>5, <1>6, <1>7 DEF HomeInv

LEMMA PulseHomeward ==
  ASSUME Inv, HomeInv, NEW m \in Motor, Pulse(m)
  PROVE  HomeInv'
<1>1. ch[m] \in Channel /\ Homeward(ch[m])
  BY DEF Inv, TypeOK, HomeInv
<1>2. Stepped(ch[m]) \in Channel /\ Homeward(Stepped(ch[m]))
  BY <1>1, SteppedChannel, SteppedHomeward
<1>3. ASSUME NEW d \in Loss(Stepped(ch[m])), Keep(m, d)
      PROVE  HomeInv'
  BY <1>2, <1>3, LossChannel, LossHomeward, OneHomeward
<1>4. ASSUME NEW d \in {ch[m], Stepped(ch[m])},
             End(m, AtRest([d EXCEPT !.position_uncertain = TRUE]))
      PROVE  HomeInv'
  <2>1. [d EXCEPT !.position_uncertain = TRUE] \in Channel
    BY <1>1, <1>2, UncertainChannel
  <2> QED
    BY <1>4, <2>1, AtRestChannel, RestHomeward, OneHomeward
<1>5. ASSUME End(m, [ch[m] EXCEPT !.enabled = FALSE, !.target = ch[m].position,
                       !.mode = "Idle", !.hold = FALSE,
                       !.retract_after_hold = FALSE,
                       !.position_uncertain = TRUE])
      PROVE  HomeInv'
  BY <1>1, <1>5, RefusedChannel, RestHomeward, OneHomeward
<1> QED
  BY <1>3, <1>4, <1>5 DEF Pulse

(* The end of a hold: only here does a channel set out for home.             *)
LEMMA HoldOverHomeward ==
  ASSUME Inv, HomeInv, NEW m \in Motor, NEW c \in Channel, Homeward(c),
         HoldOver(m, c)
  PROVE  HomeInv'
<1> DEFINE over == [c EXCEPT !.hold = FALSE]
           t == IF c.retract_after_hold THEN c.retract_target ELSE c.target
           back == [over EXCEPT !.target = c.retract_target, !.mode = "Retracting"]
           rest == [over EXCEPT !.target = t, !.mode = "Idle",
                                !.retract_after_hold = FALSE]
<1>1. over \in Channel /\ over.target = c.target
  BY DEF Channel
<1>2. CASE c.retract_after_hold /\ c.position # c.retract_target
  <2>1. Keep(m, back)
    BY <1>2 DEF HoldOver
  <2>2. back \in Channel
    BY <1>1 DEF Channel, Mode
  <2>3. Homeward(back)
    BY <1>1, <1>2 DEF HoldOver, Channel, Homeward
  <2> HIDE DEF back
  <2> QED
    BY <2>1, <2>2, <2>3, OneHomeward
<1>3. CASE ~(c.retract_after_hold /\ c.position # c.retract_target)
  <2>1. End(m, rest)
    BY <1>1, <1>3 DEF HoldOver
  <2>2. t \in Int
    BY DEF Channel
  <2> HIDE DEF t
  <2>3. rest \in Channel /\ rest.mode = "Idle"
    BY <1>1, <2>2 DEF Channel, Mode
  <2> HIDE DEF rest
  <2> QED
    BY <2>1, <2>3, RestHomeward, OneHomeward
<1> QED
  BY <1>2, <1>3

LEMMA TickHomeward ==
  ASSUME Inv, HomeInv, NEW m \in Motor, Tick(m)
  PROVE  HomeInv'
<1>1. ch[m] \in Channel /\ Homeward(ch[m])
  BY DEF Inv, TypeOK, HomeInv
<1>2. CASE TickAborts(m)
  <2>1. [ch[m] EXCEPT !.position_uncertain = TRUE] \in Channel
    BY <1>1, UncertainChannel
  <2> QED
    BY <1>2, <2>1, AtRestChannel, RestHomeward, OneHomeward DEF TickAborts
<1>3. ASSUME NEW c \in Probed(ch[m]),
             \/ TickOverheats(m, c)
             \/ c.mode = "Idle" /\ Keep(m, c)
             \/ HoldRuns(m, c) \/ HoldOver(m, c) \/ LegEnds(m, c)
      PROVE  HomeInv'
  <2>1. c \in Channel /\ Homeward(c)
    BY <1>1, ProbedChannel, ProbedHomeward
  <2>2. CASE TickOverheats(m, c)
    <3> DEFINE d == [AtRest(c) EXCEPT !.enabled = FALSE, !.position_uncertain = TRUE]
    <3>1. AtRest(c) \in Channel /\ AtRest(c).mode = "Idle"
      BY <2>1, AtRestChannel
    <3>2. d \in Channel /\ d.mode = "Idle"
      BY <3>1 DEF Channel
    <3>3. End(m, d)
      BY <2>2 DEF TickOverheats
    <3> HIDE DEF d
    <3> QED
      BY <3>2, <3>3, RestHomeward, OneHomeward
  <2>3. CASE (c.mode = "Idle" /\ Keep(m, c)) \/ HoldRuns(m, c)
    BY <2>1, <2>3, OneHomeward DEF HoldRuns
  <2>4. CASE HoldOver(m, c)
    BY <2>1, <2>4, HoldOverHomeward
  <2>5. CASE LegEnds(m, c)
    <3> DEFINE held == [c EXCEPT !.mode = "Holding"]
               rest == [c EXCEPT !.mode = "Idle",
                          !.retract_after_hold = @ /\ c.mode # "Retracting"]
    <3>1. held \in Channel /\ (c.mode = "Moving" => Homeward(held))
      BY <2>1 DEF Channel, Mode, Homeward
    <3>2. rest \in Channel /\ rest.mode = "Idle"
      BY <2>1 DEF Channel, Mode
    <3>3. \/ c.mode = "Moving" /\ Keep(m, held)
          \/ End(m, rest)
      BY <2>5 DEF LegEnds
    <3> HIDE DEF held, rest
    <3> QED
      BY <3>1, <3>2, <3>3, RestHomeward, OneHomeward
  <2> QED
    BY <1>3, <2>2, <2>3, <2>4, <2>5
<1> QED
  BY <1>2, <1>3 DEF Tick

LEMMA NextHome ==
  ASSUME Inv, HomeInv, [Next]_vars
  PROVE  HomeInv'
<1>1. CASE UNCHANGED vars
  BY <1>1 DEF vars, HomeInv
<1>2. ASSUME NEW m \in Motor, Step(m)
      PROVE  HomeInv'
  BY <1>2, CommandHomeward, PlainHomeward, ArmHomeward, PulseHomeward, TickHomeward
  DEF Step
<1> QED
  BY <1>1, <1>2 DEF Next

(* A pull goes back to home and nowhere else: through aborted pulls, moves   *)
(* in between, zeroing and changes of the divisor, for any travel and any    *)
(* divisors (ArmPullCycle, StepperChannel::Tick).                            *)
THEOREM RetractsSafe == Spec => []RetractsHome
<1>1. Init => HomeInv
  <2> SUFFICES ASSUME Init, NEW m \in Motor PROVE Homeward(ch[m])
    BY DEF HomeInv
  <2>1. ch[m].mode = "Idle"
    BY DEF Init
  <2> QED
    BY <2>1, RestHomeward
<1>2. HomeInv => RetractsHome
  BY DEF HomeInv, Homeward, RetractsHome
<1> QED
  BY <1>1, <1>2, InitInv, NextInv, NextHome, PTL DEF Spec
-----------------------------------------------------------------------------
(* The driver and its chip, seen from between two calls.  Fit is what every  *)
(* call keeps, whatever access failed in it: healthy_ is true of the chip    *)
(* (Matched), the flags of the chip last as long as their conditions         *)
(* (Flagged), and a slip is remembered (Kept), where u is the latch of the   *)
(* channel.                                                                  *)
Results == [d : Driver, c : Chip, ok : BOOLEAN]

Matched(d, c) ==
  d.healthy /\ ~c.reset =>
    /\ c.cfg /\ c.on = d.enabled
    /\ c.gs = Gs(d.amps) /\ c.irun = Irun(d.amps)

Flagged(c) ==
  /\ c.short => c.on /\ (c.err \/ c.reset)
  /\ c.low => c.uv \/ c.reset
  /\ c.hot => c.err \/ c.reset

(* What remembers a slip until the operator or the channel takes it over.    *)
Aware(d, c, u) ==
  c.slip => \/ u \/ d.loss \/ ~d.healthy \/ c.unseen \/ d.ot

(* And what remembers it only as long as the next look at the flags counts   *)
(* it: an episode that has just begun.                                       *)
Kept(d, c, u) ==
  c.slip => \/ u \/ d.loss \/ ~d.healthy \/ c.unseen \/ d.ot \/ c.reset
            \/ /\ d.enabled
               /\ \/ c.short \/ d.unexplained
                  \/ c.uv /\ ~d.uv
                  \/ c.err /\ ~d.err

Fit(d, c, u) ==
  d \in Driver /\ c \in Chip /\ Matched(d, c) /\ Flagged(c) /\ Kept(d, c, u)

(* An access may cost the driver its GPIO lines, and nothing else.           *)
Regrip(d, e) ==
  /\ e \in Driver
  /\ e.healthy = d.healthy /\ e.enabled = d.enabled /\ e.amps = d.amps
  /\ e.ot = d.ot /\ e.short = d.short /\ e.uv = d.uv /\ e.err = d.err
  /\ e.unexplained = d.unexplained /\ e.loss = d.loss /\ e.stop = d.stop
  /\ e.mismatch = d.mismatch /\ e.steps = d.steps /\ e.holdoff = d.holdoff

LEMMA ResultIn ==
  ASSUME NEW d \in Driver, NEW c \in Chip, NEW ok \in BOOLEAN
  PROVE  /\ Result(d, c, ok) \in Results
         /\ Result(d, c, ok).d = d /\ Result(d, c, ok).c = c /\ Result(d, c, ok).ok = ok
BY DEF Result, Results

LEMMA RegripSame ==
  ASSUME NEW d \in Driver
  PROVE  Regrip(d, d)
BY DEF Regrip

LEMMA RegripGpio ==
  ASSUME NEW d \in Driver, NEW g \in {"up", "sick", "closed"}
  PROVE  Regrip(d, [d EXCEPT !.gpio = g])
BY DEF Regrip, Driver

LEMMA RegripTwice ==
  ASSUME NEW d, NEW e, Regrip(d, e), NEW f, Regrip(e, f)
  PROVE  Regrip(d, f)
BY DEF Regrip

LEMMA RegripFit ==
  ASSUME NEW d, NEW c, NEW u, Fit(d, c, u), NEW e, Regrip(d, e)
  PROVE  Fit(e, c, u)
BY DEF Regrip, Fit, Matched, Kept

(* A driver that says it is not healthy promises nothing.                    *)
LEMMA SickFit ==
  ASSUME NEW d \in Driver, NEW c \in Chip, Flagged(c), ~d.healthy, NEW u
  PROVE  Fit(d, c, u) /\ Aware(d, c, u)
BY DEF Fit, Matched, Kept, Aware

-----------------------------------------------------------------------------
(* The accesses.                                                             *)
LEMMA LostIn ==
  ASSUME NEW d \in Driver, NEW cs, NEW r \in Lost(d, cs)
  PROVE  /\ Regrip(d, r.d) /\ r.c \in cs /\ r = Result(r.d, r.c, FALSE)
<1>1. CASE d.gpio # "up"
  BY <1>1, RegripSame DEF Lost, Result
<1>2. CASE d.gpio = "up"
  <2>1. PICK g \in {"up", "sick"} : \E e \in cs : r = Result([d EXCEPT !.gpio = g], e, FALSE)
    BY <1>2 DEF Lost, Result
  <2>2. PICK e \in cs : r = Result([d EXCEPT !.gpio = g], e, FALSE)
    BY <2>1
  <2>3. Regrip(d, [d EXCEPT !.gpio = g])
    BY RegripGpio
  <2> QED
    BY <2>2, <2>3 DEF Result
<1> QED
  BY <1>1, <1>2

LEMMA WriteIn ==
  ASSUME NEW d \in Driver, NEW c \in Chip, NEW w \in Chip, NEW r \in WriteRegister(d, c, w)
  PROVE  /\ r \in Results /\ Regrip(d, r.d) /\ r.c \in {c, w}
         /\ r.ok => r.d = d /\ r.c = w /\ d.gpio = "up"
         /\ ~r.ok => ~spiUp \/ d.gpio # "up"
<1>1. CASE r = Result(d, w, TRUE) /\ d.gpio = "up"
  <2>1. Regrip(d, d)
    BY RegripSame
  <2>2. r \in Results /\ r.d = d /\ r.c = w /\ r.ok
    <3> DEFINE z == TRUE
    <3>1. z \in BOOLEAN /\ z /\ r = Result(d, w, z)
      BY <1>1
    <3> HIDE DEF z
    <3> QED
      BY <3>1, ResultIn
  <2> QED
    BY <1>1, <2>1, <2>2
<1>2. CASE r \in Lost(d, {c, w}) /\ (~spiUp \/ d.gpio # "up")
  <2>1. Regrip(d, r.d) /\ r.c \in {c, w} /\ r = Result(r.d, r.c, FALSE)
    BY <1>2, LostIn
  <2>2. r.d \in Driver /\ r.c \in Chip
    BY <2>1 DEF Regrip
  <2>3. r \in Results /\ ~r.ok
    <3> DEFINE e == r.d
               v == r.c
               z == FALSE
    <3>1. e \in Driver /\ v \in Chip /\ z \in BOOLEAN /\ ~z /\ r = Result(e, v, z)
      BY <2>1, <2>2
    <3> HIDE DEF e, v, z
    <3> QED
      BY <3>1, ResultIn
  <2> QED
    BY <1>2, <2>1, <2>3
<1>3. CASE r \in Lost(d, {c}) /\ d.gpio # "up"
  <2>1. Regrip(d, r.d) /\ r.c \in {c} /\ r = Result(r.d, r.c, FALSE)
    BY <1>3, LostIn
  <2>2. r.d \in Driver /\ r.c \in Chip
    BY <2>1 DEF Regrip
  <2>3. r \in Results /\ ~r.ok
    <3> DEFINE e == r.d
               v == r.c
               z == FALSE
    <3>1. e \in Driver /\ v \in Chip /\ z \in BOOLEAN /\ ~z /\ r = Result(e, v, z)
      BY <2>1, <2>2
    <3> HIDE DEF e, v, z
    <3> QED
      BY <3>1, ResultIn
  <2> QED
    BY <1>3, <2>1, <2>3
<1> QED
  BY <1>1, <1>2, <1>3 DEF WriteRegister

LEMMA ReadIn ==
  ASSUME NEW d \in Driver, NEW c \in Chip, NEW r \in ReadRegister(d, c)
  PROVE  /\ r \in Results /\ Regrip(d, r.d) /\ r.c = c
         /\ r.ok => r.d = d /\ d.gpio = "up"
         /\ ~r.ok => ~spiUp \/ d.gpio # "up"
BY WriteIn DEF ReadRegister

(* Unhealthy: the handler that fails leaves a driver that says so.           *)
LEMMA UnhealthyIn ==
  ASSUME NEW S, NEW r \in Unhealthy(S), S \subseteq Results
  PROVE  /\ r \in Results
         /\ r.ok => r \in S
         /\ ~r.ok => /\ ~r.d.healthy
                     /\ \E s \in S : ~s.ok /\ r.c = s.c
                                     /\ r.d = [s.d EXCEPT !.healthy = FALSE]
<1>1. PICK s \in S : r = IF s.ok THEN s ELSE [s EXCEPT !.d.healthy = FALSE]
  BY DEF Unhealthy
<1>2. s \in Results
  OBVIOUS
<1>3. CASE s.ok
  BY <1>1, <1>2, <1>3
<1>4. CASE ~s.ok
  <2>1. r = [s EXCEPT !.d = [s.d EXCEPT !.healthy = FALSE]]
    BY <1>1, <1>4
  <2>2. [s.d EXCEPT !.healthy = FALSE] \in Driver /\ ~[s.d EXCEPT !.healthy = FALSE].healthy
    BY <1>2 DEF Results, Driver
  <2>3. r \in Results /\ r.c = s.c /\ ~r.ok /\ r.d = [s.d EXCEPT !.healthy = FALSE]
    BY <1>2, <1>4, <2>1, <2>2 DEF Results
  <2> QED
    BY <1>4, <2>2, <2>3
<1> QED
  BY <1>3, <1>4
-----------------------------------------------------------------------------
(* Reinitialize: what it returns does not depend on what it found.  A driver *)
(* that comes out healthy has its chip, and a slip is unseen.                 *)
LEMMA CurrentNat ==
  ASSUME NEW a \in Currents
  PROVE  Gs(a) \in Nat /\ Irun(a) \in Nat
<1>1. a \in 1..1000
  BY DriverAssumption
<1>2. Round(256 * a, 1000) \in Nat /\ Round(32 * a, 1000) \in Nat
  BY <1>1 DEF Round
<1>3. a > 500 => Round(32 * a, 1000) >= 1
  BY <1>1 DEF Round
<1> HIDE DEF Round
<1> QED
  BY <1>1, <1>2, <1>3 DEF Gs, Irun

LEMMA SlipsIn ==
  ASSUME NEW c \in Chip, Flagged(c)
  PROVE  /\ Slips(c) \in Chip /\ Flagged(Slips(c))
         /\ Slips(c) = [c EXCEPT !.slip = c.slip \/ Powered(c)]
BY DEF Slips, Powered, Chip, Flagged

LEMMA RebasedIn ==
  ASSUME NEW c \in Chip, Flagged(c)
  PROVE  /\ Rebased(c) \in Chip /\ Flagged(Rebased(c))
         /\ Rebased(c).cfg = c.cfg /\ Rebased(c).on = c.on /\ Rebased(c).gs = c.gs
         /\ Rebased(c).irun = c.irun /\ Rebased(c).reset = c.reset
         /\ Rebased(c).unseen = c.unseen /\ Rebased(c).strap = c.strap
<1> DEFINE n == c.slip \/ Astray(c)
           w == [c EXCEPT !.xt = TRUE, !.xa = TRUE, !.slip = n]
<1>1. Rebased(c) = w
  BY DEF Rebased
<1>2. n \in BOOLEAN
  BY DEF Astray, Chip
<1> HIDE DEF n
<1>3. w \in Chip
  BY <1>2 DEF Chip
<1>4. /\ w.uv = c.uv /\ w.err = c.err /\ w.low = c.low /\ w.hot = c.hot
      /\ w.short = c.short /\ w.on = c.on /\ w.cfg = c.cfg /\ w.gs = c.gs
      /\ w.irun = c.irun /\ w.unseen = c.unseen /\ w.reset = c.reset
      /\ w.strap = c.strap
  BY DEF Chip
<1> HIDE DEF w
<1> QED
  BY <1>1, <1>3, <1>4 DEF Flagged

LEMMA OpenIn ==
  ASSUME NEW d \in Driver, NEW c \in Chip, Flagged(c), NEW r \in OpenGpio(d, c)
  PROVE  /\ r \in Results /\ Regrip(d, r.d) /\ Flagged(r.c)
         /\ r.ok => r.d.gpio = "up"
<1>1. CASE r = Result(d, c, TRUE) /\ d.gpio = "up"
  BY <1>1, ResultIn, RegripSame
<1> DEFINE off == [Slips(c) EXCEPT !.en = FALSE]
           on == [c EXCEPT !.en = TRUE]
<1>2. /\ off \in Chip /\ Flagged(off)
      /\ on \in Chip /\ Flagged(on)
  <2>1. Slips(c) \in Chip /\ Flagged(Slips(c))
    BY SlipsIn
  <2> DEFINE x == Slips(c)
  <2> HIDE DEF x
  <2>2. ASSUME NEW y \in Chip, Flagged(y), NEW e \in BOOLEAN
        PROVE  [y EXCEPT !.en = e] \in Chip /\ Flagged([y EXCEPT !.en = e])
    BY <2>2 DEF Chip, Flagged
  <2>3. off = [x EXCEPT !.en = FALSE]
    BY DEF off, x
  <2>4. on = [c EXCEPT !.en = TRUE]
    BY DEF on
  <2>5. x \in Chip /\ Flagged(x)
    BY <2>1 DEF x
  <2> QED
    BY <2>2, <2>3, <2>4, <2>5
<1> HIDE DEF off, on
<1>3. CASE r = Result([d EXCEPT !.gpio = "up"], off, TRUE)
  <2>1. Regrip(d, [d EXCEPT !.gpio = "up"]) /\ [d EXCEPT !.gpio = "up"].gpio = "up"
    BY RegripGpio DEF Driver
  <2>2. [d EXCEPT !.gpio = "up"] \in Driver
    BY <2>1 DEF Regrip
  <2> QED
    BY <1>2, <1>3, <2>1, <2>2, ResultIn
<1>4. ASSUME NEW l \in {off, on},
             r = Result([d EXCEPT !.gpio = "closed"], l, FALSE)
      PROVE  r \in Results /\ Regrip(d, r.d) /\ Flagged(r.c) /\ ~r.ok
  <2>1. Regrip(d, [d EXCEPT !.gpio = "closed"])
    BY RegripGpio
  <2>2. [d EXCEPT !.gpio = "closed"] \in Driver
    BY <2>1 DEF Regrip
  <2>3. l \in Chip /\ Flagged(l)
    BY <1>2, <1>4
  <2> DEFINE e == [d EXCEPT !.gpio = "closed"]
             z == FALSE
  <2>4. /\ Regrip(d, e) /\ e \in Driver /\ z \in BOOLEAN /\ ~z
        /\ r = Result(e, l, z)
    BY <1>4, <2>1, <2>2
  <2> HIDE DEF e, z
  <2>5. r \in Results /\ r.d = e /\ r.c = l /\ r.ok = z
    BY <2>3, <2>4, ResultIn
  <2> QED
    BY <2>3, <2>4, <2>5
<1>5. \/ r = Result(d, c, TRUE) /\ d.gpio = "up"
      \/ r = Result([d EXCEPT !.gpio = "up"], off, TRUE)
      \/ \E l \in {off, on} : r = Result([d EXCEPT !.gpio = "closed"], l, FALSE)
  BY DEF OpenGpio, off, on
<1> QED
  BY <1>1, <1>3, <1>4, <1>5

LEMMA ChopperIn ==
  ASSUME NEW c \in Chip, Flagged(c), NEW on \in BOOLEAN
  PROVE  /\ Chopper(c, on) \in Chip /\ Flagged(Chopper(c, on))
         /\ Chopper(c, on) = [c EXCEPT !.on = on, !.short = c.short /\ on]
<1>1. Chopper(c, on) = [c EXCEPT !.on = on, !.short = c.short /\ on]
  BY DEF Chopper
<1>2. Chopper(c, on) \in Chip
  BY DEF Chopper, Chip
<1>3. Flagged(Chopper(c, on))
  BY DEF Chopper, Chip, Flagged
<1> QED
  BY <1>1, <1>2, <1>3

LEMMA ChipCleared ==
  ASSUME NEW c \in Chip, NEW n \in BOOLEAN, NEW l \in BOOLEAN, NEW e \in BOOLEAN,
         NEW f \in BOOLEAN
  PROVE  [c EXCEPT !.reset = n, !.uv = l, !.err = e, !.unseen = f] \in Chip
BY DEF Chip

Wiped(c, b, f, t, g, r) ==
  [c EXCEPT !.slip = b, !.cfg = f, !.on = f, !.gs = g, !.irun = r, !.reset = t, !.uv = f,
            !.err = f, !.short = f, !.xt = f, !.xa = f]

LEMMA ChipIsReset ==
  ASSUME NEW c \in Chip, NEW f \in BOOLEAN, NEW t \in BOOLEAN, NEW g \in Nat, NEW r \in Nat,
         NEW b \in BOOLEAN
  PROVE  Wiped(c, b, f, t, g, r) \in Chip
BY DEF Chip, Wiped

LEMMA DriverMatched ==
  ASSUME NEW d \in Driver, NEW x \in BOOLEAN, NEW y \in BOOLEAN, NEW z \in BOOLEAN
  PROVE  [d EXCEPT !.uv = y, !.unexplained = x, !.err = z] \in Driver
BY DEF Driver

LEMMA DriverHot ==
  ASSUME NEW d \in Driver, NEW b \in BOOLEAN
  PROVE  [d EXCEPT !.ot = b] \in Driver
BY DEF Driver

LEMMA ConfiguredIn ==
  ASSUME NEW d \in Driver, NEW c \in Chip, Flagged(c)
  PROVE  /\ \A i \in 1..6 : Configured(d, c)[i] \in Chip /\ Flagged(Configured(d, c)[i])
         /\ LET w == Configured(d, c)[6]
            IN  /\ w.cfg /\ w.on = d.enabled
                /\ w.gs = Gs(d.amps) /\ w.irun = Irun(d.amps)
                /\ w.unseen = c.unseen /\ w.strap = c.strap
<1> DEFINE c1 == Chopper(c, d.enabled)
           c2 == [c1 EXCEPT !.gs = Gs(d.amps)]
           c3 == [c2 EXCEPT !.irun = Irun(d.amps)]
           c4 == [c3 EXCEPT !.cfg = TRUE]
           c5 == Slips(c4)
           c6 == Rebased(c4)
<1>1. Configured(d, c) = <<c1, c2, c3, c4, c5, c6>>
  BY DEF Configured
<1>2. d.enabled \in BOOLEAN /\ d.amps \in Currents
  BY DEF Driver
<1>3. Gs(d.amps) \in Nat /\ Irun(d.amps) \in Nat
  BY <1>2, CurrentNat
<1>4. c1 \in Chip /\ Flagged(c1) /\ c1.on = d.enabled /\ c1.slip = c.slip
      /\ c1.unseen = c.unseen /\ c1.strap = c.strap
  <2>1. c1 \in Chip /\ Flagged(c1) /\ c1 = [c EXCEPT !.on = d.enabled,
                                                  !.short = c.short /\ d.enabled]
    BY <1>2, ChopperIn
  <2> HIDE DEF c1
  <2> QED
    BY <2>1 DEF Chip
<1> HIDE DEF c1
<1>5. c2 \in Chip /\ Flagged(c2) /\ c2.on = d.enabled /\ c2.gs = Gs(d.amps)
      /\ c2.slip = c.slip /\ c2.unseen = c.unseen /\ c2.strap = c.strap
  BY <1>3, <1>4 DEF Chip, Flagged
<1> HIDE DEF c2
<1>6. c3 \in Chip /\ Flagged(c3) /\ c3.on = d.enabled /\ c3.gs = Gs(d.amps)
      /\ c3.irun = Irun(d.amps)
      /\ c3.slip = c.slip /\ c3.unseen = c.unseen /\ c3.strap = c.strap
  BY <1>3, <1>5 DEF Chip, Flagged
<1> HIDE DEF c3
<1>7. c4 \in Chip /\ Flagged(c4) /\ c4.on = d.enabled /\ c4.gs = Gs(d.amps)
      /\ c4.irun = Irun(d.amps) /\ c4.cfg
      /\ c4.slip = c.slip /\ c4.unseen = c.unseen /\ c4.strap = c.strap
  BY <1>6 DEF Chip, Flagged
<1> HIDE DEF c4
<1>8. c5 \in Chip /\ Flagged(c5)
  BY <1>7, SlipsIn
<1> HIDE DEF c5
<1>9. c6 \in Chip /\ Flagged(c6) /\ c6.on = d.enabled /\ c6.gs = Gs(d.amps)
      /\ c6.irun = Irun(d.amps) /\ c6.cfg
      /\ c6.unseen = c.unseen /\ c6.strap = c.strap
  BY <1>7, RebasedIn
<1> HIDE DEF c6
<1>10. \A i \in 1..6 : i \in {1, 2, 3, 4, 5, 6}
  OBVIOUS
<1> QED
  BY <1>1, <1>4, <1>5, <1>6, <1>7, <1>8, <1>9, <1>10

LEMMA ReinitIn ==
  ASSUME NEW d0 \in Driver, NEW c0 \in Chip, Flagged(c0), NEW r \in Reinitialize(d0, c0)
  PROVE  /\ r \in Results /\ Flagged(r.c)
         /\ ~r.ok => ~r.d.healthy
         /\ r.ok => /\ r.d.healthy /\ r.d.gpio = "up" /\ Matched(r.d, r.c) /\ ~r.c.reset
                    /\ r.c.slip => r.c.unseen
                    /\ r.d.enabled = d0.enabled /\ r.d.steps = d0.steps
                    /\ r.d.ot = d0.ot /\ r.d.short = d0.short /\ r.d.loss = d0.loss
<1> DEFINE Gate(d, c) == {[q EXCEPT !.ok = @ /\ c.strap] : q \in ReadRegister(d, c)}
           Registers(d, c) ==
             LET cs == Configured(d, c)
             IN  {Result(d, cs[6], TRUE)} \cup
                 (IF spiUp THEN {} ELSE Lost(d, {c} \cup {cs[i] : i \in 1..6}))
           Verify(d, c) == ReadRegister(d, c)
           Cleared(c) == [c EXCEPT !.reset = FALSE, !.uv = c.low,
                                   !.err = c.short \/ c.hot, !.unseen = @ \/ c.slip]
           Clear(d, c) ==
             WriteRegister(d, c, [c EXCEPT !.reset = FALSE, !.uv = c.low,
                                           !.err = c.short \/ c.hot, !.unseen = @ \/ c.slip])
           Done(d, c) == {Result([d EXCEPT !.healthy = TRUE, !.uv = FALSE, !.err = FALSE,
                                        !.unexplained = FALSE, !.mismatch = 0], c, TRUE)}
           S1 == Then(OpenGpio(d0, c0), Gate)
           S2 == Then(S1, Registers)
           S3 == Then(S2, Verify)
           S4 == Then(S3, Clear)
           S5 == Then(S4, Done)
           Good(q) == q \in Results /\ Regrip(d0, q.d) /\ Flagged(q.c)
           Set(q) == /\ Matched([q.d EXCEPT !.healthy = TRUE], [q.c EXCEPT !.reset = FALSE])
                     /\ q.d.gpio = "up"
<1>1. Reinitialize(d0, c0) = Unhealthy(S5)
  BY DEF Reinitialize
<1>2. \A q \in S1 : Good(q) /\ (q.ok => q.d.gpio = "up")
  <2> SUFFICES ASSUME NEW q \in S1 PROVE Good(q) /\ (q.ok => q.d.gpio = "up")
    OBVIOUS
  <2>1. PICK s \in OpenGpio(d0, c0) : IF s.ok THEN q \in Gate(s.d, s.c) ELSE q = s
    <3> HIDE DEF Gate
    <3> QED
      BY DEF Then
  <2>2. s \in Results /\ Regrip(d0, s.d) /\ Flagged(s.c) /\ (s.ok => s.d.gpio = "up")
    BY OpenIn
  <2>3. CASE ~s.ok
    BY <2>1, <2>2, <2>3
  <2>4. CASE s.ok
    <3>1. PICK p \in ReadRegister(s.d, s.c) : q = [p EXCEPT !.ok = @ /\ s.c.strap]
      BY <2>1, <2>4
    <3>2. s.d \in Driver /\ s.c \in Chip /\ s.c.strap \in BOOLEAN
      BY <2>2 DEF Results, Chip
    <3>3. p \in Results /\ Regrip(s.d, p.d) /\ p.c = s.c /\ (p.ok => p.d = s.d)
      <4> HIDE DEF S1, Gate
      <4> QED
        BY <3>1, <3>2, ReadIn
    <3>4. q \in Results /\ q.d = p.d /\ q.c = p.c /\ (q.ok => p.ok)
      BY <3>1, <3>2, <3>3 DEF Results
    <3>5. Regrip(d0, p.d)
      BY <2>2, <3>3, RegripTwice
    <3> QED
      BY <2>2, <2>4, <3>3, <3>4, <3>5
  <2> QED
    BY <2>3, <2>4
<1>3. \A q \in S2 : Good(q) /\ (q.ok => Set(q))
  <2> SUFFICES ASSUME NEW q \in S2 PROVE Good(q) /\ (q.ok => Set(q))
    OBVIOUS
  <2>1. PICK s \in S1 : IF s.ok THEN q \in Registers(s.d, s.c) ELSE q = s
    <3> HIDE DEF Registers, S1
    <3> QED
      BY DEF Then
  <2>2. Good(s) /\ (s.ok => s.d.gpio = "up")
    BY <1>2
  <2> HIDE DEF S1, S2
  <2>3. s.d \in Driver /\ s.c \in Chip /\ s.d.enabled \in BOOLEAN
    BY <2>2 DEF Results, Driver
  <2>4. CASE ~s.ok
    BY <2>1, <2>2, <2>4
  <2> DEFINE cs == Configured(s.d, s.c)
  <2>5. /\ \A i \in 1..6 : cs[i] \in Chip /\ Flagged(cs[i])
        /\ cs[6].cfg /\ cs[6].on = s.d.enabled
        /\ cs[6].gs = Gs(s.d.amps) /\ cs[6].irun = Irun(s.d.amps)
    BY <2>2, <2>3, ConfiguredIn
  <2>6. s.ok => q = Result(s.d, cs[6], TRUE) \/ q \in Lost(s.d, {s.c} \cup {cs[i] : i \in 1..6})
    BY <2>1
  <2> HIDE DEF cs
  <2>7. CASE s.ok /\ q = Result(s.d, cs[6], TRUE)
    <3>1. cs[6] \in Chip /\ Flagged(cs[6])
      BY <2>5
    <3>2. q \in Results /\ q.d = s.d /\ q.c = cs[6]
      <4> DEFINE e == s.d
                 v == cs[6]
                 z == TRUE
      <4>1. e \in Driver /\ v \in Chip /\ z \in BOOLEAN /\ q = Result(e, v, z)
        BY <2>3, <2>7, <3>1
      <4> HIDE DEF e, v, z
      <4>2. q \in Results /\ q.d = e /\ q.c = v
        BY <4>1, ResultIn
      <4> QED
        BY <4>2 DEF e, v
    <3>3. Matched([s.d EXCEPT !.healthy = TRUE], [cs[6] EXCEPT !.reset = FALSE])
      BY <2>3, <2>5, <3>1 DEF Matched, Driver, Chip
    <3> QED
      BY <2>2, <2>7, <3>1, <3>2, <3>3
  <2>8. CASE s.ok /\ q \in Lost(s.d, {s.c} \cup {cs[i] : i \in 1..6})
    <3>1. Regrip(s.d, q.d) /\ q.c \in {s.c} \cup {cs[i] : i \in 1..6}
          /\ q = Result(q.d, q.c, FALSE)
      BY <2>3, <2>8, LostIn
    <3>2. q.c \in Chip /\ Flagged(q.c)
      BY <2>2, <2>3, <2>5, <3>1
    <3>3. q.d \in Driver
      BY <2>3, <3>1 DEF Regrip
    <3>4. q \in Results /\ ~q.ok
      <4> DEFINE e == q.d
                 v == q.c
                 z == FALSE
      <4>1. e \in Driver /\ v \in Chip /\ z \in BOOLEAN /\ ~z /\ q = Result(e, v, z)
        BY <3>1, <3>2, <3>3
      <4> HIDE DEF e, v, z
      <4> QED
        BY <4>1, ResultIn
    <3>5. Regrip(d0, q.d)
      BY <2>2, <3>1, RegripTwice
    <3> QED
      BY <3>2, <3>4, <3>5
  <2> QED
    BY <2>4, <2>6, <2>7, <2>8
<1>4. \A q \in S3 : Good(q) /\ (q.ok => Set(q))
  <2> SUFFICES ASSUME NEW q \in S3 PROVE Good(q) /\ (q.ok => Set(q))
    OBVIOUS
  <2>1. PICK s \in S2 : IF s.ok THEN q \in Verify(s.d, s.c) ELSE q = s
    <3> HIDE DEF Verify, S2
    <3> QED
      BY DEF Then
  <2>2. Good(s) /\ (s.ok => Set(s))
    BY <1>3
  <2> HIDE DEF S2, S3, Set
  <2>3. s.d \in Driver /\ s.c \in Chip
    BY <2>2 DEF Results
  <2>4. CASE ~s.ok
    BY <2>1, <2>2, <2>4
  <2>5. CASE s.ok
    <3>1. q \in ReadRegister(s.d, s.c)
      BY <2>1, <2>5
    <3>2. q \in Results /\ Regrip(s.d, q.d) /\ q.c = s.c /\ (q.ok => q.d = s.d)
      BY <2>3, <3>1, ReadIn
    <3>3. Regrip(d0, q.d)
      BY <2>2, <3>2, RegripTwice
    <3>4. q.ok => Set(q)
      BY <2>2, <2>5, <3>2 DEF Set
    <3> QED
      BY <2>2, <3>2, <3>3, <3>4
  <2> QED
    BY <2>4, <2>5
<1>5. \A q \in S4 : Good(q) /\ (q.ok => Set(q) /\ ~q.c.reset /\ (q.c.slip => q.c.unseen))
  <2> SUFFICES ASSUME NEW q \in S4
               PROVE  Good(q) /\ (q.ok => Set(q) /\ ~q.c.reset /\ (q.c.slip => q.c.unseen))
    OBVIOUS
  <2>1. PICK s \in S3 : IF s.ok THEN q \in Clear(s.d, s.c) ELSE q = s
    <3> HIDE DEF Clear, S3
    <3> QED
      BY DEF Then
  <2>2. Good(s) /\ (s.ok => Set(s))
    BY <1>4
  <2> HIDE DEF S3, S4, Set
  <2>3. s.d \in Driver /\ s.c \in Chip
    BY <2>2 DEF Results
  <2>4. CASE ~s.ok
    BY <2>1, <2>2, <2>4
  <2>5. CASE s.ok
    <3>1. Cleared(s.c) \in Chip /\ Flagged(Cleared(s.c)) /\ ~Cleared(s.c).reset
          /\ (Cleared(s.c).slip => Cleared(s.c).unseen)
      <4>1. Cleared(s.c) \in Chip
        <5> DEFINE e == s.c.short \/ s.c.hot
                   f == s.c.unseen \/ s.c.slip
                   n == FALSE
        <5>1. s.c.low \in BOOLEAN /\ e \in BOOLEAN /\ f \in BOOLEAN /\ n \in BOOLEAN
          BY <2>3 DEF Chip
        <5> HIDE DEF e, f, n
        <5>2. [s.c EXCEPT !.reset = n, !.uv = s.c.low, !.err = e, !.unseen = f] \in Chip
          BY <2>3, <5>1, ChipCleared
        <5> QED
          BY <5>2 DEF e, f, n
      <4>2. Flagged(Cleared(s.c))
        BY <2>2, <2>3 DEF Chip, Flagged
      <4>3. ~Cleared(s.c).reset /\ (Cleared(s.c).slip => Cleared(s.c).unseen)
        BY <2>3 DEF Chip
      <4> QED
        BY <4>1, <4>2, <4>3
    <3>2. Set(s) => Matched([s.d EXCEPT !.healthy = TRUE], [Cleared(s.c) EXCEPT !.reset = FALSE])
                    /\ s.d.gpio = "up"
      BY <2>3 DEF Set, Matched, Chip, Driver
    <3>3. q \in WriteRegister(s.d, s.c, Cleared(s.c))
      BY <2>1, <2>5
    <3> HIDE DEF Cleared
    <3>4. /\ q \in Results /\ Regrip(s.d, q.d) /\ q.c \in {s.c, Cleared(s.c)}
          /\ q.ok => q.d = s.d /\ q.c = Cleared(s.c)
      BY <2>3, <3>1, <3>3, WriteIn
    <3>5. Regrip(d0, q.d)
      BY <2>2, <3>4, RegripTwice
    <3>6. q.ok => Set(q)
      BY <2>2, <2>5, <3>2, <3>4 DEF Set
    <3> QED
      BY <2>2, <3>1, <3>4, <3>5, <3>6
  <2> QED
    BY <2>4, <2>5
<1>6. \A q \in S5 : /\ q \in Results /\ Flagged(q.c)
                    /\ q.ok => /\ q.d.healthy /\ q.d.gpio = "up" /\ Matched(q.d, q.c)
                               /\ ~q.c.reset /\ (q.c.slip => q.c.unseen)
                               /\ q.d.enabled = d0.enabled /\ q.d.steps = d0.steps
                               /\ q.d.ot = d0.ot /\ q.d.short = d0.short
                               /\ q.d.loss = d0.loss
  <2> TAKE q \in S5
  <2>1. PICK s \in S4 : IF s.ok THEN q \in Done(s.d, s.c) ELSE q = s
    <3> HIDE DEF Done, S4
    <3> QED
      BY DEF Then
  <2>2. Good(s) /\ (s.ok => Set(s) /\ ~s.c.reset /\ (s.c.slip => s.c.unseen))
    BY <1>5
  <2> HIDE DEF S4, S5, Set
  <2>3. s.d \in Driver /\ s.c \in Chip
    BY <2>2 DEF Results
  <2>4. CASE ~s.ok
    BY <2>1, <2>2, <2>4
  <2>5. CASE s.ok
    <3> DEFINE e == [s.d EXCEPT !.healthy = TRUE, !.uv = FALSE, !.err = FALSE,
                                !.unexplained = FALSE, !.mismatch = 0]
    <3>1. q = Result(e, s.c, TRUE)
      BY <2>1, <2>5
    <3>2. e \in Driver
      <4>1. 0 \in 0..Polls
        BY DriverAssumption
      <4> QED
        BY <2>3, <4>1 DEF Driver
    <3>3. /\ e.healthy /\ e.gpio = s.d.gpio /\ e.enabled = s.d.enabled /\ e.steps = s.d.steps
          /\ e.ot = s.d.ot /\ e.short = s.d.short /\ e.loss = s.d.loss /\ e.amps = s.d.amps
      BY <2>3 DEF Driver
    <3> HIDE DEF e
    <3>4. q \in Results /\ q.d = e /\ q.c = s.c /\ q.ok
      BY <2>3, <3>1, <3>2, ResultIn
    <3>5. Matched(e, s.c) /\ s.d.gpio = "up"
      BY <2>2, <2>3, <2>5, <3>3 DEF Set, Matched, Driver, Chip
    <3>6. s.d.enabled = d0.enabled /\ s.d.steps = d0.steps /\ s.d.ot = d0.ot
          /\ s.d.short = d0.short /\ s.d.loss = d0.loss
      BY <2>2 DEF Regrip
    <3> QED
      BY <2>2, <2>5, <3>3, <3>4, <3>5, <3>6
  <2> QED
    BY <2>4, <2>5
<1> HIDE DEF S5
<1>7. S5 \subseteq Results
  BY <1>6
<1>8. /\ r \in Results
      /\ r.ok => r \in S5
      /\ ~r.ok => ~r.d.healthy /\ \E s \in S5 : r.c = s.c
  BY <1>1, <1>7, UnhealthyIn
<1> QED
  BY <1>6, <1>8
-----------------------------------------------------------------------------
(* Recover and the looks at the chip.                                        *)
Booked(d, e, cond) ==
  /\ e \in Driver
  /\ e.loss = (d.loss \/ cond)
  /\ e.healthy = d.healthy /\ e.enabled = d.enabled /\ e.gpio = d.gpio
  /\ e.amps = d.amps /\ e.ot = d.ot /\ e.short = d.short /\ e.uv = d.uv
  /\ e.err = d.err /\ e.unexplained = d.unexplained
  /\ e.mismatch = d.mismatch /\ e.steps = d.steps /\ e.holdoff = d.holdoff

LEMMA StepLossIn ==
  ASSUME NEW cond \in BOOLEAN, NEW d \in Driver, NEW stop \in BOOLEAN
  PROVE  Booked(d, StepLossIf(cond, d, stop), cond)
<1>1. CASE ~cond
  BY <1>1 DEF StepLossIf, Driver, Booked
<1>2. CASE cond
  <2>1. StepLossIf(cond, d, stop) = [d EXCEPT !.loss = TRUE, !.stop = d.stop \/ stop]
    BY <1>2 DEF StepLossIf, StepLoss
  <2>2. d.stop \/ stop \in BOOLEAN
    OBVIOUS
  <2>3. [d EXCEPT !.loss = TRUE, !.stop = d.stop \/ stop] \in Driver
    BY DEF Driver
  <2> DEFINE e == StepLossIf(cond, d, stop)
             t == d.stop \/ stop
  <2>4. e = [d EXCEPT !.loss = TRUE, !.stop = t] /\ e \in Driver
    BY <2>1, <2>3
  <2> HIDE DEF e, t
  <2>5. /\ e.healthy = d.healthy /\ e.enabled = d.enabled /\ e.gpio = d.gpio
        /\ e.amps = d.amps /\ e.ot = d.ot /\ e.short = d.short /\ e.uv = d.uv
        /\ e.err = d.err /\ e.unexplained = d.unexplained
        /\ e.mismatch = d.mismatch /\ e.steps = d.steps /\ e.holdoff = d.holdoff
    BY <2>4 DEF Driver
  <2>6. e.loss = TRUE
    BY <2>4 DEF Driver
  <2>7. e.loss = (d.loss \/ cond)
    BY <1>2, <2>6
  <2> QED
    BY <2>4, <2>5, <2>7 DEF e, Booked
<1> QED
  BY <1>1, <1>2

(* What a recovery that went through has settled: an episode is on record,   *)
(* and a reset is a loss or unseen.                                           *)
Read(d0, d, c) ==
  /\ d.gpio = "up" /\ ~c.reset
  /\ d.enabled = d0.enabled /\ d.steps = d0.steps /\ d.short = d0.short
  /\ d0.healthy => d.healthy
  /\ d.loss \/ ~d.enabled \/ ((c.uv => d.uv) /\ (c.err => d.err))

LEMMA RestoreIn ==
  ASSUME NEW d0 \in Driver, NEW c0 \in Chip, Flagged(c0), NEW u \in BOOLEAN,
         NEW q \in Reinitialize(d0, c0), NEW r,
         r = [q EXCEPT !.d = StepLossIf(q.ok /\ d0.enabled, @, FALSE),
                       !.c.unseen = IF q.ok /\ d0.enabled THEN c0.unseen ELSE @]
  PROVE  /\ r \in Results
         /\ r.ok => Fit(r.d, r.c, u) /\ Read(d0, r.d, r.c) /\ Aware(r.d, r.c, u)
         /\ ~r.ok => ~r.d.healthy /\ Flagged(r.c)
<1> DEFINE cond == q.ok /\ d0.enabled
           e == StepLossIf(cond, q.d, FALSE)
           w == [q.c EXCEPT !.unseen = IF cond THEN c0.unseen ELSE q.c.unseen]
<1>1. /\ q \in Results /\ Flagged(q.c)
      /\ ~q.ok => ~q.d.healthy
      /\ q.ok => /\ q.d.healthy /\ q.d.gpio = "up" /\ Matched(q.d, q.c) /\ ~q.c.reset
                 /\ q.c.slip => q.c.unseen
                 /\ q.d.enabled = d0.enabled /\ q.d.steps = d0.steps
                 /\ q.d.ot = d0.ot /\ q.d.short = d0.short /\ q.d.loss = d0.loss
  BY ReinitIn
<1>2. q.d \in Driver /\ q.c \in Chip /\ q.ok \in BOOLEAN /\ cond \in BOOLEAN
  BY <1>1 DEF Results, Driver
<1>3. /\ e \in Driver /\ e.loss = (q.d.loss \/ cond)
      /\ e.healthy = q.d.healthy /\ e.enabled = q.d.enabled /\ e.gpio = q.d.gpio
      /\ e.amps = q.d.amps /\ e.ot = q.d.ot /\ e.short = q.d.short /\ e.uv = q.d.uv
      /\ e.err = q.d.err /\ e.unexplained = q.d.unexplained /\ e.steps = q.d.steps
  <2> DEFINE z == FALSE
             k == cond
             v == q.d
  <2>1. v \in Driver /\ z \in BOOLEAN /\ k \in BOOLEAN
    BY <1>2
  <2> HIDE DEF z, k, v
  <2>2. Booked(v, StepLossIf(k, v, z), k)
    BY <2>1, StepLossIn
  <2>3. e = StepLossIf(k, v, z)
    BY DEF z, k, v
  <2> HIDE DEF e
  <2> QED
    BY <2>2, <2>3 DEF Booked, k, v
<1>4. (IF cond THEN c0.unseen ELSE q.c.unseen) \in BOOLEAN
  BY <1>2 DEF Chip
<1>5. w \in Chip /\ Flagged(w)
  BY <1>1, <1>2, <1>4 DEF Chip, Flagged
<1>6. /\ w.slip = q.c.slip /\ w.reset = q.c.reset /\ w.cfg = q.c.cfg /\ w.on = q.c.on
      /\ w.gs = q.c.gs /\ w.irun = q.c.irun
      /\ w.unseen = IF cond THEN c0.unseen ELSE q.c.unseen
  BY <1>2 DEF Chip
<1>7. r = [q EXCEPT !.d = e, !.c = w]
  OBVIOUS
<1> HIDE DEF e, w
<1>8. r \in Results /\ r.d = e /\ r.c = w /\ r.ok = q.ok
  BY <1>1, <1>3, <1>5, <1>7 DEF Results
<1>9. CASE q.ok
  <2>1. e.loss \/ ~e.enabled
    BY <1>1, <1>3, <1>9
  <2>2. Aware(e, w, u)
    BY <1>1, <1>3, <1>6, <1>9 DEF Aware
  <2>3. Matched(e, w)
    BY <1>1, <1>3, <1>6, <1>9 DEF Matched
  <2>4. Kept(e, w, u)
    BY <2>2 DEF Kept, Aware
  <2>5. Read(d0, e, w)
    BY <1>1, <1>3, <1>6, <1>9, <2>1 DEF Read
  <2> QED
    BY <1>3, <1>5, <1>8, <1>9, <2>2, <2>3, <2>4, <2>5 DEF Fit
<1>10. CASE ~q.ok
  BY <1>1, <1>3, <1>5, <1>8, <1>10
<1> QED
  BY <1>2, <1>9, <1>10

(* What Recover books of the flags of the chip, and what it writes back.     *)
Flagging(d, c, e, w) ==
  /\ e = [StepLossIf(c.uv /\ ~d.uv /\ d.enabled, d, FALSE)
            EXCEPT !.uv = c.uv, !.unexplained = @ \/ (c.err /\ ~d.err), !.err = c.err]
  /\ w = [c EXCEPT !.uv = c.low, !.err = c.short \/ c.hot]

LEMMA FlagsIn ==
  ASSUME NEW d \in Driver, NEW c \in Chip, NEW u \in BOOLEAN, Fit(d, c, u),
         ~c.reset, d.gpio = "up", NEW d2, NEW w, NEW r \in Results,
         Flagging(d, c, d2, w),
         \/ ~c.uv /\ ~c.err /\ r = Result(d2, c, TRUE)
         \/ r \in WriteRegister(d2, c, w)
  PROVE  /\ r.ok => /\ Fit(r.d, r.c, u) /\ Read(d, r.d, r.c)
                    /\ Aware(d, c, u) => Aware(r.d, r.c, u)
         /\ Flagged(r.c)
<1> USE DEF Flagging
<1> DEFINE d1 == StepLossIf(c.uv /\ ~d.uv /\ d.enabled, d, FALSE)
<1>1. /\ d.healthy \in BOOLEAN /\ d.enabled \in BOOLEAN /\ d.uv \in BOOLEAN
      /\ d.err \in BOOLEAN /\ d.unexplained \in BOOLEAN
      /\ c.uv \in BOOLEAN /\ c.err \in BOOLEAN /\ c.low \in BOOLEAN
      /\ c.short \in BOOLEAN /\ c.hot \in BOOLEAN /\ c.reset \in BOOLEAN
  BY DEF Driver, Chip
<1>2. /\ d1 \in Driver /\ d1.loss = (d.loss \/ (c.uv /\ ~d.uv /\ d.enabled))
      /\ d1.healthy = d.healthy /\ d1.enabled = d.enabled /\ d1.gpio = d.gpio
      /\ d1.amps = d.amps /\ d1.ot = d.ot /\ d1.short = d.short
      /\ d1.unexplained = d.unexplained /\ d1.steps = d.steps
  <2> DEFINE k == c.uv /\ ~d.uv /\ d.enabled
  <2>1. k \in BOOLEAN /\ FALSE \in BOOLEAN
    BY <1>1
  <2> HIDE DEF k
  <2>2. Booked(d, StepLossIf(k, d, FALSE), k)
    BY <2>1, StepLossIn
  <2> QED
    BY <2>2 DEF k, Booked
<1> HIDE DEF d1
<1>3. d2 = [d1 EXCEPT !.uv = c.uv, !.unexplained = d.unexplained \/ (c.err /\ ~d.err),
                      !.err = c.err]
  BY <1>2 DEF d1
<1>4. d2 \in Driver
  <2>1. (d.unexplained \/ (c.err /\ ~d.err)) \in BOOLEAN
    OBVIOUS
  <2>2. c.uv \in BOOLEAN /\ c.err \in BOOLEAN
    BY <1>1
  <2>3. d1 \in Driver
    BY <1>2
  <2> HIDE DEF Flagging
  <2> QED
    BY <1>3, <2>1, <2>2, <2>3, DriverMatched
<1>5. /\ d2.loss = d1.loss /\ d2.healthy = d.healthy /\ d2.enabled = d.enabled
      /\ d2.gpio = "up" /\ d2.amps = d.amps /\ d2.ot = d.ot /\ d2.short = d.short
      /\ d2.steps = d.steps
      /\ d2.uv = c.uv /\ d2.err = c.err
      /\ d2.unexplained = (d.unexplained \/ (c.err /\ ~d.err))
  <2>1. d1 \in Driver
    BY <1>2
  <2>2. /\ d2.loss = d1.loss /\ d2.healthy = d1.healthy /\ d2.enabled = d1.enabled
        /\ d2.gpio = d1.gpio /\ d2.amps = d1.amps /\ d2.ot = d1.ot
        /\ d2.short = d1.short /\ d2.steps = d1.steps
    BY <1>3, <2>1 DEF Driver
  <2>3. /\ d2.uv = c.uv /\ d2.err = c.err
        /\ d2.unexplained = (d.unexplained \/ (c.err /\ ~d.err))
    BY <1>3, <2>1 DEF Driver
  <2>4. d.gpio = "up"
    OBVIOUS
  <2> QED
    BY <1>2, <2>2, <2>3, <2>4
<1>6. w \in Chip /\ Flagged(c)
  BY <1>1 DEF Fit, Chip
<1>7. /\ w.uv = c.low /\ w.err = (c.short \/ c.hot) /\ w.low = c.low /\ w.hot = c.hot
      /\ w.short = c.short /\ w.on = c.on /\ w.cfg = c.cfg /\ w.gs = c.gs
      /\ w.irun = c.irun /\ w.slip = c.slip /\ w.unseen = c.unseen /\ w.reset = c.reset
  BY DEF Chip
<1>8. Flagged(w)
  BY <1>1, <1>6, <1>7 DEF Flagged
<1>9. /\ Fit(d2, w, u) /\ Read(d, d2, w)
      /\ Aware(d, c, u) => Aware(d2, w, u)
  <2>1. Matched(d2, w)
    BY <1>5, <1>7 DEF Fit, Matched
  <2>2. (w.uv => d2.uv) /\ (w.err => d2.err)
    BY <1>1, <1>5, <1>6, <1>7 DEF Flagged, Fit
  <2>3. Kept(d2, w, u)
    <3>1. Kept(d, c, u)
      BY DEF Fit
    <3> QED
      BY <1>1, <1>2, <1>5, <1>7, <3>1 DEF Kept
  <2>4. Aware(d, c, u) => Aware(d2, w, u)
    BY <1>2, <1>5, <1>7 DEF Aware
  <2>5. Read(d, d2, w)
    BY <1>5, <1>7, <2>2 DEF Read
  <2> QED
    BY <1>4, <1>6, <1>8, <2>1, <2>3, <2>4, <2>5 DEF Fit
<1>10. CASE ~c.uv /\ ~c.err /\ r = Result(d2, c, TRUE)
  <2>1. r.d = d2 /\ r.c = c /\ r.ok
    BY <1>4, <1>10, ResultIn
  <2>2. Matched(d2, c)
    BY <1>5 DEF Fit, Matched
  <2>3. Kept(d2, c, u)
    <3>1. Kept(d, c, u)
      BY DEF Fit
    <3> QED
      BY <1>1, <1>2, <1>5, <1>10, <3>1 DEF Kept
  <2>4. Aware(d, c, u) => Aware(d2, c, u)
    BY <1>2, <1>5 DEF Aware
  <2>5. Read(d, d2, c)
    BY <1>5, <1>10 DEF Read
  <2> QED
    BY <1>4, <1>6, <2>1, <2>2, <2>3, <2>4, <2>5 DEF Fit
<1>11. CASE r \in WriteRegister(d2, c, w)
  <2>1. r.c \in {c, w} /\ (r.ok => r.d = d2 /\ r.c = w)
    BY <1>4, <1>6, <1>11, WriteIn
  <2> QED
    BY <1>6, <1>8, <1>9, <2>1
<1> QED
  BY <1>10, <1>11

LEMMA RecoverIn ==
  ASSUME NEW d0, NEW c0, NEW u \in BOOLEAN, Fit(d0, c0, u), NEW r \in Recover(d0, c0)
  PROVE  /\ r \in Results /\ Fit(r.d, r.c, u)
         /\ ~r.ok => ~r.d.healthy
         /\ r.ok => /\ Read(d0, r.d, r.c)
                    /\ Aware(d0, c0, u) => Aware(r.d, r.c, u)
<1> DEFINE Flags(d, c) ==
             LET d1 == StepLossIf(c.uv /\ ~d.uv /\ d.enabled, d, FALSE)
                 d2 == [d1 EXCEPT !.uv = c.uv, !.unexplained = @ \/ (c.err /\ ~d.err),
                                  !.err = c.err]
             IN  IF ~c.uv /\ ~c.err THEN {Result(d2, c, TRUE)}
                 ELSE WriteRegister(d2, c, [c EXCEPT !.uv = c.low, !.err = c.short \/ c.hot])
           Restore(d, c) ==
             {[q EXCEPT !.d = StepLossIf(q.ok /\ d.enabled, @, FALSE),
                        !.c.unseen = IF q.ok /\ d.enabled THEN c.unseen ELSE @] :
                 q \in Reinitialize(d, c)}
           Handle(d, c) == IF c.reset THEN Restore(d, c) ELSE Flags(d, c)
           S == Then(ReadRegister(d0, c0), Handle)
           Fine(q) == /\ Fit(q.d, q.c, u) /\ Read(d0, q.d, q.c)
                      /\ Aware(d0, c0, u) => Aware(q.d, q.c, u)
<1>1. Recover(d0, c0) = Unhealthy(S)
  BY DEF Recover
<1>2. d0 \in Driver /\ c0 \in Chip /\ Flagged(c0)
  BY DEF Fit
<1>3. \A q \in S : q \in Results /\ Flagged(q.c) /\ (q.ok => Fine(q))
  <2> TAKE q \in S
  <2>1. PICK s \in ReadRegister(d0, c0) : IF s.ok THEN q \in Handle(s.d, s.c) ELSE q = s
    <3> HIDE DEF Handle
    <3> QED
      BY DEF Then
  <2> HIDE DEF S, Fine
  <2>2. s \in Results /\ s.c = c0 /\ (s.ok => s.d = d0 /\ d0.gpio = "up")
    BY <1>2, ReadIn
  <2>3. CASE ~s.ok
    BY <1>2, <2>1, <2>2, <2>3
  <2>4. CASE s.ok /\ c0.reset
    <3>1. PICK p \in Reinitialize(d0, c0) :
             q = [p EXCEPT !.d = StepLossIf(p.ok /\ d0.enabled, @, FALSE),
                           !.c.unseen = IF p.ok /\ d0.enabled THEN c0.unseen ELSE @]
      BY <2>1, <2>2, <2>4
    <3>2. /\ q \in Results
          /\ q.ok => Fit(q.d, q.c, u) /\ Read(d0, q.d, q.c) /\ Aware(q.d, q.c, u)
          /\ ~q.ok => ~q.d.healthy /\ Flagged(q.c)
      BY <1>2, <3>1, RestoreIn
    <3> QED
      BY <3>2 DEF Fine, Fit, Results
  <2>5. CASE s.ok /\ ~c0.reset
    <3> DEFINE d2 == [StepLossIf(c0.uv /\ ~d0.uv /\ d0.enabled, d0, FALSE)
                        EXCEPT !.uv = c0.uv, !.unexplained = @ \/ (c0.err /\ ~d0.err),
                               !.err = c0.err]
               w == [c0 EXCEPT !.uv = c0.low, !.err = c0.short \/ c0.hot]
    <3>1. \/ ~c0.uv /\ ~c0.err /\ q = Result(d2, c0, TRUE)
          \/ q \in WriteRegister(d2, c0, w)
      BY <2>1, <2>2, <2>5
    <3>2. d2 \in Driver /\ w \in Chip
      <4>1. /\ (c0.uv /\ ~d0.uv /\ d0.enabled) \in BOOLEAN /\ c0.uv \in BOOLEAN
            /\ c0.err \in BOOLEAN
        BY <1>2 DEF Driver, Chip
      <4> DEFINE d1 == StepLossIf(c0.uv /\ ~d0.uv /\ d0.enabled, d0, FALSE)
                 k == c0.uv /\ ~d0.uv /\ d0.enabled
      <4>2. d1 \in Driver
        <5>1. k \in BOOLEAN /\ FALSE \in BOOLEAN
          BY <4>1
        <5> HIDE DEF k
        <5>2. Booked(d0, StepLossIf(k, d0, FALSE), k)
          BY <1>2, <5>1, StepLossIn
        <5> QED
          BY <5>2 DEF k, Booked
      <4> HIDE DEF d1
      <4>3. (d1.unexplained \/ (c0.err /\ ~d0.err)) \in BOOLEAN
        OBVIOUS
      <4>4. [d1 EXCEPT !.uv = c0.uv, !.unexplained = @ \/ (c0.err /\ ~d0.err),
                       !.err = c0.err] \in Driver
        BY <4>1, <4>2, <4>3 DEF Driver
      <4>5. w \in Chip
        BY <1>2 DEF Chip
      <4> QED
        BY <4>4, <4>5 DEF d1
    <3>3. q \in Results
      <4>1. CASE q = Result(d2, c0, TRUE)
        BY <1>2, <3>2, <4>1, ResultIn
      <4>2. CASE q \in WriteRegister(d2, c0, w)
        <5> HIDE DEF d2, w
        <5> QED
          BY <1>2, <3>2, <4>2, WriteIn
      <4> QED
        BY <3>1, <4>1, <4>2
    <3> DEFINE e == d2
               v == w
    <3>4. /\ Flagging(d0, c0, e, v)
          /\ \/ ~c0.uv /\ ~c0.err /\ q = Result(e, c0, TRUE)
             \/ q \in WriteRegister(e, c0, v)
      BY <3>1 DEF Flagging
    <3>5. ~c0.reset /\ d0.gpio = "up"
      BY <2>2, <2>5
    <3> HIDE DEF e, v, d2, w, S, Handle
    <3>6. /\ q.ok => /\ Fit(q.d, q.c, u) /\ Read(d0, q.d, q.c)
                     /\ Aware(d0, c0, u) => Aware(q.d, q.c, u)
          /\ Flagged(q.c)
      BY <1>2, <3>3, <3>4, <3>5, FlagsIn
    <3> QED
      BY <3>3, <3>6 DEF Fine
  <2> QED
    BY <2>3, <2>4, <2>5
<1> HIDE DEF S
<1>4. S \subseteq Results
  BY <1>3
<1>5. /\ r \in Results
      /\ r.ok => r \in S
      /\ ~r.ok => ~r.d.healthy /\ \E s \in S : r.c = s.c
  BY <1>1, <1>4, UnhealthyIn
<1>6. CASE r.ok
  BY <1>3, <1>5, <1>6
<1>7. CASE ~r.ok
  <2>1. r.d \in Driver /\ r.c \in Chip /\ Flagged(r.c) /\ ~r.d.healthy
    BY <1>3, <1>5, <1>7 DEF Results
  <2> QED
    BY <1>5, <1>7, <2>1, SickFit
<1> QED
  BY <1>6, <1>7

(* A look at DRV_STATUS.  One that was answered leaves nothing open but what *)
(* is already on record.                                                     *)
LEMMA StatusIn ==
  ASSUME NEW d0, NEW c0, NEW u \in BOOLEAN, Fit(d0, c0, u), d0.enabled,
         NEW stepping \in BOOLEAN, NEW sample \in BOOLEAN,
         NEW r \in CheckStatus(d0, c0, stepping, sample)
  PROVE  /\ r \in Results /\ r.c = c0 /\ Fit(r.d, c0, u)
         /\ r.d.healthy = d0.healthy /\ r.d.enabled
         /\ r.d.steps = d0.steps /\ r.d.uv = d0.uv /\ r.d.err = d0.err
         /\ Aware(d0, c0, u) => Aware(r.d, c0, u)
         /\ d0.loss => r.d.loss
         /\ ~r.ok => (stepping \/ sample) /\ (d0.short \/ r.d.loss)
         /\ stepping /\ r.ok /\ ~d0.short => ~r.d.short
         /\ spiUp /\ d0.gpio = "up" =>
               /\ r.d.gpio = "up"
               /\ c0.short /\ ~d0.short => r.d.loss
               /\ d0.unexplained => r.d.loss \/ r.d.ot \/ c0.short
               /\ stepping /\ r.ok => ~c0.short
<1> DEFINE hot == [d0 EXCEPT !.ot = d0.ot \/ c0.hot]
           k1 == c0.short /\ ~d0.short /\ d0.enabled
           cut == StepLossIf(k1, hot, ~stepping)
           k2 == d0.unexplained /\ d0.enabled /\ ~c0.short /\ ~hot.ot
           why == StepLossIf(k2, cut, FALSE)
           seen == [why EXCEPT !.short = why.short \/ c0.short, !.unexplained = FALSE]
           Look(d, c) ==
             LET hott == [d EXCEPT !.ot = @ \/ c.hot]
                 cutt == StepLossIf(c.short /\ ~d.short /\ d.enabled, hott, ~stepping)
                 whyt == StepLossIf(/\ d.unexplained /\ d.enabled
                                    /\ ~c.short /\ ~hott.ot, cutt, FALSE)
                 seent == [whyt EXCEPT !.short = @ \/ c.short, !.unexplained = FALSE]
             IN  IF c.short /\ stepping THEN {Result(seent, c, FALSE)}
                 ELSE IF sample THEN Sample(seent, c)
                 ELSE {Result(seent, c, TRUE)}
<1>1. d0 \in Driver /\ c0 \in Chip
  BY DEF Fit
<1>2. PICK s \in ReadRegister(d0, c0) :
         IF s.ok THEN r \in Look(s.d, s.c) ELSE r = [s EXCEPT !.ok = TRUE]
  BY DEF CheckStatus
<1>3. /\ s \in Results /\ s.c = c0 /\ Regrip(d0, s.d)
      /\ s.ok => s.d = d0 /\ d0.gpio = "up"
      /\ ~s.ok => ~spiUp \/ d0.gpio # "up"
  BY <1>1, ReadIn
<1>4. CASE ~s.ok
  <2> HIDE DEF Look
  <2>1. r \in Results /\ r.d = s.d /\ r.c = c0 /\ r.ok
    BY <1>2, <1>3, <1>4 DEF Results
  <2>2. Fit(r.d, c0, u)
    BY <1>3, <2>1, RegripFit
  <2>3. ~(spiUp /\ d0.gpio = "up")
    BY <1>3, <1>4
  <2> QED
    BY <1>3, <2>1, <2>2, <2>3 DEF Regrip, Aware
<1>5. CASE s.ok
  <2>1. /\ d0.ot \in BOOLEAN /\ d0.short \in BOOLEAN /\ d0.unexplained \in BOOLEAN
        /\ d0.loss \in BOOLEAN /\ d0.healthy \in BOOLEAN
        /\ c0.hot \in BOOLEAN /\ c0.short \in BOOLEAN
    BY <1>1 DEF Driver, Chip
  <2>2. hot \in Driver
    <3> DEFINE b == d0.ot \/ c0.hot
    <3>1. b \in BOOLEAN
      OBVIOUS
    <3> HIDE DEF b
    <3>2. [d0 EXCEPT !.ot = b] \in Driver
      BY <1>1, <3>1, DriverHot
    <3> QED
      BY <3>2 DEF b
  <2>3. /\ hot.ot = (d0.ot \/ c0.hot)
        /\ hot.healthy = d0.healthy /\ hot.enabled = d0.enabled /\ hot.gpio = d0.gpio
        /\ hot.amps = d0.amps /\ hot.loss = d0.loss /\ hot.short = d0.short
        /\ hot.uv = d0.uv /\ hot.err = d0.err /\ hot.unexplained = d0.unexplained
        /\ hot.steps = d0.steps
    <3>1. d0 \in Driver
      BY <1>1
    <3>2. hot.ot = (d0.ot \/ c0.hot)
      BY <3>1 DEF Driver
    <3>3. /\ hot.healthy = d0.healthy /\ hot.enabled = d0.enabled /\ hot.gpio = d0.gpio
          /\ hot.amps = d0.amps /\ hot.loss = d0.loss /\ hot.short = d0.short
      BY <3>1 DEF Driver
    <3>4. /\ hot.uv = d0.uv /\ hot.err = d0.err /\ hot.unexplained = d0.unexplained
          /\ hot.steps = d0.steps
      BY <3>1 DEF Driver
    <3> QED
      BY <3>2, <3>3, <3>4
  <2>4. r \in Look(d0, c0)
    <3>1. s.d = d0 /\ s.c = c0 /\ r \in Look(s.d, s.c)
      BY <1>2, <1>3, <1>5
    <3> HIDE DEF Look
    <3> QED
      BY <3>1
  <2>5. \/ c0.short /\ stepping /\ r = Result(seen, c0, FALSE)
        \/ ~(c0.short /\ stepping) /\ sample /\ r \in Sample(seen, c0)
        \/ ~(c0.short /\ stepping) /\ ~sample /\ r = Result(seen, c0, TRUE)
    BY <2>4
  <2> HIDE DEF Look, hot
  <2>6. k1 \in BOOLEAN
    BY <2>1
  <2> HIDE DEF k1
  <2>7. Booked(hot, cut, k1)
    <3> DEFINE z == ~stepping
    <3>1. z \in BOOLEAN
      OBVIOUS
    <3> HIDE DEF z
    <3>2. Booked(hot, StepLossIf(k1, hot, z), k1)
      BY <2>2, <2>6, <3>1, StepLossIn
    <3> QED
      BY <3>2 DEF z
  <2> HIDE DEF cut
  <2>8. k2 \in BOOLEAN
    BY <2>1
  <2>9. cut \in Driver
    BY <2>7 DEF Booked
  <2> HIDE DEF k2
  <2>10. Booked(cut, why, k2)
    <3>1. FALSE \in BOOLEAN
      OBVIOUS
    <3>2. Booked(cut, StepLossIf(k2, cut, FALSE), k2)
      BY <2>8, <2>9, <3>1, StepLossIn
    <3> QED
      BY <3>2
  <2> HIDE DEF why
  <2>11. /\ why \in Driver /\ why.ot = (d0.ot \/ c0.hot)
         /\ why.healthy = d0.healthy /\ why.enabled = d0.enabled /\ why.gpio = d0.gpio
         /\ why.amps = d0.amps /\ why.short = d0.short
         /\ why.uv = d0.uv /\ why.err = d0.err /\ why.steps = d0.steps
    BY <2>3, <2>7, <2>10 DEF Booked
  <2>12. why.loss = (d0.loss \/ k1 \/ k2)
    BY <2>3, <2>7, <2>10 DEF Booked
  <2>13. seen \in Driver
    <3>1. (why.short \/ c0.short) \in BOOLEAN
      OBVIOUS
    <3> QED
      BY <2>11, <3>1 DEF Driver
  <2>14. /\ seen.ot = (d0.ot \/ c0.hot) /\ seen.loss = why.loss
         /\ seen.healthy = d0.healthy /\ seen.enabled = d0.enabled /\ seen.gpio = d0.gpio
         /\ seen.amps = d0.amps /\ seen.uv = d0.uv /\ seen.err = d0.err
         /\ seen.steps = d0.steps /\ seen.short = (d0.short \/ c0.short)
    BY <2>11 DEF Driver
  <2>15. (k1 => seen.loss) /\ (k2 => seen.loss) /\ (d0.loss => seen.loss)
    BY <2>12, <2>14
  <2>16. /\ c0.short /\ ~d0.short => seen.loss
         /\ d0.unexplained => seen.loss \/ seen.ot \/ c0.short
    BY <2>1, <2>3, <2>14, <2>15 DEF k1, k2
  <2> HIDE DEF seen
  <2>17. Fit(seen, c0, u)
    <3>1. Matched(seen, c0)
      BY <2>14 DEF Fit, Matched
    <3>2. Kept(seen, c0, u)
      <4>1. Kept(d0, c0, u)
        BY DEF Fit
      <4> QED
        BY <2>1, <2>14, <2>15, <2>16, <4>1 DEF Kept
    <3> QED
      BY <1>1, <2>13, <3>1, <3>2 DEF Fit
  <2>18. Aware(d0, c0, u) => Aware(seen, c0, u)
    BY <2>1, <2>14, <2>15 DEF Aware
  <2>19. d0.gpio = "up"
    BY <1>3, <1>5
  <2>20. CASE r = Result(seen, c0, FALSE) /\ c0.short /\ stepping
    <3>1. r \in Results /\ r.d = seen /\ r.c = c0 /\ ~r.ok
      BY <1>1, <2>13, <2>20, ResultIn
    <3> QED
      BY <2>14, <2>15, <2>16, <2>17, <2>18, <2>19, <2>20, <3>1
  <2>21. CASE r = Result(seen, c0, TRUE) /\ ~(c0.short /\ stepping)
    <3>1. r \in Results /\ r.d = seen /\ r.c = c0 /\ r.ok
      BY <1>1, <2>13, <2>21, ResultIn
    <3> QED
      BY <2>14, <2>15, <2>16, <2>17, <2>18, <2>19, <2>21, <3>1
  <2>22. CASE r = Result(StepLoss(seen, TRUE), c0, FALSE) /\ sample /\ ~(c0.short /\ stepping)
    <3> DEFINE e == StepLoss(seen, TRUE)
    <3>1. Booked(seen, e, TRUE)
      <4>1. TRUE \in BOOLEAN
        OBVIOUS
      <4>2. Booked(seen, StepLossIf(TRUE, seen, TRUE), TRUE)
        BY <2>13, <4>1, StepLossIn
      <4> QED
        BY <4>2 DEF StepLossIf
    <3> HIDE DEF e
    <3>2. /\ e \in Driver /\ e.loss
          /\ e.healthy = seen.healthy /\ e.enabled = seen.enabled /\ e.gpio = seen.gpio
          /\ e.amps = seen.amps /\ e.ot = seen.ot /\ e.short = seen.short /\ e.uv = seen.uv
          /\ e.err = seen.err /\ e.steps = seen.steps
      BY <3>1 DEF Booked
    <3>3. r \in Results /\ r.d = e /\ r.c = c0 /\ ~r.ok
      BY <1>1, <2>22, <3>2, ResultIn DEF e
    <3>4. Fit(e, c0, u)
      BY <2>17, <3>2 DEF Fit, Matched, Kept
    <3>5. Aware(e, c0, u)
      BY <3>2 DEF Aware
    <3> QED
      BY <2>14, <2>19, <2>22, <3>2, <3>3, <3>4, <3>5
  <2> QED
    BY <2>5, <2>20, <2>21, <2>22 DEF Sample
<1> QED
  BY <1>3, <1>4, <1>5 DEF Results

LEMMA PositionIn ==
  ASSUME NEW d0, NEW c0, NEW u \in BOOLEAN, Fit(d0, c0, u), NEW r \in CheckPosition(d0, c0)
  PROVE  /\ r \in Results /\ r.c = c0 /\ r.ok /\ Fit(r.d, c0, u)
         /\ r.d.steps = d0.steps /\ (~d0.healthy => ~r.d.healthy)
<1> DEFINE Compare(d, c) ==
             IF c.xa THEN [d EXCEPT !.mismatch = 0]
             ELSE IF d.mismatch + 1 < Polls THEN [d EXCEPT !.mismatch = @ + 1]
             ELSE [StepLoss(d, TRUE) EXCEPT !.mismatch = 0, !.healthy = FALSE]
<1>1. d0 \in Driver /\ c0 \in Chip /\ Flagged(c0)
  BY DEF Fit
<1>2. PICK s \in ReadRegister(d0, c0) :
         r = IF s.ok THEN [s EXCEPT !.d = Compare(s.d, s.c)] ELSE [s EXCEPT !.ok = TRUE]
  BY DEF CheckPosition
<1>3. s \in Results /\ s.c = c0 /\ Regrip(d0, s.d) /\ (s.ok => s.d = d0)
  BY <1>1, ReadIn
<1>4. CASE ~s.ok
  <2>1. r \in Results /\ r.d = s.d /\ r.c = c0 /\ r.ok
    BY <1>2, <1>3, <1>4 DEF Results
  <2> QED
    BY <1>3, <2>1, RegripFit DEF Regrip
<1>5. CASE s.ok
  <2> DEFINE e == Compare(d0, c0)
  <2>1. r = [s EXCEPT !.d = e]
    BY <1>2, <1>3, <1>5
  <2>2. 0 \in 0..Polls /\ d0.mismatch \in 0..Polls
    BY <1>1, DriverAssumption DEF Driver
  <2>3. CASE c0.xa \/ d0.mismatch + 1 < Polls
    <3>1. PICK n \in 0..Polls : e = [d0 EXCEPT !.mismatch = n]
      <4>1. CASE c0.xa
        BY <2>2, <4>1
      <4>2. CASE ~c0.xa
        <5>1. d0.mismatch + 1 \in 0..Polls
          BY <2>2, <2>3, <4>2, DriverAssumption
        <5>2. e = [d0 EXCEPT !.mismatch = d0.mismatch + 1]
          BY <2>3, <4>2
        <5> QED
          BY <5>1, <5>2
      <4> QED
        BY <4>1, <4>2
    <3> HIDE DEF e
    <3>2. /\ e \in Driver /\ e.loss = d0.loss
          /\ e.healthy = d0.healthy /\ e.enabled = d0.enabled
          /\ e.amps = d0.amps /\ e.ot = d0.ot /\ e.uv = d0.uv
          /\ e.err = d0.err /\ e.unexplained = d0.unexplained /\ e.steps = d0.steps
      BY <1>1, <3>1 DEF Driver
    <3>3. Fit(e, c0, u)
      BY <3>2 DEF Fit, Matched, Kept
    <3> QED
      BY <1>3, <1>5, <2>1, <3>2, <3>3 DEF Results
  <2>4. CASE ~(c0.xa \/ d0.mismatch + 1 < Polls)
    <3> DEFINE f == StepLoss(d0, TRUE)
    <3>1. Booked(d0, f, TRUE)
      <4>1. TRUE \in BOOLEAN
        OBVIOUS
      <4>2. Booked(d0, StepLossIf(TRUE, d0, TRUE), TRUE)
        BY <1>1, <4>1, StepLossIn
      <4> QED
        BY <4>2 DEF StepLossIf
    <3>2. e = [f EXCEPT !.mismatch = 0, !.healthy = FALSE]
      BY <2>4
    <3> HIDE DEF e, f
    <3>3. f \in Driver /\ f.steps = d0.steps
      BY <3>1 DEF Booked
    <3>4. e \in Driver /\ ~e.healthy /\ e.steps = d0.steps
      BY <2>2, <3>2, <3>3 DEF Driver
    <3>5. Fit(e, c0, u)
      BY <1>1, <3>4, SickFit
    <3> QED
      BY <1>3, <1>5, <2>1, <3>4, <3>5 DEF Results
  <2> QED
    BY <2>3, <2>4
<1> QED
  BY <1>3, <1>4, <1>5 DEF Results

LEMMA PollIn ==
  ASSUME NEW d0, NEW c0, NEW u \in BOOLEAN, Fit(d0, c0, u), NEW r \in Poll(d0, c0)
  PROVE  /\ r \in Results /\ Fit(r.d, r.c, u)
         /\ r.d.steps = d0.steps \/ ~r.d.healthy
<1>1. d0 \in Driver /\ c0 \in Chip /\ d0.healthy \in BOOLEAN
  BY DEF Fit, Driver
<1>2. CASE ~d0.healthy \/ ~d0.enabled
  <2>1. r = Result(d0, c0, d0.healthy)
    BY <1>2 DEF Poll
  <2> QED
    BY <1>1, <2>1, ResultIn
<1>3. CASE d0.healthy /\ d0.enabled
  <2> DEFINE Status(d, c) == CheckStatus(d, c, FALSE, FALSE)
             S1 == Then(Recover(d0, c0), Status)
             S2 == Then(S1, CheckPosition)
             Good(q) == /\ q \in Results /\ Fit(q.d, q.c, u)
                        /\ q.d.steps = d0.steps \/ ~q.d.healthy
  <2>1. r \in S2
    BY <1>3 DEF Poll
  <2>2. PICK p \in S1 : IF p.ok THEN r \in CheckPosition(p.d, p.c) ELSE r = p
    <3> HIDE DEF S1
    <3> QED
      BY <2>1 DEF Then
  <2>3. PICK s \in Recover(d0, c0) : IF s.ok THEN p \in Status(s.d, s.c) ELSE p = s
    <3> HIDE DEF Status
    <3> QED
      BY DEF Then
  <2> HIDE DEF S1, S2
  <2>4. /\ s \in Results /\ Fit(s.d, s.c, u) /\ (~s.ok => ~s.d.healthy)
        /\ s.ok => Read(d0, s.d, s.c)
    BY RecoverIn
  <2>5. Good(p)
    <3>1. CASE ~s.ok
      BY <2>3, <2>4, <3>1
    <3>2. CASE s.ok
      <4>1. s.d.enabled /\ s.d.steps = d0.steps
        BY <1>3, <2>4, <3>2 DEF Read
      <4> DEFINE z == FALSE
      <4>2. p \in CheckStatus(s.d, s.c, z, z) /\ z \in BOOLEAN
        BY <2>3, <3>2
      <4> HIDE DEF z
      <4>3. p \in Results /\ p.c = s.c /\ Fit(p.d, s.c, u) /\ p.d.steps = s.d.steps
        BY <2>4, <4>1, <4>2, StatusIn
      <4> QED
        BY <4>1, <4>3
    <3> QED
      BY <3>1, <3>2
  <2>6. CASE p.ok
    <3>1. r \in CheckPosition(p.d, p.c)
      BY <2>2, <2>6
    <3>2. /\ r \in Results /\ r.c = p.c /\ Fit(r.d, p.c, u)
          /\ r.d.steps = p.d.steps /\ (~p.d.healthy => ~r.d.healthy)
      BY <2>5, <3>1, PositionIn
    <3> QED
      BY <2>5, <3>2
  <2>7. CASE ~p.ok
    BY <2>2, <2>5, <2>7
  <2> QED
    BY <2>6, <2>7
<1> QED
  BY <1>1, <1>2, <1>3

-----------------------------------------------------------------------------
(* The commands.                                                             *)
LEMMA LineIn ==
  ASSUME NEW d \in Driver, NEW c \in Chip, NEW on \in BOOLEAN,
         NEW r \in EnableLine(d, c, on)
  PROVE  /\ r \in Results /\ Regrip(d, r.d)
         /\ \E e \in BOOLEAN : r.c = [c EXCEPT !.en = e]
<1>1. [c EXCEPT !.en = on] \in Chip /\ c = [c EXCEPT !.en = c.en] /\ c.en \in BOOLEAN
  BY DEF Chip
<1>2. Regrip(d, [d EXCEPT !.gpio = "sick"])
  BY RegripGpio
<1>3. [d EXCEPT !.gpio = "sick"] \in Driver
  BY <1>2 DEF Regrip
<1>4. CASE r = Result(d, c, TRUE)
  <2>1. r \in Results /\ r.d = d /\ r.c = c /\ Regrip(d, d)
    BY <1>4, ResultIn, RegripSame
  <2> QED
    BY <1>1, <2>1
<1>5. CASE r = Result(d, [c EXCEPT !.en = on], TRUE)
  <2> DEFINE w == [c EXCEPT !.en = on]
  <2>1. w \in Chip /\ r = Result(d, w, TRUE) /\ w = [c EXCEPT !.en = on]
    BY <1>1, <1>5
  <2> HIDE DEF w
  <2>2. r \in Results /\ r.d = d /\ r.c = w
    <3> DEFINE z == TRUE
    <3>1. w \in Chip /\ z \in BOOLEAN /\ r = Result(d, w, z)
      BY <2>1
    <3> HIDE DEF z
    <3> QED
      BY <3>1, ResultIn
  <2>3. Regrip(d, d)
    BY RegripSame
  <2> QED
    BY <1>1, <2>1, <2>2, <2>3
<1>6. CASE r = Result([d EXCEPT !.gpio = "sick"], c, FALSE)
  BY <1>1, <1>2, <1>3, <1>6, ResultIn
<1> QED
  BY <1>4, <1>5, <1>6 DEF EnableLine

LEMMA EnFit ==
  ASSUME NEW d, NEW c, NEW u, Fit(d, c, u), NEW e \in BOOLEAN
  PROVE  /\ Fit(d, [c EXCEPT !.en = e], u)
         /\ Aware(d, c, u) => Aware(d, [c EXCEPT !.en = e], u)
<1>1. c \in Chip
  BY DEF Fit
<1> DEFINE w == [c EXCEPT !.en = e]
<1>2. w \in Chip
  BY <1>1 DEF Chip
<1>3. /\ w.uv = c.uv /\ w.err = c.err /\ w.low = c.low /\ w.hot = c.hot
      /\ w.short = c.short /\ w.on = c.on /\ w.cfg = c.cfg /\ w.gs = c.gs
      /\ w.irun = c.irun /\ w.slip = c.slip /\ w.unseen = c.unseen /\ w.reset = c.reset
  BY <1>1 DEF Chip
<1> HIDE DEF w
<1>4. Fit(d, w, u) /\ (Aware(d, c, u) => Aware(d, w, u))
  BY <1>2, <1>3 DEF Fit, Matched, Flagged, Kept, Aware
<1> QED
  BY <1>4 DEF w

(* On the way of a disable: the chopper is off, the books still say on.      *)
Quieted(d, c) ==
  /\ d \in Driver /\ c \in Chip /\ Flagged(c)
  /\ d.healthy /\ ~c.reset =>
        c.cfg /\ ~c.on /\ c.gs = Gs(d.amps) /\ c.irun = Irun(d.amps)

LEMMA OffIn ==
  ASSUME NEW d0, NEW c0, NEW u \in BOOLEAN, Fit(d0, c0, u), NEW r \in EnableOff(d0, c0)
  PROVE  /\ r \in Results /\ Fit(r.d, r.c, u)
         /\ r.d.steps = d0.steps \/ ~r.d.healthy
<1> DEFINE Freeze(d, c) == WriteRegister(d, c, Rebased(c))
           Off(d, c) == WriteRegister(d, c, Chopper(c, FALSE))
           S1 == Then(ReadRegister(d0, c0), Freeze)
           S2 == Then(S1, Off)
           Quiet == Unhealthy(S2)
           Line(q) == {[l EXCEPT !.ok = @ /\ q.ok] : l \in Unhealthy(EnableLine(q.d, q.c, FALSE))}
           Proof(q) == IF q.ok THEN Unhealthy(ReadRegister(q.d, q.c)) ELSE {q}
           Done(l) == Proof([l EXCEPT !.d.enabled = FALSE, !.c.unseen = @ \/ l.c.slip])
           Same(q) == q.d.steps = d0.steps \/ ~q.d.healthy
<1>1. PICK q \in Quiet : \E l \in Line(q) : r \in Done(l)
  <2> HIDE DEF Quiet, Line, Done
  <2>1. EnableOff(d0, c0) = UNION {Done(l) : l \in UNION {Line(q) : q \in Quiet}}
    BY DEF EnableOff, Quiet, Line, Done
  <2> QED
    BY <2>1
<1>2. PICK l \in Line(q) : r \in Done(l)
  BY <1>1
<1> HIDE DEF Line, Done, Quiet
<1>3. d0 \in Driver /\ c0 \in Chip /\ Flagged(c0) /\ Matched(d0, c0)
  BY DEF Fit
<1>4. \A p \in S1 : /\ p \in Results /\ Flagged(p.c) /\ Same(p)
                    /\ p.ok => p.d = d0 /\ Matched(p.d, p.c)
  <2> TAKE p \in S1
  <2>1. PICK s \in ReadRegister(d0, c0) : IF s.ok THEN p \in Freeze(s.d, s.c) ELSE p = s
    <3> HIDE DEF Freeze
    <3> QED
      BY DEF Then
  <2> HIDE DEF S1
  <2>2. s \in Results /\ s.c = c0 /\ Regrip(d0, s.d) /\ (s.ok => s.d = d0)
    BY <1>3, ReadIn
  <2>3. CASE ~s.ok
    BY <1>3, <2>1, <2>2, <2>3 DEF Regrip
  <2>4. CASE s.ok
    <3> DEFINE w == Rebased(c0)
    <3>1. w \in Chip /\ Flagged(w) /\ Matched(d0, w)
      BY <1>3, RebasedIn DEF Matched
    <3>2. p \in WriteRegister(d0, c0, w)
      BY <2>1, <2>2, <2>4
    <3> HIDE DEF w
    <3>3. /\ p \in Results /\ Regrip(d0, p.d) /\ p.c \in {c0, w}
          /\ p.ok => p.d = d0 /\ p.c = w
      BY <1>3, <3>1, <3>2, WriteIn
    <3> QED
      BY <1>3, <3>1, <3>3 DEF Regrip
  <2> QED
    BY <2>3, <2>4
<1>5. \A p \in S2 : /\ p \in Results /\ Flagged(p.c) /\ Same(p)
                    /\ p.ok => Quieted(p.d, p.c)
  <2> TAKE p \in S2
  <2>1. PICK s \in S1 : IF s.ok THEN p \in Off(s.d, s.c) ELSE p = s
    <3> HIDE DEF Off, S1
    <3> QED
      BY DEF Then
  <2>2. /\ s \in Results /\ Flagged(s.c) /\ Same(s)
        /\ s.ok => s.d = d0 /\ Matched(s.d, s.c)
    BY <1>4
  <2> HIDE DEF S1, S2
  <2>3. CASE ~s.ok
    BY <2>1, <2>2, <2>3
  <2>4. CASE s.ok
    <3>1. s.d \in Driver /\ s.c \in Chip
      BY <2>2 DEF Results
    <3> DEFINE w == Chopper(s.c, FALSE)
               z == FALSE
    <3>2. w \in Chip /\ Flagged(w) /\ w = [s.c EXCEPT !.on = FALSE, !.short = s.c.short /\ FALSE]
      <4>1. z \in BOOLEAN
        OBVIOUS
      <4> HIDE DEF z
      <4>2. /\ Chopper(s.c, z) \in Chip /\ Flagged(Chopper(s.c, z))
            /\ Chopper(s.c, z) = [s.c EXCEPT !.on = z, !.short = s.c.short /\ z]
        BY <2>2, <3>1, <4>1, ChopperIn
      <4> QED
        BY <4>2 DEF z
    <3>3. p \in WriteRegister(s.d, s.c, w)
      BY <2>1, <2>4
    <3> HIDE DEF w
    <3>4. /\ ~w.on /\ w.cfg = s.c.cfg /\ w.gs = s.c.gs /\ w.irun = s.c.irun
          /\ w.reset = s.c.reset
      BY <3>1, <3>2 DEF Chip
    <3>5. /\ p \in Results /\ Regrip(s.d, p.d) /\ p.c \in {s.c, w}
          /\ p.ok => p.d = s.d /\ p.c = w
      BY <3>1, <3>2, <3>3, WriteIn
    <3>6. Quieted(s.d, w)
      BY <2>2, <2>4, <3>1, <3>2, <3>4 DEF Quieted, Matched
    <3> QED
      BY <2>2, <3>2, <3>5, <3>6 DEF Regrip
  <2> QED
    BY <2>3, <2>4
<1> HIDE DEF S1, S2
<1>6. q \in Results /\ Quieted(q.d, q.c) /\ Same(q) /\ (~q.ok => ~q.d.healthy)
  <2>1. S2 \subseteq Results
    BY <1>5
  <2>2. /\ q \in Results
        /\ q.ok => q \in S2
        /\ ~q.ok => ~q.d.healthy /\ \E s \in S2 : q.c = s.c
    BY <2>1, UnhealthyIn DEF Quiet
  <2>3. q.d \in Driver /\ q.c \in Chip
    BY <2>2 DEF Results
  <2>4. ~q.ok => Flagged(q.c)
    BY <1>5, <2>2
  <2> QED
    BY <1>5, <2>2, <2>3, <2>4 DEF Quieted
<1> HIDE DEF Same
<1>7. l \in Results /\ Quieted(l.d, l.c) /\ Same(l) /\ (~l.ok => ~l.d.healthy)
  <2> DEFINE E == EnableLine(q.d, q.c, FALSE)
             z == FALSE
  <2>1. PICK k \in Unhealthy(E) : l = [k EXCEPT !.ok = @ /\ q.ok]
    BY DEF Line
  <2>2. q.d \in Driver /\ q.c \in Chip /\ q.ok \in BOOLEAN
    BY <1>6 DEF Results
  <2>3. \A s \in E : /\ s \in Results /\ Quieted(s.d, s.c) /\ Same(s)
                     /\ s.d.healthy = q.d.healthy
    <3> TAKE s \in E
    <3>1. z \in BOOLEAN /\ s \in EnableLine(q.d, q.c, z)
      OBVIOUS
    <3> HIDE DEF z, E
    <3>2. s \in Results /\ Regrip(q.d, s.d) /\ \E e \in BOOLEAN : s.c = [q.c EXCEPT !.en = e]
      BY <2>2, <3>1, LineIn
    <3>3. PICK e \in BOOLEAN : s.c = [q.c EXCEPT !.en = e]
      BY <3>2
    <3>4. s.c \in Chip
      BY <3>2 DEF Results
    <3>5. /\ s.c.uv = q.c.uv /\ s.c.err = q.c.err /\ s.c.low = q.c.low /\ s.c.hot = q.c.hot
          /\ s.c.short = q.c.short /\ s.c.on = q.c.on /\ s.c.cfg = q.c.cfg
          /\ s.c.gs = q.c.gs /\ s.c.irun = q.c.irun /\ s.c.reset = q.c.reset
      BY <2>2, <3>3 DEF Chip
    <3>6. Quieted(s.d, s.c)
      BY <1>6, <3>2, <3>4, <3>5 DEF Quieted, Regrip, Flagged
    <3>7. Same(s)
      BY <1>6, <3>2 DEF Regrip, Same
    <3> QED
      BY <3>2, <3>6, <3>7 DEF Regrip
  <2> HIDE DEF E
  <2>4. /\ k \in Results
        /\ k.ok => k \in E
        /\ ~k.ok => ~k.d.healthy /\ \E s \in E : k.c = s.c
    BY <2>3, UnhealthyIn
  <2>5. k.d \in Driver /\ k.c \in Chip
    BY <2>4 DEF Results
  <2>6. Quieted(k.d, k.c) /\ Same(k)
    <3>1. CASE k.ok
      BY <2>3, <2>4, <3>1
    <3>2. CASE ~k.ok
      BY <2>3, <2>4, <2>5, <3>2 DEF Quieted, Same
    <3> QED
      BY <3>1, <3>2
  <2>7. l \in Results /\ l.d = k.d /\ l.c = k.c /\ l.ok = (k.ok /\ q.ok)
    <3>1. (k.ok /\ q.ok) \in BOOLEAN
      OBVIOUS
    <3> QED
      BY <2>1, <2>4, <3>1 DEF Results
  <2>8. ~l.ok => ~l.d.healthy
    BY <1>6, <2>3, <2>4, <2>7
  <2> QED
    BY <2>6, <2>7, <2>8 DEF Same
<1> DEFINE e == [l.d EXCEPT !.enabled = FALSE]
           w == [l.c EXCEPT !.unseen = l.c.unseen \/ l.c.slip]
           k == [l EXCEPT !.d = e, !.c = w]
<1>8. l.d \in Driver /\ l.c \in Chip
  BY <1>7 DEF Results
<1>9. /\ e \in Driver /\ e.healthy = l.d.healthy /\ e.amps = l.d.amps /\ ~e.enabled
      /\ e.steps = l.d.steps
  BY <1>8 DEF Driver
<1>10. w \in Chip
  <2>1. (l.c.unseen \/ l.c.slip) \in BOOLEAN
    OBVIOUS
  <2> QED
    BY <1>8, <2>1 DEF Chip
<1>11. /\ w.uv = l.c.uv /\ w.err = l.c.err /\ w.low = l.c.low /\ w.hot = l.c.hot
       /\ w.short = l.c.short /\ w.on = l.c.on /\ w.cfg = l.c.cfg /\ w.gs = l.c.gs
       /\ w.irun = l.c.irun /\ w.slip = l.c.slip /\ w.reset = l.c.reset
       /\ w.unseen = (l.c.unseen \/ l.c.slip)
  BY <1>8 DEF Chip
<1>12. r \in Proof(k)
  BY <1>2 DEF Done
<1> HIDE DEF e, w
<1>13. k \in Results /\ k.d = e /\ k.c = w /\ k.ok = l.ok
  BY <1>7, <1>9, <1>10 DEF Results
<1> HIDE DEF k
<1>14. l.c.on \in BOOLEAN /\ e.enabled \in BOOLEAN /\ w.slip \in BOOLEAN
  BY <1>8, <1>9, <1>10 DEF Chip, Driver
<1>15. Fit(e, w, u) /\ (e.steps = d0.steps \/ ~e.healthy)
  <2>1. Matched(e, w)
    BY <1>7, <1>9, <1>11, <1>14 DEF Quieted, Matched
  <2>2. Flagged(w)
    BY <1>7, <1>11 DEF Quieted, Flagged
  <2>3. Kept(e, w, u)
    BY <1>11, <1>14 DEF Kept
  <2>4. e.steps = d0.steps \/ ~e.healthy
    BY <1>7, <1>9 DEF Same
  <2> QED
    BY <1>9, <1>10, <2>1, <2>2, <2>3, <2>4 DEF Fit
<1>16. CASE ~k.ok
  BY <1>12, <1>13, <1>15, <1>16
<1>17. CASE k.ok
  <2>1. r \in Unhealthy(ReadRegister(e, w))
    BY <1>12, <1>13, <1>17
  <2>2. \A s \in ReadRegister(e, w) : s \in Results /\ s.c = w /\ Regrip(e, s.d)
    BY <1>9, <1>10, ReadIn
  <2>3. ReadRegister(e, w) \subseteq Results
    BY <2>2
  <2>4. /\ r \in Results
        /\ r.ok => r \in ReadRegister(e, w)
        /\ ~r.ok => ~r.d.healthy /\ \E s \in ReadRegister(e, w) : r.c = s.c
    BY <2>1, <2>3, UnhealthyIn
  <2>5. r.d \in Driver /\ r.c = w
    BY <2>2, <2>4 DEF Results
  <2>6. CASE r.ok
    <3>1. Regrip(e, r.d)
      BY <2>2, <2>4, <2>6
    <3>2. Fit(r.d, w, u)
      BY <1>15, <3>1, RegripFit
    <3> QED
      BY <1>15, <2>4, <2>5, <3>1, <3>2 DEF Regrip
  <2>7. CASE ~r.ok
    <3>1. Flagged(w) /\ ~r.d.healthy
      BY <1>15, <2>4, <2>7 DEF Fit
    <3>2. Fit(r.d, w, u)
      BY <1>10, <2>5, <3>1, SickFit
    <3> QED
      BY <2>4, <2>5, <3>1, <3>2
  <2> QED
    BY <2>6, <2>7
<1> QED
  BY <1>16, <1>17

LEMMA MicrostepIn ==
  ASSUME NEW d0, NEW c0, NEW u \in BOOLEAN, Fit(d0, c0, u),
         NEW r \in DriverMicrostep(d0, c0)
  PROVE  /\ r \in Results /\ Fit(r.d, r.c, u)
         /\ r.d.steps = d0.steps \/ ~r.d.healthy
<1>1. d0 \in Driver /\ c0 \in Chip /\ d0.enabled \in BOOLEAN /\ Flagged(c0) /\ Matched(d0, c0)
      /\ Kept(d0, c0, u)
  BY DEF Fit, Driver
<1>2. CASE ~d0.healthy
  <2> DEFINE z == FALSE
  <2>1. r = Result(d0, c0, z) /\ z \in BOOLEAN
    BY <1>2 DEF DriverMicrostep
  <2> HIDE DEF z
  <2> QED
    BY <1>1, <2>1, ResultIn
<1>3. CASE d0.healthy
  <2> DEFINE w == Chopper(c0, d0.enabled)
             S1 == WriteRegister(d0, c0, w)
             S2 == Then(S1, ReadRegister)
  <2>1. r \in Unhealthy(S2)
    BY <1>3 DEF DriverMicrostep
  <2>2. w \in Chip /\ Flagged(w) /\ w = [c0 EXCEPT !.on = d0.enabled,
                                                   !.short = c0.short /\ d0.enabled]
    BY <1>1, ChopperIn
  <2> HIDE DEF w
  <2>3. /\ w.on = d0.enabled /\ w.cfg = c0.cfg /\ w.gs = c0.gs /\ w.irun = c0.irun
        /\ w.reset = c0.reset /\ w.slip = c0.slip /\ w.unseen = c0.unseen /\ w.uv = c0.uv
        /\ w.err = c0.err /\ (d0.enabled => w.short = c0.short)
    BY <1>1, <2>2 DEF Chip
  <2>4. Fit(d0, w, u)
    <3>1. Matched(d0, w)
      BY <1>1, <2>3 DEF Matched
    <3>2. Kept(d0, w, u)
      BY <1>1, <2>3 DEF Kept
    <3> QED
      BY <1>1, <2>2, <3>1, <3>2 DEF Fit
  <2>5. \A p \in S1 : /\ p \in Results /\ Flagged(p.c) /\ p.d.steps = d0.steps
                      /\ p.ok => p.d = d0 /\ p.c = w
    <3> TAKE p \in S1
    <3>1. /\ p \in Results /\ Regrip(d0, p.d) /\ p.c \in {c0, w}
          /\ p.ok => p.d = d0 /\ p.c = w
      BY <1>1, <2>2, WriteIn
    <3> QED
      BY <1>1, <2>2, <3>1 DEF Regrip
  <2>6. \A p \in S2 : /\ p \in Results /\ Flagged(p.c)
                      /\ p.ok => Regrip(d0, p.d) /\ p.c = w
    <3> TAKE p \in S2
    <3> HIDE DEF S1
    <3>1. PICK s \in S1 : IF s.ok THEN p \in ReadRegister(s.d, s.c) ELSE p = s
      BY DEF Then
    <3>2. /\ s \in Results /\ Flagged(s.c) /\ s.d.steps = d0.steps
          /\ s.ok => s.d = d0 /\ s.c = w
      BY <2>5
    <3>3. CASE ~s.ok
      BY <3>1, <3>2, <3>3
    <3>4. CASE s.ok
      <4>1. p \in ReadRegister(d0, w)
        BY <3>1, <3>2, <3>4
      <4>2. p \in Results /\ Regrip(d0, p.d) /\ p.c = w
        BY <1>1, <2>2, <4>1, ReadIn
      <4> QED
        BY <2>2, <4>2
    <3> QED
      BY <3>3, <3>4
  <2> HIDE DEF S2
  <2>7. S2 \subseteq Results
    BY <2>6
  <2>8. /\ r \in Results
        /\ r.ok => r \in S2
        /\ ~r.ok => ~r.d.healthy /\ \E s \in S2 : r.c = s.c
    BY <2>1, <2>7, UnhealthyIn
  <2>9. CASE r.ok
    <3>1. Regrip(d0, r.d) /\ r.c = w
      BY <2>6, <2>8, <2>9
    <3>2. Fit(r.d, w, u)
      BY <2>4, <3>1, RegripFit
    <3> QED
      BY <2>8, <3>1, <3>2 DEF Regrip
  <2>10. CASE ~r.ok
    <3>1. r.d \in Driver /\ r.c \in Chip /\ Flagged(r.c) /\ ~r.d.healthy
      BY <2>6, <2>8, <2>10 DEF Results
    <3> QED
      BY <2>8, <3>1, SickFit
  <2> QED
    BY <2>9, <2>10
<1> QED
  BY <1>1, <1>2, <1>3 DEF Driver

LEMMA CurrentIn ==
  ASSUME NEW d0, NEW c0, NEW u \in BOOLEAN, Fit(d0, c0, u), NEW a \in Currents,
         NEW r \in SetCurrent(d0, c0, a)
  PROVE  /\ r \in Results /\ Fit(r.d, r.c, u)
         /\ r.d.steps = d0.steps \/ ~r.d.healthy
<1>1. d0 \in Driver /\ c0 \in Chip /\ Flagged(c0) /\ Matched(d0, c0) /\ Kept(d0, c0, u)
  BY DEF Fit
<1>2. CASE ~Deliverable(a) \/ ~d0.healthy
  <2> DEFINE z == FALSE
  <2>1. r = Result(d0, c0, z) /\ z \in BOOLEAN
    BY <1>2 DEF SetCurrent
  <2> HIDE DEF z
  <2> QED
    BY <1>1, <2>1, ResultIn
<1>3. CASE Deliverable(a) /\ d0.healthy
  <2> DEFINE Scaler(d, c) == WriteRegister(d, c, [c EXCEPT !.gs = Gs(a)])
             Run(d, c) == WriteRegister(d, c, [c EXCEPT !.irun = Irun(a)])
             Store(d, c) == {Result([d EXCEPT !.amps = a], c, TRUE)}
             w == [c0 EXCEPT !.gs = Gs(a)]
             v == [w EXCEPT !.irun = Irun(a)]
             S1 == Scaler(d0, c0)
             S2 == Then(S1, Run)
             S3 == Unhealthy(S2)
  <2>1. r \in Then(S3, Store)
    BY <1>3 DEF SetCurrent
  <2>2. PICK t \in S3 : IF t.ok THEN r \in Store(t.d, t.c) ELSE r = t
    <3> HIDE DEF S3, Store
    <3> QED
      BY <2>1 DEF Then
  <2> HIDE DEF S2, S3
  <2>3. Gs(a) \in Nat /\ Irun(a) \in Nat
    BY CurrentNat
  <2>4. w \in Chip /\ Flagged(w)
    BY <1>1, <2>3 DEF Chip, Flagged
  <2>5. /\ w.on = c0.on /\ w.cfg = c0.cfg /\ w.gs = Gs(a) /\ w.uv = c0.uv
        /\ w.reset = c0.reset /\ w.slip = c0.slip /\ w.unseen = c0.unseen
        /\ w.err = c0.err /\ w.short = c0.short
    BY <1>1, <2>3 DEF Chip
  <2>6. \A p \in S1 : /\ p \in Results /\ Flagged(p.c)
                      /\ p.ok => p.d = d0 /\ p.c = w
    <3> HIDE DEF w
    <3> TAKE p \in S1
    <3>1. p \in WriteRegister(d0, c0, w)
      BY DEF w
    <3> HIDE DEF S1
    <3>2. /\ p \in Results /\ p.c \in {c0, w}
          /\ p.ok => p.d = d0 /\ p.c = w
      <4>1. d0 \in Driver /\ c0 \in Chip /\ w \in Chip
        BY <1>1, <2>4
      <4> QED
        BY <3>1, <4>1, WriteIn
    <3> QED
      BY <1>1, <2>4, <3>2
  <2> HIDE DEF w, S1
  <2>7. v \in Chip /\ Flagged(v)
    BY <2>3, <2>4 DEF Chip, Flagged
  <2>8. /\ v.on = c0.on /\ v.cfg = c0.cfg /\ v.gs = Gs(a) /\ v.irun = Irun(a) /\ v.uv = c0.uv
        /\ v.reset = c0.reset /\ v.slip = c0.slip /\ v.unseen = c0.unseen
        /\ v.err = c0.err /\ v.short = c0.short
    BY <2>3, <2>4, <2>5 DEF Chip
  <2>9. \A p \in S2 : /\ p \in Results /\ Flagged(p.c)
                      /\ p.ok => p.d = d0 /\ p.c = v
    <3> TAKE p \in S2
    <3>1. PICK s \in S1 : IF s.ok THEN p \in Run(s.d, s.c) ELSE p = s
      <4> HIDE DEF Run
      <4> QED
        BY DEF Then, S2
    <3>2. s \in Results /\ Flagged(s.c) /\ (s.ok => s.d = d0 /\ s.c = w)
      BY <2>6
    <3>3. CASE ~s.ok
      BY <3>1, <3>2, <3>3
    <3>4. CASE s.ok
      <4>1. p \in WriteRegister(d0, w, v)
        BY <3>1, <3>2, <3>4
      <4> HIDE DEF v
      <4>2. /\ p \in Results /\ p.c \in {w, v}
            /\ p.ok => p.d = d0 /\ p.c = v
        <5>1. d0 \in Driver /\ w \in Chip /\ v \in Chip
          BY <1>1, <2>4, <2>7
        <5> QED
          BY <4>1, <5>1, WriteIn
      <4> QED
        BY <2>4, <2>7, <4>2
    <3> QED
      BY <3>3, <3>4
  <2> HIDE DEF v
  <2>10. S2 \subseteq Results
    BY <2>9
  <2>11. /\ t \in Results
         /\ t.ok => t \in S2
         /\ ~t.ok => ~t.d.healthy /\ \E s \in S2 : t.c = s.c
    BY <2>10, UnhealthyIn DEF S3
  <2>12. CASE ~t.ok
    <3>1. t.d \in Driver /\ t.c \in Chip /\ Flagged(t.c) /\ ~t.d.healthy /\ r = t
      BY <2>2, <2>9, <2>11, <2>12 DEF Results
    <3> QED
      BY <2>11, <3>1, SickFit
  <2>13. CASE t.ok
    <3> DEFINE e == [d0 EXCEPT !.amps = a]
    <3>1. r = Result(e, v, TRUE)
      BY <2>2, <2>9, <2>11, <2>13
    <3>2. /\ e \in Driver /\ e.amps = a /\ e.steps = d0.steps /\ e.healthy = d0.healthy
          /\ e.enabled = d0.enabled /\ e.loss = d0.loss /\ e.ot = d0.ot /\ e.uv = d0.uv
          /\ e.err = d0.err /\ e.unexplained = d0.unexplained
      BY <1>1, <1>3 DEF Driver
    <3> HIDE DEF e
    <3>3. Matched(e, v)
      BY <1>1, <2>8, <3>2 DEF Matched
    <3>4. Kept(e, v, u)
      BY <1>1, <2>8, <3>2 DEF Kept
    <3>5. Fit(e, v, u)
      BY <2>7, <3>2, <3>3, <3>4 DEF Fit
    <3>6. r \in Results /\ r.d = e /\ r.c = v
      BY <2>7, <3>1, <3>2, ResultIn
    <3> QED
      BY <3>2, <3>5, <3>6
  <2> QED
    BY <2>12, <2>13
<1> QED
  BY <1>1, <1>2, <1>3 DEF Driver

(* ConfirmTarget keeps the driver as it is, or gives it up.                  *)
LEMMA ConfirmIn ==
  ASSUME NEW d0, NEW c0, NEW u \in BOOLEAN, Fit(d0, c0, u),
         NEW r \in ConfirmTarget(d0, c0)
  PROVE  /\ r \in Results /\ Fit(r.d, r.c, u)
         /\ r.d.steps = d0.steps \/ ~r.d.healthy
         /\ Aware(d0, c0, u) => Aware(r.d, r.c, u)
         /\ ~r.d.healthy \/ (r.d.loss = d0.loss /\ r.c.slip = c0.slip)
<1> DEFINE Repaired(c) == [c EXCEPT !.xt = TRUE, !.xa = @ \/ (c.cfg /\ ~c.xt)]
           Held(d, c) == {[q EXCEPT !.ok = @ /\ q.c.xt] : q \in ReadRegister(d, c)}
           Check(d, c) == IF c.xt THEN {Result(d, c, TRUE)}
                          ELSE Then(WriteRegister(d, c, Repaired(c)), Held)
           S1 == ReadRegister(d0, c0)
           S2 == Then(S1, Check)
           Like(c) == /\ c \in Chip
                      /\ c.uv = c0.uv /\ c.err = c0.err /\ c.low = c0.low /\ c.hot = c0.hot
                      /\ c.short = c0.short /\ c.on = c0.on /\ c.cfg = c0.cfg
                      /\ c.gs = c0.gs /\ c.irun = c0.irun /\ c.slip = c0.slip
                      /\ c.unseen = c0.unseen /\ c.reset = c0.reset
<1>1. d0 \in Driver /\ c0 \in Chip /\ Flagged(c0) /\ Matched(d0, c0) /\ Kept(d0, c0, u)
      /\ d0.healthy \in BOOLEAN
  BY DEF Fit, Driver
<1>2. CASE ~d0.healthy \/ ~d0.enabled
  <2>1. r = Result(d0, c0, d0.healthy)
    BY <1>2 DEF ConfirmTarget
  <2>2. r \in Results /\ r.d = d0 /\ r.c = c0
    BY <1>1, <2>1, ResultIn
  <2> QED
    BY <2>2
<1>3. CASE d0.healthy /\ d0.enabled
  <2>1. r \in Unhealthy(S2)
    BY <1>3 DEF ConfirmTarget
  <2>2. \A q \in S2 : q \in Results /\ Regrip(d0, q.d) /\ Like(q.c)
    <3> TAKE q \in S2
    <3>1. PICK s \in S1 : IF s.ok THEN q \in Check(s.d, s.c) ELSE q = s
      <4> HIDE DEF Check, S1
      <4> QED
        BY DEF Then
    <3>2. s \in Results /\ s.c = c0 /\ Regrip(d0, s.d) /\ (s.ok => s.d = d0)
      <4>1. d0 \in Driver /\ c0 \in Chip /\ s \in ReadRegister(d0, c0)
        BY <1>1
      <4> HIDE DEF S1, S2
      <4> QED
        BY <4>1, ReadIn
    <3> HIDE DEF S1, S2
    <3>3. CASE ~s.ok
      BY <1>1, <3>1, <3>2, <3>3
    <3>4. CASE s.ok /\ c0.xt
      <4>1. q = Result(d0, c0, TRUE)
        BY <3>1, <3>2, <3>4
      <4>2. q \in Results /\ q.d = d0 /\ q.c = c0
        <5> DEFINE z == TRUE
        <5>1. z \in BOOLEAN /\ q = Result(d0, c0, z)
          BY <4>1
        <5> HIDE DEF z
        <5> QED
          BY <1>1, <5>1, ResultIn
      <4>3. Regrip(d0, d0)
        BY <1>1, RegripSame
      <4> QED
        BY <1>1, <3>4, <4>2, <4>3
    <3>5. CASE s.ok /\ ~c0.xt
      <4> DEFINE w == Repaired(c0)
                 W == WriteRegister(d0, c0, w)
      <4>1. q \in Then(W, Held)
        BY <3>1, <3>2, <3>5
      <4>2. PICK p \in W : IF p.ok THEN q \in Held(p.d, p.c) ELSE q = p
        <5> HIDE DEF W, Held
        <5> QED
          BY <4>1 DEF Then
      <4>3. Like(w)
        <5>1. (c0.xa \/ (c0.cfg /\ ~c0.xt)) \in BOOLEAN
          OBVIOUS
        <5> QED
          BY <1>1, <5>1 DEF Chip
      <4> HIDE DEF w
      <4>4. /\ p \in Results /\ Regrip(d0, p.d) /\ p.c \in {c0, w}
        BY <1>1, <4>3, WriteIn
      <4>5. Like(p.c)
        BY <1>1, <4>3, <4>4
      <4>6. CASE ~p.ok
        BY <4>2, <4>4, <4>5, <4>6
      <4>7. CASE p.ok
        <5>1. PICK k \in ReadRegister(p.d, p.c) : q = [k EXCEPT !.ok = @ /\ k.c.xt]
          BY <4>2, <4>7
        <5> HIDE DEF Like
        <5>2. p.d \in Driver /\ p.c \in Chip
          BY <4>4 DEF Results
        <5>3. k \in Results /\ k.c = p.c /\ Regrip(p.d, k.d)
          BY <5>1, <5>2, ReadIn
        <5>4. q \in Results /\ q.d = k.d /\ q.c = k.c
          <6>1. (k.ok /\ k.c.xt) \in BOOLEAN
            OBVIOUS
          <6> QED
            BY <5>1, <5>3, <6>1 DEF Results
        <5>5. Regrip(d0, q.d)
          BY <4>4, <5>3, <5>4, RegripTwice
        <5> QED
          BY <4>5, <5>3, <5>4, <5>5
      <4> QED
        BY <4>6, <4>7
    <3> QED
      BY <3>3, <3>4, <3>5
  <2> HIDE DEF S2
  <2>3. S2 \subseteq Results
    BY <2>2
  <2>4. /\ r \in Results
        /\ r.ok => r \in S2
        /\ ~r.ok => ~r.d.healthy /\ \E s \in S2 : r.c = s.c
    BY <2>1, <2>3, UnhealthyIn
  <2>5. r.d \in Driver /\ Like(r.c)
    BY <2>2, <2>4 DEF Results
  <2>6. Flagged(r.c)
    BY <1>1, <2>5 DEF Flagged
  <2>7. CASE ~r.ok
    BY <2>4, <2>5, <2>6, <2>7, SickFit
  <2>8. CASE r.ok
    <3>1. Regrip(d0, r.d)
      BY <2>2, <2>4, <2>8
    <3>2. Matched(r.d, r.c)
      BY <1>1, <2>5, <3>1 DEF Regrip, Matched
    <3>3. Kept(r.d, r.c, u)
      BY <1>1, <2>5, <3>1 DEF Regrip, Kept
    <3>4. Aware(d0, c0, u) => Aware(r.d, r.c, u)
      BY <2>5, <3>1 DEF Regrip, Aware
    <3>5. r.d.steps = d0.steps /\ r.d.loss = d0.loss /\ r.c.slip = c0.slip
      BY <2>5, <3>1 DEF Regrip
    <3> QED
      BY <2>4, <2>5, <2>6, <3>2, <3>3, <3>4, <3>5 DEF Fit
  <2> QED
    BY <2>7, <2>8
<1> QED
  BY <1>1, <1>2, <1>3

(* Nothing of a slip is left to an episode that the next look must count.    *)
OnRecord(d, c) ==
  d.gpio = "up" /\ ~c.reset
  /\ (d.loss \/ ~d.enabled \/ ((c.uv => d.uv) /\ (c.err => d.err)))

(* Enable(true) looks at everything before the channel counts on: what it    *)
(* has found is on record when it returns over a working bus.                *)
LEMMA OnIn ==
  ASSUME NEW d0, NEW c0, NEW u \in BOOLEAN, Fit(d0, c0, u), NEW r \in EnableOn(d0, c0)
  PROVE  /\ r \in Results /\ Fit(r.d, r.c, u)
         /\ ~spiUp \/ ~r.d.healthy \/ Aware(r.d, r.c, u)
<1> DEFINE Probe(d, c) == IF d.healthy THEN {Result(d, c, TRUE)} ELSE Reinitialize(d, c)
           Proof(d, c) == {[q EXCEPT !.ok = @ /\ c.en] :
                              q \in ReadRegister([d EXCEPT !.steps = 0], c)}
           On(d, c) == WriteRegister(d, c, Chopper(c, TRUE))
           Rearmed(d, c) ==
             {[q EXCEPT !.ok = TRUE] :
                 q \in CheckStatus([d EXCEPT !.enabled = TRUE, !.ot = FALSE, !.short = FALSE,
                                             !.mismatch = 0],
                                   [c EXCEPT !.unseen = @ \/ (c.slip /\ d.ot)], FALSE, FALSE)}
           P0 == Unhealthy(EnableLine(d0, c0, TRUE))
           P1 == Then(P0, Probe)
           P2 == Then(P1, Recover)
           P3 == Then(P2, Proof)
           P4 == Unhealthy(P3)
           P5 == Then(P4, On)
           P6 == Unhealthy(P5)
           P7 == Then(P6, Rearmed)
           Good(q) == q \in Results /\ Fit(q.d, q.c, u)
           Armed(d, c) ==
             /\ d \in Driver /\ c \in Chip /\ Flagged(c) /\ d.gpio = "up" /\ ~c.reset /\ c.on
             /\ d.healthy => c.cfg /\ c.gs = Gs(d.amps) /\ c.irun = Irun(d.amps)
             /\ c.slip => \/ u \/ d.loss \/ ~d.healthy \/ c.unseen \/ d.ot
                          \/ c.short \/ d.unexplained
<1>1. EnableOn(d0, c0) = P7
  BY DEF EnableOn
<1>2. d0 \in Driver /\ c0 \in Chip
  BY DEF Fit
<1>3. \A q \in P0 : Good(q) /\ (~q.ok => ~q.d.healthy)
  <2> DEFINE z == TRUE
             E == EnableLine(d0, c0, z)
  <2>1. z \in BOOLEAN /\ P0 = Unhealthy(E)
    OBVIOUS
  <2> HIDE DEF z, P0
  <2>2. \A s \in E : Good(s)
    <3> TAKE s \in E
    <3>1. s \in Results /\ Regrip(d0, s.d) /\ \E e \in BOOLEAN : s.c = [c0 EXCEPT !.en = e]
      BY <1>2, <2>1, LineIn
    <3>2. PICK e \in BOOLEAN : s.c = [c0 EXCEPT !.en = e]
      BY <3>1
    <3>3. Fit(d0, s.c, u)
      BY <3>2, EnFit
    <3> QED
      BY <3>1, <3>3, RegripFit
  <2> HIDE DEF E
  <2> TAKE q \in P0
  <2>3. q \in Unhealthy(E) /\ E \subseteq Results
    BY <2>1, <2>2
  <2>4. /\ q \in Results
        /\ q.ok => q \in E
        /\ ~q.ok => ~q.d.healthy /\ \E s \in E : q.c = s.c
    BY <2>3, UnhealthyIn
  <2>5. CASE q.ok
    BY <2>2, <2>4, <2>5
  <2>6. CASE ~q.ok
    <3>1. q.d \in Driver /\ q.c \in Chip /\ Flagged(q.c) /\ ~q.d.healthy
      BY <2>2, <2>4, <2>6 DEF Results, Fit
    <3> QED
      BY <2>4, <3>1, SickFit
  <2> QED
    BY <2>5, <2>6
<1> HIDE DEF P0
<1>4. \A q \in P1 : Good(q) /\ (~q.ok => ~q.d.healthy)
  <2> TAKE q \in P1
  <2>1. PICK s \in P0 : IF s.ok THEN q \in Probe(s.d, s.c) ELSE q = s
    <3> HIDE DEF Probe
    <3> QED
      BY DEF Then
  <2> HIDE DEF P1
  <2>2. Good(s) /\ (~s.ok => ~s.d.healthy)
    BY <1>3
  <2>3. s.d \in Driver /\ s.c \in Chip /\ Flagged(s.c)
    BY <2>2 DEF Fit
  <2>4. CASE ~s.ok
    BY <2>1, <2>2, <2>4
  <2>5. CASE s.ok /\ s.d.healthy
    <3>1. q = Result(s.d, s.c, TRUE)
      BY <2>1, <2>5
    <3>2. q \in Results /\ q.d = s.d /\ q.c = s.c /\ q.ok
      BY <2>3, <3>1, ResultIn
    <3> QED
      BY <2>2, <3>2
  <2>6. CASE s.ok /\ ~s.d.healthy
    <3>1. q \in Reinitialize(s.d, s.c)
      BY <2>1, <2>6
    <3>2. /\ q \in Results /\ Flagged(q.c)
          /\ ~q.ok => ~q.d.healthy
          /\ q.ok => Matched(q.d, q.c) /\ (q.c.slip => q.c.unseen)
      BY <2>3, <3>1, ReinitIn
    <3>3. q.d \in Driver /\ q.c \in Chip
      BY <3>2 DEF Results
    <3>4. CASE q.ok
      BY <3>2, <3>3, <3>4 DEF Fit, Kept
    <3>5. CASE ~q.ok
      BY <3>2, <3>3, <3>5, SickFit
    <3> QED
      BY <3>4, <3>5
  <2> QED
    BY <2>4, <2>5, <2>6
<1> HIDE DEF P1
<1>5. \A q \in P2 : Good(q) /\ (~q.ok => ~q.d.healthy) /\ (q.ok => OnRecord(q.d, q.c))
  <2> TAKE q \in P2
  <2>1. PICK s \in P1 : IF s.ok THEN q \in Recover(s.d, s.c) ELSE q = s
    BY DEF Then
  <2> HIDE DEF P2
  <2>2. Good(s) /\ (~s.ok => ~s.d.healthy)
    BY <1>4
  <2>3. CASE ~s.ok
    BY <2>1, <2>2, <2>3
  <2>4. CASE s.ok
    <3>1. q \in Recover(s.d, s.c)
      BY <2>1, <2>4
    <3>2. /\ q \in Results /\ Fit(q.d, q.c, u) /\ (~q.ok => ~q.d.healthy)
          /\ q.ok => Read(s.d, q.d, q.c)
      BY <2>2, <3>1, RecoverIn
    <3> QED
      BY <3>2 DEF Read, OnRecord
  <2> QED
    BY <2>3, <2>4
<1> HIDE DEF P2
<1>6. \A q \in P3 : Good(q) /\ (q.ok => OnRecord(q.d, q.c))
  <2> TAKE q \in P3
  <2>1. PICK s \in P2 : IF s.ok THEN q \in Proof(s.d, s.c) ELSE q = s
    <3> HIDE DEF Proof
    <3> QED
      BY DEF Then
  <2> HIDE DEF P3
  <2>2. Good(s) /\ (s.ok => OnRecord(s.d, s.c))
    BY <1>5
  <2>3. s.d \in Driver /\ s.c \in Chip /\ s.c.en \in BOOLEAN
    BY <2>2 DEF Fit, Chip
  <2>4. CASE ~s.ok
    BY <2>1, <2>2, <2>4
  <2>5. CASE s.ok
    <3> DEFINE e == [s.d EXCEPT !.steps = 0]
    <3>1. PICK k \in ReadRegister(e, s.c) : q = [k EXCEPT !.ok = @ /\ s.c.en]
      BY <2>1, <2>5
    <3>2. 0 \in 0..CheckInterval - 1
      BY DriverAssumption
    <3>3. /\ e \in Driver /\ e.loss = s.d.loss /\ e.gpio = s.d.gpio
          /\ e.healthy = s.d.healthy /\ e.enabled = s.d.enabled
          /\ e.amps = s.d.amps /\ e.ot = s.d.ot /\ e.uv = s.d.uv
          /\ e.err = s.d.err /\ e.unexplained = s.d.unexplained
      BY <2>3, <3>2 DEF Driver
    <3> HIDE DEF e
    <3>4. Fit(e, s.c, u) /\ OnRecord(e, s.c)
      BY <2>2, <2>5, <3>3 DEF Fit, Matched, Kept, OnRecord
    <3>5. k \in Results /\ Regrip(e, k.d) /\ k.c = s.c /\ (k.ok => k.d = e)
      BY <2>3, <3>3, ReadIn
    <3>6. q \in Results /\ q.d = k.d /\ q.c = k.c /\ (q.ok => k.ok)
      <4>1. (k.ok /\ s.c.en) \in BOOLEAN
        OBVIOUS
      <4> QED
        BY <3>1, <3>5, <4>1 DEF Results
    <3>7. Fit(q.d, q.c, u)
      BY <3>4, <3>5, <3>6, RegripFit
    <3> QED
      BY <3>4, <3>5, <3>6, <3>7
  <2> QED
    BY <2>4, <2>5
<1> HIDE DEF P3
<1>7. \A q \in P4 : Good(q) /\ (~q.ok => ~q.d.healthy) /\ (q.ok => OnRecord(q.d, q.c))
  <2> TAKE q \in P4
  <2>1. P3 \subseteq Results
    BY <1>6
  <2>2. /\ q \in Results
        /\ q.ok => q \in P3
        /\ ~q.ok => ~q.d.healthy /\ \E s \in P3 : q.c = s.c
    BY <2>1, UnhealthyIn
  <2> HIDE DEF P4
  <2>3. CASE q.ok
    BY <1>6, <2>2, <2>3
  <2>4. CASE ~q.ok
    <3>1. q.d \in Driver /\ q.c \in Chip /\ Flagged(q.c) /\ ~q.d.healthy
      BY <1>6, <2>2, <2>4 DEF Results, Fit
    <3> QED
      BY <2>2, <2>4, <3>1, SickFit
  <2> QED
    BY <2>3, <2>4
<1> HIDE DEF P4
<1>8. \A q \in P5 : /\ q \in Results /\ Flagged(q.c)
                    /\ q.ok => Armed(q.d, q.c)
  <2> TAKE q \in P5
  <2>1. PICK s \in P4 : IF s.ok THEN q \in On(s.d, s.c) ELSE q = s
    <3> HIDE DEF On
    <3> QED
      BY DEF Then
  <2> HIDE DEF P5
  <2>2. Good(s) /\ (s.ok => OnRecord(s.d, s.c))
    BY <1>7
  <2>3. s.d \in Driver /\ s.c \in Chip /\ Flagged(s.c) /\ Matched(s.d, s.c) /\ Kept(s.d, s.c, u)
        /\ s.d.enabled \in BOOLEAN
    BY <2>2 DEF Fit, Driver
  <2>4. CASE ~s.ok
    BY <2>1, <2>2, <2>3, <2>4
  <2>5. CASE s.ok
    <3> DEFINE w == Chopper(s.c, TRUE)
               z == TRUE
    <3>1. w \in Chip /\ Flagged(w) /\ w = [s.c EXCEPT !.on = TRUE, !.short = s.c.short /\ TRUE]
      <4>1. z \in BOOLEAN
        OBVIOUS
      <4> HIDE DEF z
      <4>2. /\ Chopper(s.c, z) \in Chip /\ Flagged(Chopper(s.c, z))
            /\ Chopper(s.c, z) = [s.c EXCEPT !.on = z, !.short = s.c.short /\ z]
        BY <2>3, <4>1, ChopperIn
      <4> QED
        BY <4>2 DEF z
    <3>2. q \in WriteRegister(s.d, s.c, w)
      BY <2>1, <2>5
    <3> HIDE DEF w
    <3>3. /\ w.on /\ w.cfg = s.c.cfg /\ w.gs = s.c.gs /\ w.irun = s.c.irun
          /\ w.reset = s.c.reset /\ w.slip = s.c.slip /\ w.unseen = s.c.unseen
          /\ s.c.short => w.short
      BY <2>3, <3>1 DEF Chip
    <3>4. /\ q \in Results /\ q.c \in {s.c, w}
          /\ q.ok => q.d = s.d /\ q.c = w
      <4>1. q \in WriteRegister(s.d, s.c, w) /\ s.d \in Driver /\ s.c \in Chip /\ w \in Chip
        BY <2>3, <3>1, <3>2
      <4> QED
        BY <4>1, WriteIn
    <3>5. w.slip => \/ u \/ s.d.loss \/ ~s.d.healthy \/ w.unseen \/ s.d.ot
                    \/ w.short \/ s.d.unexplained
      BY <2>2, <2>3, <2>5, <3>3 DEF Kept, OnRecord
    <3>6. s.d.healthy => w.cfg /\ w.gs = Gs(s.d.amps) /\ w.irun = Irun(s.d.amps)
      BY <2>2, <2>3, <2>5, <3>3 DEF Matched, OnRecord
    <3>7. Armed(s.d, w)
      BY <2>2, <2>3, <2>5, <3>1, <3>3, <3>5, <3>6 DEF OnRecord
    <3> HIDE DEF Armed
    <3> QED
      BY <2>3, <3>1, <3>4, <3>7
  <2> QED
    BY <2>4, <2>5
<1> HIDE DEF P5, Armed
<1>9. \A q \in P6 : /\ q \in Results /\ Flagged(q.c)
                    /\ q.ok => Armed(q.d, q.c)
                    /\ ~q.ok => ~q.d.healthy
  <2> TAKE q \in P6
  <2>1. P5 \subseteq Results
    BY <1>8
  <2>2. /\ q \in Results
        /\ q.ok => q \in P5
        /\ ~q.ok => ~q.d.healthy /\ \E s \in P5 : q.c = s.c
    BY <2>1, UnhealthyIn
  <2> QED
    BY <1>8, <2>2
<1> HIDE DEF P6
<1>10. PICK s \in P6 : IF s.ok THEN r \in Rearmed(s.d, s.c) ELSE r = s
  <2> HIDE DEF Rearmed
  <2> QED
    BY <1>1 DEF Then
<1> HIDE DEF P7
<1>11. CASE ~s.ok
  <2>1. s.d \in Driver /\ s.c \in Chip /\ Flagged(s.c) /\ ~s.d.healthy /\ r = s
    BY <1>9, <1>10, <1>11 DEF Results
  <2> QED
    BY <1>9, <2>1, SickFit
<1>12. CASE s.ok
  <2> DEFINE e == [s.d EXCEPT !.enabled = TRUE, !.ot = FALSE, !.short = FALSE, !.mismatch = 0]
             w == [s.c EXCEPT !.unseen = @ \/ (s.c.slip /\ s.d.ot)]
             z == FALSE
  <2>1. PICK k \in CheckStatus(e, w, z, z) : r = [k EXCEPT !.ok = TRUE]
    BY <1>10, <1>12
  <2>2. z \in BOOLEAN
    OBVIOUS
  <2> HIDE DEF z, Rearmed
  <2>3. Armed(s.d, s.c)
    BY <1>9, <1>12
  <2>4. s.d \in Driver /\ s.c \in Chip
    BY <2>3 DEF Armed
  <2>5. /\ e \in Driver /\ e.enabled /\ ~e.short /\ e.gpio = s.d.gpio /\ e.loss = s.d.loss
        /\ e.healthy = s.d.healthy /\ e.amps = s.d.amps /\ e.uv = s.d.uv
        /\ e.err = s.d.err /\ e.unexplained = s.d.unexplained
    <3>1. 0 \in 0..Polls
      BY DriverAssumption
    <3> QED
      BY <2>4, <3>1 DEF Driver
  <2>6. w \in Chip
    <3>1. (s.c.unseen \/ (s.c.slip /\ s.d.ot)) \in BOOLEAN
      OBVIOUS
    <3> QED
      BY <2>4, <3>1 DEF Chip
  <2>7. /\ w.uv = s.c.uv /\ w.err = s.c.err /\ w.low = s.c.low /\ w.hot = s.c.hot
        /\ w.short = s.c.short /\ w.on = s.c.on /\ w.cfg = s.c.cfg /\ w.gs = s.c.gs
        /\ w.irun = s.c.irun /\ w.slip = s.c.slip /\ w.reset = s.c.reset
        /\ w.unseen = (s.c.unseen \/ (s.c.slip /\ s.d.ot))
    BY <2>4 DEF Chip
  <2> HIDE DEF e, w
  <2>8. s.c.on \in BOOLEAN /\ e.enabled \in BOOLEAN
    BY <2>4, <2>5 DEF Chip, Driver
  <2>9. Fit(e, w, u)
    <3>1. Matched(e, w)
      BY <2>3, <2>5, <2>7, <2>8 DEF Armed, Matched
    <3>2. Flagged(w)
      BY <2>3, <2>7 DEF Armed, Flagged
    <3>3. Kept(e, w, u)
      BY <2>3, <2>5, <2>7 DEF Armed, Kept
    <3> QED
      BY <2>5, <2>6, <3>1, <3>2, <3>3 DEF Fit
  <2>10. /\ k \in Results /\ k.c = w /\ Fit(k.d, w, u)
         /\ k.d.healthy = e.healthy
         /\ e.loss => k.d.loss
         /\ spiUp /\ e.gpio = "up" =>
               /\ w.short /\ ~e.short => k.d.loss
               /\ e.unexplained => k.d.loss \/ k.d.ot \/ w.short
    BY <2>1, <2>2, <2>5, <2>9, StatusIn
  <2>11. r \in Results /\ r.d = k.d /\ r.c = w
    BY <2>1, <2>10 DEF Results
  <2>12. spiUp => Aware(k.d, w, u)
    BY <2>3, <2>5, <2>7, <2>10 DEF Aware, Armed
  <2> QED
    BY <2>10, <2>11, <2>12
<1> QED
  BY <1>11, <1>12

-----------------------------------------------------------------------------
(* A step.  One that is taken when all is on record makes no new slip.       *)
Settled(d, c) ==
  d.loss \/ (~c.reset /\ ~c.short /\ (c.uv => d.uv) /\ (c.err => d.err))

LEMMA AdvanceIn ==
  ASSUME NEW d, NEW c, NEW u \in BOOLEAN, Fit(d, c, u), d.enabled, d.healthy,
         NEW r \in Advance(d, c)
  PROVE  /\ r \in Results /\ Fit(r.d, r.c, u)
         /\ ~r.ok => ~r.d.healthy
         /\ r.ok => r.d = d /\ (Settled(d, c) /\ Aware(d, c, u) => Aware(d, r.c, u))
<1> DEFINE n == c.slip \/ ~c.en \/ (~Powered(c) /\ Fresh(d, c))
           b == c.unseen \/ ~c.en
           moved == [c EXCEPT !.xt = TRUE, !.xa = c.cfg, !.slip = n, !.unseen = b]
           wrong == [moved EXCEPT !.xt = FALSE, !.xa = FALSE]
           S == WriteRegister(d, c, moved) \cup
                  (IF spiUp \/ d.gpio # "up" THEN {} ELSE {Result(d, wrong, TRUE)})
           Like(w) == /\ w \in Chip
                      /\ w.uv = c.uv /\ w.err = c.err /\ w.low = c.low /\ w.hot = c.hot
                      /\ w.short = c.short /\ w.on = c.on /\ w.cfg = c.cfg
                      /\ w.gs = c.gs /\ w.irun = c.irun
                      /\ w.reset = c.reset
                      /\ \/ w.slip = n /\ w.unseen = b
                         \/ w.slip = c.slip /\ w.unseen = c.unseen
<1>1. r \in Unhealthy(S)
  BY DEF Advance
<1>2. d \in Driver /\ c \in Chip /\ Flagged(c) /\ Matched(d, c) /\ Kept(d, c, u)
  BY DEF Fit
<1>3. /\ c.slip \in BOOLEAN /\ c.en \in BOOLEAN /\ c.on \in BOOLEAN /\ c.low \in BOOLEAN
      /\ c.short \in BOOLEAN /\ c.hot \in BOOLEAN /\ c.reset \in BOOLEAN /\ c.cfg \in BOOLEAN
      /\ c.uv \in BOOLEAN /\ c.err \in BOOLEAN
      /\ d.uv \in BOOLEAN /\ d.err \in BOOLEAN
  BY <1>2 DEF Chip, Driver
<1>4. n \in BOOLEAN /\ b \in BOOLEAN /\ (c.unseen => b)
  BY <1>2, <1>3 DEF Chip
<1>5. /\ n => b \/ c.slip \/ c.reset \/ c.short \/ (c.uv /\ ~d.uv) \/ (c.err /\ ~d.err)
      /\ n /\ Settled(d, c) => b \/ c.slip \/ d.loss
  <2>1. c.en /\ ~Powered(c) => c.reset \/ c.low \/ c.short \/ c.hot
    BY <1>2, <1>3 DEF Powered, Matched
  <2>2. CASE c.en /\ ~Powered(c) /\ Fresh(d, c)
    BY <1>2, <1>3, <2>1, <2>2 DEF Fresh, Flagged, Settled
  <2>3. CASE ~c.en
    BY <2>3
  <2>4. CASE c.en /\ ~(~Powered(c) /\ Fresh(d, c))
    BY <2>4
  <2> QED
    BY <2>2, <2>3, <2>4
<1> HIDE DEF b
<1> HIDE DEF n
<1>6. Like(moved)
  <2>1. moved \in Chip
    BY <1>2, <1>3, <1>4 DEF Chip
  <2>2. moved.unseen = b /\ moved.slip = n
    BY <1>2 DEF Chip
  <2>3. /\ moved.uv = c.uv /\ moved.err = c.err /\ moved.low = c.low
        /\ moved.hot = c.hot /\ moved.short = c.short /\ moved.on = c.on
        /\ moved.cfg = c.cfg /\ moved.gs = c.gs /\ moved.irun = c.irun
        /\ moved.reset = c.reset
    BY <1>2 DEF Chip
  <2> HIDE DEF moved
  <2> QED
    BY <1>4, <2>1, <2>2, <2>3
<1> HIDE DEF moved
<1>7. Like(wrong)
  <2>1. moved \in Chip
    BY <1>6
  <2>2. wrong \in Chip
    BY <2>1 DEF Chip
  <2>3. /\ wrong.uv = moved.uv /\ wrong.err = moved.err /\ wrong.low = moved.low
        /\ wrong.hot = moved.hot /\ wrong.short = moved.short /\ wrong.on = moved.on
        /\ wrong.cfg = moved.cfg /\ wrong.gs = moved.gs /\ wrong.irun = moved.irun
        /\ wrong.reset = moved.reset /\ wrong.slip = moved.slip
        /\ wrong.unseen = moved.unseen
    BY <2>1 DEF Chip
  <2> HIDE DEF wrong
  <2> QED
    BY <1>6, <2>2, <2>3
<1>8. Like(c)
  BY <1>2
<1> HIDE DEF wrong
<1>9. \A w : Like(w) => Fit(d, w, u)
  <2> SUFFICES ASSUME NEW w, Like(w) PROVE Fit(d, w, u)
    OBVIOUS
  <2>1. Matched(d, w) /\ Flagged(w)
    BY <1>2 DEF Matched, Flagged
  <2>2. Kept(d, w, u)
    BY <1>2, <1>4, <1>5 DEF Kept
  <2> QED
    BY <1>2, <2>1, <2>2 DEF Fit
<1>10. \A w : Like(w) /\ Settled(d, c) /\ Aware(d, c, u) => Aware(d, w, u)
  BY <1>4, <1>5 DEF Aware
<1>11. \A q \in S : q \in Results /\ Like(q.c) /\ Regrip(d, q.d) /\ (q.ok => q.d = d)
  <2> TAKE q \in S
  <2> HIDE DEF Like
  <2>1. CASE q \in WriteRegister(d, c, moved)
    <3>1. moved \in Chip
      BY <1>6 DEF Like
    <3>2. /\ q \in Results /\ Regrip(d, q.d) /\ q.c \in {c, moved}
          /\ q.ok => q.d = d
      BY <1>2, <2>1, <3>1, WriteIn
    <3> QED
      BY <1>6, <1>8, <3>2
  <2>2. CASE q = Result(d, wrong, TRUE)
    <3>1. wrong \in Chip
      BY <1>7 DEF Like
    <3>2. q \in Results /\ q.d = d /\ q.c = wrong
      BY <1>2, <2>2, <3>1, ResultIn
    <3> QED
      BY <1>2, <1>7, <3>2, RegripSame
  <2> QED
    BY <2>1, <2>2
<1> HIDE DEF S
<1>12. S \subseteq Results
  BY <1>11
<1>13. /\ r \in Results
       /\ r.ok => r \in S
       /\ ~r.ok => ~r.d.healthy /\ \E s \in S : r.c = s.c
  BY <1>1, <1>12, UnhealthyIn
<1>14. CASE r.ok
  BY <1>9, <1>10, <1>11, <1>13, <1>14
<1>15. CASE ~r.ok
  <2>1. Like(r.c)
    BY <1>11, <1>13, <1>15
  <2>2. Flagged(r.c)
    BY <1>9, <2>1 DEF Fit
  <2>3. r.d \in Driver /\ r.c \in Chip
    BY <1>13 DEF Results
  <2> QED
    BY <1>13, <1>15, <2>2, <2>3, SickFit
<1> QED
  BY <1>14, <1>15

(* Once in kResetCheckInterval steps everything is on record; the status     *)
(* byte of a step may bring that forward, and starts the count again.        *)
LEMMA StepIn ==
  ASSUME NEW d0, NEW c0, NEW u \in BOOLEAN, Fit(d0, c0, u), NEW r \in StepOnce(d0, c0)
  PROVE  /\ r \in Results /\ Fit(r.d, r.c, u)
         /\ r.ok => r.d.steps = d0.steps + 1 \/ ~spiUp \/ Aware(r.d, r.c, u)
         /\ ~r.ok => r.d.steps = d0.steps \/ r.d.loss \/ ~r.d.healthy
<1> DEFINE supervise == Supervise(d0)
           n == IF supervise THEN 0 ELSE d0.steps + 1
           d1 == [d0 EXCEPT !.mismatch = 0, !.steps = IF supervise THEN 0 ELSE @ + 1]
           Periodic(d, c) == IF supervise THEN Recover(d, c) ELSE {Result(d, c, TRUE)}
           Status(d, c) ==
             UNION {IF supervise \/ due THEN CheckStatus(d, c, TRUE, due)
                                        ELSE {Result(d, c, TRUE)} : due \in Due}
           Again(d, c) == CheckStatus(d, c, TRUE, FALSE)
           Reply(d, c) ==
             IF d.holdoff > 0 THEN {Result([d EXCEPT !.holdoff = @ - 1], c, TRUE)}
             ELSE IF ~c.reset /\ ~c.err THEN {Result(d, c, TRUE)}
             ELSE Then(Recover([d EXCEPT !.holdoff = Holdoff, !.steps = 0], c), Again)
           P1 == Periodic(d1, c0)
           P2 == Then(P1, Status)
           P3 == Then(P2, Advance)
           P4 == Then(P3, Reply)
           Good(q) == /\ q \in Results /\ Fit(q.d, q.c, u)
                      /\ ~q.ok => q.d.loss \/ ~q.d.healthy
                      /\ q.ok => q.d.enabled /\ q.d.healthy /\ ~q.d.short /\ q.d.steps = n
<1>1. d0 \in Driver /\ c0 \in Chip
  BY DEF Fit
<1>2. CASE ~d0.healthy \/ ~d0.enabled \/ d0.short
  <2> DEFINE z == FALSE
  <2>1. r = Result(d0, c0, z) /\ z \in BOOLEAN /\ ~z
    BY <1>2 DEF StepOnce
  <2> HIDE DEF z
  <2>2. r \in Results /\ r.d = d0 /\ r.c = c0 /\ r.ok = z
    BY <1>1, <2>1, ResultIn
  <2> QED
    BY <2>1, <2>2
<1>3. CASE d0.healthy /\ d0.enabled /\ ~d0.short
  <2>1. r \in P4
    BY <1>3 DEF StepOnce
  <2> HIDE DEF P4
  <2>2. n \in 0..CheckInterval - 1
    BY <1>1, DriverAssumption DEF Driver, Supervise
  <2>3. /\ d1 \in Driver /\ d1.steps = n /\ d1.loss = d0.loss /\ d1.gpio = d0.gpio
        /\ d1.healthy = d0.healthy /\ d1.enabled = d0.enabled /\ d1.short = d0.short
        /\ d1.amps = d0.amps /\ d1.ot = d0.ot /\ d1.uv = d0.uv
        /\ d1.err = d0.err /\ d1.unexplained = d0.unexplained
    <3>1. 0 \in 0..Polls /\ d1 = [d0 EXCEPT !.mismatch = 0, !.steps = n]
      BY DriverAssumption
    <3> HIDE DEF n, d1
    <3> QED
      BY <1>1, <2>2, <3>1 DEF Driver
  <2> HIDE DEF n, d1, supervise
  <2>4. Fit(d1, c0, u)
    BY <2>3 DEF Fit, Matched, Kept
  <2>5. \A q \in P1 : Good(q) /\ (q.ok /\ supervise => OnRecord(q.d, q.c))
    <3> TAKE q \in P1
    <3>1. CASE supervise
      <4>1. q \in Recover(d1, c0)
        BY <3>1
      <4> HIDE DEF P1
      <4>2. /\ q \in Results /\ Fit(q.d, q.c, u) /\ (~q.ok => ~q.d.healthy)
            /\ q.ok => Read(d1, q.d, q.c)
        BY <2>4, <4>1, RecoverIn
      <4> QED
        BY <1>3, <2>3, <4>2 DEF Read, OnRecord
    <3>2. CASE ~supervise
      <4>1. q = Result(d1, c0, TRUE)
        BY <3>2
      <4> HIDE DEF P1
      <4>2. q \in Results /\ q.d = d1 /\ q.c = c0 /\ q.ok
        BY <1>1, <2>3, <4>1, ResultIn
      <4> QED
        BY <1>3, <2>3, <2>4, <3>2, <4>2
    <3> QED
      BY <3>1, <3>2
  <2> HIDE DEF P1
  <2>6. \A q \in P2 : Good(q) /\ (q.ok /\ supervise /\ spiUp =>
                                    Settled(q.d, q.c) /\ Aware(q.d, q.c, u))
    <3> TAKE q \in P2
    <3>1. PICK s \in P1 : IF s.ok THEN q \in Status(s.d, s.c) ELSE q = s
      <4> HIDE DEF Status
      <4> QED
        BY DEF Then
    <3> HIDE DEF P2
    <3>2. Good(s) /\ (s.ok /\ supervise => OnRecord(s.d, s.c))
      BY <2>5
    <3>3. s.d \in Driver /\ s.c \in Chip
      BY <3>2 DEF Fit
    <3>4. CASE ~s.ok
      BY <3>1, <3>2, <3>4
    <3>5. CASE s.ok
      <4>1. PICK due \in Due : q \in IF supervise \/ due THEN CheckStatus(s.d, s.c, TRUE, due)
                                                         ELSE {Result(s.d, s.c, TRUE)}
        BY <3>1, <3>5
      <4>2. due \in BOOLEAN
        BY DEF Due
      <4> HIDE DEF Status
      <4>3. CASE supervise \/ due
        <5> DEFINE z == TRUE
        <5>1. q \in CheckStatus(s.d, s.c, z, due) /\ z \in BOOLEAN
          BY <4>1, <4>3
        <5>11. z
          OBVIOUS
        <5> HIDE DEF z
        <5>2. Fit(s.d, s.c, u) /\ s.d.enabled /\ ~s.d.short
          BY <3>2, <3>5
        <5>3. Aware(s.d, s.c, u) => Aware(q.d, s.c, u)
          BY <4>2, <5>1, <5>2, StatusIn
        <5>4. /\ q \in Results /\ q.c = s.c /\ Fit(q.d, s.c, u)
              /\ q.d.healthy = s.d.healthy /\ q.d.enabled
              /\ q.d.steps = s.d.steps /\ q.d.uv = s.d.uv /\ q.d.err = s.d.err
              /\ s.d.loss => q.d.loss
          BY <4>2, <5>1, <5>2, StatusIn
        <5>5. /\ ~q.ok => s.d.short \/ q.d.loss
          BY <4>2, <5>1, <5>2, StatusIn
        <5>6. spiUp /\ s.d.gpio = "up" =>
                    /\ s.c.short /\ ~s.d.short => q.d.loss
                    /\ s.d.unexplained => q.d.loss \/ q.d.ot \/ s.c.short
          BY <4>2, <5>1, <5>2, StatusIn
        <5>7. /\ z /\ q.ok /\ ~s.d.short => ~q.d.short
              /\ spiUp /\ s.d.gpio = "up" => (z /\ q.ok => ~s.c.short)
          BY <4>2, <5>1, <5>2, StatusIn
        <5>8. Good(q)
          BY <3>2, <3>5, <5>2, <5>4, <5>5, <5>6, <5>7, <5>11
        <5>9. q.ok /\ supervise /\ spiUp => Settled(q.d, q.c)
          BY <3>2, <3>5, <5>2, <5>4, <5>5, <5>6, <5>7, <5>11 DEF OnRecord, Settled
        <5>10. q.ok /\ supervise /\ spiUp => Aware(q.d, q.c, u)
          <6>1. Kept(s.d, s.c, u) /\ Aware(s.d, s.c, u) => Aware(q.d, q.c, u)
            BY <5>3, <5>4
          <6>2. Kept(s.d, s.c, u)
            BY <3>2 DEF Fit
          <6>3. CASE Aware(s.d, s.c, u)
            BY <6>1, <6>2, <6>3
          <6>4. CASE ~Aware(s.d, s.c, u)
            BY <3>2, <3>5, <5>2, <5>4, <5>5, <5>6, <5>7, <5>11, <6>2, <6>4
            DEF Kept, Aware, OnRecord
          <6> QED
            BY <6>3, <6>4
        <5> QED
          BY <5>8, <5>9, <5>10
      <4>4. CASE ~(supervise \/ due)
        <5>1. q = Result(s.d, s.c, TRUE)
          BY <4>1, <4>4
        <5>2. q \in Results /\ q.d = s.d /\ q.c = s.c /\ q.ok
          BY <3>3, <5>1, ResultIn
        <5> QED
          BY <3>2, <3>5, <4>4, <5>2
      <4> QED
        BY <4>3, <4>4
    <3> QED
      BY <3>4, <3>5
  <2> HIDE DEF P2
  <2>7. \A q \in P3 : Good(q) /\ (q.ok /\ supervise /\ spiUp => Aware(q.d, q.c, u))
    <3> TAKE q \in P3
    <3>1. PICK s \in P2 : IF s.ok THEN q \in Advance(s.d, s.c) ELSE q = s
      BY DEF Then
    <3> HIDE DEF P3
    <3>2. Good(s) /\ (s.ok /\ supervise /\ spiUp => Settled(s.d, s.c) /\ Aware(s.d, s.c, u))
      BY <2>6
    <3>3. CASE ~s.ok
      BY <3>1, <3>2, <3>3
    <3>4. CASE s.ok
      <4>1. q \in Advance(s.d, s.c) /\ s.d.enabled /\ s.d.healthy /\ Fit(s.d, s.c, u)
        BY <3>1, <3>2, <3>4
      <4>2. /\ q \in Results /\ Fit(q.d, q.c, u)
            /\ ~q.ok => ~q.d.healthy
            /\ q.ok => /\ q.d = s.d
                       /\ Settled(s.d, s.c) /\ Aware(s.d, s.c, u) => Aware(s.d, q.c, u)
        BY <4>1, AdvanceIn
      <4> QED
        BY <3>2, <3>4, <4>2
    <3> QED
      BY <3>3, <3>4
  <2> HIDE DEF P3
  <2>8. PICK s \in P3 : IF s.ok THEN r \in Reply(s.d, s.c) ELSE r = s
    <3> HIDE DEF Reply
    <3> QED
      BY <2>1 DEF Then, P4
  <2>9. Good(s) /\ (s.ok /\ supervise /\ spiUp => Aware(s.d, s.c, u))
    BY <2>7
  <2>10. s.d \in Driver /\ s.c \in Chip
    BY <2>9 DEF Fit
  <2>11. n = d0.steps + 1 \/ supervise
    BY DEF n
  <2>12. CASE ~s.ok
    BY <2>8, <2>9, <2>12
  <2>13. CASE s.ok /\ s.d.holdoff > 0
    <3> DEFINE h == s.d.holdoff - 1
               e == [s.d EXCEPT !.holdoff = h]
    <3>1. r = Result(e, s.c, TRUE)
      BY <2>8, <2>13
    <3>2. h \in 0..Holdoff
      BY <2>10, <2>13, DriverAssumption DEF Driver
    <3> HIDE DEF h, Reply
    <3>3. /\ e \in Driver /\ e.steps = s.d.steps /\ e.loss = s.d.loss
          /\ e.healthy = s.d.healthy /\ e.enabled = s.d.enabled
          /\ e.amps = s.d.amps /\ e.ot = s.d.ot /\ e.uv = s.d.uv
          /\ e.err = s.d.err /\ e.unexplained = s.d.unexplained
      BY <2>10, <3>2 DEF Driver
    <3> HIDE DEF e
    <3>4. r \in Results /\ r.d = e /\ r.c = s.c /\ r.ok
      BY <2>10, <3>1, <3>3, ResultIn
    <3>5. Fit(e, s.c, u)
      BY <2>9, <3>3 DEF Fit, Matched, Kept
    <3>6. Aware(s.d, s.c, u) => Aware(e, s.c, u)
      BY <3>3 DEF Aware
    <3> QED
      BY <2>9, <2>11, <2>13, <3>3, <3>4, <3>5, <3>6
  <2>14. CASE s.ok /\ ~(s.d.holdoff > 0) /\ ~s.c.reset /\ ~s.c.err
    <3>1. r = Result(s.d, s.c, TRUE)
      BY <2>8, <2>14
    <3>2. r \in Results /\ r.d = s.d /\ r.c = s.c /\ r.ok
      BY <2>10, <3>1, ResultIn
    <3> QED
      BY <2>9, <2>11, <2>14, <3>2
  <2>15. CASE s.ok /\ ~(s.d.holdoff > 0) /\ (s.c.reset \/ s.c.err)
    <3> DEFINE e == [s.d EXCEPT !.holdoff = Holdoff, !.steps = 0]
               R == Recover(e, s.c)
    <3>1. r \in Then(R, Again)
      BY <2>8, <2>15
    <3>2. PICK p \in R : IF p.ok THEN r \in Again(p.d, p.c) ELSE r = p
      <4> HIDE DEF R, Again, Reply
      <4> QED
        BY <3>1 DEF Then
    <3> HIDE DEF Reply
    <3>3. Holdoff \in 0..Holdoff /\ 0 \in 0..CheckInterval - 1
      BY DriverAssumption
    <3>4. /\ e \in Driver /\ e.short = s.d.short /\ e.loss = s.d.loss
          /\ e.healthy = s.d.healthy /\ e.enabled = s.d.enabled
          /\ e.amps = s.d.amps /\ e.ot = s.d.ot /\ e.uv = s.d.uv
          /\ e.err = s.d.err /\ e.unexplained = s.d.unexplained
      BY <2>10, <3>3 DEF Driver
    <3> HIDE DEF e
    <3>5. Fit(e, s.c, u)
      BY <2>9, <3>4 DEF Fit, Matched, Kept
    <3>6. /\ p \in Results /\ Fit(p.d, p.c, u) /\ (~p.ok => ~p.d.healthy)
          /\ p.ok => Read(e, p.d, p.c)
      BY <3>2, <3>5, RecoverIn
    <3>7. CASE ~p.ok
      BY <3>2, <3>6, <3>7
    <3>8. CASE p.ok
      <4> DEFINE y == TRUE
                 z == FALSE
      <4>1. r \in CheckStatus(p.d, p.c, y, z) /\ y \in BOOLEAN /\ z \in BOOLEAN
        BY <3>2, <3>8
      <4> HIDE DEF y, z, Again
      <4>2. Fit(p.d, p.c, u) /\ p.d.enabled /\ ~p.d.short /\ OnRecord(p.d, p.c)
        BY <2>9, <2>15, <3>4, <3>6, <3>8 DEF Read, OnRecord
      <4>3. /\ r \in Results /\ r.c = p.c /\ Fit(r.d, p.c, u)
            /\ r.d.healthy = p.d.healthy
            /\ Aware(p.d, p.c, u) => Aware(r.d, p.c, u)
            /\ p.d.loss => r.d.loss
            /\ ~r.ok => (y \/ z) /\ (p.d.short \/ r.d.loss)
            /\ spiUp /\ p.d.gpio = "up" =>
                  /\ p.c.short /\ ~p.d.short => r.d.loss
                  /\ p.d.unexplained => r.d.loss \/ r.d.ot \/ p.c.short
        BY <4>1, <4>2, StatusIn
      <4>4. spiUp => Aware(r.d, p.c, u)
        <5>1. Kept(p.d, p.c, u)
          BY <3>6 DEF Fit
        <5>2. CASE Aware(p.d, p.c, u)
          BY <4>3, <5>2
        <5>3. CASE ~Aware(p.d, p.c, u)
          BY <4>2, <4>3, <5>1, <5>3 DEF Kept, Aware, OnRecord
        <5> QED
          BY <5>2, <5>3
      <4> QED
        BY <4>2, <4>3, <4>4
    <3> QED
      BY <3>7, <3>8
  <2> QED
    BY <2>12, <2>13, <2>14, <2>15
<1> QED
  BY <1>1, <1>2, <1>3 DEF Driver

-----------------------------------------------------------------------------
(* The channel over its driver.  The invariant: the books fit the chip, and  *)
(* what has been counted blindly is no more than the steps since the last    *)
(* time everything was looked at.                                            *)
MotorInv ==
  /\ MotorTypeOK
  /\ Fit(driver, chip, channel.unsure)
  /\ channel.blind <= driver.steps

InTime(r, h) ==
  h.blind <= r.d.steps \/ ~spiUp \/ Aware(r.d, r.c, h.unsure)

(* What a result needs for the channel h to go on with it.                   *)
Ready(r, h) ==
  r \in Results /\ h \in Supervised /\ Fit(r.d, r.c, h.unsure) /\ InTime(r, h)

(* The other fields of the channel may change, and the latch may be set.     *)
Follows(h, k) ==
  k \in Supervised /\ k.blind = h.blind /\ (h.unsure => k.unsure)

LEMMA BecomeIn ==
  ASSUME NEW r, NEW h, Ready(r, h), Become(r, h),
         spiUp' \in BOOLEAN, checking' \in BOOLEAN, trouble' \in 0..MaxTrouble
  PROVE  MotorInv'
<1> DEFINE b == IF ~r.c.slip \/ r.c.unseen \/ ~spiUp \/ Noticed(r.d, h) THEN 0 ELSE h.blind
<1>1. r \in Results /\ h \in Supervised /\ Fit(r.d, r.c, h.unsure) /\ InTime(r, h)
  BY DEF Ready
<1>2. r.d.steps \in Nat
  BY <1>1, DriverAssumption DEF Results, Driver
<1>3. h.blind \in Nat
  BY <1>1 DEF Supervised
<1>4. b \in Nat /\ b <= r.d.steps
  <2>1. CASE ~r.c.slip \/ r.c.unseen \/ ~spiUp \/ Noticed(r.d, h)
    BY <1>2, <2>1
  <2>2. CASE ~(~r.c.slip \/ r.c.unseen \/ ~spiUp \/ Noticed(r.d, h))
    <3>1. ~Aware(r.d, r.c, h.unsure)
      BY <2>2 DEF Aware, Noticed
    <3> QED
      BY <1>1, <1>3, <2>2, <3>1 DEF InTime
  <2> QED
    BY <2>1, <2>2
<1>5. driver' = r.d /\ chip' = r.c /\ channel' = [h EXCEPT !.blind = b]
  BY DEF Become
<1> HIDE DEF b
<1>6. channel' \in Supervised /\ channel'.blind = b /\ channel'.unsure = h.unsure
  BY <1>1, <1>4, <1>5 DEF Supervised
<1>7. driver' \in Driver /\ chip' \in Chip
  BY <1>1, <1>5 DEF Fit
<1>8. MotorTypeOK'
  BY <1>6, <1>7 DEF MotorTypeOK
<1>9. Fit(driver', chip', channel'.unsure) /\ channel'.blind <= driver'.steps
  BY <1>1, <1>4, <1>5, <1>6
<1> QED
  BY <1>8, <1>9 DEF MotorInv

LEMMA UnsureFit ==
  ASSUME NEW d, NEW c, NEW u, Fit(d, c, u), NEW v, u => v
  PROVE  Fit(d, c, v) /\ (Aware(d, c, u) => Aware(d, c, v))
BY DEF Fit, Kept, Aware

LEMMA ReadyWith ==
  ASSUME NEW r, NEW h, Ready(r, h), NEW k, Follows(h, k)
  PROVE  Ready(r, k)
<1>1. r \in Results /\ Fit(r.d, r.c, h.unsure) /\ InTime(r, h)
  BY DEF Ready
<1>2. k \in Supervised /\ k.blind = h.blind /\ (h.unsure => k.unsure)
  BY DEF Follows
<1>3. Fit(r.d, r.c, k.unsure) /\ (Aware(r.d, r.c, h.unsure) => Aware(r.d, r.c, k.unsure))
  BY <1>1, <1>2, UnsureFit
<1> QED
  BY <1>1, <1>2, <1>3 DEF Ready, InTime

LEMMA AbsorbIn ==
  ASSUME NEW r, NEW h, Ready(r, h)
  PROVE  /\ Ready(Absorbed(r), Latched(h, r.d))
         /\ Absorbed(r).c = r.c
         /\ Follows(h, Latched(h, r.d))
         /\ Latched(h, r.d) = [h EXCEPT !.unsure = h.unsure \/ r.d.loss]
<1> DEFINE e == [r.d EXCEPT !.loss = FALSE, !.stop = FALSE]
           v == h.unsure \/ r.d.loss
           k == [h EXCEPT !.unsure = v]
           a == [r EXCEPT !.d = e]
<1>1. r \in Results /\ h \in Supervised /\ Fit(r.d, r.c, h.unsure) /\ InTime(r, h)
  BY DEF Ready
<1>2. r.d \in Driver /\ r.c \in Chip
  BY <1>1 DEF Results
<1>3. Latched(h, r.d) = k /\ Absorbed(r) = a
  BY DEF Latched, Absorbed
<1>4. /\ e \in Driver /\ e.healthy = r.d.healthy /\ e.enabled = r.d.enabled
      /\ e.amps = r.d.amps /\ e.ot = r.d.ot /\ e.uv = r.d.uv /\ e.err = r.d.err
      /\ e.unexplained = r.d.unexplained /\ e.steps = r.d.steps
  BY <1>2 DEF Driver
<1> HIDE DEF e
<1>5. v \in BOOLEAN
  OBVIOUS
<1>6. a \in Results /\ a.d = e /\ a.c = r.c
  BY <1>1, <1>4 DEF Results
<1>7. k \in Supervised /\ k.unsure = v /\ k.blind = h.blind
  BY <1>1, <1>5 DEF Supervised
<1> HIDE DEF a, k
<1>8. Fit(e, r.c, v)
  BY <1>1, <1>4 DEF Fit, Matched, Kept
<1>9. Aware(r.d, r.c, h.unsure) => Aware(e, r.c, v)
  BY <1>4 DEF Aware
<1>10. Ready(a, k)
  BY <1>1, <1>4, <1>6, <1>7, <1>8, <1>9 DEF Ready, InTime
<1>11. Follows(h, k)
  BY <1>7 DEF Follows
<1> QED
  BY <1>3, <1>6, <1>10, <1>11 DEF k

LEMMA RestedIn ==
  ASSUME NEW h \in Supervised
  PROVE  Follows(h, Rested(h)) /\ Rested(h) \in Supervised
<1>1. 0 \in 0..MaxMove
  BY BoundAssumption
<1> QED
  BY <1>1 DEF Rested, Supervised, Follows

(* A channel that gives its motor up has said so.                            *)
LEMMA DroppedIn ==
  ASSUME NEW h \in Supervised
  PROVE  /\ [Rested(h) EXCEPT !.unsure = TRUE, !.on = FALSE] \in Supervised
         /\ [Rested(h) EXCEPT !.unsure = TRUE, !.on = FALSE].unsure
<1>1. 0 \in 0..MaxMove
  BY BoundAssumption
<1> QED
  BY <1>1 DEF Rested, Supervised

LEMMA OffReady ==
  ASSUME NEW r, NEW h, Ready(r, h), NEW q \in EnableOff(r.d, r.c),
         NEW k \in Supervised, k.unsure
  PROVE  Ready(q, k)
<1>1. h.unsure \in BOOLEAN /\ Fit(r.d, r.c, h.unsure)
  BY DEF Ready, Supervised
<1>2. q \in Results /\ Fit(q.d, q.c, h.unsure)
  BY <1>1, OffIn
<1>3. Fit(q.d, q.c, k.unsure)
  BY <1>2, UnsureFit
<1>4. Aware(q.d, q.c, k.unsure)
  BY DEF Aware
<1> QED
  BY <1>2, <1>3, <1>4 DEF Ready, InTime

LEMMA SettleIn ==
  ASSUME NEW h \in Supervised, NEW k \in Settle(h)
  PROVE  Follows(h, k)
<1>1. CASE k = h
  BY <1>1 DEF Follows
<1>2. CASE k = Rested(h)
  BY <1>2, RestedIn
<1>3. CASE k = [h EXCEPT !.mode = "holding"]
  BY <1>3 DEF Follows, Supervised
<1>4. ASSUME NEW n \in 1..MaxMove,
             k = [h EXCEPT !.mode = "moving", !.left = n, !.after = "rest"]
      PROVE  Follows(h, k)
  <2>1. n \in 0..MaxMove
    BY BoundAssumption
  <2> QED
    BY <1>4, <2>1 DEF Follows, Supervised
<1> QED
  BY <1>1, <1>2, <1>3, <1>4 DEF Settle

(* The variables that most steps leave alone.                                *)
Types ==
  spiUp \in BOOLEAN /\ checking \in BOOLEAN /\ trouble \in 0..MaxTrouble

LEMMA TickEndIn ==
  ASSUME NEW r, NEW h, Ready(r, h), TickEnd(r, h), Types'
  PROVE  MotorInv'
<1>1. h \in Supervised
  BY DEF Ready
<1>2. spiUp' \in BOOLEAN /\ checking' \in BOOLEAN /\ trouble' \in 0..MaxTrouble
  BY DEF Types
<1>3. CASE h.on /\ r.d.ot
  <2> DEFINE k == [Rested(h) EXCEPT !.unsure = TRUE, !.on = FALSE]
  <2>1. PICK q \in EnableOff(r.d, r.c) : Become(q, k)
    BY <1>3 DEF TickEnd
  <2>2. k \in Supervised /\ k.unsure
    BY <1>1, DroppedIn
  <2> HIDE DEF k
  <2>3. Ready(q, k)
    BY <2>1, <2>2, OffReady
  <2> QED
    BY <1>2, <2>1, <2>3, BecomeIn
<1>4. CASE ~(h.on /\ r.d.ot)
  <2>1. PICK k \in Settle(h) : Become(r, k)
    BY <1>4 DEF TickEnd
  <2>2. Follows(h, k)
    BY <1>1, <2>1, SettleIn
  <2>3. Ready(r, k)
    BY <2>2, ReadyWith
  <2> QED
    BY <1>2, <2>1, <2>3, BecomeIn
<1> QED
  BY <1>3, <1>4

LEMMA QuietTypes ==
  ASSUME MotorInv, UNCHANGED <<spiUp, checking, trouble>>
  PROVE  Types'
BY DEF MotorInv, MotorTypeOK, Types

(* What the driver is now, and what a call that does not look makes of it.   *)
LEMMA NowIn ==
  ASSUME MotorInv
  PROVE  /\ driver \in Driver /\ chip \in Chip /\ channel \in Supervised
         /\ channel.unsure \in BOOLEAN /\ channel.blind \in Nat
         /\ driver.steps \in Nat /\ channel.blind <= driver.steps
         /\ Fit(driver, chip, channel.unsure)
<1>1. driver \in Driver /\ channel \in Supervised
  BY DEF MotorInv, MotorTypeOK
<1>2. driver.steps \in Nat
  BY <1>1, DriverAssumption DEF Driver
<1>3. channel.unsure \in BOOLEAN /\ channel.blind \in Nat
  BY <1>1 DEF Supervised
<1> QED
  BY <1>2, <1>3 DEF MotorInv, MotorTypeOK

LEMMA SameReady ==
  ASSUME MotorInv, NEW r \in Results, Fit(r.d, r.c, channel.unsure),
         r.d.steps = driver.steps \/ ~r.d.healthy
  PROVE  Ready(r, channel)
<1>1. channel \in Supervised /\ channel.blind <= driver.steps
  BY NowIn
<1>2. ~r.d.healthy => Aware(r.d, r.c, channel.unsure)
  BY DEF Aware
<1> QED
  BY <1>1, <1>2 DEF Ready, InTime

LEMMA AwareReady ==
  ASSUME MotorInv, NEW r \in Results, Fit(r.d, r.c, channel.unsure),
         ~spiUp \/ Aware(r.d, r.c, channel.unsure)
  PROVE  Ready(r, channel)
BY NowIn DEF Ready, InTime

LEMMA ReinitFit ==
  ASSUME NEW d, NEW c, NEW u \in BOOLEAN, Fit(d, c, u), NEW r \in Reinitialize(d, c)
  PROVE  /\ r \in Results /\ Fit(r.d, r.c, u) /\ Aware(r.d, r.c, u)
         /\ r.ok => r.d.steps = d.steps
<1>1. d \in Driver /\ c \in Chip /\ Flagged(c)
  BY DEF Fit
<1>2. /\ r \in Results /\ Flagged(r.c)
      /\ ~r.ok => ~r.d.healthy
      /\ r.ok => Matched(r.d, r.c) /\ (r.c.slip => r.c.unseen) /\ r.d.steps = d.steps
  BY <1>1, ReinitIn
<1>3. r.d \in Driver /\ r.c \in Chip
  BY <1>2 DEF Results
<1>4. CASE r.ok
  BY <1>2, <1>3, <1>4 DEF Fit, Kept, Aware
<1>5. CASE ~r.ok
  BY <1>2, <1>3, <1>5, SickFit
<1> QED
  BY <1>4, <1>5

-----------------------------------------------------------------------------
(* One lemma per action.                                                     *)
LEMMA PulseKeeps ==
  ASSUME MotorInv, IssuePulse
  PROVE  MotorInv'
<1>1. /\ driver \in Driver /\ chip \in Chip /\ channel \in Supervised
      /\ channel.unsure \in BOOLEAN /\ channel.blind \in Nat
      /\ driver.steps \in Nat /\ channel.blind <= driver.steps
      /\ Fit(driver, chip, channel.unsure)
  BY NowIn
<1>2. spiUp' \in BOOLEAN /\ checking' \in BOOLEAN /\ trouble' \in 0..MaxTrouble
  BY QuietTypes DEF IssuePulse, Types
<1>3. channel.left > 0 /\ channel.left \in 0..MaxMove
  BY <1>1 DEF IssuePulse, Supervised
<1> DEFINE L1(s) == Latched(channel, s.d)
           L2(s) == IF s.ok THEN [L1(s) EXCEPT !.left = @ - 1,
                                               !.blind = IF s.c.slip THEN @ + 1 ELSE 0]
                            ELSE L1(s)
           L3(s) == IF s.d.stop THEN Rested(L2(s)) ELSE L2(s)
<1>4. PICK s \in StepOnce(driver, chip) :
         IF ~s.ok /\ ~s.d.stop
         THEN \E r \in EnableOff(Absorbed(s).d, s.c) :
                 Become(r, [Rested(L3(s)) EXCEPT !.unsure = TRUE, !.on = FALSE])
         ELSE IF s.ok /\ L3(s).left = 0
         THEN \E r \in ConfirmTarget(Absorbed(s).d, s.c) :
                 Become(Absorbed(r), Latched(L3(s), r.d))
         ELSE Become(Absorbed(s), L3(s))
  BY DEF IssuePulse
<1> DEFINE g == [channel EXCEPT !.left = channel.left - 1,
                                !.blind = IF s.c.slip THEN channel.blind + 1 ELSE 0]
           h == IF s.ok THEN g ELSE channel
           k == L3(s)
           a == Absorbed(s)
<1>5. /\ s \in Results /\ Fit(s.d, s.c, channel.unsure)
      /\ s.ok => s.d.steps = driver.steps + 1 \/ ~spiUp \/ Aware(s.d, s.c, channel.unsure)
      /\ ~s.ok => s.d.steps = driver.steps \/ s.d.loss \/ ~s.d.healthy
  BY <1>1, <1>4, StepIn
<1>6. g \in Supervised /\ g.unsure = channel.unsure
      /\ g.blind = IF s.c.slip THEN channel.blind + 1 ELSE 0
  <2>1. channel.left - 1 \in 0..MaxMove
    BY <1>3, BoundAssumption
  <2>2. (IF s.c.slip THEN channel.blind + 1 ELSE 0) \in Nat
    BY <1>1
  <2> QED
    BY <1>1, <2>1, <2>2 DEF Supervised
<1>7. L2(s) = Latched(h, s.d)
  <2>1. CASE s.ok
    BY <1>1, <2>1 DEF Latched, Supervised
  <2>2. CASE ~s.ok
    BY <2>2
  <2> QED
    BY <2>1, <2>2
<1>8. k = IF s.d.stop THEN Rested(Latched(h, s.d)) ELSE Latched(h, s.d)
  BY <1>7
<1> HIDE DEF L1, L2, L3, g, k
<1>9. Ready(s, h)
  <2>1. CASE s.ok
    <3>1. g.blind <= driver.steps + 1
      BY <1>1, <1>6
    <3>2. InTime(s, g)
      BY <1>5, <1>6, <2>1, <3>1 DEF InTime
    <3> QED
      BY <1>5, <1>6, <2>1, <3>2 DEF Ready
  <2>2. CASE ~s.ok
    <3>1. InTime(s, channel)
      BY <1>1, <1>5, <2>2 DEF InTime, Aware
    <3> QED
      BY <1>1, <1>5, <2>2, <3>1 DEF Ready
  <2> QED
    BY <2>1, <2>2
<1> HIDE DEF h
<1>10. /\ Ready(a, Latched(h, s.d)) /\ a.c = s.c /\ Latched(h, s.d) \in Supervised
  BY <1>9, AbsorbIn DEF Ready
<1> HIDE DEF a
<1>11. Ready(a, k) /\ k \in Supervised
  <2>1. CASE s.d.stop
    BY <1>8, <1>10, <2>1, RestedIn, ReadyWith
  <2>2. CASE ~s.d.stop
    BY <1>8, <1>10, <2>2
  <2> QED
    BY <2>1, <2>2
<1>12. a.d \in Driver /\ k.unsure \in BOOLEAN /\ Fit(a.d, a.c, k.unsure)
  BY <1>11 DEF Ready, Results, Supervised
<1>13. CASE ~s.ok /\ ~s.d.stop
  <2> DEFINE v == [Rested(k) EXCEPT !.unsure = TRUE, !.on = FALSE]
  <2>1. PICK r \in EnableOff(a.d, a.c) : Become(r, v)
    BY <1>4, <1>10, <1>13 DEF a, k
  <2>2. v \in Supervised /\ v.unsure
    BY <1>11, DroppedIn
  <2> HIDE DEF v
  <2>3. Ready(r, v)
    BY <1>11, <2>1, <2>2, OffReady
  <2> QED
    BY <1>2, <2>1, <2>3, BecomeIn
<1>14. CASE s.ok /\ k.left = 0
  <2>1. PICK r \in ConfirmTarget(a.d, a.c) : Become(Absorbed(r), Latched(k, r.d))
    BY <1>4, <1>10, <1>14 DEF a, k
  <2>2. /\ r \in Results /\ Fit(r.d, r.c, k.unsure)
        /\ r.d.steps = a.d.steps \/ ~r.d.healthy
        /\ Aware(a.d, a.c, k.unsure) => Aware(r.d, r.c, k.unsure)
    BY <1>12, <2>1, ConfirmIn
  <2>3. ~r.d.healthy => Aware(r.d, r.c, k.unsure)
    BY DEF Aware
  <2>4. Ready(r, k)
    BY <1>11, <2>2, <2>3 DEF Ready, InTime
  <2>5. Ready(Absorbed(r), Latched(k, r.d))
    BY <2>4, AbsorbIn
  <2> QED
    BY <1>2, <2>1, <2>5, BecomeIn
<1>15. CASE ~(~s.ok /\ ~s.d.stop) /\ ~(s.ok /\ k.left = 0)
  <2>1. Become(a, k)
    BY <1>4, <1>15 DEF a, k
  <2> QED
    BY <1>2, <1>11, <2>1, BecomeIn
<1> QED
  BY <1>13, <1>14, <1>15

LEMMA RetryKeeps ==
  ASSUME MotorInv, TickRetry
  PROVE  MotorInv'
<1>1. Types'
  BY QuietTypes DEF TickRetry
<1>2. /\ channel \in Supervised /\ channel.unsure \in BOOLEAN
      /\ driver.steps \in Nat /\ channel.blind <= driver.steps
      /\ Fit(driver, chip, channel.unsure)
  BY NowIn
<1> DEFINE M(r) == IF r.ok THEN DriverMicrostep(r.d, r.c) ELSE {r}
           E(r, m) == IF r.ok /\ channel.on THEN EnableOn(m.d, m.c) ELSE {m}
           H(r, e) == [Latched(channel, e.d) EXCEPT !.on = IF r.ok THEN @ /\ e.ok ELSE @]
<1>3. PICK r \in Reinitialize(driver, chip) :
         \E m \in M(r) : \E e \in E(r, m) : TickEnd(Absorbed(e), H(r, e))
  BY DEF TickRetry
<1>4. PICK m \in M(r) : \E e \in E(r, m) : TickEnd(Absorbed(e), H(r, e))
  BY <1>3
<1>5. PICK e \in E(r, m) : TickEnd(Absorbed(e), H(r, e))
  BY <1>4
<1>6. /\ r \in Results /\ Fit(r.d, r.c, channel.unsure) /\ Aware(r.d, r.c, channel.unsure)
      /\ r.ok => r.d.steps = driver.steps
  BY <1>2, <1>3, ReinitFit
<1>7. Ready(m, channel)
  <2>1. CASE r.ok
    <3>1. m \in DriverMicrostep(r.d, r.c)
      BY <1>4, <2>1
    <3>2. /\ m \in Results /\ Fit(m.d, m.c, channel.unsure)
          /\ m.d.steps = r.d.steps \/ ~m.d.healthy
      BY <1>2, <1>6, <3>1, MicrostepIn
    <3> QED
      BY <1>6, <2>1, <3>2, SameReady
  <2>2. CASE ~r.ok
    <3>1. m = r
      BY <1>4, <2>2
    <3> QED
      BY <1>6, <3>1, AwareReady
  <2> QED
    BY <2>1, <2>2
<1>8. Ready(e, channel)
  <2>1. CASE r.ok /\ channel.on
    <3>1. e \in EnableOn(m.d, m.c)
      BY <1>5, <2>1
    <3>2. Fit(m.d, m.c, channel.unsure)
      BY <1>7 DEF Ready
    <3>3. /\ e \in Results /\ Fit(e.d, e.c, channel.unsure)
          /\ ~spiUp \/ ~e.d.healthy \/ Aware(e.d, e.c, channel.unsure)
      BY <1>2, <3>1, <3>2, OnIn
    <3>4. ~e.d.healthy => Aware(e.d, e.c, channel.unsure)
      BY DEF Aware
    <3> QED
      BY <3>3, <3>4, AwareReady
  <2>2. CASE ~(r.ok /\ channel.on)
    BY <1>5, <1>7, <2>2
  <2> QED
    BY <2>1, <2>2
<1> DEFINE h == Latched(channel, e.d)
           k == H(r, e)
<1>9. Ready(Absorbed(e), h) /\ h \in Supervised
  BY <1>8, AbsorbIn DEF Ready
<1>10. Follows(h, k)
  <2> DEFINE o == IF r.ok THEN h.on /\ e.ok ELSE h.on
  <2>1. o \in BOOLEAN
    BY <1>9 DEF Supervised
  <2>2. k = [h EXCEPT !.on = o]
    OBVIOUS
  <2> HIDE DEF o, h, k
  <2> QED
    BY <1>9, <2>1, <2>2 DEF Supervised, Follows
<1>11. TickEnd(Absorbed(e), k)
  BY <1>5
<1> HIDE DEF h, k, E, M, H
<1>12. Ready(Absorbed(e), k)
  BY <1>9, <1>10, ReadyWith
<1> QED
  BY <1>1, <1>11, <1>12, TickEndIn

LEMMA PollKeeps ==
  ASSUME MotorInv, PollTick
  PROVE  MotorInv'
<1>1. Types'
  BY QuietTypes DEF PollTick
<1>2. spiUp' \in BOOLEAN /\ checking' \in BOOLEAN /\ trouble' \in 0..MaxTrouble
  BY <1>1 DEF Types
<1>3. /\ driver \in Driver /\ chip \in Chip /\ channel \in Supervised
      /\ channel.unsure \in BOOLEAN /\ Fit(driver, chip, channel.unsure)
  BY NowIn
<1>4. CASE ~Retry /\ channel.on /\ channel.mode # "moving"
  <2>1. PICK r \in Poll(driver, chip) :
           IF r.d.stop /\ channel.mode = "holding"
           THEN Become(Absorbed(r), Rested(Latched(channel, r.d)))
           ELSE TickEnd(Absorbed(r), Latched(channel, r.d))
    BY <1>4 DEF PollTick
  <2>2. /\ r \in Results /\ Fit(r.d, r.c, channel.unsure)
        /\ r.d.steps = driver.steps \/ ~r.d.healthy
    BY <1>3, <2>1, PollIn
  <2>3. Ready(r, channel)
    BY <2>2, SameReady
  <2> DEFINE h == Latched(channel, r.d)
  <2>4. Ready(Absorbed(r), h) /\ h \in Supervised
    BY <2>3, AbsorbIn DEF Ready
  <2>5. CASE r.d.stop /\ channel.mode = "holding"
    <3>1. Ready(Absorbed(r), Rested(h)) /\ Become(Absorbed(r), Rested(h))
      BY <2>1, <2>4, <2>5, RestedIn, ReadyWith
    <3> QED
      BY <1>2, <3>1, BecomeIn
  <2>6. CASE ~(r.d.stop /\ channel.mode = "holding")
    <3>1. TickEnd(Absorbed(r), h)
      BY <2>1, <2>6
    <3> QED
      BY <1>1, <2>4, <3>1, TickEndIn
  <2> QED
    BY <2>5, <2>6
<1>5. CASE ~(~Retry /\ channel.on /\ channel.mode # "moving")
  <2> DEFINE z == TRUE
             r == Result(driver, chip, z)
  <2>1. z \in BOOLEAN /\ TickEnd(r, channel)
    BY <1>5 DEF PollTick
  <2> HIDE DEF z
  <2>2. r \in Results /\ r.d = driver /\ r.c = chip
    BY <1>3, <2>1, ResultIn
  <2> HIDE DEF r
  <2>3. Ready(r, channel)
    BY <1>3, <2>2, SameReady
  <2> QED
    BY <1>1, <2>1, <2>3, TickEndIn
<1> QED
  BY <1>4, <1>5

LEMMA EnableKeeps ==
  ASSUME MotorInv, StepperEnable
  PROVE  MotorInv'
<1>1. spiUp' \in BOOLEAN /\ checking' \in BOOLEAN /\ trouble' \in 0..MaxTrouble
  BY QuietTypes DEF StepperEnable, Types
<1>2. /\ channel \in Supervised /\ channel.unsure \in BOOLEAN
      /\ Fit(driver, chip, channel.unsure)
  BY NowIn
<1>3. PICK r \in EnableOn(driver, chip) : Become(r, [channel EXCEPT !.on = @ \/ r.ok])
  BY DEF StepperEnable
<1>4. /\ r \in Results /\ Fit(r.d, r.c, channel.unsure)
      /\ ~spiUp \/ ~r.d.healthy \/ Aware(r.d, r.c, channel.unsure)
  BY <1>2, <1>3, OnIn
<1>5. Ready(r, channel)
  <2>1. ~r.d.healthy => Aware(r.d, r.c, channel.unsure)
    BY DEF Aware
  <2> QED
    BY <1>4, <2>1, AwareReady
<1> DEFINE o == channel.on \/ r.ok
           k == [channel EXCEPT !.on = o]
<1>6. o \in BOOLEAN /\ Become(r, k)
  BY <1>3
<1> HIDE DEF o
<1>7. Follows(channel, k)
  BY <1>2, <1>6 DEF Supervised, Follows
<1> HIDE DEF k
<1>8. Ready(r, k)
  BY <1>5, <1>7, ReadyWith
<1> QED
  BY <1>1, <1>6, <1>8, BecomeIn

LEMMA DisableKeeps ==
  ASSUME MotorInv, StepperDisable
  PROVE  MotorInv'
<1>1. spiUp' \in BOOLEAN /\ checking' \in BOOLEAN /\ trouble' \in 0..MaxTrouble
  BY QuietTypes DEF StepperDisable, Types
<1>2. /\ channel \in Supervised /\ channel.unsure \in BOOLEAN
      /\ Fit(driver, chip, channel.unsure)
  BY NowIn
<1> DEFINE o == channel.unsure \/ channel.mode = "moving"
           h == Rested(channel)
           k == [h EXCEPT !.on = FALSE, !.unsure = o]
<1>3. h \in Supervised /\ h.blind = channel.blind /\ h.unsure = channel.unsure
  <2>1. 0 \in 0..MaxMove
    BY BoundAssumption
  <2> QED
    BY <1>2, <2>1 DEF Rested, Supervised
<1>4. PICK r \in EnableOff(driver, chip) :
         Become(r, [h EXCEPT !.on = FALSE, !.unsure = @ \/ channel.mode = "moving"])
  BY DEF StepperDisable
<1>5. Become(r, k) /\ o \in BOOLEAN /\ (channel.unsure => o)
  BY <1>3, <1>4
<1> HIDE DEF h, o
<1>6. Follows(channel, k)
  BY <1>3, <1>5 DEF Supervised, Follows
<1> HIDE DEF k
<1>7. /\ r \in Results /\ Fit(r.d, r.c, channel.unsure)
      /\ r.d.steps = driver.steps \/ ~r.d.healthy
  BY <1>2, <1>4, OffIn
<1>8. Ready(r, k)
  BY <1>6, <1>7, SameReady, ReadyWith
<1> QED
  BY <1>1, <1>5, <1>8, BecomeIn

LEMMA CurrentKeeps ==
  ASSUME MotorInv, NEW a \in Currents, RunCurrent(a)
  PROVE  MotorInv'
<1>1. spiUp' \in BOOLEAN /\ checking' \in BOOLEAN /\ trouble' \in 0..MaxTrouble
  <2>1. spiUp' = spiUp /\ checking' = checking /\ trouble > 0 /\ trouble' = trouble - 1
    BY DEF RunCurrent
  <2> QED
    BY <2>1, BoundAssumption DEF MotorInv, MotorTypeOK
<1>2. channel.unsure \in BOOLEAN /\ Fit(driver, chip, channel.unsure)
  BY NowIn
<1>3. PICK r \in SetCurrent(driver, chip, a) : Become(r, channel)
  BY DEF RunCurrent
<1>4. /\ r \in Results /\ Fit(r.d, r.c, channel.unsure)
      /\ r.d.steps = driver.steps \/ ~r.d.healthy
  BY <1>2, <1>3, CurrentIn
<1> QED
  BY <1>1, <1>3, <1>4, SameReady, BecomeIn

LEMMA MicrostepKeeps ==
  ASSUME MotorInv, Microstep
  PROVE  MotorInv'
<1>1. spiUp' \in BOOLEAN /\ checking' \in BOOLEAN /\ trouble' \in 0..MaxTrouble
  BY QuietTypes DEF Microstep, Types
<1>2. channel.unsure \in BOOLEAN /\ Fit(driver, chip, channel.unsure)
  BY NowIn
<1>3. PICK r \in DriverMicrostep(driver, chip) : Become(r, channel)
  BY DEF Microstep
<1>4. /\ r \in Results /\ Fit(r.d, r.c, channel.unsure)
      /\ r.d.steps = driver.steps \/ ~r.d.healthy
  BY <1>2, <1>3, MicrostepIn
<1> QED
  BY <1>1, <1>3, <1>4, SameReady, BecomeIn

LEMMA ProbeKeeps ==
  ASSUME MotorInv, CheckProbe
  PROVE  MotorInv'
<1>1. spiUp' \in BOOLEAN /\ checking' \in BOOLEAN /\ trouble' \in 0..MaxTrouble
  BY DEF CheckProbe, MotorInv, MotorTypeOK
<1>2. channel.unsure \in BOOLEAN /\ Fit(driver, chip, channel.unsure)
  BY NowIn
<1>3. PICK r \in Reinitialize(driver, chip) : Become(r, channel)
  BY DEF CheckProbe
<1>4. r \in Results /\ Fit(r.d, r.c, channel.unsure) /\ Aware(r.d, r.c, channel.unsure)
  BY <1>2, <1>3, ReinitFit
<1> QED
  BY <1>1, <1>3, <1>4, AwareReady, BecomeIn

(* Only the channel changes.                                                 *)
LEMMA ChannelMoves ==
  ASSUME MotorInv, UNCHANGED <<driver, chip, spiUp, trouble>>, checking' \in BOOLEAN,
         Follows(channel, channel')
  PROVE  MotorInv'
<1>1. channel' \in Supervised /\ channel'.blind = channel.blind
      /\ (channel.unsure => channel'.unsure)
  BY DEF Follows
<1>2. Fit(driver, chip, channel'.unsure)
  BY <1>1, NowIn, UnsureFit
<1>3. MotorTypeOK'
  BY <1>1 DEF MotorInv, MotorTypeOK
<1>4. Fit(driver', chip', channel'.unsure) /\ channel'.blind <= driver'.steps
  BY <1>1, <1>2, NowIn
<1> QED
  BY <1>3, <1>4 DEF MotorInv

LEMMA CommandsKeep ==
  ASSUME MotorInv,
         \/ \E n \in 1..MaxMove, after \in {"rest", "hold", "retract"} : Move(n, after)
         \/ StepperStop \/ Accept \/ CheckLook
  PROVE  MotorInv'
<1>1. channel \in Supervised /\ checking \in BOOLEAN /\ Follows(channel, channel)
  BY NowIn DEF MotorInv, MotorTypeOK, Follows
<1>2. ASSUME NEW n \in 1..MaxMove, NEW after \in {"rest", "hold", "retract"}, Move(n, after)
      PROVE  MotorInv'
  <2>1. n \in 0..MaxMove
    BY BoundAssumption
  <2>2. Follows(channel, channel')
    BY <1>1, <1>2, <2>1 DEF Move, Follows, Supervised
  <2> QED
    BY <1>1, <1>2, <2>2, ChannelMoves DEF Move
<1>3. CASE StepperStop
  <2>1. Follows(channel, channel')
    BY <1>1, <1>3, RestedIn DEF StepperStop
  <2> QED
    BY <1>1, <1>3, <2>1, ChannelMoves DEF StepperStop
<1>4. CASE CheckLook
  <2>1. Follows(channel, channel') /\ checking' \in BOOLEAN
    BY <1>1, <1>4 DEF CheckLook
  <2> QED
    BY <1>4, <2>1, ChannelMoves DEF CheckLook
<1>5. CASE Accept
  <2>1. /\ channel' = [channel EXCEPT !.unsure = FALSE, !.blind = 0]
        /\ chip' = [chip EXCEPT !.slip = Astray(chip), !.unseen = Astray(chip)]
        /\ UNCHANGED <<driver, spiUp, checking, trouble>>
    BY <1>5 DEF Accept
  <2>2. channel' \in Supervised /\ channel'.blind = 0
    BY <1>1, <2>1 DEF Supervised
  <2>3. chip \in Chip /\ driver.steps \in Nat /\ Fit(driver, chip, channel.unsure)
    BY NowIn
  <2>0. Astray(chip) \in BOOLEAN
    BY <2>3 DEF Astray, Chip
  <2>4. /\ chip' \in Chip /\ chip'.slip = chip'.unseen /\ chip'.short = chip.short /\ chip'.on = chip.on
        /\ chip'.err = chip.err /\ chip'.reset = chip.reset /\ chip'.low = chip.low
        /\ chip'.uv = chip.uv /\ chip'.hot = chip.hot /\ chip'.cfg = chip.cfg
        /\ chip'.gs = chip.gs /\ chip'.irun = chip.irun
    BY <2>0, <2>1, <2>3 DEF Chip
  <2>5. Fit(driver, chip', channel'.unsure)
    BY <2>3, <2>4 DEF Fit, Matched, Flagged, Kept
  <2>6. MotorTypeOK'
    BY <2>1, <2>2, <2>4 DEF MotorInv, MotorTypeOK
  <2>7. driver' = driver
    BY <2>1
  <2>8. Fit(driver', chip', channel'.unsure)
    BY <2>5, <2>7
  <2>9. channel'.blind <= driver'.steps
    BY <2>2, <2>3, <2>7
  <2> QED
    BY <2>6, <2>8, <2>9 DEF MotorInv
<1> QED
  BY <1>2, <1>3, <1>4, <1>5

-----------------------------------------------------------------------------
(* The hardware.                                                             *)
LEMMA ChipMoves ==
  ASSUME MotorInv, UNCHANGED <<driver, channel, checking>>, spiUp' \in BOOLEAN,
         trouble' \in 0..MaxTrouble, Fit(driver, chip', channel.unsure)
  PROVE  MotorInv'
<1>1. chip' \in Chip
  BY DEF Fit
<1>2. MotorTypeOK'
  BY <1>1 DEF MotorInv, MotorTypeOK
<1>3. Fit(driver', chip', channel'.unsure) /\ channel'.blind <= driver'.steps
  BY NowIn
<1> QED
  BY <1>2, <1>3 DEF MotorInv

LEMMA TroubleIn ==
  ASSUME MotorInv, NEW c, Trouble(c)
  PROVE  /\ UNCHANGED <<driver, channel, checking>> /\ spiUp' \in BOOLEAN
         /\ trouble' \in 0..MaxTrouble /\ chip' = c
BY BoundAssumption DEF Trouble, MotorInv, MotorTypeOK

(* A cut-off that is a slip is a new episode of an enabled motor.            *)
Cut(c, low, hot, uv, err, s) ==
    [c EXCEPT !.low = low, !.hot = hot, !.uv = uv, !.err = err, !.slip = s]

Cuts(d, c, low, hot, uv, err, s) ==
    /\ low \in BOOLEAN /\ hot \in BOOLEAN /\ uv \in BOOLEAN /\ err \in BOOLEAN
    /\ s \in BOOLEAN
    /\ c.low => low
    /\ c.hot => hot
    /\ c.uv => uv
    /\ c.err => err
    /\ low => uv \/ c.low
    /\ hot => err \/ c.hot
    /\ s => c.slip \/ (Powered(c) /\ Fresh(d, c) /\ (uv \/ err))

LEMMA CutOffFit ==
  ASSUME NEW d, NEW c, NEW u, Fit(d, c, u), NEW low, NEW hot, NEW uv, NEW err, NEW s,
         Cuts(d, c, low, hot, uv, err, s)
  PROVE  Fit(d, Cut(c, low, hot, uv, err, s), u)
<1> DEFINE w == [c EXCEPT !.low = low, !.hot = hot, !.uv = uv, !.err = err, !.slip = s]
<1>0. /\ low \in BOOLEAN /\ hot \in BOOLEAN /\ uv \in BOOLEAN /\ err \in BOOLEAN
      /\ s \in BOOLEAN
      /\ c.low => low
      /\ c.hot => hot
      /\ c.uv => uv
      /\ c.err => err
      /\ low => uv \/ c.low
      /\ hot => err \/ c.hot
      /\ s => c.slip \/ (Powered(c) /\ Fresh(d, c) /\ (uv \/ err))
  BY DEF Cuts
<1>1. d \in Driver /\ c \in Chip /\ Matched(d, c) /\ Flagged(c) /\ Kept(d, c, u)
  BY DEF Fit
<1>2. /\ d.uv \in BOOLEAN /\ d.err \in BOOLEAN /\ d.healthy \in BOOLEAN
      /\ d.enabled \in BOOLEAN /\ c.on \in BOOLEAN /\ c.reset \in BOOLEAN
      /\ c.short \in BOOLEAN
  BY <1>1 DEF Driver, Chip
<1>3. /\ w \in Chip /\ w.low = low /\ w.hot = hot /\ w.uv = uv /\ w.err = err /\ w.slip = s
      /\ w.short = c.short /\ w.on = c.on /\ w.reset = c.reset /\ w.cfg = c.cfg
      /\ w.gs = c.gs /\ w.irun = c.irun /\ w.unseen = c.unseen
  <2>1. w \in Chip
    BY <1>0, <1>1 DEF Chip
  <2>2. /\ w.low = low /\ w.hot = hot /\ w.uv = uv /\ w.err = err /\ w.slip = s
        /\ w.short = c.short /\ w.on = c.on /\ w.reset = c.reset /\ w.cfg = c.cfg
    BY <1>1 DEF Chip
  <2>3. w.gs = c.gs /\ w.irun = c.irun /\ w.unseen = c.unseen
    BY <1>1 DEF Chip
  <2> QED
    BY <2>1, <2>2, <2>3
<1> HIDE DEF w
<1>4. Matched(d, w)
  BY <1>1, <1>3 DEF Matched
<1>5. Flagged(w)
  BY <1>0, <1>1, <1>2, <1>3 DEF Flagged
<1>6. Kept(d, w, u)
  <2>1. CASE s /\ c.slip
    BY <1>0, <1>1, <1>3, <2>1 DEF Kept
  <2>2. CASE s /\ Powered(c) /\ Fresh(d, c) /\ (uv \/ err)
    BY <1>0, <1>1, <1>2, <1>3, <2>2 DEF Kept, Powered, Fresh, Matched
  <2>3. CASE ~s
    BY <1>0, <1>3, <2>3 DEF Kept
  <2> QED
    BY <1>0, <2>1, <2>2, <2>3
<1> QED
  BY <1>1, <1>3, <1>4, <1>5, <1>6 DEF Fit, w, Cut

(* It went off and came back: only the flag tells.                           *)
LEMMA GlitchFit ==
  ASSUME NEW d, NEW c, NEW u, Fit(d, c, u), NEW err \in BOOLEAN, NEW s \in BOOLEAN,
         err, s => c.slip \/ (Powered(c) /\ Fresh(d, c))
  PROVE  Fit(d, [c EXCEPT !.err = err, !.slip = s], u)
<1> DEFINE w == [c EXCEPT !.err = err, !.slip = s]
<1>1. d \in Driver /\ c \in Chip /\ Matched(d, c) /\ Flagged(c) /\ Kept(d, c, u)
  BY DEF Fit
<1>2. /\ d.uv \in BOOLEAN /\ d.err \in BOOLEAN /\ d.healthy \in BOOLEAN
      /\ d.enabled \in BOOLEAN /\ c.on \in BOOLEAN /\ c.reset \in BOOLEAN
      /\ c.short \in BOOLEAN
  BY <1>1 DEF Driver, Chip
<1>3. w \in Chip
  BY <1>1 DEF Chip
<1>4. /\ w.low = c.low /\ w.hot = c.hot /\ w.uv = c.uv /\ w.err = err /\ w.slip = s
      /\ w.short = c.short /\ w.on = c.on /\ w.reset = c.reset /\ w.cfg = c.cfg
      /\ w.gs = c.gs /\ w.irun = c.irun /\ w.unseen = c.unseen
  BY <1>1 DEF Chip
<1> HIDE DEF w
<1>5. Matched(d, w)
  BY <1>1, <1>4 DEF Matched
<1>6. Flagged(w)
  BY <1>1, <1>2, <1>4 DEF Flagged
<1>7. Kept(d, w, u)
  <2>1. CASE s /\ c.slip
    BY <1>1, <1>4, <2>1 DEF Kept
  <2>2. CASE s /\ Powered(c) /\ Fresh(d, c)
    BY <1>1, <1>2, <1>4, <2>2 DEF Kept, Powered, Fresh, Matched
  <2>3. CASE ~s
    BY <1>4, <2>3 DEF Kept
  <2> QED
    BY <2>1, <2>2, <2>3
<1> QED
  BY <1>1, <1>3, <1>5, <1>6, <1>7 DEF Fit, w

LEMMA HardwareKeeps ==
  ASSUME MotorInv,
         \/ ChipReset \/ Undervoltage \/ Short \/ Overheat \/ Glitch \/ BusFails
         \/ SupplyBack \/ CoolDown \/ BusBack
  PROVE  MotorInv'
<1> DEFINE u == channel.unsure
<1>1. /\ driver \in Driver /\ chip \in Chip /\ channel \in Supervised /\ u \in BOOLEAN
      /\ Fit(driver, chip, u) /\ spiUp \in BOOLEAN /\ trouble \in 0..MaxTrouble
  BY NowIn DEF MotorInv, MotorTypeOK
<1>2. /\ chip.low \in BOOLEAN /\ chip.hot \in BOOLEAN /\ chip.uv \in BOOLEAN
      /\ chip.err \in BOOLEAN /\ chip.slip \in BOOLEAN /\ chip.on \in BOOLEAN
      /\ chip.en \in BOOLEAN /\ chip.short \in BOOLEAN /\ chip.reset \in BOOLEAN
  BY <1>1 DEF Chip
<1>3. Matched(driver, chip) /\ Flagged(chip) /\ Kept(driver, chip, u)
  BY <1>1 DEF Fit
<1>4. /\ driver.uv \in BOOLEAN /\ driver.err \in BOOLEAN
      /\ Powered(chip) \in BOOLEAN /\ Fresh(driver, chip) \in BOOLEAN
  BY <1>1, <1>2 DEF Driver, Powered, Fresh
<1> DEFINE s == chip.slip \/ (Powered(chip) /\ Fresh(driver, chip))
           p == chip.slip \/ Powered(chip)
           T == TRUE
<1>5. s \in BOOLEAN /\ p \in BOOLEAN /\ T \in BOOLEAN /\ T
  BY <1>2, <1>4
<1>6. CASE ChipReset
  <2> DEFINE w == [Slips(chip) EXCEPT !.slip = @ \/ Astray(chip),
                                      !.cfg = FALSE, !.on = FALSE, !.gs = 256, !.irun = 0,
                                      !.reset = TRUE, !.uv = FALSE, !.err = FALSE,
                                      !.short = FALSE, !.xt = FALSE, !.xa = FALSE]
  <2>1. Trouble(w)
    BY <1>6 DEF ChipReset
  <2>2. w \in Chip /\ w.reset /\ ~w.short
    <3> DEFINE v == Slips(chip)
               b == v.slip \/ Astray(chip)
    <3>1. v \in Chip
      BY <1>1, <1>3, SlipsIn
    <3>6. b \in BOOLEAN
      BY <3>1 DEF Astray, Chip
    <3> HIDE DEF s, p, T, v, b
    <3>2. w.reset /\ ~w.short
      BY <3>1 DEF Chip
    <3> DEFINE f == FALSE
               t == TRUE
               g == 256
               r == 0
    <3>3. f \in BOOLEAN /\ t \in BOOLEAN /\ g \in Nat /\ r \in Nat
      OBVIOUS
    <3> HIDE DEF f, t, g, r
    <3>4. Wiped(v, b, f, t, g, r) \in Chip
      BY <3>1, <3>3, <3>6, ChipIsReset
    <3>5. w \in Chip
      BY <3>4 DEF v, b, f, t, g, r, Wiped
    <3> QED
      BY <3>2, <3>5
  <2> HIDE DEF w
  <2>3. Fit(driver, w, u)
    BY <1>1, <2>2 DEF Fit, Matched, Flagged, Kept
  <2> QED
    BY <2>1, <2>3, TroubleIn, ChipMoves
<1>7. CASE Undervoltage
  <2>1. CutOff([chip EXCEPT !.low = TRUE, !.uv = TRUE]) = Cut(chip, T, chip.hot, T, chip.err, s)
    BY <1>1 DEF CutOff, Chip, Cut
  <2>2. Trouble(Cut(chip, T, chip.hot, T, chip.err, s))
    BY <1>7, <2>1 DEF Undervoltage
  <2> HIDE DEF T
  <2>3. Cuts(driver, chip, T, chip.hot, T, chip.err, s)
    BY <1>2, <1>5 DEF Cuts
  <2> HIDE DEF s
  <2>4. Fit(driver, Cut(chip, T, chip.hot, T, chip.err, s), u)
    BY <1>1, <2>3, CutOffFit
  <2> DEFINE w == Cut(chip, T, chip.hot, T, chip.err, s)
  <2>5. Trouble(w) /\ Fit(driver, w, u)
    BY <2>2, <2>4
  <2> HIDE DEF w
  <2> QED
    BY <2>5, TroubleIn, ChipMoves
<1>8. CASE Overheat
  <2>1. CutOff([chip EXCEPT !.hot = TRUE, !.err = TRUE]) = Cut(chip, chip.low, T, chip.uv, T, s)
    BY <1>1 DEF CutOff, Chip, Cut
  <2>2. Trouble(Cut(chip, chip.low, T, chip.uv, T, s))
    BY <1>8, <2>1 DEF Overheat
  <2> HIDE DEF T
  <2>3. Cuts(driver, chip, chip.low, T, chip.uv, T, s)
    BY <1>2, <1>5 DEF Cuts
  <2> HIDE DEF s
  <2>4. Fit(driver, Cut(chip, chip.low, T, chip.uv, T, s), u)
    BY <1>1, <2>3, CutOffFit
  <2> DEFINE w == Cut(chip, chip.low, T, chip.uv, T, s)
  <2>5. Trouble(w) /\ Fit(driver, w, u)
    BY <2>2, <2>4
  <2> HIDE DEF w
  <2> QED
    BY <2>5, TroubleIn, ChipMoves
<1>9. CASE Glitch
  <2> DEFINE w == [chip EXCEPT !.err = T, !.slip = s]
  <2>1. CutOff([chip EXCEPT !.err = TRUE]) = w
    BY <1>1 DEF CutOff, Chip
  <2>2. Trouble(w)
    BY <1>9, <2>1 DEF Glitch
  <2> HIDE DEF T
  <2>3. s => chip.slip \/ (Powered(chip) /\ Fresh(driver, chip))
    OBVIOUS
  <2> HIDE DEF s
  <2>4. Fit(driver, w, u)
    BY <1>1, <1>5, <2>3, GlitchFit
  <2> HIDE DEF w
  <2> QED
    BY <2>2, <2>4, TroubleIn, ChipMoves
<1>10. CASE Short
  <2> DEFINE w == [Slips(chip) EXCEPT !.short = TRUE, !.err = TRUE]
  <2>1. Trouble(w) /\ Powered(chip)
    BY <1>10 DEF Short
  <2>2. /\ w \in Chip /\ w.short /\ w.err /\ w.on /\ w.low = chip.low /\ w.hot = chip.hot
        /\ w.uv = chip.uv /\ w.reset = chip.reset /\ w.cfg = chip.cfg /\ chip.on
        /\ w.gs = chip.gs /\ w.irun = chip.irun
    <3>1. Slips(chip) = [chip EXCEPT !.slip = p]
      BY <1>1, <1>3, SlipsIn
    <3>2. chip.on
      BY <2>1 DEF Powered
    <3>3. w = [[chip EXCEPT !.slip = p] EXCEPT !.short = TRUE, !.err = TRUE]
      BY <3>1
    <3> HIDE DEF w, p, s, T
    <3> QED
      BY <1>1, <1>5, <3>2, <3>3 DEF Chip
  <2> HIDE DEF w
  <2>3. Matched(driver, w) /\ Flagged(w)
    BY <1>2, <1>3, <2>2 DEF Matched, Flagged
  <2>4. Kept(driver, w, u)
    BY <1>3, <2>2 DEF Kept, Matched
  <2>5. Fit(driver, w, u)
    BY <1>1, <2>2, <2>3, <2>4 DEF Fit
  <2> QED
    BY <2>1, <2>5, TroubleIn, ChipMoves
<1>11. CASE BusFails
  <2>1. trouble' = trouble - 1 /\ trouble > 0 /\ spiUp' = FALSE
    BY <1>11 DEF BusFails
  <2>2. trouble' \in 0..MaxTrouble
    BY <1>1, <2>1, BoundAssumption
  <2>3. spiUp' \in BOOLEAN
    BY <2>1
  <2> QED
    BY <1>1, <1>11, <2>2, <2>3, ChipMoves DEF BusFails
<1>12. CASE SupplyBack
  <2>1. /\ chip' = [chip EXCEPT !.low = FALSE] /\ spiUp' \in BOOLEAN
        /\ UNCHANGED <<driver, channel, checking, trouble>>
    BY <1>1, <1>12 DEF SupplyBack, Over
  <2>2. /\ chip' \in Chip /\ ~chip'.low /\ chip'.short = chip.short /\ chip'.on = chip.on
        /\ chip'.err = chip.err /\ chip'.reset = chip.reset /\ chip'.hot = chip.hot
        /\ chip'.uv = chip.uv /\ chip'.cfg = chip.cfg /\ chip'.slip = chip.slip
        /\ chip'.gs = chip.gs /\ chip'.irun = chip.irun /\ chip'.unseen = chip.unseen
    BY <1>1, <2>1 DEF Chip
  <2>3. Fit(driver, chip', u)
    BY <1>1, <1>3, <2>2 DEF Fit, Matched, Flagged, Kept
  <2> QED
    BY <1>1, <2>1, <2>3, ChipMoves
<1>13. CASE CoolDown
  <2>1. /\ chip' = [chip EXCEPT !.hot = FALSE] /\ spiUp' \in BOOLEAN
        /\ UNCHANGED <<driver, channel, checking, trouble>>
    BY <1>1, <1>13 DEF CoolDown, Over
  <2>2. /\ chip' \in Chip /\ ~chip'.hot /\ chip'.short = chip.short /\ chip'.on = chip.on
        /\ chip'.err = chip.err /\ chip'.reset = chip.reset /\ chip'.low = chip.low
        /\ chip'.uv = chip.uv /\ chip'.cfg = chip.cfg /\ chip'.slip = chip.slip
        /\ chip'.gs = chip.gs /\ chip'.irun = chip.irun /\ chip'.unseen = chip.unseen
    BY <1>1, <2>1 DEF Chip
  <2>3. Fit(driver, chip', u)
    BY <1>1, <1>3, <2>2 DEF Fit, Matched, Flagged, Kept
  <2> QED
    BY <1>1, <2>1, <2>3, ChipMoves
<1>14. CASE BusBack
  <2>1. chip' = chip /\ spiUp' \in BOOLEAN /\ UNCHANGED <<driver, channel, checking, trouble>>
    BY <1>14 DEF BusBack, Over
  <2> QED
    BY <1>1, <2>1, ChipMoves
<1> QED
  BY <1>6, <1>7, <1>8, <1>9, <1>10, <1>11, <1>12, <1>13, <1>14

LEMMA MotorStarts == MotorInit => MotorInv
<1> SUFFICES ASSUME MotorInit PROVE MotorInv
  OBVIOUS
<1>1. /\ 0 \in 0..Polls /\ 0 \in 0..CheckInterval - 1 /\ 0 \in 0..Holdoff /\ 0 \in 0..MaxMove
      /\ MaxTrouble \in 0..MaxTrouble
  BY DriverAssumption, BoundAssumption
<1>2. driver \in Driver /\ ~driver.healthy /\ driver.steps = 0
  BY <1>1, CurrentAssumption DEF MotorInit, Driver
<1>3. chip \in Chip /\ ~chip.short /\ ~chip.low /\ ~chip.hot /\ ~chip.slip
  BY DEF MotorInit, Chip
<1>4. channel \in Supervised /\ channel.blind = 0
  BY <1>1 DEF MotorInit, Supervised
<1>5. Fit(driver, chip, channel.unsure)
  BY <1>2, <1>3 DEF Fit, Matched, Flagged, Kept
<1>6. MotorTypeOK
  BY <1>1, <1>2, <1>3, <1>4 DEF MotorInit, MotorTypeOK
<1> QED
  BY <1>2, <1>4, <1>5, <1>6 DEF MotorInv

LEMMA MotorStepKeeps == MotorInv /\ [MotorNext]_motorVars => MotorInv'
<1> SUFFICES ASSUME MotorInv, [MotorNext]_motorVars PROVE MotorInv'
  OBVIOUS
<1>1. CASE UNCHANGED motorVars
  BY <1>1 DEF motorVars, MotorInv, MotorTypeOK
<1>2. ASSUME NEW a \in Currents, RunCurrent(a) PROVE MotorInv'
  BY <1>2, CurrentKeeps
<1>3. CASE \/ IssuePulse \/ TickRetry \/ PollTick
  BY <1>3, PulseKeeps, RetryKeeps, PollKeeps
<1>4. CASE \/ StepperEnable \/ StepperDisable \/ Microstep \/ CheckProbe
  BY <1>4, EnableKeeps, DisableKeeps, MicrostepKeeps, ProbeKeeps
<1>5. CASE \/ \E n \in 1..MaxMove, after \in {"rest", "hold", "retract"} : Move(n, after)
           \/ StepperStop \/ Accept \/ CheckLook
  BY <1>5, CommandsKeep
<1>6. CASE \/ ChipReset \/ Undervoltage \/ Short \/ Overheat \/ Glitch \/ BusFails
           \/ SupplyBack \/ CoolDown \/ BusBack
  BY <1>6, HardwareKeeps
<1> QED
  BY <1>1, <1>2, <1>3, <1>4, <1>5, <1>6 DEF MotorNext

(* Over the whole range the currents of the chip are within 110 % of the     *)
(* request, the clamps and roundings of CalculateCurrent included; only at   *)
(* the low end its own check is needed for that.                             *)
THEOREM CurrentWithin ==
  ASSUME NEW r \in 1..1000, Deliverable(r)
  PROVE  Within(Gs(r), Irun(r), r)
<1>1. CASE 256 * r < 32000
  BY <1>1 DEF Deliverable
<1>2. CASE 256 * r >= 32000 /\ r <= 500
  <2> DEFINE q == Round(256 * r, 1000)
  <2>1. Gs(r) = q /\ Irun(r) = 31
    BY <1>2 DEF Gs, Irun
  <2>2. q \in Int /\ 2000 * q <= 512 * r + 1000
    BY <1>2 DEF Round
  <2> HIDE DEF q
  <2> QED
    BY <1>2, <2>1, <2>2 DEF Within
<1>3. CASE r > 500
  <2> DEFINE q == Round(32 * r, 1000)
  <2>1. Gs(r) = 256 /\ Irun(r) = q - 1
    BY <1>3 DEF Gs, Irun
  <2>2. q \in Int /\ 2000 * q <= 64 * r + 1000
    BY <1>3 DEF Round
  <2> HIDE DEF q
  <2> QED
    BY <1>3, <2>1, <2>2 DEF Within
<1> QED
  BY <1>1, <1>2, <1>3

Asked(r) == r \in 1..1000 /\ Deliverable(r)

LEMMA AskedWithin ==
  ASSUME NEW r, Asked(r)
  PROVE  Within(Gs(r), Irun(r), r)
<1>1. r \in 1..1000 /\ Deliverable(r)
  BY DEF Asked
<1> QED
  BY <1>1, CurrentWithin

(* The current a driver was set to.                                          *)
LEMMA AmpsIn ==
  ASSUME NEW d \in Driver
  PROVE  d.amps \in Currents /\ Deliverable(d.amps)
BY DEF Driver

(* What the invariant says of the three properties.                          *)
LEMMA MotorConsequences == MotorInv => ChipSound /\ SlipIsKnown /\ FoundInTime
<1> SUFFICES ASSUME MotorInv PROVE ChipSound /\ SlipIsKnown /\ FoundInTime
  OBVIOUS
<1>1. Matched(driver, chip) /\ Kept(driver, chip, channel.unsure)
  BY NowIn DEF Fit
<1>2. ChipSound
  <2>1. driver.amps \in 1..1000 /\ Deliverable(driver.amps)
    <3>1. driver \in Driver
      BY NowIn
    <3>2. driver.amps \in Currents /\ Deliverable(driver.amps)
      BY <3>1, AmpsIn, Zenon
    <3> DEFINE N == 1..1000
    <3>3. Currents \subseteq N
      BY DriverAssumption
    <3> HIDE DEF N
    <3>4. driver.amps \in N
      BY <3>2, <3>3, Zenon
    <3> QED
      BY <3>2, <3>4 DEF N
  <2>2. Within(Gs(driver.amps), Irun(driver.amps), driver.amps)
    <3>1. Asked(driver.amps)
      BY <2>1 DEF Asked
    <3> QED
      BY <3>1, AskedWithin
  <2> QED
    BY <1>1, <2>2 DEF MotorInv, Matched, ChipSound
<1>3. SlipIsKnown
  BY <1>1 DEF Kept, SlipIsKnown, Noticed
<1>4. driver.steps \in 0..CheckInterval - 1
  BY NowIn DEF Driver
<1>5. FoundInTime
  BY <1>4, NowIn, DriverAssumption DEF FoundInTime
<1> QED
  BY <1>2, <1>3, <1>5

LEMMA MotorAlways == MotorSpec => []MotorInv
<1>1. MotorInit => MotorInv
  BY MotorStarts
<1>2. MotorInv /\ [MotorNext]_motorVars => MotorInv'
  BY MotorStepKeeps
<1> QED
  BY <1>1, <1>2, PTL DEF MotorSpec

(* Whatever access of whatever call fails, and whatever the supply, the      *)
(* coils and the bus do between two calls, a driver whose healthy_ is true   *)
(* has a chip with its configuration, its currents and the chopper as it was *)
(* asked for, unless the reset flag is up to tell; and for every current the *)
(* chip may be given, what its two registers make of it is at most 110 %.    *)
THEOREM ChipSafe == MotorSpec => []ChipSound
<1>1. MotorInv => ChipSound
  BY MotorConsequences
<1> QED
  BY <1>1, MotorAlways, PTL

(* A slip of the rotor is never forgotten: from RecordStepLossUnlocked over  *)
(* the books of the driver and AbsorbDriverStepLoss to the latch of the      *)
(* channel, somebody holds it, or a flag of the chip does.                   *)
THEOREM SlipSafe == MotorSpec => []SlipIsKnown
<1>1. MotorInv => SlipIsKnown
  BY MotorConsequences
<1> QED
  BY <1>1, MotorAlways, PTL

(* Fewer than kResetCheckInterval steps are counted over a working bus after *)
(* a slip that nobody has noticed: the blind count never passes the counter  *)
(* of Step, although the holdoff, an enable and a reply start that anew.     *)
THEOREM FoundSafe == MotorSpec => []FoundInTime
<1>1. MotorInv => FoundInTime
  BY MotorConsequences
<1> QED
  BY <1>1, MotorAlways, PTL
=============================================================================
