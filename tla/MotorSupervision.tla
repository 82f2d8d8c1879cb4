--------------------------- MODULE MotorSupervision ---------------------------
(***************************************************************************)
(* One StepperChannel over its TMC5160 driver: the pulse thread, the tick  *)
(* of the control loop and the commands of the operator, while the supply  *)
(* dips, coils short, the die heats and the SPI bus fails.  Which motor may*)
(* move is in StepperMotion; here a leg is only its number of microsteps.  *)
(***************************************************************************)
EXTENDS Tmc5160

CONSTANTS
    Current,    \* motorN.run_current_a_rms of the configuration, in thousandths too
    MaxMove,    \* bound: microsteps of a leg
    MaxTrouble  \* bound: chip events, bus outages and current commands of a behaviour

ASSUME CurrentAssumption == Current \in Currents /\ Deliverable(Current)
ASSUME BoundAssumption == MaxMove \in Nat \ {0} /\ MaxTrouble \in Nat

VARIABLES
    channel,   \* the fields of StepperChannel
    checking,  \* CHECK has seen the motor at rest and is about to probe it
    trouble    \* events and current commands left

motorVars == <<driver, chip, spiUp, channel, checking, trouble>>

\* blind is history: the steps counted over a working bus since a slip that
\* nobody has noticed.
Supervised == [on : BOOLEAN, mode : {"idle", "moving", "holding"}, left : 0..MaxMove,
               after : {"rest", "hold", "retract"}, unsure : BOOLEAN, blind : Nat]

MotorInit ==
    /\ driver = [healthy |-> FALSE, enabled |-> FALSE, gpio |-> "up", amps |-> Current,
                 ot |-> FALSE, short |-> FALSE, uv |-> FALSE, err |-> FALSE,
                 unexplained |-> FALSE, loss |-> FALSE, stop |-> FALSE,
                 mismatch |-> 0, steps |-> 0, holdoff |-> 0]
    /\ \E s \in BOOLEAN :
          chip = [strap |-> s, cfg |-> FALSE, on |-> FALSE, en |-> FALSE, gs |-> 256,
                  irun |-> 0, reset |-> TRUE, uv |-> FALSE, err |-> FALSE,
                  short |-> FALSE, hot |-> FALSE, low |-> FALSE, xt |-> TRUE, xa |-> TRUE,
                  slip |-> FALSE, unseen |-> FALSE]
    /\ spiUp = TRUE
    /\ channel = [on |-> FALSE, mode |-> "idle", left |-> 0, after |-> "rest",
                  unsure |-> FALSE, blind |-> 0]
    /\ checking = FALSE
    /\ trouble = MaxTrouble

-----------------------------------------------------------------------------
\* The driver or the channel knows of a loss.
Noticed(d, h) == h.unsure \/ d.loss \/ d.ot \/ d.uv \/ d.unexplained \/ ~d.healthy

\* A result of the driver and the channel h that goes with it.
Become(r, h) ==
    /\ driver' = r.d
    /\ chip' = r.c
    /\ channel' = [h EXCEPT !.blind = IF \/ ~r.c.slip \/ r.c.unseen \/ ~spiUp
                                         \/ Noticed(r.d, h)
                                      THEN 0 ELSE @]

\* AbsorbDriverStepLoss: the events, and the pending order to stop.
Absorbed(r) == [r EXCEPT !.d.loss = FALSE, !.d.stop = FALSE]
Latched(h, d) == [h EXCEPT !.unsure = @ \/ d.loss]

\* The end of every abort and of every leg without a hold.
Rested(h) == [h EXCEPT !.mode = "idle", !.left = 0, !.after = "rest"]

-----------------------------------------------------------------------------
\* IssuePulses(1) of the pulse thread.  ConfirmTarget follows the last pulse of
\* a leg, also of one that an order to stop has just shortened.
IssuePulse ==
    /\ channel.mode = "moving" /\ channel.left > 0 /\ channel.on
    /\ \E s \in StepOnce(driver, chip) :
          LET h1 == Latched(channel, s.d)
              h2 == IF s.ok THEN [h1 EXCEPT !.left = @ - 1,
                                            !.blind = IF s.c.slip THEN @ + 1 ELSE 0]
                            ELSE h1
              h3 == IF s.d.stop THEN Rested(h2) ELSE h2
          IN  IF ~s.ok /\ ~s.d.stop
              THEN \E r \in EnableOff(Absorbed(s).d, s.c) :
                      Become(r, [Rested(h3) EXCEPT !.unsure = TRUE, !.on = FALSE])
              ELSE IF s.ok /\ h3.left = 0
              THEN \E r \in ConfirmTarget(Absorbed(s).d, s.c) :
                      Become(Absorbed(r), Latched(h3, r.d))
              ELSE Become(Absorbed(s), h3)
    /\ UNCHANGED <<spiUp, checking, trouble>>

\* What Tick does with the mode once the driver has been looked at; a hold may
\* last, and a pull retracts after it.
Settle(h) ==
    IF h.mode = "holding"
    THEN {h, Rested(h)} \cup
         {[h EXCEPT !.mode = "moving", !.left = n, !.after = "rest"] :
             n \in IF h.after = "retract" THEN 1..MaxMove ELSE {}}
    ELSE IF h.mode = "moving" /\ h.left = 0
    THEN {IF h.after = "rest" THEN Rested(h) ELSE [h EXCEPT !.mode = "holding"]}
    ELSE {h}

\* The rest of Tick: thermal shutdown first.
TickEnd(r, h) ==
    IF h.on /\ r.d.ot
    THEN \E off \in EnableOff(r.d, r.c) :
            Become(off, [Rested(h) EXCEPT !.unsure = TRUE, !.on = FALSE])
    ELSE \E h1 \in Settle(h) : Become(r, h1)

Retry == channel.mode = "idle" /\ ~driver.healthy

\* Tick while idle with an unhealthy driver and the retry interval over.
TickRetry ==
    /\ Retry
    /\ \E r \in Reinitialize(driver, chip) :
       \E m \in (IF r.ok THEN DriverMicrostep(r.d, r.c) ELSE {r}) :
       \E e \in (IF r.ok /\ channel.on THEN EnableOn(m.d, m.c) ELSE {m}) :
          TickEnd(Absorbed(e), [Latched(channel, e.d) EXCEPT
                                   !.on = IF r.ok THEN @ /\ e.ok ELSE @])
    /\ UNCHANGED <<spiUp, checking, trouble>>

\* Any other tick: the poll of an enabled motor that does not turn.
PollTick ==
    /\ IF ~Retry /\ channel.on /\ channel.mode # "moving"
       THEN \E r \in Poll(driver, chip) :
               IF r.d.stop /\ channel.mode = "holding"
               THEN Become(Absorbed(r), Rested(Latched(channel, r.d)))
               ELSE TickEnd(Absorbed(r), Latched(channel, r.d))
       ELSE TickEnd(Result(driver, chip, TRUE), channel)
    /\ UNCHANGED <<spiUp, checking, trouble>>

-----------------------------------------------------------------------------
\* Commands.  A move, a timed bend and a pull differ in what follows the leg.
Move(n, after) ==
    /\ channel.on
    /\ channel' = [channel EXCEPT !.mode = "moving", !.left = n, !.after = after]
    /\ UNCHANGED <<driver, chip, spiUp, checking, trouble>>

StepperStop ==
    /\ channel.mode # "idle"
    /\ channel' = Rested(channel)
    /\ UNCHANGED <<driver, chip, spiUp, checking, trouble>>

\* SetEnabled(true) keeps the channel as it was when the driver refuses.
StepperEnable ==
    /\ \E r \in EnableOn(driver, chip) :
          Become(r, [channel EXCEPT !.on = @ \/ r.ok])
    /\ UNCHANGED <<spiUp, checking, trouble>>

StepperDisable ==
    /\ \E r \in EnableOff(driver, chip) :
          Become(r, [Rested(channel) EXCEPT !.on = FALSE,
                                            !.unsure = @ \/ channel.mode = "moving"])
    /\ UNCHANGED <<spiUp, checking, trouble>>

\* STEPLOSS_ACK, or SET_POSITION_ZERO of a motor at rest: from here on the
\* count is what the operator says it is; but a ramp generator that is astray will
\* still be sent back, and nobody will have seen it.
Accept ==
    /\ channel.unsure
    /\ channel' = [channel EXCEPT !.unsure = FALSE, !.blind = 0]
    /\ chip' = [chip EXCEPT !.slip = Astray(chip), !.unseen = Astray(chip)]
    /\ UNCHANGED <<driver, spiUp, checking, trouble>>

RunCurrent(a) ==
    /\ trouble > 0 /\ trouble' = trouble - 1
    /\ \E r \in SetCurrent(driver, chip, a) : Become(r, channel)
    /\ UNCHANGED <<spiUp, checking>>

Microstep ==
    /\ \E r \in DriverMicrostep(driver, chip) : Become(r, channel)
    /\ UNCHANGED <<spiUp, checking, trouble>>

\* CHECK MOTORn: a look at a snapshot, then the probe.
CheckLook ==
    /\ ~checking /\ channel.mode = "idle"
    /\ checking' = TRUE
    /\ UNCHANGED <<driver, chip, channel, spiUp, trouble>>

CheckProbe ==
    /\ checking /\ checking' = FALSE
    /\ \E r \in Reinitialize(driver, chip) : Become(r, channel)
    /\ UNCHANGED <<spiUp, trouble>>

-----------------------------------------------------------------------------
\* The hardware.
Trouble(c) ==
    /\ trouble > 0 /\ trouble' = trouble - 1
    /\ chip' = c
    /\ UNCHANGED <<driver, channel, spiUp, checking>>

\* The supply drops so far that the chip forgets its registers.
ChipReset ==
    Trouble([Slips(chip) EXCEPT !.slip = @ \/ Astray(chip), !.cfg = FALSE, !.on = FALSE, !.gs = 256, !.irun = 0,
                                !.reset = TRUE, !.uv = FALSE, !.err = FALSE,
                                !.short = FALSE, !.xt = FALSE, !.xa = FALSE])

\* The power stage goes off: a new slip, unless it is within an episode that the
\* driver has already counted.
CutOff(c) == [c EXCEPT !.slip = @ \/ (Powered(chip) /\ Fresh(driver, chip))]

Undervoltage == ~chip.low /\ Trouble(CutOff([chip EXCEPT !.low = TRUE, !.uv = TRUE]))
Overheat == Powered(chip) /\ Trouble(CutOff([chip EXCEPT !.hot = TRUE, !.err = TRUE]))
Short == Powered(chip) /\ Trouble([Slips(chip) EXCEPT !.short = TRUE, !.err = TRUE])

\* It went off and came back.
Glitch == Powered(chip) /\ Trouble(CutOff([chip EXCEPT !.err = TRUE]))

BusFails == spiUp /\ trouble > 0 /\ spiUp' = FALSE /\ trouble' = trouble - 1
            /\ UNCHANGED <<driver, chip, channel, checking>>

Over(c, up) ==
    /\ chip' = c /\ spiUp' = up
    /\ UNCHANGED <<driver, channel, checking, trouble>>

SupplyBack == chip.low /\ Over([chip EXCEPT !.low = FALSE], spiUp)
CoolDown == chip.hot /\ Over([chip EXCEPT !.hot = FALSE], spiUp)
BusBack == ~spiUp /\ Over(chip, TRUE)

MotorNext ==
    \/ IssuePulse \/ TickRetry \/ PollTick
    \/ \E n \in 1..MaxMove, after \in {"rest", "hold", "retract"} : Move(n, after)
    \/ StepperStop \/ StepperEnable \/ StepperDisable \/ Accept
    \/ \E a \in Currents : RunCurrent(a)
    \/ Microstep \/ CheckLook \/ CheckProbe
    \/ ChipReset \/ Undervoltage \/ Short \/ Overheat \/ Glitch \/ BusFails
    \/ SupplyBack \/ CoolDown \/ BusBack

MotorSpec == MotorInit /\ [][MotorNext]_motorVars

-----------------------------------------------------------------------------
MotorTypeOK ==
    /\ driver \in Driver /\ chip \in Chip /\ channel \in Supervised
    /\ spiUp \in BOOLEAN /\ checking \in BOOLEAN /\ trouble \in 0..MaxTrouble

\* healthy_ is true of the chip: whatever write, readback or recovery failed in
\* between, a driver that calls itself healthy has a chip with its configuration,
\* its currents and the chopper as it was asked for, unless the reset flag is up
\* to tell (ReinitializeUnlocked, SetRunCurrent, RecoverFromChipResetUnlocked);
\* and these currents are at most 110 % of what was asked for (CalculateCurrent).
ChipSound ==
    /\ MotorTypeOK
    /\ driver.healthy /\ ~chip.reset =>
          /\ chip.cfg /\ chip.on = driver.enabled
          /\ chip.gs = Gs(driver.amps) /\ chip.irun = Irun(driver.amps)
          /\ Within(chip.gs, chip.irun, driver.amps)

\* A rotor that is not where the channel counts it is never forgotten: the slip is
\* in the channel's latch, in the driver's books or still in a flag of the chip
\* (RecordStepLossUnlocked, AbsorbDriverStepLoss), whatever of a step, a poll, an
\* enable or a recovery fails.  What these never get to see is named: flags that a
\* retry, a CHECK or a disable clears, a mismatch that it rewrites, steps counted
\* with the enable line off.
SlipIsKnown ==
    chip.slip => \/ Noticed(driver, channel) \/ chip.unseen
                 \/ chip.reset \/ chip.uv \/ chip.err \/ chip.short \/ chip.hot

\* It is found in time: the steps counted over a working bus since a slip that
\* the chip can show and nobody has noticed stay below kResetCheckInterval (Step).
FoundInTime == channel.blind < CheckInterval

\* "A disabled motor must come out of (re)initialisation with TOFF=0"
\* (tmc5160_driver.cpp:566): while the channel is disabled, the chopper is off.
DisabledIsOff == driver.healthy /\ ~channel.on => ~chip.on

\* Every "driver chip reset while the motor was enabled" is counted and latches the
\* position (docs/protocol.md:354-361), also one that CHECK or the retry finds.
ResetIsLatched ==
    [][driver.enabled /\ chip.reset /\ ~chip'.reset => Noticed(driver', channel')]_motorVars

\* "The onboard therefore watches everything that can make that count wrong"
\* (docs/protocol.md:354-357): no step is counted with the enable line off unless
\* it is noticed, and no command makes a mismatch of XACTUAL disappear.
StepsArePowered ==
    [][IssuePulse /\ channel'.left < channel.left /\ ~chip.en =>
          Noticed(driver', channel')]_motorVars
MismatchIsLatched ==
    [][(CheckProbe \/ StepperDisable) /\ Astray(chip) /\ chip'.xa =>
          Noticed(driver', channel')]_motorVars
=============================================================================
