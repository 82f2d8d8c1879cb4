------------------------------- MODULE Tmc5160 -------------------------------
(***************************************************************************)
(* The TMC5160 driver object of one motor and the chip behind it: the      *)
(* supervision that must notice every step the rotor did not take.         *)
(*                                                                         *)
(* A call of the driver runs under io_mu_ and is several SPI accesses, each*)
(* of which may fail.  It is written as an operator from the driver d and  *)
(* the chip c to the set of its results [d, c, ok]; the actions pick one.  *)
(* Positions are kept as what the supervision compares: XTARGET against    *)
(* the commanded target (xt), XACTUAL against it (xa), and the rotor       *)
(* against the count of the channel (slip).                                *)
(***************************************************************************)
EXTENDS Integers

CONSTANTS
    CheckInterval,  \* kResetCheckInterval: steps between two GSTAT reads
    Holdoff,        \* kStatusHoldoffSteps
    Polls,          \* kPositionMismatchPolls
    StallMode,      \* motorN.stall_detect
    Currents        \* run currents asked for, in 1/1000 of the board's maximum

ASSUME DriverAssumption ==
    /\ CheckInterval \in Nat \ {0} /\ Holdoff \in Nat /\ Polls \in Nat \ {0}
    /\ StallMode \in {"off", "monitor", "stop"}
    /\ Currents \subseteq 1..1000 /\ Currents # {}

VARIABLES
    driver,  \* the fields of Tmc5160Driver
    chip,    \* registers and state of the chip, and its rotor
    spiUp    \* no SPI or GPIO access fails for now

-----------------------------------------------------------------------------
\* The current: GLOBALSCALER and IRUN from a request of r thousandths of the
\* largest current the sense resistor allows.

Round(n, m) == (2 * n + m) \div (2 * m)

Gs(r) == IF r > 500 THEN 256 ELSE IF 256 * r < 32000 THEN 32 ELSE Round(256 * r, 1000)

Irun(r) == IF r > 500 THEN Round(32 * r, 1000) - 1
           ELSE IF 256 * r >= 32000 THEN 31
           ELSE IF Round(256 * r, 1000) = 0 THEN 0 ELSE Round(256 * r, 1000) - 1

\* What GLOBALSCALER g and IRUN i deliver is at most 110 % of r.
Within(g, i, r) == 10000 * g * (i + 1) <= 8192 * 11 * r

Deliverable(r) == 256 * r < 32000 => Within(Gs(r), Irun(r), r)

-----------------------------------------------------------------------------
\* Only a current that CalculateCurrent grants is ever stored in cfg_.
Driver == [healthy : BOOLEAN, enabled : BOOLEAN, gpio : {"up", "sick", "closed"},
           amps : {a \in Currents : Deliverable(a)}, ot : BOOLEAN, short : BOOLEAN, uv : BOOLEAN,
           err : BOOLEAN, unexplained : BOOLEAN, loss : BOOLEAN, stop : BOOLEAN,
           mismatch : 0..Polls, steps : 0..CheckInterval - 1, holdoff : 0..Holdoff]

Chip == [strap : BOOLEAN, cfg : BOOLEAN, on : BOOLEAN, en : BOOLEAN,
         gs : Nat, irun : Nat, reset : BOOLEAN, uv : BOOLEAN, err : BOOLEAN,
         short : BOOLEAN, hot : BOOLEAN, low : BOOLEAN, xt : BOOLEAN, xa : BOOLEAN,
         slip : BOOLEAN, unseen : BOOLEAN]

\* The coils are driven: chopper on, enable line on, supply up, bridges closed.
Powered(c) == c.on /\ c.en /\ ~c.low /\ ~c.short /\ ~c.hot

\* A powered rotor is let go, or is moved when nobody counts.
Slips(c) == [c EXCEPT !.slip = @ \/ Powered(c)]

\* A corrupted XTARGET has taken the ramp generator, and the rotor, elsewhere; a
\* reset only makes XACTUAL forget.  Written anew, the registers agree again
\* (Rebased), and what they could have told is gone.
Astray(c) == ~c.xa /\ ~c.reset
Rebased(c) == [c EXCEPT !.xt = TRUE, !.xa = TRUE, !.slip = @ \/ Astray(c)]

-----------------------------------------------------------------------------
\* SPI: a datagram needs the CS line and the bus; one that fails may have
\* been clocked all the same, and a dead CS line stays dead until reopened.

Result(d, c, ok) == [d |-> d, c |-> c, ok |-> ok]

Lost(d, cs) ==
    IF d.gpio # "up" THEN {Result(d, c, FALSE) : c \in cs}
    ELSE {Result([d EXCEPT !.gpio = g], c, FALSE) : g \in {"up", "sick"}, c \in cs}

WriteRegister(d, c, written) ==
    IF d.gpio # "up" THEN Lost(d, {c})
    ELSE {Result(d, written, TRUE)} \cup (IF spiUp THEN {} ELSE Lost(d, {c, written}))

ReadRegister(d, c) == WriteRegister(d, c, c)

\* The rest of a handler runs only after the access before it succeeded.
Then(S, Op(_, _)) == UNION {IF r.ok THEN Op(r.d, r.c) ELSE {r} : r \in S}

\* Failures that the handler reports as an unhealthy driver.
Unhealthy(S) == {IF r.ok THEN r ELSE [r EXCEPT !.d.healthy = FALSE] : r \in S}

\* CHOPCONF: TOFF = 0 opens the bridges and forgets a short.
\* Mutant: TOFF = 3 whatever was asked for.
Chopper_AlwaysOn(c, on) == [c EXCEPT !.on = TRUE, !.short = @ /\ on]
Chopper(c, on) == [c EXCEPT !.on = on, !.short = @ /\ on]

-----------------------------------------------------------------------------
\* RequestGpioOutput starts with the enable line off, also of a motor that is
\* enabled; lines that were released and not got back are at nobody's level.
OpenGpio(d, c) ==
    IF d.gpio = "up" THEN {Result(d, c, TRUE)}
    ELSE LET off == [Slips(c) EXCEPT !.en = FALSE]
         IN  {Result([d EXCEPT !.gpio = "up"], off, TRUE)} \cup
             (IF spiUp THEN {}
              ELSE {Result([d EXCEPT !.gpio = "closed"], l, FALSE) :
                       l \in {off, [c EXCEPT !.en = TRUE]}})

\* The registers in the order they are written.  XACTUAL = 0 before XTARGET = 0
\* lets a powered chip run to its old target when the second write is lost; both
\* make whatever mismatch there was disappear.
Configured(d, c) ==
    LET c1 == Chopper(c, d.enabled)
        c2 == [c1 EXCEPT !.gs = Gs(d.amps)]
        c3 == [c2 EXCEPT !.irun = Irun(d.amps)]
        c4 == [c3 EXCEPT !.cfg = TRUE]
        c5 == Slips(c4)
        c6 == Rebased(c4)
    IN  <<c1, c2, c3, c4, c5, c6>>

\* ReinitializeUnlocked.  A slip that nobody has read from the flags by now, the
\* reopened lines or the rewritten registers, stays unseen.
Reinitialize(d0, c0) ==
    LET Gate(d, c) == {[r EXCEPT !.ok = @ /\ c.strap] : r \in ReadRegister(d, c)}
        Registers(d, c) ==
            LET cs == Configured(d, c)
            IN  {Result(d, cs[6], TRUE)} \cup
                (IF spiUp THEN {} ELSE Lost(d, {c} \cup {cs[i] : i \in 1..6}))
        Verify(d, c) == ReadRegister(d, c)
        Clear(d, c) ==
            WriteRegister(d, c, [c EXCEPT !.reset = FALSE, !.uv = c.low,
                                          !.err = c.short \/ c.hot, !.unseen = @ \/ c.slip])
        Done(d, c) == {Result([d EXCEPT !.healthy = TRUE, !.uv = FALSE, !.err = FALSE,
                                        !.unexplained = FALSE, !.mismatch = 0], c, TRUE)}
    IN  Unhealthy(Then(Then(Then(Then(Then(OpenGpio(d0, c0), Gate), Registers), Verify),
                            Clear), Done))

\* RecordStepLossUnlocked.
\* Mutant: only losses that stop the motor are recorded.
StepLoss_StopOnly(d, stop) == [d EXCEPT !.loss = @ \/ stop, !.stop = @ \/ stop]
StepLoss(d, stop) == [d EXCEPT !.loss = TRUE, !.stop = @ \/ stop]
StepLossIf(cond, d, stop) == IF cond THEN StepLoss(d, stop) ELSE d

\* RecoverFromChipResetUnlocked.  A flag that is cleared comes back while its
\* condition lasts.
Recover(d0, c0) ==
    LET Flags(d, c) ==
            LET d1 == StepLossIf(c.uv /\ ~d.uv /\ d.enabled, d, FALSE)
                d2 == [d1 EXCEPT !.uv = c.uv, !.unexplained = @ \/ (c.err /\ ~d.err),
                                 !.err = c.err]
            IN  IF ~c.uv /\ ~c.err THEN {Result(d2, c, TRUE)}
                ELSE WriteRegister(d2, c, [c EXCEPT !.uv = c.low, !.err = c.short \/ c.hot])
        Restore(d, c) ==
            {[r EXCEPT !.d = StepLossIf(r.ok /\ d.enabled, @, FALSE),
                       !.c.unseen = IF r.ok /\ d.enabled THEN c.unseen ELSE @] :
                r \in Reinitialize(d, c)}
        Handle(d, c) == IF c.reset THEN Restore(d, c) ELSE Flags(d, c)
    IN  Unhealthy(Then(ReadRegister(d0, c0), Handle))

\* A StallGuard sample in CheckDriverStatusUnlocked: any may complete a window of
\* low readings, and in mode stop the verdict refuses the step.
Sample(d, c) ==
    {Result(d, c, TRUE)} \cup
    (IF StallMode = "stop" THEN {Result(StepLoss(d, TRUE), c, FALSE)} ELSE {})

\* CheckDriverStatusUnlocked: a failed read changes nothing and lets the step go.
CheckStatus(d0, c0, stepping, sample) ==
    LET Look(d, c) ==
            LET hot == [d EXCEPT !.ot = @ \/ c.hot]
                cut == StepLossIf(c.short /\ ~d.short /\ d.enabled, hot, ~stepping)
                why == StepLossIf(/\ d.unexplained /\ d.enabled
                                  /\ ~c.short /\ ~hot.ot, cut, FALSE)
                seen == [why EXCEPT !.short = @ \/ c.short, !.unexplained = FALSE]
            IN  IF c.short /\ stepping THEN {Result(seen, c, FALSE)}
                ELSE IF sample THEN Sample(seen, c)
                ELSE {Result(seen, c, TRUE)}
    IN  UNION {IF r.ok THEN Look(r.d, r.c) ELSE {[r EXCEPT !.ok = TRUE]} :
                  r \in ReadRegister(d0, c0)}

\* CheckPositionUnlocked: a read that fails is ignored here too.
CheckPosition(d0, c0) ==
    LET Compare(d, c) ==
            IF c.xa THEN [d EXCEPT !.mismatch = 0]
            ELSE IF d.mismatch + 1 < Polls THEN [d EXCEPT !.mismatch = @ + 1]
            ELSE [StepLoss(d, TRUE) EXCEPT !.mismatch = 0, !.healthy = FALSE]
    IN  {IF r.ok THEN [r EXCEPT !.d = Compare(r.d, r.c)] ELSE [r EXCEPT !.ok = TRUE] :
            r \in ReadRegister(d0, c0)}

Poll(d0, c0) ==
    IF ~d0.healthy \/ ~d0.enabled THEN {Result(d0, c0, d0.healthy)}
    ELSE LET Status(d, c) == CheckStatus(d, c, FALSE, FALSE)
         IN  Then(Then(Recover(d0, c0), Status), CheckPosition)

-----------------------------------------------------------------------------
\* The enable line, where the GPIO handle is there to drive it.
EnableLine(d, c, on) ==
    IF d.gpio = "closed" THEN {Result(d, c, TRUE)}
    ELSE {Result(d, [c EXCEPT !.en = on], TRUE)} \cup
         (IF spiUp THEN {} ELSE {Result([d EXCEPT !.gpio = "sick"], c, FALSE)})

\* Enable(false): freeze at XACTUAL, chopper off, enable line off whatever the
\* bus said, and a look at DRV_ENN that only warns.  What the flags of the chip say
\* of a motor that is no longer enabled will not be counted, and the frozen target
\* makes a mismatch disappear: unseen.
EnableOff(d0, c0) ==
    LET Freeze(d, c) == WriteRegister(d, c, Rebased(c))
        Off(d, c) == WriteRegister(d, c, Chopper(c, FALSE))
        Quiet == Unhealthy(Then(Then(ReadRegister(d0, c0), Freeze), Off))
        Line(r) == {[l EXCEPT !.ok = @ /\ r.ok] : l \in Unhealthy(EnableLine(r.d, r.c, FALSE))}
        Proof(r) == IF r.ok THEN Unhealthy(ReadRegister(r.d, r.c)) ELSE {r}
        Done(l) == Proof([l EXCEPT !.d.enabled = FALSE, !.c.unseen = @ \/ l.c.slip])
    IN  UNION {Done(l) : l \in UNION {Line(r) : r \in Quiet}}

\* Enable(true).
EnableOn(d0, c0) ==
    LET Probe(d, c) == IF d.healthy THEN {Result(d, c, TRUE)} ELSE Reinitialize(d, c)
        Proof(d, c) == {[r EXCEPT !.ok = @ /\ c.en] :
                           r \in ReadRegister([d EXCEPT !.steps = 0], c)}
        On(d, c) == WriteRegister(d, c, Chopper(c, TRUE))
        Rearmed(d, c) ==
            {[r EXCEPT !.ok = TRUE] :
                r \in CheckStatus([d EXCEPT !.enabled = TRUE, !.ot = FALSE, !.short = FALSE,
                                            !.mismatch = 0],
                                  [c EXCEPT !.unseen = @ \/ (c.slip /\ d.ot)], FALSE, FALSE)}
        Proved == Unhealthy(Then(Then(Then(Unhealthy(EnableLine(d0, c0, TRUE)), Probe),
                                      Recover), Proof))
    IN  Then(Unhealthy(Then(Proved, On)), Rearmed)

\* SetMicrostep on a healthy driver: CHOPCONF again, and its readback.
DriverMicrostep(d0, c0) ==
    IF ~d0.healthy THEN {Result(d0, c0, FALSE)}
    ELSE Unhealthy(Then(WriteRegister(d0, c0, Chopper(c0, d0.enabled)), ReadRegister))

\* mutant: a failed write of one of the two leaves the driver healthy
SetCurrent_StaysHealthy(d0, c0, r) ==
    LET Scaler(d, c) == WriteRegister(d, c, [c EXCEPT !.gs = Gs(r)])
        Run(d, c) == WriteRegister(d, c, [c EXCEPT !.irun = Irun(r)])
        Store(d, c) == {Result([d EXCEPT !.amps = r], c, TRUE)}
    IN  IF ~Deliverable(r) \/ ~d0.healthy THEN {Result(d0, c0, FALSE)}
        ELSE Then(Then(Scaler(d0, c0), Run), Store)

\* SetRunCurrent: GLOBALSCALER, then IHOLD_IRUN, then the stored setting.
SetCurrent(d0, c0, r) ==
    LET Scaler(d, c) == WriteRegister(d, c, [c EXCEPT !.gs = Gs(r)])
        Run(d, c) == WriteRegister(d, c, [c EXCEPT !.irun = Irun(r)])
        Store(d, c) == {Result([d EXCEPT !.amps = r], c, TRUE)}
    IN  IF ~Deliverable(r) \/ ~d0.healthy THEN {Result(d0, c0, FALSE)}
        ELSE Then(Unhealthy(Then(Scaler(d0, c0), Run)), Store)

\* ConfirmTarget at the end of a leg: one rewrite, then unhealthy.
ConfirmTarget(d0, c0) ==
    LET Repaired(c) == [c EXCEPT !.xt = TRUE, !.xa = @ \/ (c.cfg /\ ~c.xt)]
        Held(d, c) == {[r EXCEPT !.ok = @ /\ r.c.xt] : r \in ReadRegister(d, c)}
        Check(d, c) == IF c.xt THEN {Result(d, c, TRUE)}
                       ELSE Then(WriteRegister(d, c, Repaired(c)), Held)
    IN  IF ~d0.healthy \/ ~d0.enabled THEN {Result(d0, c0, d0.healthy)}
        ELSE Unhealthy(Then(ReadRegister(d0, c0), Check))

\* NoteStepRate and the sampling interval: whether this step is sampled.
Due == IF StallMode = "off" THEN {FALSE} ELSE BOOLEAN

\* An undervoltage or a driver error counts once per episode (uv_cp_active_,
\* drv_err_active_); what follows within the episode is no new slip.
Fresh(d, c) == c.reset \/ c.short \/ ~(d.uv \/ d.err)

\* XTARGET moves by one microstep.  The ramp generator follows while the chip
\* is configured, the rotor while it is powered; an answered write may arrive
\* corrupted.  An enable line that a reopened GPIO has left off shows in no
\* register that is read while stepping: the steps slip, unseen.
Advance(d, c) ==
    LET moved == [c EXCEPT !.xt = TRUE, !.xa = c.cfg,
                           !.slip = @ \/ ~c.en \/ (~Powered(c) /\ Fresh(d, c)),
                           !.unseen = @ \/ ~c.en]
        wrong == [moved EXCEPT !.xt = FALSE, !.xa = FALSE]
    IN  Unhealthy(WriteRegister(d, c, moved) \cup
                  (IF spiUp \/ d.gpio # "up" THEN {} ELSE {Result(d, wrong, TRUE)}))

\* Mutant: the comparison one step late.
Supervise_Late(d) == d.steps + 1 > CheckInterval
Supervise(d) == d.steps + 1 >= CheckInterval

\* Step.
StepOnce(d0, c0) ==
    LET supervise == Supervise(d0)
        d1 == [d0 EXCEPT !.mismatch = 0, !.steps = IF supervise THEN 0 ELSE @ + 1]
        Periodic(d, c) == IF supervise THEN Recover(d, c) ELSE {Result(d, c, TRUE)}
        Status(d, c) ==
            UNION {IF supervise \/ due THEN CheckStatus(d, c, TRUE, due)
                                       ELSE {Result(d, c, TRUE)} : due \in Due}
        Again(d, c) == CheckStatus(d, c, TRUE, FALSE)
        Reply(d, c) ==
            IF d.holdoff > 0 THEN {Result([d EXCEPT !.holdoff = @ - 1], c, TRUE)}
            ELSE IF ~c.reset /\ ~c.err THEN {Result(d, c, TRUE)}
            ELSE Then(Recover([d EXCEPT !.holdoff = Holdoff, !.steps = 0], c), Again)
    IN  IF ~d0.healthy \/ ~d0.enabled \/ d0.short THEN {Result(d0, c0, FALSE)}
        ELSE Then(Then(Then(Periodic(d1, c0), Status), Advance), Reply)
=============================================================================
