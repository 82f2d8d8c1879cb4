--------------------------- MODULE ResistanceClicks ---------------------------
(***************************************************************************)
(* The two MAX31865 clicks that measure the specimens, one SPI transfer at *)
(* a time.  SPI has no acknowledgement: a transfer to a click that is not  *)
(* there succeeds and reads the idle level of MISO.  The poll worker and   *)
(* CHECK MAX31865 take turns under clicks_io_mu_ and publish what they saw *)
(* after they have let it go.                                              *)
(***************************************************************************)
EXTENDS Naturals

CONSTANT Clicks   \* 1..2: click 1 is converted first

ASSUME ClickAssumption == Clicks = 1..2

VARIABLES
    chip,         \* chip[k]: the MAX31865 of click k
    open,         \* open[k]: open_ of its adapter
    conv,         \* the conversation under way, holding clicks_io_mu_
    phase,        \* phase[w]: of the worker and of CHECK
    result,       \* result[w][k]: the outcome in the locals of w
    clicksBusOk,  \* clicks_bus_ok_
    clickHealth,  \* max31865_health_
    spiUp         \* the SPI device answers

clickVars == <<chip, open, conv, phase, result, clicksBusOk, clickHealth, spiUp>>

Who == {"worker", "check"}
Steps == {"probe", "readback", "bias", "shot", "read", "off", "clear"}

\* "sound" ohms were converted in this conversation, "old" ones before it; "zero" is
\* a code of 0 and "range" one that is saturated or carries the fault bit.
Readings == {"zero", "sound", "old", "range"}
Outcomes == Readings \cup {"none", "failed", "absent"}

\* cfg: the configuration has been written since power-on; register holds the last
\* conversion, fresh when it is of the present conversation.
Chip == [there : BOOLEAN, cfg : BOOLEAN, bias : BOOLEAN,
         pending : BOOLEAN, register : {"zero", "sound", "range"}, fresh : BOOLEAN,
         specimen : {"sound", "range"}]

PowerOn(c) == [c EXCEPT !.cfg = FALSE, !.bias = FALSE, !.pending = FALSE,
                        !.register = "zero", !.fresh = FALSE]

ClicksInit ==
    /\ chip \in [Clicks -> {[there |-> t, cfg |-> FALSE, bias |-> FALSE, pending |-> FALSE,
                             register |-> "zero", fresh |-> FALSE, specimen |-> "sound"] :
                               t \in BOOLEAN}]
    /\ open = [k \in Clicks |-> FALSE]
    /\ conv = [who |-> "nobody", click |-> 1, step |-> "probe"]
    /\ phase = [w \in Who |-> "wait"]
    /\ result = [w \in Who |-> [k \in Clicks |-> "none"]]
    /\ clicksBusOk = FALSE
    /\ clickHealth = [k \in Clicks |-> "discovering"]
    /\ spiUp = TRUE

-----------------------------------------------------------------------------
\* The chip.

\* A conversion that is due finishes once the bias is on.
Converted(c) ==
    IF c.pending /\ c.bias
    THEN [c EXCEPT !.pending = FALSE, !.register = c.specimen, !.fresh = TRUE] ELSE c

\* A write of the configuration register.  Bit 1SHOT clears itself, when the
\* conversion is done.
WriteConfig(c, bias, shot) ==
    [c EXCEPT !.cfg = TRUE, !.bias = bias, !.pending = @ \/ shot]

\* The value that clears the fault carries VBIAS = 0 forward.
\* Mutant: it keeps VBIAS.
ClearsFault_Biased(c) == WriteConfig(c, TRUE, FALSE)
ClearsFault(c) == WriteConfig(c, FALSE, FALSE)

\* The readback of the probe, with 1SHOT masked out.
\* Mutant: an equality over the whole register.
Answers_Exactly(c) == c.there /\ c.cfg /\ ~c.bias /\ ~c.pending
Answers(c) == c.there /\ c.cfg /\ ~c.bias

\* What the RTD register says: without a click MISO idles low or high.
Read(c) ==
    IF ~c.there THEN {"zero", "range"}
    ELSE {IF c.register = "sound" /\ ~c.fresh THEN "old" ELSE c.register}

-----------------------------------------------------------------------------
\* One transfer to click k that would leave its chip as after: it reaches the
\* chip if there is one, and may still be reported as failed by a bus that is
\* down.
Transfer(k, after, ok) ==
    /\ ok \in BOOLEAN /\ (spiUp => ok)
    /\ \/ chip' = [chip EXCEPT ![k] = IF @.there THEN after ELSE @]
       \/ ~ok /\ UNCHANGED chip

\* The conversation with click k ends: the other click's turn, or the mutex is
\* released.
Ended(outcome) ==
    LET w == conv.who
        k == conv.click
    IN  /\ result' = [result EXCEPT ![w][k] = outcome]
        /\ IF k = 1
           THEN /\ conv' = [conv EXCEPT !.click = 2, !.step = "probe"]
                /\ UNCHANGED phase
           ELSE /\ conv' = [who |-> "nobody", click |-> 1, step |-> "probe"]
                /\ phase' = [phase EXCEPT ![w] = "seen"]

Goes(step) == conv' = [conv EXCEPT !.step = step] /\ UNCHANGED <<phase, result>>

\* An I/O failure: the adapter reopens the bus before it speaks again.
Failed == open' = [open EXCEPT ![conv.click] = FALSE] /\ Ended("failed")

Speaks(step) == conv.who # "nobody" /\ conv.step = step
                  /\ UNCHANGED <<clicksBusOk, clickHealth, spiUp>>

\* EnsureOpen and the probe's write.
ProbeClick ==
    /\ Speaks("probe")
    /\ LET k == conv.click
           fresh == [chip[k] EXCEPT !.fresh = FALSE]
       IN  \/ /\ ~open[k] /\ ~spiUp
              /\ Ended("failed") /\ UNCHANGED <<chip, open>>
           \/ \E ok \in BOOLEAN :
                 /\ Transfer(k, WriteConfig(fresh, FALSE, FALSE), ok)
                 /\ IF ok THEN open' = [open EXCEPT ![k] = TRUE] /\ Goes("readback")
                          ELSE Failed

Readback ==
    /\ Speaks("readback")
    /\ LET k == conv.click
       IN  \E ok \in BOOLEAN :
              /\ Transfer(k, chip[k], ok)
              /\ IF ~ok THEN Failed
                 ELSE /\ UNCHANGED open
                      /\ IF Answers(chip[k]) THEN Goes("bias") ELSE Ended("absent")

\* VBIAS on.  A failure may leave it on until the next probe.
BiasOn ==
    /\ Speaks("bias")
    /\ LET k == conv.click
       IN  \E ok \in BOOLEAN :
              /\ Transfer(k, WriteConfig(chip[k], TRUE, FALSE), ok)
              /\ IF ok THEN UNCHANGED open /\ Goes("shot") ELSE Failed

\* The best-effort write after a failure with the bias on: a second transfer,
\* whose own failure is not reported.
BiasOffTry(k, c) ==
    \/ chip' = [chip EXCEPT ![k] = IF @.there THEN WriteConfig(c, FALSE, FALSE) ELSE @]
    \/ ~spiUp /\ chip' = [chip EXCEPT ![k] = IF @.there THEN c ELSE @]

\* 1SHOT.
OneShot ==
    /\ Speaks("shot")
    /\ LET k == conv.click
           due == WriteConfig(chip[k], TRUE, TRUE)
       IN  \E ok \in BOOLEAN :
              IF ~ok
              THEN /\ ~spiUp
                   /\ BiasOffTry(k, due) \/ BiasOffTry(k, chip[k])
                   /\ Failed
              ELSE Transfer(k, due, ok) /\ UNCHANGED open /\ Goes("read")

\* After the conversion time: the RTD code, whatever it is worth, is looked at
\* once VBIAS is off again.
ReadCode ==
    /\ Speaks("read")
    /\ LET k == conv.click
           done == Converted(chip[k])
       IN  \/ /\ chip' = [chip EXCEPT ![k] = done]
              /\ \E code \in Read(done) : result' = [result EXCEPT ![conv.who][k] = code]
              /\ conv' = [conv EXCEPT !.step = "off"]
              /\ UNCHANGED <<open, phase>>
           \/ ~spiUp /\ BiasOffTry(k, done) /\ Failed

BiasOff ==
    /\ Speaks("off")
    /\ LET k == conv.click
           read == result[conv.who][k]
       IN  \E ok \in BOOLEAN :
              /\ Transfer(k, WriteConfig(chip[k], FALSE, FALSE), ok)
              /\ IF ~ok THEN Failed
                 ELSE /\ UNCHANGED open
                      /\ IF read = "range" THEN Goes("clear") ELSE Ended(read)

\* The fault register is read and cleared; neither failure counts.
ClearFault ==
    /\ Speaks("clear") /\ UNCHANGED open
    /\ LET k == conv.click
       IN  \E ok \in BOOLEAN : Transfer(k, ClearsFault(chip[k]), ok) /\ Ended("range")

-----------------------------------------------------------------------------
\* Max31865Loop and CHECK around the conversation.

Begin(w) ==
    /\ phase[w] = "wait" /\ conv.who = "nobody"
    /\ conv' = [who |-> w, click |-> 1, step |-> "probe"]
    /\ phase' = [phase EXCEPT ![w] = "io"]
    /\ UNCHANGED <<chip, open, result, clicksBusOk, clickHealth, spiUp>>

Ok(outcome) == outcome \in Readings

\* clicks_bus_ok_ is stored before the cache is locked.
StoreBusOk ==
    /\ phase["worker"] = "seen"
    /\ clicksBusOk' = \A k \in Clicks : Ok(result["worker"][k])
    /\ phase' = [phase EXCEPT !["worker"] = "publish"]
    /\ UNCHANGED <<chip, open, conv, result, clickHealth, spiUp>>

\* UpdateClickHealth; "lost" is DEGRADED or, by its age, STALE.
HealthOf(outcome, before) ==
    IF outcome = "range" THEN "range" ELSE IF Ok(outcome) THEN "ok"
    ELSE IF before \in {"discovering", "failed"} THEN "failed" ELSE "lost"

UpdateClickHealth(w) ==
    /\ clickHealth' = [k \in Clicks |-> HealthOf(result[w][k], clickHealth[k])]
    /\ result' = [result EXCEPT ![w] = [k \in Clicks |-> "none"]]
    /\ phase' = [phase EXCEPT ![w] = "wait"]

\* A click that does not answer leaves the ohms it measured last; one that is out
\* of range writes 0.
Written(outcome, before) ==
    IF outcome = "range" THEN "zero" ELSE IF Ok(outcome) THEN outcome ELSE before

PublishClicks ==
    /\ phase["worker"] = "publish"
    /\ UpdateClickHealth("worker")
    /\ UNCHANGED <<chip, open, conv, clicksBusOk, spiUp>>

PublishCheck ==
    /\ phase["check"] = "seen"
    /\ UpdateClickHealth("check")
    /\ UNCHANGED <<chip, open, conv, clicksBusOk, spiUp>>

\* The process is killed at any transfer and started again.
KillClicks ==
    /\ open' = [k \in Clicks |-> FALSE]
    /\ conv' = [who |-> "nobody", click |-> 1, step |-> "probe"]
    /\ phase' = [w \in Who |-> "wait"]
    /\ result' = [w \in Who |-> [k \in Clicks |-> "none"]]
    /\ clicksBusOk' = FALSE
    /\ clickHealth' = [k \in Clicks |-> "discovering"]
    /\ UNCHANGED <<chip, spiUp>>

ClickIo == ProbeClick \/ Readback \/ BiasOn \/ OneShot \/ ReadCode \/ BiasOff \/ ClearFault

-----------------------------------------------------------------------------
\* The hardware.
ChipOnly == UNCHANGED <<open, conv, phase, result, clicksBusOk, clickHealth, spiUp>>

Converts(k) == chip[k].pending /\ chip[k].bias /\ ChipOnly
               /\ chip' = [chip EXCEPT ![k] = Converted(@)]

\* A click loses its supply and comes back as from power-on.
Vanishes(k) == chip[k].there /\ ChipOnly
               /\ chip' = [chip EXCEPT ![k] = [PowerOn(@) EXCEPT !.there = FALSE]]
Returns(k) == ~chip[k].there /\ ChipOnly
              /\ chip' = [chip EXCEPT ![k].there = TRUE]

SpiFails == spiUp /\ spiUp' = FALSE
            /\ UNCHANGED <<chip, open, conv, phase, result, clicksBusOk, clickHealth>>
SpiBack == ~spiUp /\ spiUp' = TRUE
           /\ UNCHANGED <<chip, open, conv, phase, result, clicksBusOk, clickHealth>>

SpecimenChanges(k) == ChipOnly /\ chip' = [chip EXCEPT ![k].specimen =
                                              IF @ = "sound" THEN "range" ELSE "sound"]

-----------------------------------------------------------------------------
ClicksTypeOK ==
    /\ chip \in [Clicks -> Chip] /\ open \in [Clicks -> BOOLEAN]
    /\ conv \in [who : Who \cup {"nobody"}, click : Clicks, step : Steps]
    /\ phase \in [Who -> {"wait", "io", "seen", "publish"}]
    /\ result \in [Who -> [Clicks -> Outcomes]]
    /\ clicksBusOk \in BOOLEAN
    /\ clickHealth \in [Clicks -> {"discovering", "ok", "range", "failed", "lost"}]
    /\ spiUp \in BOOLEAN

\* Ohms that were not converted in the conversation that reports them are never
\* handed out (ReadOneShot: "must never be trusted when out->valid is false").
NoFalseOhms == \A w \in Who, k \in Clicks : result[w][k] # "old"

\* Outside its conversation a specimen is not heated by the bias current while
\* the adapter trusts its bus: every failure on the way closes the bus, so that
\* the next probe takes the bias off.
BiasKnown ==
    \A k \in Clicks :
        chip[k].bias /\ open[k] => conv.who # "nobody" /\ conv.click = k

\* A click that is there and has kept its supply since the probe's write is not
\* reported as missing, also after a kill has left a conversion pending.
PresentIsDetected ==
    [][\A w \in Who, k \in Clicks :
          result[w][k] # "absent" /\ result'[w][k] = "absent" =>
              ~chip[k].there \/ ~chip[k].cfg]_result
=============================================================================
