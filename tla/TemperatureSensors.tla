-------------------------- MODULE TemperatureSensors --------------------------
(***************************************************************************)
(* The I2C sensors: the RTD card with the sample temperatures and the      *)
(* single-value sensors (DPS310, ADS1115), each polled by a worker into a  *)
(* cache from which the control loop copies, with ages.  Time passes in    *)
(* units of the control loop's tick.                                       *)
(***************************************************************************)
EXTENDS Integers, FiniteSets

CONSTANTS
    Channels,    \* sample channels of the RTD card
    Heated,      \* heaters.temperature_channels, as a set
    Scalars,     \* the enabled ones of "dps310" and "ads1115"
    Addresses,   \* I2C addresses discovery tries
    Configured,  \* the configured address of a scalar sensor
    Discover,    \* auto_discover
    Stale        \* stale_after_ms, in ticks

ASSUME TemperatureAssumption ==
    /\ IsFiniteSet(Channels) /\ IsFiniteSet(Heated) /\ Stale \in Nat \ {0}
    /\ Configured \in Nat \ {0} /\ Addresses \subseteq Nat \ {0} /\ Discover \in BOOLEAN

VARIABLES
    card,         \* the RTD card and the probes wired to it
    rtd,          \* SequentRtdAdapter, rtd_probed_ and the locals of its loop
    rtdBusOk,     \* rtd_bus_ok_
    rtdHealth,    \* rtd_health_.state
    sample,       \* sample_cache_
    scalar,       \* the cache, the health and the loop of a scalar sensor
    sensorAt,     \* the address at which a scalar sensor answers, 0 for none
    sampleTempOk, \* sample_temp_ok_
    i2cOk,        \* i2c_ok_
    ticked,       \* the control loop has run since time last passed
    seen,         \* history: ticks since a good reading of the channel
    missed        \* history: passes that failed in a row since the card is up

tempVars == <<card, rtd, rtdBusOk, rtdHealth, sample, scalar, sensorAt,
              sampleTempOk, i2cOk, ticked, seen, missed>>

\* An age is -1 before the first value and does not grow beyond Stale.
Ages == -1..Stale
Cache == [valid : BOOLEAN, age : Ages]
Older(age) == IF age \in 0..Stale - 1 THEN age + 1 ELSE age

\* long: the firmware answers a 32-byte read; kind: what the probe reads of it.
Card == [up : BOOLEAN, kind : {"expected", "other"}, long : BOOLEAN,
         sound : SUBSET Channels]
\* dead: the handle is from before the card went down.
Rtd == [open : BOOLEAN, dead : BOOLEAN, burst : BOOLEAN, probed : BOOLEAN,
        phase : {"wait", "seen"}, ok : BOOLEAN, valid : SUBSET Channels,
        age : 0..Stale]
Scalar == [resolved : Addresses \cup {0, Configured}, phase : {"wait", "seen"},
           found : Addresses \cup {0, Configured}, now : 0..Stale, cache : Cache,
           health : {"discovering", "ok", "failed", "degraded", "stale"}]

FreshRtd == [open |-> FALSE, dead |-> FALSE, burst |-> TRUE, probed |-> FALSE,
             phase |-> "wait", ok |-> FALSE, valid |-> {}, age |-> 0]
NoValue == [valid |-> FALSE, age |-> -1]
FreshScalar == [resolved |-> 0, phase |-> "wait", found |-> 0, now |-> 0,
                cache |-> NoValue, health |-> "discovering"]

TempInit ==
    /\ card \in [up : BOOLEAN, kind : {"expected", "other"}, long : BOOLEAN,
                 sound : {Channels}]
    /\ rtd = FreshRtd /\ rtdBusOk = FALSE /\ rtdHealth = "discovering"
    /\ sample = [i \in Channels |-> NoValue]
    /\ scalar = [s \in Scalars |-> FreshScalar]
    /\ sensorAt \in [Scalars -> Addresses \cup {0}]
    /\ sampleTempOk = FALSE /\ i2cOk = FALSE /\ ticked = FALSE
    /\ seen = [i \in Channels |-> Stale + 1] /\ missed = 0

-----------------------------------------------------------------------------
\* The adapter of the card.  A conversation is a set of the states the adapter may
\* be left in, ok telling whether the last step worked.  While the card is down
\* every access may fail, and a handle opened before it went down stays dead.

\* EnsureOpen.
Opened(a) == IF a.open THEN {[a EXCEPT !.ok = TRUE]}
             ELSE {[a EXCEPT !.open = TRUE, !.dead = FALSE, !.ok = TRUE]}
                  \cup (IF card.up THEN {} ELSE {[a EXCEPT !.ok = FALSE]})

MayWork(a) == ~a.dead
MayFail(a) == a.dead \/ ~card.up

\* An I/O failure closes the handle.
\* Mutant: the handle is trusted again.
IoFailed_KeepsOpen(a) == [a EXCEPT !.ok = FALSE, !.probed = FALSE]
IoFailed(a) == [a EXCEPT !.open = FALSE, !.ok = FALSE, !.probed = FALSE]

\* A card of another kind is refused with the handle left open.
ProbeCard(a) ==
    UNION {IF ~o.ok THEN {o} ELSE
               (IF MayWork(o) THEN {[o EXCEPT !.ok = card.kind = "expected",
                                              !.probed = card.kind = "expected"]} ELSE {})
               \cup (IF MayFail(o) THEN {IoFailed(o)} ELSE {}) : o \in Opened(a)}

\* A burst for each block: the first that is refused, by the firmware or by a bus
\* that failed, is the last one ever tried.  Then single reads, and ApplyValidation.
ReadAll(a) ==
    UNION {IF ~o.ok THEN {o} ELSE
               (IF MayWork(o)
                THEN {[o EXCEPT !.burst = b, !.valid = card.sound, !.age = 0] :
                         b \in {o.burst /\ card.long} \cup (IF card.up THEN {} ELSE {FALSE})}
                ELSE {})
               \cup (IF MayFail(o) THEN {[IoFailed(o) EXCEPT !.burst = FALSE]} ELSE {}) : o \in Opened(a)}

\* A probe unless probed, then ReadAll; a failed ReadAll is followed by a probe on
\* the next pass.
Converse(a) ==
    LET probed == IF a.probed THEN {[a EXCEPT !.ok = TRUE]} ELSE ProbeCard(a)
    IN  UNION {IF p.ok THEN {[r EXCEPT !.probed = r.ok] : r \in ReadAll(p)} ELSE {p} :
                  p \in probed}

-----------------------------------------------------------------------------
Usable(c) == c.valid /\ c.age \in 0..Stale - 1

\* HeatedChannelsValid fails closed on a mapping that names no channel, or one
\* that is not there.
\* Mutant: any good channel is enough, as it was once.
HeatedChannelsValid_Any(valid) == valid # {}
HeatedChannelsValid(valid) == Heated # {} /\ Heated \subseteq Channels /\ Heated \subseteq valid

RtdState(valid) == IF valid = {} THEN "failed"
                   ELSE IF valid = Channels THEN "ok" ELSE "degraded"

FailedState(ages) ==
    LET known == {a \in ages : a >= 0}
    IN  IF known = {} THEN "failed"
        ELSE IF \A a \in known : a >= Stale THEN "stale" ELSE "degraded"

-----------------------------------------------------------------------------
\* SequentRtdLoop: the conversation under rtd_io_mu_, rtd_bus_ok_ and the time stamp,
\* then the cache.
RtdPass ==
    /\ rtd.phase = "wait"
    /\ \E r \in Converse(rtd) :
          /\ rtd' = [r EXCEPT !.phase = "seen"]
          /\ rtdBusOk' = r.ok
          /\ seen' = IF r.ok THEN [i \in Channels |-> IF i \in r.valid THEN 0 ELSE seen[i]]
                     ELSE seen
          /\ missed' = IF r.ok \/ ~card.up \/ card.kind # "expected" THEN 0
                       ELSE IF missed < 2 THEN missed + 1 ELSE missed
    /\ UNCHANGED <<card, rtdHealth, sample, scalar, sensorAt, sampleTempOk, i2cOk, ticked>>

\* A channel that is bad, or not read, keeps its value and its age.
RtdPublish ==
    LET good == IF rtd.ok THEN rtd.valid ELSE {}
        kept == [i \in Channels |-> IF i \in good THEN [valid |-> TRUE, age |-> rtd.age]
                                    ELSE [sample[i] EXCEPT !.valid = FALSE]]
    IN  /\ rtd.phase = "seen"
        /\ sample' = kept
        /\ rtdHealth' = IF rtd.ok THEN RtdState(good)
                        ELSE FailedState({sample[i].age : i \in Channels})
        /\ sampleTempOk' = HeatedChannelsValid({i \in Channels : Usable(kept[i])})
        /\ rtd' = [rtd EXCEPT !.phase = "wait", !.ok = FALSE, !.valid = {}, !.age = 0]
        /\ UNCHANGED <<card, rtdBusOk, scalar, sensorAt, i2cOk, ticked, seen, missed>>

\* CHECK SEQUENT_RTD: a probe and a reading of its own; the cache is not touched.
CheckRtd ==
    /\ \E p \in ProbeCard(rtd) :
       \E r \in IF p.ok THEN ReadAll(p) ELSE {p} :
          rtd' = [r EXCEPT !.probed = r.ok, !.ok = rtd.ok, !.valid = rtd.valid,
                           !.age = rtd.age]
    /\ UNCHANGED <<card, rtdBusOk, rtdHealth, sample, scalar, sensorAt, sampleTempOk,
                   i2cOk, ticked, seen, missed>>

\* DpsLoop, AdsLoop: the address that answered last or the configured one, then
\* those of the discovery.
Candidates(s) ==
    {IF scalar[s].resolved # 0 THEN scalar[s].resolved ELSE Configured}
    \cup (IF Discover THEN Addresses ELSE {})

ScalarPass(s) ==
    /\ scalar[s].phase = "wait"
    /\ scalar' = [scalar EXCEPT ![s].phase = "seen", ![s].now = 0,
                     ![s].found = IF sensorAt[s] \in Candidates(s) THEN sensorAt[s] ELSE 0]
    /\ UNCHANGED <<card, rtd, rtdBusOk, rtdHealth, sample, sensorAt, sampleTempOk, i2cOk,
                   ticked, seen, missed>>

ScalarPublish(s) ==
    LET old == scalar[s]
    IN  /\ old.phase = "seen"
        /\ scalar' = [scalar EXCEPT ![s] =
               [old EXCEPT !.phase = "wait", !.resolved = old.found, !.found = 0, !.now = 0,
                           !.cache = IF old.found # 0 THEN [valid |-> TRUE, age |-> old.now]
                                     ELSE [@ EXCEPT !.valid = FALSE],
                           !.health = IF old.found # 0 THEN "ok"
                                      ELSE FailedState({old.cache.age})]]
        /\ UNCHANGED <<card, rtd, rtdBusOk, rtdHealth, sample, sensorAt, sampleTempOk, i2cOk,
                       ticked, seen, missed>>

-----------------------------------------------------------------------------
\* ReadSnapshot of the control loop.  The health of a scalar sensor is worked out
\* again from its age, that of the card is copied.
Valid(i) == Usable(sample[i])

SnapshotHealth(s) ==
    LET c == scalar[s].cache
    IN  IF c.age < 0 \/ Usable(c) THEN scalar[s].health
        ELSE IF c.age >= Stale THEN "stale" ELSE "degraded"

ReadSnapshot ==
    /\ sampleTempOk' = HeatedChannelsValid({i \in Channels : Valid(i)})
    /\ i2cOk' = (rtdBusOk /\ \A s \in Scalars : Usable(scalar[s].cache))
    /\ ticked' = TRUE
    /\ UNCHANGED <<card, rtd, rtdBusOk, rtdHealth, sample, scalar, sensorAt, seen, missed>>

\* Time passes by one tick of the control loop; a worker may be as slow as its bus.
Elapse ==
    /\ ticked /\ ticked' = FALSE
    /\ sample' = [i \in Channels |-> [sample[i] EXCEPT !.age = Older(@)]]
    /\ rtd' = [rtd EXCEPT !.age = IF rtd.phase = "wait" THEN 0 ELSE Older(@)]
    /\ scalar' = [s \in Scalars |->
                     [scalar[s] EXCEPT !.now = IF scalar[s].phase = "wait" THEN 0 ELSE Older(@),
                                       !.cache.age = Older(@)]]
    /\ seen' = [i \in Channels |-> IF seen[i] <= Stale THEN seen[i] + 1 ELSE seen[i]]
    /\ UNCHANGED <<card, rtdBusOk, rtdHealth, sensorAt, sampleTempOk, i2cOk, missed>>

\* The process is killed and started again.
KillTemps ==
    /\ rtd' = FreshRtd /\ rtdBusOk' = FALSE /\ rtdHealth' = "discovering"
    /\ sample' = [i \in Channels |-> NoValue]
    /\ scalar' = [s \in Scalars |-> FreshScalar]
    /\ sampleTempOk' = FALSE /\ i2cOk' = FALSE /\ missed' = 0
    /\ UNCHANGED <<card, sensorAt, ticked, seen>>

-----------------------------------------------------------------------------
\* The hardware.
SensorsOnly == UNCHANGED <<rtdBusOk, rtdHealth, sample, scalar, sampleTempOk, i2cOk,
                           ticked, seen>>

CardDown == card.up /\ SensorsOnly /\ UNCHANGED sensorAt /\ missed' = 0
            /\ card' = [card EXCEPT !.up = FALSE] /\ rtd' = [rtd EXCEPT !.dead = rtd.open]
CardUp == ~card.up /\ SensorsOnly /\ UNCHANGED <<rtd, sensorAt, missed>>
          /\ card' = [card EXCEPT !.up = TRUE]
ProbeChanges(i) == SensorsOnly /\ UNCHANGED <<rtd, sensorAt, missed>>
    /\ card' = [card EXCEPT !.sound = IF i \in @ THEN @ \ {i} ELSE @ \cup {i}]
SensorMoves(s, at) == at # sensorAt[s] /\ SensorsOnly /\ UNCHANGED <<card, rtd, missed>>
    /\ sensorAt' = [sensorAt EXCEPT ![s] = at]

-----------------------------------------------------------------------------
TempTypeOK ==
    /\ card \in Card /\ rtd \in Rtd /\ rtdBusOk \in BOOLEAN
    /\ rtdHealth \in {"discovering", "ok", "failed", "degraded", "stale"}
    /\ sample \in [Channels -> Cache] /\ scalar \in [Scalars -> Scalar]
    /\ sensorAt \in [Scalars -> Addresses \cup {0}]
    /\ sampleTempOk \in BOOLEAN /\ i2cOk \in BOOLEAN /\ ticked \in BOOLEAN
    /\ seen \in [Channels -> 0..Stale + 1] /\ missed \in 0..2

\* A temperature that a snapshot would give as valid was measured on a sound probe
\* less than stale_after ago, however late its worker was, and TEMP_OK of the last
\* tick says so of every channel a heater follows (HeatedChannelsValid: "one can no
\* longer be masked by a healthy unheated one").  A scalar sensor that the snapshot
\* reports as working has a value as fresh.
FreshValues ==
    /\ \A i \in Channels : Valid(i) => seen[i] < Stale
    /\ sampleTempOk => Heated # {} /\ \A i \in Heated : i \in Channels /\ seen[i] <= Stale
    /\ \A s \in Scalars : SnapshotHealth(s) = "ok" => Usable(scalar[s].cache)

\* A card that is back is heard on the second pass at the latest.
BackInTwo == missed < 2

\* "STALE: last success is older than sensor.stale_after_ms" (docs/
\* rev-c-instruction-manual.md): a card reported as OK has channels that are valid.
RtdHealthIsFresh == rtdHealth = "ok" => \A i \in Channels : Valid(i)
=============================================================================
