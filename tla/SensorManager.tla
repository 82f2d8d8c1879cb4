---------------------------- MODULE SensorManager ----------------------------
(***************************************************************************)
(* The sensor manager: one worker for each sensor that is configured and   *)
(* whose bus is there, the control loop that reads a snapshot and the      *)
(* command thread that runs CHECK.  The resistances of the samples have    *)
(* three possible writers, of which sensor.resistance_source chooses one.  *)
(***************************************************************************)
EXTENDS ResistanceClicks, TemperatureSensors

CONSTANTS
    SampleOf,   \* sensor.max31865_sample_indices
    Setups      \* configurations, with the events of the environment in each

VARIABLES
    setup,        \* the configuration
    ohm,          \* sample_resistance_ohm_: what its value is a measurement of
    resistanceOk, \* resistance_ok_
    trouble       \* bound: events left

vars == <<clickVars, tempVars, setup, ohm, resistanceOk, trouble>>

Workers == {"rtd", "clicks"} \cup Scalars
Sources == {"disabled", "simulated", "sequent_rtd", "max31865_click"}

ASSUME SetupAssumption ==
    /\ Setups \subseteq [workers : SUBSET Workers, source : Sources, trouble : Nat]
    /\ SampleOf \in [Clicks -> Nat]

\* Mutant: the guard the comment of SequentRtdLoop warns of.
Owns_Wide(w) == setup.source # "simulated"
Owns(w) == setup.source = [rtd |-> "sequent_rtd", clicks |-> "max31865_click"][w]

Unmeasured == [i \in Channels |-> IF setup.source = "simulated" THEN "material" ELSE "zero"]

\* Start: what has no worker is not looked at.  Without trouble everything is fitted.
Init ==
    /\ setup \in Setups /\ trouble = setup.trouble
    /\ ClicksInit /\ ("clicks" \notin setup.workers => \A k \in Clicks : ~chip[k].there)
    /\ TempInit /\ ("rtd" \notin setup.workers => ~card.up /\ card.kind = "other" /\ card.long)
    /\ \A s \in Scalars \ setup.workers : sensorAt[s] = 0
    /\ setup.trouble = 0 =>
          /\ "clicks" \in setup.workers => \A k \in Clicks : chip[k].there
          /\ "rtd" \in setup.workers => card.up /\ card.kind = "expected" /\ card.long
    /\ ohm = Unmeasured
    /\ resistanceOk = FALSE

-----------------------------------------------------------------------------
Quiet == UNCHANGED <<setup, trouble>>

RtdOnly == "rtd" \in setup.workers /\ Quiet /\ UNCHANGED <<clickVars, resistanceOk>>

PollRtd == RtdOnly /\ RtdPass /\ UNCHANGED ohm

\* A channel that is not valid keeps its ohms.
PublishRtd ==
    /\ RtdOnly /\ RtdPublish
    /\ ohm' = [i \in Channels |-> IF Owns("rtd") /\ rtd.ok /\ i \in rtd.valid
                                  THEN "element" ELSE ohm[i]]

CheckSequent == RtdOnly /\ CheckRtd /\ UNCHANGED ohm

PollScalar(s) ==
    /\ s \in setup.workers /\ Quiet /\ UNCHANGED <<clickVars, ohm, resistanceOk>>
    /\ ScalarPass(s) \/ ScalarPublish(s)

ClicksOnly == "clicks" \in setup.workers /\ Quiet /\ UNCHANGED <<tempVars, resistanceOk>>

PollClicks == ClicksOnly /\ UNCHANGED ohm
              /\ (Begin("worker") \/ StoreBusOk \/ ClickIo \/ \E k \in Clicks : Converts(k))

PublishMax31865 ==
    /\ ClicksOnly /\ PublishClicks
    /\ ohm' = [i \in Channels |->
                  IF Owns("clicks") /\ \E k \in Clicks : SampleOf[k] = i
                  THEN Written(result["worker"][CHOOSE k \in Clicks : SampleOf[k] = i], ohm[i])
                  ELSE ohm[i]]

CheckMax31865 == ClicksOnly /\ UNCHANGED ohm /\ (Begin("check") \/ PublishCheck)

\* ReadSnapshot of a tick.
Snapshot ==
    /\ Quiet /\ UNCHANGED <<clickVars, ohm>>
    /\ ReadSnapshot
    /\ resistanceOk' = CASE setup.source = "max31865_click" -> clicksBusOk
                         [] setup.source = "sequent_rtd" -> rtdBusOk
                         [] OTHER -> TRUE

\* Ages are those of the card and the scalar sensors.
TimePasses ==
    /\ setup.workers # {"clicks"} /\ Quiet
    /\ UNCHANGED <<clickVars, ohm, resistanceOk>>
    /\ Elapse

-----------------------------------------------------------------------------
\* The environment, within the bound.
Trouble == trouble > 0 /\ trouble' = trouble - 1 /\ UNCHANGED setup

Kill ==
    /\ Trouble /\ KillClicks /\ KillTemps
    /\ ohm' = Unmeasured /\ resistanceOk' = FALSE

ClickTrouble ==
    /\ Trouble /\ "clicks" \in setup.workers /\ UNCHANGED <<tempVars, ohm, resistanceOk>>
    /\ SpiFails \/ \E k \in Clicks : Vanishes(k) \/ SpecimenChanges(k)

ClickRepair ==
    /\ Quiet /\ "clicks" \in setup.workers /\ UNCHANGED <<tempVars, ohm, resistanceOk>>
    /\ SpiBack \/ \E k \in Clicks : Returns(k)

TempTrouble ==
    /\ Trouble /\ UNCHANGED <<clickVars, ohm, resistanceOk>>
    /\ \/ "rtd" \in setup.workers /\ (CardDown \/ \E i \in Channels : ProbeChanges(i))
       \/ \E s \in Scalars \cap setup.workers, at \in Addresses \cup {0} : SensorMoves(s, at)

CardRepair == RtdOnly /\ CardUp /\ UNCHANGED ohm

Next ==
    \/ PollRtd \/ PublishRtd \/ CheckSequent
    \/ \E s \in Scalars : PollScalar(s)
    \/ PollClicks \/ PublishMax31865 \/ CheckMax31865
    \/ Snapshot \/ TimePasses
    \/ Kill \/ ClickTrouble \/ ClickRepair \/ TempTrouble \/ CardRepair

Spec == Init /\ [][Next]_vars

-----------------------------------------------------------------------------
TypeOK ==
    /\ ClicksTypeOK /\ TempTypeOK
    /\ setup \in Setups /\ trouble \in 0..setup.trouble
    /\ ohm \in [Channels -> {"zero", "material", "element", "sound"}]
    /\ resistanceOk \in BOOLEAN

\* What is handed out as the resistance of a sample is what the source measures
\* (SequentRtdLoop: never "element ohms on indices the wire is supposed to show as
\* unmonitored"), and never ohms that were not converted in the conversation that
\* reported them (ReadOneShot: "must never be trusted when out->valid is false").
OhmsOfSource ==
    /\ \A i \in Channels :
          ohm[i] \in CASE setup.source = "simulated" -> {"material"}
                       [] setup.source = "sequent_rtd" -> {"zero", "element"}
                       [] setup.source = "max31865_click" -> {"zero", "sound"}
                       [] OTHER -> {"zero"}
    /\ NoFalseOhms

\* With the types: what three threads leave in the caches of the manager for the
\* snapshot of the tick (cache_mu_).
SamplesSound == TypeOK /\ OhmsOfSource
=============================================================================
