----------------------------- MODULE GroundTarget -----------------------------
(***************************************************************************)
(* Which ground station the telemetry client dials, and when it may speak  *)
(* at all.  The discovery listener, the command thread and the control     *)
(* loop tell each other of ground stations through the fields under mu_;   *)
(* the beacon thread and the listener look at them, let the mutex go and   *)
(* send; radio silence is in memory and in a flag file.  What a connection *)
(* carries is in TelemetryDelivery, what it costs in LinkTraffic.          *)
(***************************************************************************)
EXTENDS Naturals

CONSTANTS
  Host,             \* the addresses of ground stations, loopback among them
  NoHost,
  BeaconPriority,   \* priority in the GS_BEACON of those that send one
  CommandPriority,  \* that of a command from each: 1000, or 0 of loopback
  Configured,       \* comms.telemetry_host, or NoHost
  Rediscover,       \* rediscover_period_s, in ticks of Elapse
  Grace,            \* failover_grace_s
  MaxWait,          \* reconnect_ms, the cap of the backoff that starts at 1
  OversizeRetry     \* kOversizeRetry

ASSUME TargetAssumption ==
  /\ NoHost \notin Host /\ Configured \in Host \cup {NoHost}
  /\ DOMAIN BeaconPriority \subseteq Host
  /\ \A h \in DOMAIN BeaconPriority : BeaconPriority[h] \in Nat
  /\ CommandPriority \in [Host -> Nat]
  /\ Rediscover \in Nat /\ Grace \in Nat
  /\ MaxWait \in Nat \ {0} /\ OversizeRetry \in Nat \ {0}

VARIABLES
  latest,     \* latest_gs_: the host heard last, its priority and its age
  link,       \* connected_, active_host_, current_priority_
  candidate,  \* current_failover_candidate_*
  failover,   \* failover_requested_
  retry,      \* next_connect_attempt_ and connect_backoff_ms_
  transmit,   \* transmit_enabled_
  flag,       \* the file radio_silence is there
  command,    \* RADIO_SILENCE or RADIO_RESUME between memory and file
  beacon,     \* the beacon thread has asked beacon_allowed() and not yet sent
  reply,      \* the host whose GS_HELLO the listener is about to answer
  silenced,   \* history: RADIO_SILENCE was acknowledged last, its file written
  late        \* history: datagrams sent in this silence, by thread

target == <<latest, link, candidate, failover, retry>>
radio == <<transmit, flag, command, silenced>>
speech == <<beacon, reply, late>>
vars == <<target, radio, speech>>

Heard(h, p) == [host |-> h, prio |-> p, age |-> 0]
Nobody == Heard(NoHost, 0)
Down(l) == [l EXCEPT !.up = FALSE]
AtOnce == [wait |-> 0, next |-> 1]
NoneLate == [beacon |-> 0, reply |-> 0]

Boot == [latest |-> Nobody, link |-> [up |-> FALSE, host |-> Configured, prio |-> 0],
         candidate |-> Nobody, failover |-> FALSE, retry |-> AtOnce]

\* Of the state before, a start of the process finds only the flag file.
RestoreRadioSilence_Never(f) == TRUE      \* mutant: the file is not read
RestoreRadioSilence(f) == ~f

Init ==
  /\ flag = FALSE /\ command = "none" /\ silenced = FALSE
  /\ latest = Boot.latest /\ link = Boot.link /\ candidate = Boot.candidate
  /\ failover = Boot.failover /\ retry = Boot.retry
  /\ transmit = RestoreRadioSilence(flag)
  /\ beacon = FALSE /\ reply = NoHost
  /\ late = NoneLate

-----------------------------------------------------------------------------
(* SendFrame.  A frame finds the link torn down for a failover, waits for    *)
(* the backoff or the budget, dials, or goes over the connection.            *)
Torn == IF failover THEN Down(link) ELSE link
MayDial == transmit /\ ~Torn.up /\ retry.wait = 0
InLoop == UNCHANGED <<latest, radio, speech>>

(* PickTargetHostLocked.                                                     *)
Fresh == latest.host # NoHost /\ latest.age <= Rediscover
PickTarget ==
  IF Fresh THEN [host |-> latest.host, prio |-> latest.prio]
           ELSE [host |-> Configured, prio |-> 0]
HasTarget == PickTarget.host # NoHost

Backoff == [wait |-> retry.next,
            next |-> IF 2 * retry.next < MaxWait THEN 2 * retry.next ELSE MaxWait]

(* The priority is taken over when the host is picked, the host itself only  *)
(* once it answers.                                                          *)
DialFails ==
  /\ MayDial /\ InLoop
  /\ link' = [up |-> FALSE, host |-> Torn.host,
              prio |-> IF HasTarget THEN PickTarget.prio ELSE Torn.prio]
  /\ failover' = FALSE /\ retry' = Backoff
  /\ UNCHANGED candidate

Dialled(up) ==
  /\ MayDial /\ HasTarget /\ InLoop
  /\ link' = [up |-> up, host |-> PickTarget.host, prio |-> PickTarget.prio]
  /\ candidate' = Nobody /\ failover' = FALSE

Connects == Dialled(TRUE) /\ retry' = AtOnce

(* NegotiateCodecLocked resets the connection it has just got.               *)
HelloFails == Dialled(FALSE) /\ retry' = Backoff

(* No budget to dial, or the backoff is not over.                            *)
NotNow_Rearms ==                          \* mutant: each refusal starts it anew
  /\ transmit /\ ~Torn.up /\ InLoop
  /\ link' = Torn /\ failover' = FALSE
  /\ retry' = [retry EXCEPT !.wait = retry.next] /\ UNCHANGED candidate

NotNow ==
  /\ transmit /\ ~Torn.up /\ InLoop
  /\ link' = Torn /\ failover' = FALSE
  /\ UNCHANGED <<candidate, retry>>

(* An exchange that ends with a reset; wait is that of a plain frame too     *)
(* large for the share.                                                      *)
ExchangeFails ==
  /\ transmit /\ Torn.up /\ InLoop
  /\ link' = Down(Torn) /\ failover' = FALSE
  /\ \E wait \in {retry.wait, OversizeRetry} : retry' = [retry EXCEPT !.wait = wait]
  /\ UNCHANGED candidate

SendFrame == DialFails \/ Connects \/ HelloFails \/ NotNow \/ ExchangeFails

-----------------------------------------------------------------------------
(* The discovery listener: one datagram after another.                       *)
Listening == reply = NoHost

(* ProcessIncomingDiscoveryLine: a higher priority that is heard twice       *)
(* within the grace asks for the failover.                                   *)
Better_Itself(h, p) == link.up /\ p > link.prio    \* mutant: the own station too
Better(h, p) == link.up /\ h # link.host /\ p > link.prio
Confirms(h, p) == candidate.host = h /\ candidate.prio = p

GsBeacon(h) ==
  LET p == BeaconPriority[h]
  IN  /\ Listening
      /\ latest' = Heard(h, p)
      /\ failover' = (failover \/ (Better(h, p) /\ Confirms(h, p) /\ candidate.age <= Grace))
      /\ candidate' = IF Better(h, p) /\ ~Confirms(h, p) THEN Heard(h, p) ELSE candidate
      /\ UNCHANGED <<link, retry, radio, speech>>

(* GS_HELLO: an answer if one is allowed, and a host of last resort.         *)
MaySpeak == transmit /\ ~link.up
Remembered(h) == latest' = IF latest.host = NoHost \/ latest.prio = 0
                           THEN Heard(h, 0) ELSE latest

GsHello(h) ==
  /\ Listening
  /\ IF MaySpeak THEN reply' = h /\ UNCHANGED latest
                 ELSE Remembered(h) /\ UNCHANGED reply
  /\ UNCHANGED <<link, candidate, failover, retry, radio, beacon, late>>

Spoken(thread) == late' = [late EXCEPT ![thread] = IF transmit \/ @ = 2 THEN @ ELSE @ + 1]

SendOnboardHelloReply ==
  /\ ~Listening
  /\ Remembered(reply) /\ reply' = NoHost /\ Spoken("reply")
  /\ UNCHANGED <<link, candidate, failover, retry, radio, beacon>>

(* The beacon thread: the check and the datagram.                            *)
BeaconAllowed ==
  /\ ~beacon /\ MaySpeak /\ beacon' = TRUE
  /\ UNCHANGED <<target, radio, reply, late>>

SendOnboardBeacon ==
  /\ beacon /\ beacon' = FALSE /\ Spoken("beacon")
  /\ UNCHANGED <<target, radio, reply>>

-----------------------------------------------------------------------------
(* The command thread: any command makes its sender known.                   *)
Ready == command = "none"

ObserveGroundStation(h) ==
  LET p == CommandPriority[h]
      up == link.up /\ (h = link.host \/ p < link.prio)
      adopted == ~up /\ (link.host = NoHost \/ p >= link.prio)
  IN  /\ Ready
      /\ latest' = Heard(h, p)
      /\ link' = IF adopted THEN [up |-> FALSE, host |-> h, prio |-> p]
                            ELSE [link EXCEPT !.up = up]
      /\ retry' = IF adopted THEN AtOnce ELSE retry
      /\ UNCHANGED <<candidate, failover, radio, speech>>

(* RADIO_SILENCE and RADIO_RESUME: SetTransmitEnabled, then the file, whose  *)
(* failures are not reported.                                                *)
RadioSilence ==
  /\ Ready /\ command' = "silence"
  /\ transmit' = FALSE /\ link' = Down(link)
  /\ UNCHANGED <<latest, candidate, failover, retry, flag, silenced, speech>>

RadioResume ==
  /\ Ready /\ command' = "resume"
  /\ transmit' = TRUE /\ late' = NoneLate
  /\ UNCHANGED <<target, flag, silenced, beacon, reply>>

PersistRadioSilence ==
  /\ ~Ready /\ command' = "none"
  /\ flag' \in {flag, command = "silence"}
  /\ silenced' = (command = "silence" /\ flag')
  /\ UNCHANGED <<target, transmit, speech>>

-----------------------------------------------------------------------------
(* The process dies anywhere and starts again.                               *)
Restart ==
  /\ latest' = Boot.latest /\ link' = Boot.link /\ candidate' = Boot.candidate
  /\ failover' = Boot.failover /\ retry' = Boot.retry
  /\ transmit' = RestoreRadioSilence(flag)
  /\ command' = "none" /\ beacon' = FALSE /\ reply' = NoHost
  /\ late' = IF transmit' THEN NoneLate ELSE late
  /\ UNCHANGED <<flag, silenced>>

Older(a, bound) == IF a.age > bound THEN a ELSE [a EXCEPT !.age = @ + 1]

Elapse ==
  /\ latest' = Older(latest, Rediscover) /\ candidate' = Older(candidate, Grace)
  /\ retry' = [retry EXCEPT !.wait = IF @ = 0 THEN 0 ELSE @ - 1]
  /\ UNCHANGED <<link, failover, radio, speech>>

Beacons == \E h \in DOMAIN BeaconPriority : GsBeacon(h)

Next ==
  \/ SendFrame \/ Beacons \/ SendOnboardHelloReply \/ BeaconAllowed \/ SendOnboardBeacon
  \/ \E h \in Host : GsHello(h) \/ ObserveGroundStation(h)
  \/ RadioSilence \/ RadioResume \/ PersistRadioSilence
  \/ Restart \/ Elapse

(* The control loop sends a frame every tick, and a ground station that is   *)
(* dialled again and again answers once; time passes.                        *)
Spec == Init /\ [][Next]_vars /\ SF_vars(Connects) /\ WF_vars(Elapse)

-----------------------------------------------------------------------------
TypeOK ==
  /\ latest \in [host : Host \cup {NoHost}, prio : Nat, age : 0 .. Rediscover + 1]
  /\ link \in [up : BOOLEAN, host : Host \cup {NoHost}, prio : Nat]
  /\ candidate \in [host : Host \cup {NoHost}, prio : Nat, age : 0 .. Grace + 1]
  /\ failover \in BOOLEAN
  /\ retry \in [wait : Nat, next : 1 .. MaxWait]
  /\ transmit \in BOOLEAN /\ flag \in BOOLEAN
  /\ command \in {"none", "silence", "resume"}
  /\ beacon \in BOOLEAN /\ reply \in Host \cup {NoHost}
  /\ silenced \in BOOLEAN
  /\ late \in [beacon : 0 .. 2, reply : 0 .. 2]

(* "An onboard restart during a mandated silence comes back silent"          *)
(* (docs/manual-operations.md): once RADIO_SILENCE is acknowledged and its   *)
(* flag is written, no kill at any point of any later command ends it before *)
(* RADIO_RESUME.  Each of the two discovery threads, which check and send    *)
(* without the mutex in between, sends at most one datagram after it.        *)
SilenceKept ==
  /\ TypeOK
  /\ silenced /\ Ready => ~transmit /\ ~link.up
  /\ late.beacon <= 1 /\ late.reply <= 1

(* A request that tears a connection down was made for a station of higher   *)
(* priority than the present one (failover_requested_), also after commands, *)
(* resets and other candidates in between.                                   *)
FailoverJustified ==
  link.up /\ failover => candidate.prio > link.prio /\ candidate.host # link.host

(* Whatever fails in between, with the radio on and some ground station      *)
(* heard within the rediscover period all along (its beacons are 2 s apart,  *)
(* the period is 30 s) the client is connected again and again: no sequence  *)
(* of failed dials, refused budgets and resets keeps it in its backoff.      *)
Reconnects ==
  <>[][~Restart]_vars /\ <>[](transmit /\ HasTarget) => []<>link.up

(* "A lower-priority peer never displaces a known target, connected or not"  *)
(* (telemetry_client.cpp, ObserveGroundStation).                             *)
LowerNeverDisplaces ==
  [][link.host \notin {NoHost, link'.host} /\ ~link.up /\ link'.up
        => link'.prio >= link.prio]_vars
=============================================================================
