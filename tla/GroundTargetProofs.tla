-------------------------- MODULE GroundTargetProofs --------------------------
(***************************************************************************)
(* An acknowledged silence outlives every kill, and a connection is torn   *)
(* down only for a station of higher priority: for any ground stations,    *)
(* priorities, periods and backoff.                                        *)
(***************************************************************************)
EXTENDS GroundTarget, TLAPS

(* What is remembered of the silence while a command or a datagram is under  *)
(* way: the flag is there since the silence was acknowledged, and is removed *)
(* only by the step that ends RADIO_RESUME; a thread that has asked before   *)
(* the silence has not sent in it yet.                                       *)
FlagHolds ==
  /\ silenced => flag
  /\ command = "silence" => ~transmit
  /\ silenced /\ Ready => ~transmit
  /\ ~transmit => ~link.up

SpeechHolds ==
  /\ transmit => late = NoneLate
  /\ beacon => late.beacon = 0
  /\ reply # NoHost => late.reply = 0
  /\ late.beacon <= 1 /\ late.reply <= 1

Inv == TypeOK /\ FlagHolds /\ SpeechHolds /\ FailoverJustified

USE TargetAssumption

Advert(bound) == [host : Host \cup {NoHost}, prio : Nat, age : 0 .. bound + 1]
Link == [up : BOOLEAN, host : Host \cup {NoHost}, prio : Nat]
Retry == [wait : Nat, next : 1 .. MaxWait]
Late == [beacon : 0 .. 2, reply : 0 .. 2]

-----------------------------------------------------------------------------
(* What the operators on records return.                                     *)
LEMMA HeardType ==
  ASSUME NEW h \in Host \cup {NoHost}, NEW p \in Nat, NEW b \in Nat
  PROVE  /\ Heard(h, p) \in Advert(b)
         /\ Heard(h, p).host = h /\ Heard(h, p).prio = p
BY DEF Heard, Advert

LEMMA OlderType ==
  ASSUME NEW b \in Nat, NEW a \in Advert(b)
  PROVE  /\ Older(a, b) \in Advert(b)
         /\ Older(a, b).host = a.host /\ Older(a, b).prio = a.prio
<1>1. CASE a.age > b
  BY <1>1 DEF Older
<1>2. CASE ~(a.age > b)
  <2>1. a.age + 1 \in 0 .. b + 1
    BY <1>2 DEF Advert
  <2> QED
    BY <1>2, <2>1 DEF Older, Advert
<1> QED
  BY <1>1, <1>2

LEMMA BootType ==
  /\ Boot.latest \in Advert(Rediscover) /\ Boot.candidate \in Advert(Grace)
  /\ Boot.link \in Link /\ Boot.link.up = FALSE
  /\ Boot.failover = FALSE /\ Boot.retry \in Retry
  /\ NoneLate \in Late /\ NoneLate.beacon = 0 /\ NoneLate.reply = 0
BY DEF Boot, Nobody, Heard, AtOnce, NoneLate, Advert, Link, Retry, Late

LEMMA TypeIs ==
  TypeOK <=> /\ latest \in Advert(Rediscover) /\ candidate \in Advert(Grace)
             /\ link \in Link /\ failover \in BOOLEAN /\ retry \in Retry
             /\ transmit \in BOOLEAN /\ flag \in BOOLEAN
             /\ command \in {"none", "silence", "resume"}
             /\ beacon \in BOOLEAN /\ reply \in Host \cup {NoHost}
             /\ silenced \in BOOLEAN /\ late \in Late
BY DEF TypeOK, Advert, Link, Retry, Late

LEMMA PickType ==
  ASSUME TypeOK
  PROVE  PickTarget.host \in Host \cup {NoHost} /\ PickTarget.prio \in Nat
BY DEF TypeOK, PickTarget

LEMMA BackoffType ==
  ASSUME TypeOK
  PROVE  Backoff \in Retry /\ AtOnce \in Retry
<1>1. retry.next \in 1 .. MaxWait
  BY DEF TypeOK
<1>2. (IF 2 * retry.next < MaxWait THEN 2 * retry.next ELSE MaxWait) \in 1 .. MaxWait
  BY <1>1
<1>3. Backoff \in Retry
  BY <1>1, <1>2 DEF Backoff, Retry
<1> QED
  BY <1>3 DEF AtOnce, Retry

LEMMA TornIs ==
  ASSUME TypeOK
  PROVE  /\ Torn \in Link /\ Torn.host = link.host /\ Torn.prio = link.prio
         /\ Torn.up => link.up /\ ~failover
BY DEF TypeOK, Torn, Down, Link

-----------------------------------------------------------------------------
(* A frame touches the link, the backoff and the request, with the radio on. *)
LEMMA LoopInv ==
  ASSUME Inv, InLoop, transmit,
         link' \in Link, candidate' \in Advert(Grace), failover' = FALSE, retry' \in Retry
  PROVE  Inv'
<1>1. TypeOK'
  BY TypeIs DEF Inv, InLoop, radio, speech, TypeOK, Advert, Link, Retry
<1>2. FlagHolds' /\ SpeechHolds'
  BY DEF Inv, InLoop, radio, speech, FlagHolds, SpeechHolds, Ready
<1> QED
  BY <1>1, <1>2 DEF Inv, FailoverJustified

LEMMA SendFrameInv ==
  ASSUME Inv, SendFrame
  PROVE  Inv'
<1> USE DEF Inv
<1>1. TypeOK /\ candidate \in Advert(Grace) /\ retry \in Retry
  BY TypeIs
<1>2. CASE DialFails
  <2>1. link' \in Link
    BY <1>1, <1>2, PickType, TornIs DEF DialFails, Link
  <2> QED
    BY <1>1, <1>2, <2>1, BackoffType, LoopInv DEF DialFails, MayDial
<1>3. ASSUME NEW up \in BOOLEAN, Dialled(up), retry' \in {AtOnce, Backoff}
      PROVE  Inv'
  <2>1. link' \in Link
    BY <1>1, <1>3, PickType DEF Dialled, Link
  <2>2. candidate' \in Advert(Grace)
    BY <1>3, HeardType DEF Dialled, Nobody
  <2> QED
    BY <1>1, <1>3, <2>1, <2>2, BackoffType, LoopInv DEF Dialled, MayDial
<1>4. CASE Connects
  BY <1>3, <1>4 DEF Connects
<1>5. CASE HelloFails
  BY <1>3, <1>5 DEF HelloFails
<1>6. CASE NotNow
  BY <1>1, <1>6, TornIs, LoopInv DEF NotNow
<1>7. CASE ExchangeFails
  <2>1. link' \in Link
    BY <1>1, <1>7, TornIs DEF ExchangeFails, Down, Link
  <2>2. retry' \in Retry
    BY <1>1, <1>7 DEF ExchangeFails, Retry
  <2> QED
    BY <1>1, <1>7, <2>1, <2>2, LoopInv DEF ExchangeFails
<1> QED
  BY <1>2, <1>4, <1>5, <1>6, <1>7 DEF SendFrame

(* The listener: what was asked for before stays, and what is asked for now  *)
(* has the candidate that asks for it.                                       *)
LEMMA GsBeaconInv ==
  ASSUME Inv, NEW h \in DOMAIN BeaconPriority, GsBeacon(h)
  PROVE  Inv'
<1> DEFINE p == BeaconPriority[h]
<1>1. h \in Host /\ p \in Nat
  OBVIOUS
<1>2. /\ latest' = Heard(h, p)
      /\ failover' = (failover \/ (Better(h, p) /\ Confirms(h, p) /\ candidate.age <= Grace))
      /\ candidate' = IF Better(h, p) /\ ~Confirms(h, p) THEN Heard(h, p) ELSE candidate
      /\ UNCHANGED <<link, retry, radio, speech>>
  BY DEF GsBeacon
<1> HIDE DEF p
<1>3. latest' \in Advert(Rediscover)
  BY <1>1, <1>2, HeardType
<1>4. candidate' \in Advert(Grace)
  BY <1>1, <1>2, HeardType, TypeIs DEF Inv
<1>5. TypeOK'
  BY <1>2, <1>3, <1>4, TypeIs DEF Inv, radio, speech, TypeOK, Advert, Link, Retry
<1>6. FlagHolds' /\ SpeechHolds'
  BY <1>2 DEF Inv, radio, speech, FlagHolds, SpeechHolds, Ready
<1>7. FailoverJustified'
  <2>1. CASE Better(h, p) /\ ~Confirms(h, p)
    BY <1>1, <1>2, <2>1, HeardType DEF Better, FailoverJustified
  <2>2. CASE Better(h, p) /\ Confirms(h, p)
    BY <1>2, <2>2 DEF Better, Confirms, FailoverJustified
  <2>3. CASE ~Better(h, p)
    BY <1>2, <2>3 DEF Inv, FailoverJustified
  <2> QED
    BY <2>1, <2>2, <2>3
<1> QED
  BY <1>5, <1>6, <1>7 DEF Inv

LEMMA RememberedType ==
  ASSUME TypeOK, NEW h \in Host, Remembered(h)
  PROVE  latest' \in Advert(Rediscover)
BY HeardType, TypeIs DEF Remembered

(* A datagram of a thread that had asked is the first of this silence.       *)
LEMMA SpokenLate ==
  ASSUME TypeOK, SpeechHolds, NEW thread \in {"beacon", "reply"}, Spoken(thread),
         late[thread] = 0
  PROVE  /\ late' \in Late /\ (transmit => late' = late)
         /\ late'.beacon <= 1 /\ late'.reply <= 1
         /\ \A other \in {"beacon", "reply"} : other # thread => late'[other] = late[other]
<1>1. late \in Late
  BY TypeIs
<1>2. CASE transmit
  BY <1>1, <1>2 DEF Spoken, Late, SpeechHolds
<1>3. CASE ~transmit
  <2>1. late' = [late EXCEPT ![thread] = 1]
    BY <1>1, <1>3 DEF Spoken, Late
  <2> QED
    BY <1>1, <1>3, <2>1 DEF Late, SpeechHolds
<1> QED
  BY <1>2, <1>3

LEMMA GsHelloInv ==
  ASSUME Inv, NEW h \in Host, GsHello(h)
  PROVE  Inv'
<1>1. /\ IF MaySpeak THEN reply' = h /\ UNCHANGED latest
                     ELSE Remembered(h) /\ UNCHANGED reply
      /\ UNCHANGED <<link, candidate, failover, retry, radio, beacon, late>>
  BY DEF GsHello
<1>2. latest' \in Advert(Rediscover) /\ reply' \in Host \cup {NoHost}
  BY <1>1, RememberedType, TypeIs DEF Inv
<1>3. TypeOK'
  BY <1>1, <1>2, TypeIs DEF Inv, radio, TypeOK, Advert, Link, Retry
<1>4. FlagHolds' /\ FailoverJustified'
  BY <1>1 DEF Inv, radio, FlagHolds, FailoverJustified, Ready
<1>5. SpeechHolds'
  BY <1>1 DEF Inv, radio, SpeechHolds, MaySpeak, NoneLate
<1> QED
  BY <1>3, <1>4, <1>5 DEF Inv

LEMMA ReplyInv ==
  ASSUME Inv, SendOnboardHelloReply
  PROVE  Inv'
<1>1. /\ reply \in Host /\ Remembered(reply) /\ reply' = NoHost /\ Spoken("reply")
      /\ UNCHANGED <<link, candidate, failover, retry, radio, beacon>>
  BY TypeIs DEF Inv, SendOnboardHelloReply, Listening
<1>2. late.reply = 0
  BY <1>1 DEF Inv, SpeechHolds
<1>3. /\ late' \in Late /\ (transmit => late' = late)
      /\ late'.beacon <= 1 /\ late'.reply <= 1 /\ late'.beacon = late.beacon
  BY <1>1, <1>2, SpokenLate DEF Inv
<1>4. TypeOK'
  BY <1>1, <1>3, RememberedType, TypeIs DEF Inv, radio, TypeOK, Advert, Link, Retry, Late
<1>5. FlagHolds' /\ FailoverJustified'
  BY <1>1 DEF Inv, radio, FlagHolds, FailoverJustified, Ready
<1>6. SpeechHolds'
  BY <1>1, <1>3 DEF Inv, radio, SpeechHolds
<1> QED
  BY <1>4, <1>5, <1>6 DEF Inv

LEMMA BeaconAllowedInv ==
  ASSUME Inv, BeaconAllowed
  PROVE  Inv'
<1>1. TypeOK'
  BY DEF Inv, BeaconAllowed, target, radio, TypeOK
<1>2. FlagHolds' /\ FailoverJustified'
  BY DEF Inv, BeaconAllowed, target, radio, FlagHolds, FailoverJustified, Ready
<1>3. SpeechHolds'
  BY DEF Inv, BeaconAllowed, radio, SpeechHolds, MaySpeak, NoneLate
<1> QED
  BY <1>1, <1>2, <1>3 DEF Inv

LEMMA SendBeaconInv ==
  ASSUME Inv, SendOnboardBeacon
  PROVE  Inv'
<1>1. beacon /\ beacon' = FALSE /\ Spoken("beacon") /\ UNCHANGED <<target, radio, reply>>
  BY DEF SendOnboardBeacon
<1>2. late.beacon = 0
  BY <1>1 DEF Inv, SpeechHolds
<1>3. /\ late' \in Late /\ (transmit => late' = late)
      /\ late'.beacon <= 1 /\ late'.reply <= 1 /\ late'.reply = late.reply
  BY <1>1, <1>2, SpokenLate DEF Inv
<1>4. TypeOK'
  <2>1. UNCHANGED <<latest, link, candidate, failover, retry, transmit, flag, command, silenced>>
    BY <1>1 DEF target, radio
  <2>2. TypeOK /\ beacon' = FALSE /\ reply' = reply /\ late' \in [beacon : 0 .. 2, reply : 0 .. 2]
    BY <1>1, <1>3 DEF Inv, Late
  <2> QED
    BY <2>1, <2>2 DEF TypeOK
<1>5. FlagHolds' /\ FailoverJustified'
  BY <1>1 DEF Inv, target, radio, FlagHolds, FailoverJustified, Ready
<1>6. SpeechHolds'
  BY <1>1, <1>3 DEF Inv, radio, SpeechHolds
<1> QED
  BY <1>4, <1>5, <1>6 DEF Inv

-----------------------------------------------------------------------------
(* The command thread.                                                       *)
LEMMA ObserveInv ==
  ASSUME Inv, NEW h \in Host, ObserveGroundStation(h)
  PROVE  Inv'
<1> DEFINE p == CommandPriority[h]
           up == link.up /\ (h = link.host \/ p < link.prio)
           adopted == ~up /\ (link.host = NoHost \/ p >= link.prio)
<1>1. p \in Nat /\ up \in BOOLEAN /\ link \in Link
  BY TypeIs DEF Inv
<1>2. /\ latest' = Heard(h, p)
      /\ link' = IF adopted THEN [up |-> FALSE, host |-> h, prio |-> p]
                            ELSE [link EXCEPT !.up = up]
      /\ retry' = IF adopted THEN AtOnce ELSE retry
      /\ UNCHANGED <<candidate, failover, radio, speech>>
  BY DEF ObserveGroundStation
<1>3. link'.up => /\ link.up
                  /\ link'.host = link.host /\ link'.prio = link.prio
  BY <1>1, <1>2 DEF Link
<1>4. latest' \in Advert(Rediscover) /\ link' \in Link /\ retry' \in Retry
  <2>1. latest' \in Advert(Rediscover)
    BY <1>1, <1>2, HeardType
  <2>2. link' \in Link
    BY <1>1, <1>2 DEF Link
  <2>3. retry' \in Retry
    BY <1>2, BackoffType, TypeIs DEF Inv
  <2> QED
    BY <2>1, <2>2, <2>3
<1> HIDE DEF p, up, adopted
<1>5. TypeOK'
  BY <1>2, <1>4 DEF Inv, radio, speech, TypeOK, Advert, Link, Retry
<1>6. FlagHolds' /\ SpeechHolds' /\ FailoverJustified'
  BY <1>2, <1>3 DEF Inv, radio, speech, FlagHolds, SpeechHolds, FailoverJustified, Ready
<1> QED
  BY <1>5, <1>6 DEF Inv

LEMMA RadioInv ==
  ASSUME Inv, RadioSilence \/ RadioResume \/ PersistRadioSilence
  PROVE  Inv'
<1>1. link \in Link /\ Down(link) \in Link /\ Down(link).up = FALSE /\ NoneLate \in Late
  BY BootType, TypeIs DEF Inv, Down, Link
<1>2. CASE RadioSilence
  <2>1. TypeOK'
    BY <1>1, <1>2 DEF Inv, RadioSilence, speech, TypeOK, Link
  <2>2. FlagHolds' /\ SpeechHolds' /\ FailoverJustified'
    BY <1>1, <1>2 DEF Inv, RadioSilence, speech, FlagHolds, SpeechHolds, FailoverJustified, Ready
  <2> QED
    BY <2>1, <2>2 DEF Inv
<1>3. CASE RadioResume
  <2>1. TypeOK'
    BY <1>1, <1>3 DEF Inv, RadioResume, target, speech, TypeOK, Late
  <2>2. FlagHolds' /\ FailoverJustified'
    BY <1>3 DEF Inv, RadioResume, target, speech, FlagHolds, FailoverJustified, Ready
  <2>3. SpeechHolds'
    BY <1>3, BootType DEF Inv, RadioResume, SpeechHolds
  <2> QED
    BY <2>1, <2>2, <2>3 DEF Inv
<1>4. CASE PersistRadioSilence
  <2>1. TypeOK'
    BY <1>4 DEF Inv, PersistRadioSilence, target, speech, TypeOK
  <2>2. FlagHolds'
    BY <1>4 DEF Inv, PersistRadioSilence, target, FlagHolds, TypeOK, Ready
  <2>3. SpeechHolds' /\ FailoverJustified'
    BY <1>4 DEF Inv, PersistRadioSilence, target, speech, SpeechHolds, FailoverJustified
  <2> QED
    BY <2>1, <2>2, <2>3 DEF Inv
<1> QED
  BY <1>2, <1>3, <1>4

-----------------------------------------------------------------------------
(* A restart finds the flag, which an acknowledged silence has.              *)
LEMMA RestartInv ==
  ASSUME Inv, Restart
  PROVE  Inv'
<1>1. transmit' = ~flag /\ flag' = flag /\ silenced' = silenced
  BY DEF Restart, RestoreRadioSilence
<1>2. late' \in Late /\ (transmit' => late' = NoneLate) /\ late'.beacon <= 1 /\ late'.reply <= 1
  BY BootType, TypeIs DEF Inv, Restart, SpeechHolds
<1>3. TypeOK'
  BY <1>1, <1>2, BootType DEF Inv, Restart, TypeOK, Advert, Link, Retry, Late
<1>4. ~link'.up /\ command' = "none"
  BY BootType DEF Restart
<1>5. silenced => flag
  BY DEF Inv, FlagHolds
<1>6. FlagHolds' /\ FailoverJustified'
  BY <1>1, <1>4, <1>5 DEF FlagHolds, FailoverJustified
<1>7. SpeechHolds'
  BY <1>2 DEF Restart, SpeechHolds
<1> QED
  BY <1>3, <1>6, <1>7 DEF Inv

LEMMA ElapseInv ==
  ASSUME Inv, Elapse
  PROVE  Inv'
<1>1. /\ latest' = Older(latest, Rediscover) /\ candidate' = Older(candidate, Grace)
      /\ retry' = [retry EXCEPT !.wait = IF @ = 0 THEN 0 ELSE @ - 1]
      /\ UNCHANGED <<link, failover, radio, speech>>
  BY DEF Elapse
<1>2. /\ latest' \in Advert(Rediscover) /\ candidate' \in Advert(Grace)
      /\ candidate'.host = candidate.host /\ candidate'.prio = candidate.prio
  BY <1>1, OlderType, TypeIs DEF Inv
<1>3. retry' \in Retry
  BY <1>1, TypeIs DEF Inv, Retry
<1>4. TypeOK'
  BY <1>1, <1>2, <1>3 DEF Inv, radio, speech, TypeOK, Advert, Retry
<1>5. FlagHolds' /\ SpeechHolds' /\ FailoverJustified'
  BY <1>1, <1>2 DEF Inv, radio, speech, FlagHolds, SpeechHolds, FailoverJustified, Ready
<1> QED
  BY <1>4, <1>5 DEF Inv

-----------------------------------------------------------------------------
LEMMA InitInv == Init => Inv
<1> SUFFICES ASSUME Init PROVE Inv
  OBVIOUS
<1>1. TypeOK
  BY BootType DEF Init, RestoreRadioSilence, TypeOK, Advert, Link, Retry, Late
<1>2. FlagHolds /\ SpeechHolds /\ FailoverJustified
  BY BootType DEF Init, RestoreRadioSilence, FlagHolds, SpeechHolds, FailoverJustified
<1> QED
  BY <1>1, <1>2 DEF Inv

LEMMA StepInv == Inv /\ [Next]_vars => Inv'
<1> SUFFICES ASSUME Inv, [Next]_vars PROVE Inv'
  OBVIOUS
<1>1. CASE UNCHANGED vars
  BY <1>1 DEF Inv, vars, target, radio, speech, TypeOK, FlagHolds, SpeechHolds,
              FailoverJustified, Ready
<1>2. CASE Next
  BY <1>2, SendFrameInv, GsBeaconInv, GsHelloInv, ReplyInv, BeaconAllowedInv,
     SendBeaconInv, ObserveInv, RadioInv, RestartInv, ElapseInv DEF Next, Beacons
<1> QED
  BY <1>1, <1>2

(* In every state what the vehicle believes of the ground host is backed by  *)
(* what it heard, restarts and failovers included (GroundTargetManager).     *)
THEOREM Invariant == Spec => []Inv
  BY InitInv, StepInv, PTL DEF Spec

(* A silence that was acknowledged and whose flag was written stays until    *)
(* RADIO_RESUME, kills included, and each discovery thread sends at most one *)
(* datagram in it (SystemController::RestoreRadioSilence, beacon_allowed).   *)
THEOREM SilenceSafe == Spec => []SilenceKept
<1>1. Inv => SilenceKept
  BY DEF Inv, FlagHolds, SpeechHolds, SilenceKept
<1> QED
  BY <1>1, Invariant, PTL

(* A connection is torn down for a failover only while the candidate is      *)
(* another station of higher priority (failover_requested_).                 *)
THEOREM FailoverSafe == Spec => []FailoverJustified
<1>1. Inv => FailoverJustified
  BY DEF Inv
<1> QED
  BY <1>1, Invariant, PTL
=============================================================================
