------------------------- MODULE TelemetryDelivery --------------------------
(***************************************************************************)
(* The whole telemetry path: the queue, the drain of each control-loop     *)
(* tick (onboard/src/telemetry_drain.cpp), the connection with its one     *)
(* frame in flight and its ACK deadline (telemetry_client.cpp), and the    *)
(* ground station's receiver (ground-station/app/gui/dispatch.py), which   *)
(* deduplicates, acknowledges, persists its cursor and logs, in that order.*)
(*                                                                         *)
(* Interleaved: the control loop, the receiver thread, resets of the       *)
(* connection, and crashes of either program.                              *)
(***************************************************************************)
EXTENDS TelemetryQueue

CONSTANTS
  None,           (* no frame                                                 *)
  EventsPerTick,  (* kMaxEventsPerTick                                        *)
  MaxResets,      (* bound: connections reset by a link failure               *)
  MaxGroundCrash  (* bound: crashes of the ground station                     *)

ASSUME DeliveryAssumption ==
  /\ None \notin Frame
  /\ EventsPerTick \in Nat /\ MaxResets \in Nat /\ MaxGroundCrash \in Nat

VARIABLES
  phase,        (* where the tick is: "idle", "live", "events" or "replay"    *)
  live,         (* live_index: the DATA frame of this tick                    *)
  batch,        (* the PendingEvents snapshot not sent yet                    *)
  sending,      (* the frame whose ACK the onboard waits for                  *)
  conn,         (* the onboard's socket is connected                          *)
  wire,         (* a frame on its way to the ground station                   *)
  ack,          (* an ACK on its way back: the frame it answers               *)
  handler,      (* _handle_connection: "none", "live" or "dead" socket        *)
  step,         (* the receiver: "recv", "ack" or "log"                       *)
  got,          (* the frame the receiver is working on                       *)
  fresh,        (* it was parsed, and not is_dup                              *)
  seen,         (* _received_by_session                                       *)
  cursor,       (* ground_ack_cursor.json                                     *)
  rows,         (* history: keys with a row in telemetry.csv or pulls.csv     *)
  twice,        (* history: keys of DATA frames with two rows                 *)
  reached,      (* history: keys of the frames the receiver got whole         *)
  taken,        (* history: keys of the frames Enqueue took                   *)
  resets, groundCrashes    (* how many so far                                 *)

onboard == <<phase, live, batch, sending>>
link == <<conn, wire, ack>>
ground == <<handler, step, got, fresh, seen, cursor, rows, twice, reached>>
counts == <<resets, groundCrashes>>
dvars == <<vars, onboard, link, ground, counts, taken>>

-----------------------------------------------------------------------------
(* The tick.  Every tick enqueues its DATA frame and drains; an event (the   *)
(* end of a pull) is enqueued after the drain.                               *)
EnqueueLive ==
  /\ phase = "idle"
  /\ live' = Whole(<<session, seq + 1>>)
  /\ ~IsEvent(live')
  /\ Enqueue
  /\ taken' = taken \cup {live'[1]}
  /\ phase' = "live"
  /\ UNCHANGED <<batch, sending, link, ground, counts>>

EnqueueEvent ==
  /\ phase = "idle"
  /\ IsEvent(Whole(<<session, seq + 1>>))
  /\ Enqueue
  /\ taken' = taken \cup {<<session, seq + 1>>}
  /\ UNCHANGED <<onboard, link, ground, counts>>

(* Past the bound on frames the ticks go on, with nothing live to send.      *)
QuietTick ==
  /\ phase = "idle" /\ up /\ seq = MaxSeq
  /\ phase' = "live"
  /\ live' = None
  /\ UNCHANGED <<vars, batch, sending, link, ground, counts, taken>>

(* PendingEvents(kMaxEventsPerTick), oldest first.                           *)
OldestEvents ==
  {i \in PendingEvents :
     Cardinality({j \in PendingEvents : j < i}) < EventsPerTick}

StartEvents ==
  /\ phase = "live" /\ sending = None
  /\ live \notin Values(frames)
  /\ phase' = "events"
  /\ batch' = {frames[i] : i \in OldestEvents}
  /\ UNCHANGED <<vars, live, sending, link, ground, counts, taken>>

StartReplay ==
  /\ phase = "events" /\ sending = None
  /\ batch = {}
  /\ phase' = "replay"
  /\ UNCHANGED <<vars, live, batch, sending, link, ground, counts, taken>>

(* The drain ends: nothing left, the replay deadline, no budget, or no       *)
(* connection.  The frame stays queued.                                      *)
DrainOver == phase' = "idle" /\ live' = None /\ batch' = {} /\ sending' = None

EndDrain ==
  /\ phase # "idle" /\ sending = None
  /\ DrainOver
  /\ UNCHANGED <<vars, link, ground, counts, taken>>

(* SendOne: the frame leaves; the drain waits for its ACK.                   *)
Candidate(f) ==
  \/ phase = "live" /\ f = live /\ f \in Values(frames)
  \/ phase = "events" /\ f \in batch /\ \A e \in batch : Older(f, e)
  \/ phase = "replay" /\ runs # {} /\ f = frames[ReplayIndex]

Send(f) ==
  /\ sending = None
  /\ Candidate(f)
  /\ conn /\ wire = None /\ ack = None
  /\ wire' = f
  /\ sending' = f
  /\ UNCHANGED <<vars, phase, live, batch, conn, ack, ground, counts, taken>>

(* The ACK arrives in time and names the frame.                              *)
Matches(f) == f[2] # "lost"
ReceiveAck_Cumulative ==       \* mutant: as older firmware treated DATA ACKs
  /\ sending # None /\ ack # None /\ Matches(ack)
  /\ Acknowledge(sending[1][1], sending[1][2])
  /\ ack' = None
  /\ sending' = None
  /\ batch' = batch \ {sending}
  /\ UNCHANGED <<phase, live, conn, wire, ground, counts, taken>>
ReceiveAck ==
  /\ sending # None /\ ack # None /\ Matches(ack)
  /\ AcknowledgeExact(sending)
  /\ ack' = None
  /\ sending' = None
  /\ batch' = batch \ {sending}
  /\ UNCHANGED <<phase, live, conn, wire, ground, counts, taken>>

(* It names another: the drain ends, the frame stays queued.                 *)
MismatchedAck ==
  /\ ack # None /\ ~Matches(ack)
  /\ ack' = None
  /\ DrainOver
  /\ UNCHANGED <<vars, conn, wire, ground, counts, taken>>

(* The ACK deadline passes, or the send fails: the onboard resets the        *)
(* connection and the drain ends.                                            *)
ResetConnection ==
  /\ conn' = FALSE
  /\ wire' = None
  /\ ack' = None

GiveUp ==
  /\ sending # None
  /\ ResetConnection
  /\ handler' = IF handler = "live" THEN "dead" ELSE handler
  /\ DrainOver
  /\ UNCHANGED <<vars, step, got, fresh, seen, cursor, rows,
                 twice, reached, groundCrashes, taken>>

AckTimeout ==
  /\ resets < MaxResets
  /\ resets' = resets + 1
  /\ GiveUp

(* ... and it passes for certain when the receiver has taken the frame and   *)
(* answers nothing.                                                          *)
NoAnswer ==
  /\ conn /\ wire = None /\ ack = None /\ step = "recv"
  /\ GiveUp
  /\ UNCHANGED resets

(* SendFrame finds the peer gone: nobody will answer this frame.             *)
SendFails ==
  /\ sending # None
  /\ ~conn
  /\ DrainOver
  /\ UNCHANGED <<vars, link, ground, counts, taken>>

(* ConnectLocked; the kernel of the ground station accepts on its behalf.    *)
Connect ==
  /\ up /\ ~conn /\ sending = None
  /\ conn' = TRUE
  /\ UNCHANGED <<vars, onboard, wire, ack, ground, counts, taken>>

-----------------------------------------------------------------------------
(* The receiver thread.  The backlog of accepted connections is served one   *)
(* at a time.                                                                *)
Accept ==
  /\ handler = "none" /\ conn
  /\ handler' = "live"
  /\ UNCHANGED <<vars, onboard, link, step, got, fresh, seen, cursor, rows,
                 twice, reached, counts, taken>>

(* recv on a reset socket: the handler returns, the cursor is written.       *)
HandlerEnds_Spins ==           \* mutant: the reset of the socket is not seen
  /\ handler = "dead" /\ step = "recv"
  /\ UNCHANGED dvars
HandlerEnds ==
  /\ handler = "dead" /\ step = "recv"
  /\ handler' = "none"
  /\ cursor' = seen
  /\ UNCHANGED <<vars, onboard, link, step, got, fresh, seen, rows, twice,
                 reached, counts, taken>>

(* A DATA frame enters the received set before its ACK; an event has no set. *)
IsFresh_NewestSession(k) ==    \* mutant: the sets of older sessions are dropped
  k \notin seen \/ \E s \in seen : k[1] < s[1]
IsFresh(k) == k \notin seen
ReceiveParsed ==
  /\ wire[2] # "lost"
  /\ fresh' = IsFresh(wire[1])
  /\ seen' = IF IsEvent(wire) THEN seen ELSE seen \cup {wire[1]}
  /\ got' = wire
  /\ step' = "ack"

(* _ack_unparseable: a cut frame is acknowledged by the key that can be read *)
(* off it, or by one that is misread.                                        *)
ReceiveUnparseable ==
  /\ wire[2] # "whole"
  /\ fresh' = FALSE
  /\ got' = wire
  /\ step' = "ack"
  /\ UNCHANGED seen

(* No key can be read off it: nothing is acknowledged.                       *)
ReceiveUnknown ==
  /\ wire[2] = "lost"
  /\ UNCHANGED <<fresh, seen, got, step>>

Receive ==
  /\ handler = "live" /\ step = "recv" /\ wire # None
  /\ ReceiveParsed \/ ReceiveUnparseable \/ ReceiveUnknown
  /\ reached' = reached \cup {k \in Key : wire = Whole(k)}
  /\ wire' = None
  /\ UNCHANGED <<vars, onboard, conn, ack, handler, cursor, rows, twice,
                 counts, taken>>

(* The ACK is sent, then the cursor is written unless it was less than a     *)
(* second ago.  On a socket that was reset the send may still succeed.       *)
AckSent ==
  /\ step = "ack"
  /\ ack' = IF handler = "live" THEN got ELSE ack
  /\ cursor' \in IF fresh /\ ~IsEvent(got) THEN {cursor, seen} ELSE {cursor}
  /\ step' = "log"
  /\ UNCHANGED <<vars, onboard, conn, wire, handler, got, fresh, seen, rows,
                 twice, reached, counts, taken>>

(* The send of the ACK raises OSError: the handler returns at once.          *)
AckFails ==
  /\ step = "ack" /\ handler = "dead"
  /\ handler' = "none"
  /\ cursor' = seen
  /\ step' = "recv"
  /\ got' = None /\ fresh' = FALSE
  /\ UNCHANGED <<vars, onboard, link, seen, rows, twice, reached, counts,
                 taken>>

(* The row: every event that was parsed, and every DATA frame that was not   *)
(* in the set.                                                               *)
Log ==
  /\ step = "log"
  /\ step' = "recv"
  /\ got' = None /\ fresh' = FALSE
  /\ rows' = IF fresh THEN rows \cup {got[1]} ELSE rows
  /\ twice' = IF fresh /\ ~IsEvent(got) /\ got[1] \in rows
              THEN twice \cup {got[1]} ELSE twice
  /\ UNCHANGED <<vars, onboard, link, handler, seen, cursor, reached, counts,
                 taken>>

(* The console is killed and started again: it loads its cursor.             *)
GroundCrash ==
  /\ groundCrashes < MaxGroundCrash
  /\ groundCrashes' = groundCrashes + 1
  /\ ResetConnection
  /\ handler' = "none"
  /\ step' = "recv"
  /\ got' = None /\ fresh' = FALSE
  /\ seen' = cursor
  /\ UNCHANGED <<vars, onboard, cursor, rows, twice, reached, resets,
                 taken>>

-----------------------------------------------------------------------------
OnboardCrash ==
  /\ Crash
  /\ ResetConnection
  /\ handler' = IF handler = "live" THEN "dead" ELSE handler
  /\ DrainOver
  /\ UNCHANGED <<step, got, fresh, seen, cursor, rows, twice, reached, counts,
                 taken>>

OnboardStart ==
  /\ Initialize
  /\ UNCHANGED <<onboard, link, ground, counts, taken>>

DInit ==
  /\ Init
  /\ phase = "idle" /\ live = None /\ batch = {} /\ sending = None
  /\ conn = FALSE /\ wire = None /\ ack = None
  /\ handler = "none" /\ step = "recv" /\ got = None /\ fresh = FALSE
  /\ seen = {} /\ cursor = {} /\ rows = {} /\ twice = {} /\ reached = {}
  /\ taken = {}
  /\ resets = 0 /\ groundCrashes = 0

SendAny == \E f \in Frame : Send(f)
Tick == EnqueueLive \/ EnqueueEvent \/ QuietTick
Drain ==
  StartEvents \/ StartReplay \/ EndDrain \/ SendFails \/ NoAnswer \/ MismatchedAck
Receiver == Accept \/ HandlerEnds \/ Receive \/ AckSent \/ AckFails \/ Log

DNext ==
  \/ EnqueueLive \/ EnqueueEvent \/ QuietTick
  \/ StartEvents \/ StartReplay \/ EndDrain
  \/ \E f \in Frame : Send(f)
  \/ ReceiveAck \/ MismatchedAck \/ AckTimeout \/ NoAnswer \/ SendFails \/ Connect
  \/ Accept \/ HandlerEnds \/ Receive \/ AckSent \/ AckFails \/ Log
  \/ GroundCrash \/ OnboardCrash \/ OnboardStart

(* The control loop and the receiver are threads that keep running, the      *)
(* connection is retried, an ACK that is there is read.  A drain may end     *)
(* before any of its frames left, but not for ever: the budget gives the     *)
(* live frame, the events and the replay their turn.                         *)
Fairness ==
  /\ WF_dvars(OnboardStart) /\ WF_dvars(Tick) /\ WF_dvars(Drain)
  /\ WF_dvars(Connect) /\ WF_dvars(ReceiveAck) /\ WF_dvars(Receiver)
  /\ SF_dvars(StartEvents) /\ SF_dvars(StartReplay)
  /\ SF_dvars(phase = "live" /\ SendAny)
  /\ SF_dvars(phase = "events" /\ SendAny)
  /\ SF_dvars(phase = "replay" /\ SendAny)

DSpec == DInit /\ [][DNext]_dvars /\ Fairness

-----------------------------------------------------------------------------
(* At-least-once delivery: the onboard, which may crash and whose link may   *)
(* fail at any moment, discharges a frame it took only after the ground      *)
(* station received it.                                                      *)
Transfer == INSTANCE ReliableTransfer
  WITH Frame <- Key, discharged <- taken \ owed
DeliversAtLeastOnce == Transfer!Spec

(* As long as the console runs, at most one row per DATA frame: resets,      *)
(* replays and restarts of the onboard bring frames again, and each of them  *)
(* is recognised.  Nor does a late ACK discharge another frame: the one in   *)
(* flight answers the frame the onboard is waiting for.                      *)
OneRowEach ==
  /\ groundCrashes = 0 => twice = {}
  /\ ack # None => ack = sending

(* Once the last frame is taken the queue drains: every frame the onboard    *)
(* owes is discharged in the end, whatever was reset or restarted on the     *)
(* way, and whatever a kill left of the append it fell into, as long as the  *)
(* console can read a key off it.                                            *)
Unanswerable == \E f \in Values(frames) : ~Matches(f)
QueueDrains == <>[](owed = {} \/ Unanswerable)

(* protocol.py:432-435: acknowledging what cannot be parsed lets the onboard *)
(* drop the frame instead of sending it again for the rest of the flight.    *)
(* Of a frame cut before its key nothing is acknowledged.                    *)
DrainsAnyway == <>[](owed = {})

(* telemetry.csv has one row per accepted DATA frame (docs/ground-station.md, *)
(* telemetry_log.py): a frame the onboard was allowed to forget is in the log *)
(* once the receiver is done with it.                                        *)
DischargedIsLogged ==
  step = "recv" =>
    \A k \in taken \ owed : IsEvent(Whole(k)) \/ k \in rows
=============================================================================
