---------------------------- MODULE LinkTraffic -----------------------------
(***************************************************************************)
(* Who puts bytes on the E-Link, and what for: the control loop            *)
(* (TelemetryClient::SendFrame, onboard/src/telemetry_client.cpp), the     *)
(* command thread (CommandServer::SendPacedReply, command_server.cpp, and  *)
(* the commands that change the link), the beacon and the listener thread. *)
(* All of them ask one LinkBudget.                                         *)
(*                                                                         *)
(* `wire` is the history of the bytes the onboard's share must cover: its  *)
(* own and those it provokes.  `late` is what answers on their way when a  *)
(* connection was reset may still bring, each with a reset of ours.  Not   *)
(* in the share, and so not on this wire: the reset of a connection closed *)
(* from outside an exchange (docs/link-budget.md, "The unaccounted 250 B") *)
(* and the first header of a reply, which the ground station's share holds.*)
(***************************************************************************)
EXTENDS LinkBudget

CONSTANTS
  Announcer,        (* the beacon thread and the listener thread              *)
  Frame, Answer, Hello, Pure, Reset, Syn,     (* bytes on the wire of each    *)
  Chunk, Header, Beacon,
  AbortTail, EmissionTail, FlushTail,         (* kAbortTail, ... in ticks     *)
  LateBy            (* how long after a reset answers still come in           *)

ASSUME TrafficAssumption ==
  /\ Ticket = {"connect", "frame", "reply"}
  /\ {Frame, Answer, Hello, Pure, Reset, Syn, Chunk, Header, Beacon} \subseteq Nat
  /\ Reset <= Pure            (* kReset = 84, kPureAck = 90 (link_budget.hpp) *)
  /\ {AbortTail, EmissionTail, FlushTail} \subseteq 0 .. MaxTail
  /\ LateBy \in 0 .. AbortTail

VARIABLES
  ledger,
  loop,      (* SendFrame: its step, its priority, whether the peer's TCP     *)
             (* ACK came on its own                                           *)
  conn,      (* connected_                                                    *)
  z1,        (* codec_z1_                                                     *)
  answer,    (* the answer to the HELLO: "none", "due" or "unread"            *)
  transmit,  (* transmit_enabled_                                             *)
  server,    (* SendPacedReply: its step, and whether it is the first chunk   *)
  allowed,   (* announcers between their check and their datagram             *)
  wire,      (* history: bytes on the wire, by ticks ago                      *)
  late       (* bytes that may still come, by ticks left                      *)

vars == <<ledger, loop, conn, z1, answer, transmit, server, allowed, wire, late>>
client == <<conn, z1, answer>>

Idle == [pc |-> "idle", prio |-> 1, acked |-> FALSE]
AtIdle == [pc |-> "idle", first |-> TRUE]

Init ==
  /\ ledger = NoEntries
  /\ loop = Idle
  /\ conn = FALSE /\ z1 = FALSE /\ answer = "none"
  /\ transmit = TRUE
  /\ server = AtIdle
  /\ allowed = {}
  /\ wire = [i \in 0 .. Window - 1 |-> 0]
  /\ late = [k \in 0 .. LateBy |-> 0]

-----------------------------------------------------------------------------
(* What an exchange may cost.                                                *)
(* mutant: without the reset that a late TCP ACK draws.                      *)
FrameCostBytes_OneReset == Frame + Pure + Answer + Pure + Reset
FrameCostBytes == Frame + Pure + Reset + Answer + Pure + Reset
LateAnswer == Answer + Pure
ConnectCostBytes ==
  2 * Syn + Pure + Hello + Pure + Reset + LateAnswer + Reset
ChunkBytes(first) == Chunk + (IF first THEN 0 ELSE Header)
ChunkCost(first) == ChunkBytes(first) + Pure + 2 * Reset

Emit(bytes) == wire' = [wire EXCEPT ![0] = @ + bytes]
Provoke(bytes) == late' = [late EXCEPT ![LateBy] = @ + bytes]

(* LinkPriority: 0 command replies, 1 live, 2 discovery, 3 replay.           *)
Waiting ==
  {p \in {0, 1, 3} : \/ p = 0 /\ server.pc = "wait"
                     \/ p = loop.prio /\ loop.pc = "wait"}
Admits(bytes, prio) == Fits(ledger, bytes) /\ \A p \in Waiting : p >= prio

(* mu_ of the client is free.                                                *)
(* mutant: nobody asks for it.                                               *)
Free_Always == TRUE
Free == loop.pc \in {"idle", "wait", "admitted"}

(* CloseLocked, with what may still come for this connection.                *)
Closed(L) == ReleasedAt(L, "connect", AbortTail)
Unanswered == IF answer = "due" THEN Answer + Reset ELSE 0
Disconnected == conn' = FALSE /\ z1' = FALSE /\ answer' = "none"

(* AbortLocked from outside an exchange.                                     *)
DropLink ==
  IF conn
  THEN ledger' = Closed(ledger) /\ Provoke(Unanswered) /\ Disconnected
  ELSE UNCHANGED <<ledger, late, client>>

-----------------------------------------------------------------------------
(* SendFrame of the control loop.  It keeps mu_ from Dial to the end of the  *)
(* exchange but for WaitHold.  A beacon may request a failover at any time   *)
(* while connected: the next call drops the link, then goes on with Dial.    *)
At(pc) == loop.pc = pc
Goto(pc) == loop' = [loop EXCEPT !.pc = pc]

Failover ==
  /\ At("idle") /\ transmit /\ conn
  /\ DropLink
  /\ UNCHANGED <<loop, transmit, server, allowed, wire>>

SendFrame(prio) ==
  /\ At("idle") /\ transmit /\ conn
  /\ loop' = [Idle EXCEPT !.pc = "ready", !.prio = prio]
  /\ UNCHANGED <<ledger, client, transmit, server, allowed, wire, late>>

(* PickTargetHostLocked may know nobody: the hold is released, unused.       *)
Dial(prio) ==
  /\ At("idle") /\ transmit /\ ~conn
  /\ Admits(ConnectCostBytes, prio)
  /\ LET L == Held(ledger, "connect", ConnectCostBytes)
     IN  \/ /\ ledger' = L
            /\ loop' = [Idle EXCEPT !.pc = "dial", !.prio = prio]
            /\ Emit(Syn)
         \/ /\ ledger' = ReleasedAt(L, "connect", 0)
            /\ UNCHANGED <<loop, wire>>
  /\ UNCHANGED <<client, transmit, server, allowed, late>>

Connects ==
  /\ At("dial")
  /\ Goto("hello")
  /\ Emit(Syn + Pure + Hello)
  /\ UNCHANGED <<ledger, client, transmit, server, allowed, late>>

(* mutant: the hold of an attempt that failed is forgotten.                  *)
ConnectFails_Leaks ==
  /\ At("dial")
  /\ Goto("idle")
  /\ Provoke(Syn + Reset)
  /\ UNCHANGED <<ledger, client, transmit, server, allowed, wire>>
ConnectFails ==
  /\ At("dial")
  /\ ledger' = ReleasedAt(ledger, "connect", AbortTail)
  /\ Goto("idle")
  /\ Provoke(Syn + Reset)
  /\ UNCHANGED <<client, transmit, server, allowed, wire>>

(* The peer's kernel acknowledges the HELLO or a frame with a segment of its *)
(* own.                                                                      *)
PeerAcks ==
  /\ loop.pc \in {"hello", "await"} /\ ~loop.acked
  /\ loop' = [loop EXCEPT !.acked = TRUE]
  /\ Emit(Pure)
  /\ UNCHANGED <<ledger, client, transmit, server, allowed, late>>

HelloAnswered(codec) ==
  /\ At("hello")
  /\ Emit(Answer + Pure)
  /\ ledger' = ReleasedAt(ledger, "connect", FlushTail)
  /\ conn' = TRUE /\ z1' = codec
  /\ Goto("ready")
  /\ UNCHANGED <<answer, transmit, server, allowed, late>>

(* No answer in kHelloTimeoutMs: the link is up, and the answer may come.    *)
HelloSilent ==
  /\ At("hello") /\ loop.acked
  /\ ledger' = ReleasedPart(ledger, "connect", ConnectCostBytes - LateAnswer, EmissionTail)
  /\ conn' = TRUE /\ answer' = "due"
  /\ Goto("ready")
  /\ UNCHANGED <<z1, transmit, server, allowed, wire, late>>

HelloLost ==
  /\ At("hello") /\ ~loop.acked
  /\ ledger' = Closed(ledger)
  /\ Goto("idle")
  /\ Emit(Reset)
  /\ Provoke(Pure + Reset + Answer + Reset)
  /\ UNCHANGED <<client, transmit, server, allowed>>

(* It lands in the socket, to be read as the ACK of the next frame.          *)
HelloLate ==
  /\ conn /\ answer = "due"
  /\ answer' = "unread"
  /\ Emit(Answer + Pure)
  /\ UNCHANGED <<ledger, loop, conn, z1, transmit, server, allowed, late>>

(* A plain DATA line fits no share: the link is dropped.                     *)
Oversize ==
  /\ At("ready") /\ ~z1
  /\ LET fits == Admits(Reset, loop.prio)
         L == IF fits THEN Charged(ledger, Reset) ELSE ledger
     IN  ledger' = Closed(L) /\ Emit(IF fits THEN Reset ELSE 0)
  /\ Provoke(Unanswered)
  /\ Disconnected
  /\ Goto("idle")
  /\ UNCHANGED <<transmit, server, allowed>>

AskRoom ==
  /\ At("ready")
  /\ Goto("wait")
  /\ UNCHANGED <<ledger, client, transmit, server, allowed, wire, late>>

Admitted ==
  /\ At("wait") /\ Admits(FrameCostBytes, loop.prio)
  /\ ledger' = Held(ledger, "frame", FrameCostBytes)
  /\ Goto("admitted")
  /\ UNCHANGED <<client, transmit, server, allowed, wire, late>>

NoBudget ==
  /\ At("wait")
  /\ Goto("idle")
  /\ UNCHANGED <<ledger, client, transmit, server, allowed, wire, late>>

(* The link changed while the loop waited: nothing was sent.                 *)
LinkChanged ==
  /\ At("admitted") /\ ~(conn /\ transmit)
  /\ ledger' = ReleasedAt(Refunded(ledger, "frame", FrameCostBytes), "frame", 0)
  /\ Goto("idle")
  /\ UNCHANGED <<client, transmit, server, allowed, wire, late>>

Send ==
  /\ At("admitted") /\ conn /\ transmit
  /\ Emit(Frame)
  /\ ledger' = ReleasedPart(ledger, "frame", Frame, 0)
  /\ loop' = [loop EXCEPT !.pc = "await", !.acked = FALSE]
  /\ UNCHANGED <<client, transmit, server, allowed, late>>

(* abort_exchange: the reset for a late TCP ACK is refunded when the ACK     *)
(* came.  `sent` bytes of the frame go out first; `pending`: its answer may  *)
(* still be on its way.                                                      *)
AbortExchange(sent, acked, pending) ==
  /\ LET L == IF acked THEN Refunded(ledger, "frame", Reset) ELSE ledger
     IN  ledger' = ReleasedAt(Closed(L), "frame", AbortTail)
  /\ Provoke(Unanswered + (IF acked THEN 0 ELSE Pure + Reset)
               + (IF pending THEN Answer + Reset ELSE 0))
  /\ Disconnected
  /\ Goto("idle")
  /\ UNCHANGED <<transmit, server, allowed>>
  /\ Emit(sent + Reset)

SendFails ==
  /\ At("admitted") /\ conn /\ transmit
  /\ \/ AbortExchange(0, TRUE, FALSE)
     \/ AbortExchange(Frame, FALSE, TRUE)

(* No ACK before the deadline.                                               *)
AckTimeout ==
  /\ At("await") /\ answer # "unread"
  /\ AbortExchange(0, loop.acked, TRUE)

(* The line read is not the ACK of this frame: the late answer to the HELLO, *)
(* or another line than the ACK.                                             *)
AckMismatch ==
  /\ At("await")
  /\ \/ answer = "unread" /\ AbortExchange(0, loop.acked, TRUE)
     \/ answer # "unread" /\ AbortExchange(Answer + Pure, TRUE, FALSE)

(* The ACK in time: no resets; without a TCP ACK of its own, that neither.   *)
Acknowledged ==
  /\ At("await") /\ answer # "unread"
  /\ Emit(Answer + Pure)
  /\ \E back \in {2 * Reset} \cup (IF loop.acked THEN {} ELSE {2 * Reset + Pure}) :
       ledger' = ReleasedAt(ReleasedAt(Refunded(ledger, "frame", back), "frame", FlushTail),
                            "connect", FlushTail)
  /\ answer' = "none"
  /\ Goto("idle")
  /\ UNCHANGED <<conn, z1, transmit, server, allowed, late>>

-----------------------------------------------------------------------------
(* The command thread.  A command from another ground station drops the link *)
(* (ObserveGroundStation), RADIO_SILENCE and RADIO_RESUME set transmit; each *)
(* command is answered, in chunks.                                           *)
Command ==
  /\ server.pc = "idle"
  /\ \/ Free /\ transmit' \in {transmit, FALSE} /\ DropLink
     \/ Free /\ transmit' = TRUE /\ UNCHANGED <<ledger, late, client>>
     \/ UNCHANGED <<transmit, ledger, late, client>>
  /\ server' = [pc |-> "wait", first |-> TRUE]
  /\ UNCHANGED <<loop, allowed, wire>>

ReplyChunk ==
  /\ server.pc = "wait" /\ Admits(ChunkCost(server.first), 0)
  /\ LET cost == ChunkCost(server.first)
     IN  ledger' = ReleasedPart(Held(ledger, "reply", cost), "reply",
                                cost - 2 * Reset - Pure, 0)
  /\ Emit(ChunkBytes(server.first))
  /\ server' = [server EXCEPT !.pc = "await"]
  /\ UNCHANGED <<loop, client, transmit, allowed, late>>

ReplySendFails ==
  /\ server.pc = "wait" /\ Admits(ChunkCost(server.first), 0)
  /\ ledger' = ReleasedAt(Held(ledger, "reply", ChunkCost(server.first)), "reply", AbortTail)
  /\ \/ Emit(Reset) /\ UNCHANGED late
     \/ Emit(ChunkBytes(server.first) + Reset) /\ Provoke(Pure + Reset)
  /\ server' = AtIdle
  /\ UNCHANGED <<loop, client, transmit, allowed>>

ReplyNoBudget ==
  /\ server.pc = "wait"
  /\ server' = AtIdle
  /\ UNCHANGED <<ledger, loop, client, transmit, allowed, wire, late>>

ChunkAcknowledged ==
  /\ server.pc = "await"
  /\ Emit(Pure)
  /\ ledger' = ReleasedAt(Refunded(ledger, "reply", 2 * Reset), "reply", EmissionTail)
  /\ server' \in {AtIdle, [pc |-> "wait", first |-> FALSE]}
  /\ UNCHANGED <<loop, client, transmit, allowed, late>>

(* abort_reply                                                               *)
ReplyTimeout ==
  /\ server.pc = "await"
  /\ Emit(Reset)
  /\ Provoke(Pure + Reset)
  /\ ledger' = ReleasedAt(ledger, "reply", AbortTail)
  /\ server' = AtIdle
  /\ UNCHANGED <<loop, client, transmit, allowed>>

-----------------------------------------------------------------------------
(* beacon_allowed, hello_reply_allowed: read under mu_, used after it.       *)
MayAnnounce(a) ==
  /\ a \notin allowed /\ Free /\ transmit /\ ~conn
  /\ allowed' = allowed \cup {a}
  /\ UNCHANGED <<ledger, loop, client, transmit, server, wire, late>>

Announce(a) ==
  /\ a \in allowed
  /\ allowed' = allowed \ {a}
  /\ IF Admits(Beacon, 2)
     THEN ledger' = Charged(ledger, Beacon) /\ Emit(Beacon)
     ELSE UNCHANGED <<ledger, wire>>
  /\ UNCHANGED <<loop, client, transmit, server, late>>

-----------------------------------------------------------------------------
(* What was on its way comes in, at any time before it is too late.          *)
LateSegments ==
  /\ \E k \in 0 .. LateBy : \E bytes \in 1 .. late[k] :
       late' = [late EXCEPT ![k] = @ - bytes] /\ Emit(bytes)
  /\ UNCHANGED <<ledger, loop, client, transmit, server, allowed>>

Tick ==
  /\ ledger' = Passed(ledger)
  /\ wire' = [i \in 0 .. Window - 1 |-> IF i = 0 THEN 0 ELSE wire[i - 1]]
  /\ late' = [k \in 0 .. LateBy |-> IF k = LateBy THEN 0 ELSE late[k + 1]]
  /\ UNCHANGED <<loop, client, transmit, server, allowed>>

Next ==
  \/ Failover \/ Connects \/ ConnectFails \/ PeerAcks
  \/ HelloSilent \/ HelloLost \/ HelloLate \/ Oversize
  \/ AskRoom \/ Admitted \/ NoBudget \/ LinkChanged \/ Send \/ SendFails
  \/ AckTimeout \/ AckMismatch \/ Acknowledged
  \/ \E prio \in {1, 3} : SendFrame(prio) \/ Dial(prio)
  \/ \E codec \in BOOLEAN : HelloAnswered(codec)
  \/ Command \/ ReplyChunk \/ ReplySendFails \/ ReplyNoBudget
  \/ ChunkAcknowledged \/ ReplyTimeout
  \/ \E a \in Announcer : MayAnnounce(a) \/ Announce(a)
  \/ LateSegments \/ Tick

Spec == Init /\ [][Next]_vars

-----------------------------------------------------------------------------
TypeOK ==
  /\ ledger \in Ledger
  /\ loop \in [pc : {"idle", "dial", "hello", "ready", "wait", "admitted", "await"},
               prio : {1, 3}, acked : BOOLEAN]
  /\ conn \in BOOLEAN /\ z1 \in BOOLEAN /\ answer \in {"none", "due", "unread"}
  /\ transmit \in BOOLEAN
  /\ server \in [pc : {"idle", "wait", "await"}, first : BOOLEAN]
  /\ allowed \subseteq Announcer
  /\ wire \in [0 .. Window - 1 -> Nat] /\ late \in [0 .. LateBy -> Nat]

(* No window on the wire carries more than the onboard's share (the comment  *)
(* of class LinkBudget): whatever is lost, late, reset or answered twice,    *)
(* every byte is inside its charge while that counts.                        *)
WindowCapped == SumFunction(wire) <= Share

(* With the types, the bound on the ledger that admission keeps included.    *)
ShareSound == TypeOK /\ WindowCapped

(* A hold is open only during its exchange: one that is not closed on some   *)
(* path takes its bytes from the share for ever.                             *)
HoldsEnd ==
  /\ ledger.open["frame"] > 0 => loop.pc \in {"admitted", "await"}
  /\ ledger.open["reply"] > 0 => server.pc = "await"
  /\ ledger.open["connect"] > 0 =>
       loop.pc \in {"dial", "hello"} \/ (conn /\ answer # "none")

(* RADIO_SILENCE: no connection, and no exchange under way or to come, even  *)
(* by a frame that was waiting for room when the command came.               *)
SilenceHolds == ~transmit => ~conn /\ Free
=============================================================================
