------------------------- MODULE LinkTrafficProofs --------------------------
(***************************************************************************)
(* No hold outlives its exchange, silence is silent, and no window on the  *)
(* wire carries more than the share, whatever the sizes, the share, the    *)
(* window and the tails.                                                   *)
(***************************************************************************)
EXTENDS LinkTraffic, FiniteSetTheorems, WellFoundedInduction, TLAPS

(* What the ledger is without the bound that admission gives it, which       *)
(* Capped adds.                                                              *)
Books == [open : [Ticket -> Nat], closed : [Ends -> Nat]]
Step == {"idle", "dial", "hello", "ready", "wait", "admitted", "await"}
LoopType == [pc : Step, prio : {1, 3}, acked : BOOLEAN]
ServerType == [pc : {"idle", "wait", "await"}, first : BOOLEAN]

Inv ==
  /\ ledger \in Books
  /\ loop \in LoopType
  /\ server \in ServerType
  /\ conn \in BOOLEAN /\ answer \in {"none", "due", "unread"}
  /\ transmit \in BOOLEAN
  /\ HoldsEnd
  /\ SilenceHolds

-----------------------------------------------------------------------------
(* The ledger's operations keep it well formed and touch one hold each.      *)
LEMMA MinOfTwo ==
  ASSUME NEW a \in Nat, NEW b \in Nat
  PROVE  /\ Min({a, b}) \in {a, b}
         /\ Min({a, b}) <= a /\ Min({a, b}) <= b
<1>1. \E x \in {a, b} : \A y \in {a, b} : x <= y
  <2>1. CASE a <= b
    BY <2>1
  <2>2. CASE b <= a
    BY <2>2
  <2> QED
    BY <2>1, <2>2
<1> QED
  BY <1>1 DEF Min

LEMMA TailsAreEnds ==
  /\ 0 \in Ends /\ AbortTail \in Ends /\ EmissionTail \in Ends /\ FlushTail \in Ends
BY BudgetAssumption, TrafficAssumption DEF Ends

LEMMA HeldBooks ==
  ASSUME NEW L \in Books, NEW t \in Ticket, NEW b \in Nat
  PROVE  /\ Held(L, t, b) \in Books
         /\ \A u \in Ticket : u # t => Held(L, t, b).open[u] = L.open[u]
BY DEF Held, Books

LEMMA ChargedBooks ==
  ASSUME NEW L \in Books, NEW b \in Nat
  PROVE  Charged(L, b) \in Books /\ Charged(L, b).open = L.open
BY TailsAreEnds DEF Charged, Books

LEMMA ReleasedPartBooks ==
  ASSUME NEW L \in Books, NEW t \in Ticket, NEW b \in Nat, NEW w \in Ends
  PROVE  /\ ReleasedPart(L, t, b, w) \in Books
         /\ \A u \in Ticket : u # t => ReleasedPart(L, t, b, w).open[u] = L.open[u]
<1> DEFINE part == Min({b, L.open[t]})
<1>1. L.open[t] \in Nat
  BY DEF Books
<1>2. part \in Nat /\ part <= L.open[t]
  BY <1>1, MinOfTwo
<1>3. ReleasedPart(L, t, b, w) =
        [L EXCEPT !.open[t] = @ - part, !.closed[w] = @ + part]
  BY DEF ReleasedPart
<1> HIDE DEF part
<1>4. L.open[t] - part \in Nat
  BY <1>1, <1>2
<1>5. L.closed[w] \in Nat /\ L.closed[w] + part \in Nat
  BY <1>2 DEF Books
<1> DEFINE o == [L.open EXCEPT ![t] = @ - part]
           c == [L.closed EXCEPT ![w] = @ + part]
<1>6. o \in [Ticket -> Nat] /\ \A u \in Ticket : u # t => o[u] = L.open[u]
  BY <1>4 DEF Books
<1>7. c \in [Ends -> Nat]
  BY <1>5 DEF Books
<1>8. ReleasedPart(L, t, b, w) = [open |-> o, closed |-> c]
  BY <1>3 DEF Books
<1> HIDE DEF o, c
<1> QED
  BY <1>6, <1>7, <1>8 DEF Books

LEMMA ReleasedAtBooks ==
  ASSUME NEW L \in Books, NEW t \in Ticket, NEW w \in Ends
  PROVE  /\ ReleasedAt(L, t, w) \in Books
         /\ ReleasedAt(L, t, w).open[t] = 0
         /\ \A u \in Ticket : u # t => ReleasedAt(L, t, w).open[u] = L.open[u]
<1> DEFINE b == L.open[t]
<1>1. b \in Nat
  BY DEF Books
<1>2. Min({b, b}) = b
  BY <1>1, MinOfTwo
<1>3. ReleasedAt(L, t, w) = [L EXCEPT !.open[t] = @ - b, !.closed[w] = @ + b]
  BY <1>2 DEF ReleasedAt, ReleasedPart
<1>4. ReleasedAt(L, t, w).open[t] = 0
  BY <1>1, <1>3 DEF Books
<1> QED
  BY <1>1, <1>4, ReleasedPartBooks DEF ReleasedAt

LEMMA RefundedBooks ==
  ASSUME NEW L \in Books, NEW t \in Ticket, NEW b \in Nat
  PROVE  /\ Refunded(L, t, b) \in Books
         /\ \A u \in Ticket : u # t => Refunded(L, t, b).open[u] = L.open[u]
<1>1. L.open[t] \in Nat
  BY DEF Books
<1>2. Min({b, L.open[t]}) \in Nat /\ Min({b, L.open[t]}) <= L.open[t]
  BY <1>1, MinOfTwo
<1> QED
  BY <1>1, <1>2 DEF Books, Refunded

LEMMA PassedBooks ==
  ASSUME NEW L \in Books
  PROVE  Passed(L) \in Books /\ Passed(L).open = L.open
BY DEF Passed, Books

(* The bytes that an abort takes back first.                                 *)
LEMMA ClosedBooks ==
  ASSUME NEW L \in Books
  PROVE  /\ Closed(L) \in Books
         /\ Closed(L).open["connect"] = 0
         /\ \A u \in Ticket : u # "connect" => Closed(L).open[u] = L.open[u]
BY TailsAreEnds, ReleasedAtBooks, TrafficAssumption DEF Closed

LEMMA CostsAreNumbers ==
  /\ FrameCostBytes \in Nat /\ ConnectCostBytes \in Nat /\ LateAnswer \in Nat
  /\ ConnectCostBytes - LateAnswer \in Nat
  /\ Beacon \in Nat /\ Reset \in Nat /\ Frame \in Nat /\ 2 * Reset \in Nat
  /\ 2 * Reset + Pure \in Nat
  /\ \A first \in BOOLEAN :
       /\ ChunkCost(first) \in Nat
       /\ ChunkCost(first) - 2 * Reset - Pure \in Nat
BY TrafficAssumption
DEF FrameCostBytes, ConnectCostBytes, LateAnswer, ChunkCost, ChunkBytes

-----------------------------------------------------------------------------
(* The steps of the control loop.                                            *)
LEMMA InitInv == Init => Inv
<1> SUFFICES ASSUME Init PROVE Inv
  OBVIOUS
<1>1. NoEntries \in Books /\ \A t \in Ticket : NoEntries.open[t] = 0
  BY DEF NoEntries, Books
<1>2. ledger \in Books /\ HoldsEnd
  BY <1>1, TrafficAssumption DEF Init, HoldsEnd
<1>3. loop \in LoopType /\ server \in ServerType
  BY DEF Init, Idle, AtIdle, LoopType, Step, ServerType
<1> QED
  BY <1>2, <1>3 DEF Init, Inv, SilenceHolds

LEMMA DropLinkInv ==
  ASSUME Inv, DropLink
  PROVE  /\ ledger' \in Books
         /\ conn' \in BOOLEAN /\ answer' \in {"none", "due", "unread"}
         /\ ledger'.open["connect"] = 0 \/ (ledger' = ledger /\ ~conn)
         /\ \A u \in Ticket : u # "connect" => ledger'.open[u] = ledger.open[u]
         /\ ~conn'
<1>1. CASE conn
  <2>1. ledger' = Closed(ledger) /\ conn' = FALSE /\ answer' = "none"
    BY <1>1 DEF DropLink, Disconnected
  <2>2. /\ ledger' \in Books /\ ledger'.open["connect"] = 0
        /\ \A u \in Ticket : u # "connect" => ledger'.open[u] = ledger.open[u]
    BY <2>1, ClosedBooks DEF Inv
  <2>3. ~conn' /\ conn' \in BOOLEAN /\ answer' \in {"none", "due", "unread"}
    BY <2>1
  <2> QED
    BY <2>2, <2>3
<1>2. CASE ~conn
  BY <1>2 DEF Inv, DropLink, client
<1> QED
  BY <1>1, <1>2

LEMMA FailoverInv == ASSUME Inv, Failover PROVE Inv'
BY DropLinkInv, TrafficAssumption
DEF Failover, Inv, At, HoldsEnd, SilenceHolds, Free, LoopType, Step, ServerType

LEMMA SendFrameInv == ASSUME Inv, NEW p \in {1, 3}, SendFrame(p) PROVE Inv'
BY DEF SendFrame, Inv, At, Idle, HoldsEnd, SilenceHolds, Free, LoopType, Step,
       ServerType, client

LEMMA DialInv == ASSUME Inv, NEW p \in {1, 3}, Dial(p) PROVE Inv'
<1> DEFINE L == Held(ledger, "connect", ConnectCostBytes)
<1>1. L \in Books /\ \A u \in Ticket : u # "connect" => L.open[u] = ledger.open[u]
  BY HeldBooks, CostsAreNumbers, TrafficAssumption DEF Inv
<1>2. /\ ReleasedAt(L, "connect", 0) \in Books
      /\ ReleasedAt(L, "connect", 0).open["connect"] = 0
      /\ \A u \in Ticket : u # "connect" =>
           ReleasedAt(L, "connect", 0).open[u] = L.open[u]
  BY <1>1, TailsAreEnds, ReleasedAtBooks, TrafficAssumption
<1>3. CASE /\ ledger' = L
           /\ loop' = [Idle EXCEPT !.pc = "dial", !.prio = p]
  BY <1>1, <1>3, TrafficAssumption
  DEF Dial, Inv, At, Idle, HoldsEnd, SilenceHolds, Free, LoopType, Step,
      ServerType, client
<1>4. CASE ledger' = ReleasedAt(L, "connect", 0) /\ UNCHANGED loop
  BY <1>1, <1>2, <1>4, TrafficAssumption
  DEF Dial, Inv, At, HoldsEnd, SilenceHolds, Free, LoopType, Step, ServerType, client
<1> QED
  BY <1>3, <1>4 DEF Dial

LEMMA ConnectsInv == ASSUME Inv, Connects PROVE Inv'
BY DEF Connects, Inv, At, Goto, HoldsEnd, SilenceHolds, Free, LoopType, Step,
       ServerType, client

(* The connect hold released, the others as they were.                       *)
ConnectOver ==
  /\ ledger' \in Books /\ ledger'.open["connect"] = 0
  /\ ledger'.open["frame"] = ledger.open["frame"]
  /\ ledger'.open["reply"] = ledger.open["reply"]

LEMMA ReleaseEnds ==
  ASSUME Inv, NEW w \in Ends, ledger' = ReleasedAt(ledger, "connect", w)
  PROVE  ConnectOver
BY ReleasedAtBooks, TrafficAssumption DEF ConnectOver, Inv

LEMMA ConnectFailsInv == ASSUME Inv, ConnectFails PROVE Inv'
<1>1. ConnectOver
  BY TailsAreEnds, ReleaseEnds DEF ConnectFails
<1> QED
  BY <1>1
  DEF ConnectOver, ConnectFails, Inv, At, Goto, HoldsEnd, SilenceHolds, Free, LoopType, Step,
    ServerType, client

LEMMA PeerAcksInv == ASSUME Inv, PeerAcks PROVE Inv'
BY DEF PeerAcks, Inv, HoldsEnd, SilenceHolds, Free, LoopType, Step, ServerType, client

LEMMA HelloAnsweredInv ==
  ASSUME Inv, NEW codec \in BOOLEAN, HelloAnswered(codec)
  PROVE  Inv'
<1>1. ConnectOver
  BY TailsAreEnds, ReleaseEnds DEF HelloAnswered
<1> QED
  BY <1>1
  DEF ConnectOver, HelloAnswered, Inv, At, Goto, HoldsEnd, SilenceHolds, Free,
      LoopType, Step, ServerType

LEMMA HelloSilentInv == ASSUME Inv, HelloSilent PROVE Inv'
<1> DEFINE part == ConnectCostBytes - LateAnswer
<1>1. part \in Nat
  BY CostsAreNumbers
<1>2. ledger' = ReleasedPart(ledger, "connect", part, EmissionTail)
  BY DEF HelloSilent
<1> HIDE DEF part
<1>. "connect" \in Ticket /\ "frame" \in Ticket /\ "reply" \in Ticket
  BY TrafficAssumption
<1>. EmissionTail \in Ends /\ ledger \in Books
  BY TailsAreEnds DEF Inv
<1>3. /\ ledger' \in Books
      /\ ledger'.open["frame"] = ledger.open["frame"]
      /\ ledger'.open["reply"] = ledger.open["reply"]
  BY <1>1, <1>2, ReleasedPartBooks
<1> QED
  BY <1>3
  DEF HelloSilent, Inv, At, Goto, HoldsEnd, SilenceHolds, Free, LoopType, Step,
    ServerType

LEMMA HelloLostInv == ASSUME Inv, HelloLost PROVE Inv'
<1>1. ConnectOver
  BY TailsAreEnds, ReleaseEnds DEF HelloLost, Closed
<1> QED
  BY <1>1
  DEF ConnectOver, HelloLost, Inv, At, Goto, HoldsEnd, SilenceHolds, Free, LoopType, Step,
    ServerType, client

LEMMA HelloLateInv == ASSUME Inv, HelloLate PROVE Inv'
BY DEF HelloLate, Inv, HoldsEnd, SilenceHolds, Free, LoopType, Step, ServerType

LEMMA OversizeInv == ASSUME Inv, Oversize PROVE Inv'
<1>1. PICK L \in {ledger, Charged(ledger, Reset)} : ledger' = Closed(L)
  BY DEF Oversize
<1>2. L \in Books /\ L.open = ledger.open
  BY <1>1, ChargedBooks, CostsAreNumbers DEF Inv
<1>3. ConnectOver
  BY <1>1, <1>2, ClosedBooks, TrafficAssumption DEF ConnectOver
<1>4. conn' = FALSE /\ answer' = "none" /\ loop' = [loop EXCEPT !.pc = "idle"]
      /\ UNCHANGED <<transmit, server>>
  BY DEF Oversize, Disconnected, Goto
<1>5. loop.pc = "ready" /\ loop' \in LoopType /\ loop'.pc = "idle"
  BY <1>4 DEF Oversize, At, Inv, LoopType, Step
<1>6. HoldsEnd'
  BY <1>3, <1>4, <1>5 DEF Inv, HoldsEnd, ConnectOver
<1> QED
  BY <1>3, <1>4, <1>5, <1>6 DEF ConnectOver, Inv, SilenceHolds, Free

LEMMA WaitInv == ASSUME Inv, AskRoom \/ NoBudget PROVE Inv'
BY DEF AskRoom, NoBudget, Inv, At, Goto, HoldsEnd, SilenceHolds, Free, LoopType,
       Step, ServerType, client

LEMMA AdmittedInv == ASSUME Inv, Admitted PROVE Inv'
<1>. FrameCostBytes \in Nat /\ ledger \in Books
  BY CostsAreNumbers DEF Inv
<1>. "connect" \in Ticket /\ "frame" \in Ticket /\ "reply" \in Ticket
  BY TrafficAssumption
<1>0. ledger' = Held(ledger, "frame", FrameCostBytes)
  BY DEF Admitted
<1>1. /\ ledger' \in Books
      /\ ledger'.open["connect"] = ledger.open["connect"]
      /\ ledger'.open["reply"] = ledger.open["reply"]
  BY <1>0, HeldBooks
<1> QED
  BY <1>1
  DEF Admitted, Inv, At, Goto, HoldsEnd, SilenceHolds, Free, LoopType, Step,
    ServerType, client

(* The frame hold released or refunded, the others as they were.             *)
FrameOver ==
  /\ ledger' \in Books /\ ledger'.open["frame"] = 0
  /\ ledger'.open["reply"] = ledger.open["reply"]

LEMMA LinkChangedInv == ASSUME Inv, LinkChanged PROVE Inv'
<1> DEFINE L == Refunded(ledger, "frame", FrameCostBytes)
<1>. FrameCostBytes \in Nat /\ ledger \in Books
  BY CostsAreNumbers DEF Inv
<1>. "connect" \in Ticket /\ "frame" \in Ticket /\ "reply" \in Ticket
  BY TrafficAssumption
<1>. 0 \in Ends /\ AbortTail \in Ends /\ EmissionTail \in Ends /\ FlushTail \in Ends
  BY TailsAreEnds
<1>. Reset \in Nat /\ 2 * Reset \in Nat
  BY CostsAreNumbers
<1>. ledger \in Books
  BY DEF Inv
<1>1. L \in Books /\ \A u \in Ticket : u # "frame" => L.open[u] = ledger.open[u]
  BY RefundedBooks
<1> HIDE DEF L
<1> DEFINE M == ReleasedAt(L, "frame", 0)
<1>2. M \in Books /\ M.open["frame"] = 0
  BY <1>1, ReleasedAtBooks
<1>3. \A u \in Ticket : u # "frame" => M.open[u] = L.open[u]
  BY <1>1, ReleasedAtBooks
<1>4. ledger' = M
  BY DEF LinkChanged, L
<1> HIDE DEF M
<1>5. FrameOver /\ ledger'.open["connect"] = ledger.open["connect"]
  BY <1>1, <1>2, <1>3, <1>4 DEF FrameOver
<1> QED
  BY <1>5
  DEF FrameOver, LinkChanged, Inv, At, Goto, HoldsEnd, SilenceHolds, Free, LoopType,
      Step, ServerType, client

LEMMA SendInv == ASSUME Inv, Send PROVE Inv'
<1>. Frame \in Nat /\ ledger \in Books /\ 0 \in Ends
  BY CostsAreNumbers, TailsAreEnds DEF Inv
<1>. "connect" \in Ticket /\ "frame" \in Ticket /\ "reply" \in Ticket
  BY TrafficAssumption
<1>. 0 \in Ends /\ AbortTail \in Ends /\ EmissionTail \in Ends /\ FlushTail \in Ends
  BY TailsAreEnds
<1>. Reset \in Nat /\ 2 * Reset \in Nat
  BY CostsAreNumbers
<1>. ledger \in Books
  BY DEF Inv
<1>1. ledger' = ReleasedPart(ledger, "frame", Frame, 0)
  BY DEF Send
<1> DEFINE M == ReleasedPart(ledger, "frame", Frame, 0)
<1>2. M \in Books /\ \A u \in Ticket : u # "frame" => M.open[u] = ledger.open[u]
  BY ReleasedPartBooks
<1> HIDE DEF M
<1>3. /\ ledger' \in Books
      /\ ledger'.open["connect"] = ledger.open["connect"]
      /\ ledger'.open["reply"] = ledger.open["reply"]
  BY <1>1, <1>2 DEF M
<1> QED
  BY <1>3
  DEF Send, Inv, At, HoldsEnd, SilenceHolds, Free, LoopType, Step, ServerType, client

(* Every way that an exchange ends without its ACK.                          *)
LEMMA AbortExchangeInv ==
  ASSUME Inv, NEW sent, NEW acked \in BOOLEAN, NEW pending,
         AbortExchange(sent, acked, pending)
  PROVE  Inv'
<1>. "connect" \in Ticket /\ "frame" \in Ticket /\ "reply" \in Ticket
  BY TrafficAssumption
<1>. 0 \in Ends /\ AbortTail \in Ends /\ EmissionTail \in Ends /\ FlushTail \in Ends
  BY TailsAreEnds
<1>. Reset \in Nat /\ 2 * Reset \in Nat
  BY CostsAreNumbers
<1>. ledger \in Books
  BY DEF Inv
<1>1. PICK L \in {ledger, Refunded(ledger, "frame", Reset)} :
        ledger' = ReleasedAt(Closed(L), "frame", AbortTail)
  BY DEF AbortExchange
<1>2. L \in Books /\ L.open["reply"] = ledger.open["reply"]
  BY <1>1, RefundedBooks
<1>3. /\ Closed(L) \in Books /\ Closed(L).open["connect"] = 0
      /\ Closed(L).open["reply"] = ledger.open["reply"]
  BY <1>2, ClosedBooks
<1> DEFINE M == ReleasedAt(Closed(L), "frame", AbortTail)
<1>31. M \in Books /\ M.open["frame"] = 0
  BY <1>3, ReleasedAtBooks
<1>32. \A u \in Ticket : u # "frame" => M.open[u] = Closed(L).open[u]
  BY <1>3, ReleasedAtBooks
<1>33. ledger' = M
  BY <1>1
<1> HIDE DEF M
<1>4. FrameOver /\ ledger'.open["connect"] = 0
  BY <1>3, <1>31, <1>32, <1>33 DEF FrameOver
<1>5. conn' = FALSE /\ answer' = "none" /\ loop' = [loop EXCEPT !.pc = "idle"]
      /\ UNCHANGED <<transmit, server>>
  BY DEF AbortExchange, Disconnected, Goto
<1>6. loop' \in LoopType /\ loop'.pc = "idle"
  BY <1>5 DEF Inv, LoopType, Step
<1>7. HoldsEnd'
  BY <1>4, <1>5 DEF Inv, HoldsEnd, FrameOver
<1> QED
  BY <1>4, <1>5, <1>6, <1>7 DEF FrameOver, Inv, SilenceHolds, Free

LEMMA AbortsInv == ASSUME Inv, SendFails \/ AckTimeout \/ AckMismatch PROVE Inv'
<1>. loop.acked \in BOOLEAN
  BY DEF Inv, LoopType
<1> QED
  BY AbortExchangeInv DEF SendFails, AckTimeout, AckMismatch

LEMMA AcknowledgedInv == ASSUME Inv, Acknowledged PROVE Inv'
<1>. "connect" \in Ticket /\ "frame" \in Ticket /\ "reply" \in Ticket
  BY TrafficAssumption
<1>. 0 \in Ends /\ AbortTail \in Ends /\ EmissionTail \in Ends /\ FlushTail \in Ends
  BY TailsAreEnds
<1>. Reset \in Nat /\ 2 * Reset \in Nat
  BY CostsAreNumbers
<1>. ledger \in Books
  BY DEF Inv
<1>1. PICK back \in Nat :
        ledger' = ReleasedAt(ReleasedAt(Refunded(ledger, "frame", back), "frame", FlushTail),
                             "connect", FlushTail)
  BY CostsAreNumbers DEF Acknowledged
<1> DEFINE L == Refunded(ledger, "frame", back)
           M == ReleasedAt(L, "frame", FlushTail)
<1>2. L \in Books /\ L.open["reply"] = ledger.open["reply"]
  BY RefundedBooks DEF Inv
<1>3. ledger' = ReleasedAt(M, "connect", FlushTail)
  BY <1>1
<1> HIDE DEF L
<1>4. M \in Books /\ M.open["frame"] = 0 /\ M.open["reply"] = ledger.open["reply"]
  BY <1>2, ReleasedAtBooks
<1> HIDE DEF M
<1> DEFINE N == ReleasedAt(M, "connect", FlushTail)
<1>41. N \in Books /\ N.open["connect"] = 0
  BY <1>4, ReleasedAtBooks
<1>42. \A u \in Ticket : u # "connect" => N.open[u] = M.open[u]
  BY <1>4, ReleasedAtBooks
<1>43. ledger' = N
  BY <1>3
<1> HIDE DEF N
<1>5. FrameOver /\ ledger'.open["connect"] = 0
  BY <1>4, <1>41, <1>42, <1>43 DEF FrameOver
<1>6. loop' = [loop EXCEPT !.pc = "idle"] /\ answer' = "none"
      /\ UNCHANGED <<conn, transmit, server>>
  BY DEF Acknowledged, Goto
<1>7. loop' \in LoopType /\ loop'.pc = "idle" /\ loop.pc = "await"
  BY <1>6 DEF Inv, LoopType, Step, Acknowledged, At
<1>8. HoldsEnd'
  BY <1>5, <1>6 DEF Inv, HoldsEnd, FrameOver
<1> QED
  BY <1>5, <1>6, <1>7, <1>8 DEF FrameOver, Inv, SilenceHolds, Free

-----------------------------------------------------------------------------
(* The steps of the command thread, of the announcers and of the wire.       *)
LEMMA CommandInv == ASSUME Inv, Command PROVE Inv'
<1>1. server' = [pc |-> "wait", first |-> TRUE] /\ server.pc = "idle" /\ UNCHANGED loop
  BY DEF Command
<1>. "connect" \in Ticket /\ "frame" \in Ticket /\ "reply" \in Ticket
  BY TrafficAssumption
<1>. 0 \in Ends /\ AbortTail \in Ends /\ EmissionTail \in Ends /\ FlushTail \in Ends
  BY TailsAreEnds
<1>. Reset \in Nat /\ 2 * Reset \in Nat
  BY CostsAreNumbers
<1>. ledger \in Books
  BY DEF Inv
<1>2. CASE Free /\ transmit' \in {transmit, FALSE} /\ DropLink
  <2>1. /\ ledger' \in Books /\ ~conn' /\ answer' \in {"none", "due", "unread"}
        /\ conn' \in BOOLEAN
        /\ ledger'.open["connect"] = 0 \/ (ledger' = ledger /\ ~conn)
        /\ ledger'.open["frame"] = ledger.open["frame"]
        /\ ledger'.open["reply"] = ledger.open["reply"]
    BY <1>2, DropLinkInv
  <2>2. HoldsEnd'
    BY <2>1, <1>1 DEF Inv, HoldsEnd
  <2>3. transmit' \in BOOLEAN /\ Free'
    BY <1>1, <1>2 DEF Inv, Free
  <2>4. server' \in ServerType /\ loop' \in LoopType
    BY <1>1 DEF Inv, ServerType
  <2> QED
    BY <2>1, <2>2, <2>3, <2>4 DEF Inv, SilenceHolds
<1>3. CASE transmit' \in {transmit, TRUE} /\ UNCHANGED <<ledger, client>>
  BY <1>1, <1>3 DEF Inv, client, HoldsEnd, SilenceHolds, Free, ServerType
<1> QED
  BY <1>2, <1>3 DEF Command

(* The reply hold changed alone.                                             *)
ReplyOnly ==
  /\ ledger' \in Books
  /\ ledger'.open["connect"] = ledger.open["connect"]
  /\ ledger'.open["frame"] = ledger.open["frame"]

LEMMA ReplyStep ==
  ASSUME Inv, ReplyOnly, UNCHANGED <<loop, client, transmit>>,
         server' \in ServerType,
         ledger'.open["reply"] = 0 \/ server'.pc = "await"
  PROVE  Inv'
<1>1. HoldsEnd'
  BY DEF Inv, HoldsEnd, ReplyOnly, client
<1> QED
  BY <1>1 DEF Inv, ReplyOnly, client, SilenceHolds, Free

LEMMA ReplyChunkInv == ASSUME Inv, ReplyChunk PROVE Inv'
<1> DEFINE cost == ChunkCost(server.first)
           part == cost - 2 * Reset - Pure
           L == Held(ledger, "reply", cost)
<1>. "connect" \in Ticket /\ "frame" \in Ticket /\ "reply" \in Ticket
  BY TrafficAssumption
<1>. 0 \in Ends /\ AbortTail \in Ends /\ EmissionTail \in Ends /\ FlushTail \in Ends
  BY TailsAreEnds
<1>. Reset \in Nat /\ 2 * Reset \in Nat
  BY CostsAreNumbers
<1>. ledger \in Books
  BY DEF Inv
<1>1. cost \in Nat /\ part \in Nat
  BY CostsAreNumbers DEF Inv, ServerType
<1>2. ledger' = ReleasedPart(L, "reply", part, 0)
  BY DEF ReplyChunk
<1> HIDE DEF cost, part
<1>3. /\ L \in Books /\ L.open["connect"] = ledger.open["connect"]
      /\ L.open["frame"] = ledger.open["frame"]
  BY <1>1, HeldBooks DEF Inv
<1> HIDE DEF L
<1> DEFINE M == ReleasedPart(L, "reply", part, 0)
<1>31. M \in Books /\ \A u \in Ticket : u # "reply" => M.open[u] = L.open[u]
  BY <1>1, <1>3, ReleasedPartBooks
<1>32. ledger' = M
  BY <1>2
<1> HIDE DEF M
<1>4. ReplyOnly
  BY <1>3, <1>31, <1>32 DEF ReplyOnly
<1>5. server' \in ServerType /\ server'.pc = "await"
  BY DEF ReplyChunk, Inv, ServerType
<1> QED
  BY <1>4, <1>5, ReplyStep DEF ReplyChunk

LEMMA ReplySendFailsInv == ASSUME Inv, ReplySendFails PROVE Inv'
<1> DEFINE cost == ChunkCost(server.first)
           L == Held(ledger, "reply", cost)
<1>. "connect" \in Ticket /\ "frame" \in Ticket /\ "reply" \in Ticket
  BY TrafficAssumption
<1>. 0 \in Ends /\ AbortTail \in Ends /\ EmissionTail \in Ends /\ FlushTail \in Ends
  BY TailsAreEnds
<1>. Reset \in Nat /\ 2 * Reset \in Nat
  BY CostsAreNumbers
<1>. ledger \in Books
  BY DEF Inv
<1>1. cost \in Nat
  BY CostsAreNumbers DEF Inv, ServerType
<1>2. ledger' = ReleasedAt(L, "reply", AbortTail)
  BY DEF ReplySendFails
<1> HIDE DEF cost
<1>3. /\ L \in Books /\ L.open["connect"] = ledger.open["connect"]
      /\ L.open["frame"] = ledger.open["frame"]
  <2>1. L \in Books /\ \A u \in Ticket : u # "reply" => L.open[u] = ledger.open[u]
    BY <1>1, HeldBooks
  <2> HIDE DEF L
  <2> QED
    BY <2>1
<1> HIDE DEF L
<1>4. ReplyOnly /\ ledger'.open["reply"] = 0
  <2> DEFINE K == ReleasedAt(L, "reply", AbortTail)
  <2>1. K \in Books /\ K.open["reply"] = 0
    BY <1>3, ReleasedAtBooks
  <2>2. K.open["connect"] = L.open["connect"]
    BY <1>3, ReleasedAtBooks
  <2>3. K.open["frame"] = L.open["frame"]
    BY <1>3, ReleasedAtBooks
  <2> HIDE DEF K
  <2>4. ledger' = K
    BY <1>2 DEF K
  <2> QED
    BY <1>3, <2>1, <2>2, <2>3, <2>4 DEF ReplyOnly
<1>5. server' \in ServerType
  <2>1. server' = AtIdle
    BY DEF ReplySendFails
  <2> QED
    BY <2>1 DEF AtIdle, ServerType
<1> QED
  BY <1>4, <1>5, ReplyStep DEF ReplySendFails

LEMMA ReplyNoBudgetInv == ASSUME Inv, ReplyNoBudget PROVE Inv'
<1>1. server' \in ServerType
  BY DEF ReplyNoBudget, AtIdle, ServerType
<1>2. HoldsEnd'
  BY DEF ReplyNoBudget, Inv, HoldsEnd, client
<1> QED
  BY <1>1, <1>2 DEF ReplyNoBudget, Inv, SilenceHolds, Free, client

LEMMA ChunkAcknowledgedInv == ASSUME Inv, ChunkAcknowledged PROVE Inv'
<1> DEFINE L == Refunded(ledger, "reply", 2 * Reset)
<1>. "connect" \in Ticket /\ "frame" \in Ticket /\ "reply" \in Ticket
  BY TrafficAssumption
<1>. 0 \in Ends /\ AbortTail \in Ends /\ EmissionTail \in Ends /\ FlushTail \in Ends
  BY TailsAreEnds
<1>. Reset \in Nat /\ 2 * Reset \in Nat
  BY CostsAreNumbers
<1>. ledger \in Books
  BY DEF Inv
<1>2. ledger' = ReleasedAt(L, "reply", EmissionTail)
  BY DEF ChunkAcknowledged
<1>3. /\ L \in Books /\ L.open["connect"] = ledger.open["connect"]
      /\ L.open["frame"] = ledger.open["frame"]
  BY RefundedBooks
<1> HIDE DEF L
<1> DEFINE M == ReleasedAt(L, "reply", EmissionTail)
<1>31. M \in Books /\ M.open["reply"] = 0
  BY <1>3, ReleasedAtBooks
<1>32. \A u \in Ticket : u # "reply" => M.open[u] = L.open[u]
  BY <1>3, ReleasedAtBooks
<1>33. ledger' = M
  BY <1>2
<1> HIDE DEF M
<1>4. ReplyOnly /\ ledger'.open["reply"] = 0
  BY <1>3, <1>31, <1>32, <1>33 DEF ReplyOnly
<1>5. server' \in ServerType
  <2>1. AtIdle \in ServerType /\ [pc |-> "wait", first |-> FALSE] \in ServerType
    BY DEF AtIdle, ServerType
  <2> QED
    BY <2>1 DEF ChunkAcknowledged
<1> QED
  BY <1>4, <1>5, ReplyStep DEF ChunkAcknowledged

LEMMA ReplyTimeoutInv == ASSUME Inv, ReplyTimeout PROVE Inv'
<1>. "connect" \in Ticket /\ "frame" \in Ticket /\ "reply" \in Ticket
  BY TrafficAssumption
<1>. 0 \in Ends /\ AbortTail \in Ends /\ EmissionTail \in Ends /\ FlushTail \in Ends
  BY TailsAreEnds
<1>. Reset \in Nat /\ 2 * Reset \in Nat
  BY CostsAreNumbers
<1>. ledger \in Books
  BY DEF Inv
<1>1. ledger' = ReleasedAt(ledger, "reply", AbortTail)
  BY DEF ReplyTimeout
<1> DEFINE M == ReleasedAt(ledger, "reply", AbortTail)
<1>11. M \in Books /\ M.open["reply"] = 0
  BY ReleasedAtBooks
<1>12. \A u \in Ticket : u # "reply" => M.open[u] = ledger.open[u]
  BY ReleasedAtBooks
<1>13. ledger' = M
  BY <1>1
<1> HIDE DEF M
<1>2. ReplyOnly /\ ledger'.open["reply"] = 0
  BY <1>11, <1>12, <1>13 DEF ReplyOnly
<1>3. server' \in ServerType
  BY DEF ReplyTimeout, AtIdle, ServerType
<1> QED
  BY <1>2, <1>3, ReplyStep DEF ReplyTimeout

(* The steps that leave every hold as it is.                                 *)
LEMMA SameHolds ==
  ASSUME Inv, ledger' \in Books, ledger'.open = ledger.open,
         UNCHANGED <<loop, client, transmit, server>>
  PROVE  Inv'
<1>1. HoldsEnd'
  BY DEF Inv, HoldsEnd, client
<1> QED
  BY <1>1 DEF Inv, client, SilenceHolds, Free

LEMMA AnnounceInv ==
  ASSUME Inv, NEW a \in Announcer, MayAnnounce(a) \/ Announce(a)
  PROVE  Inv'
<1>1. ledger' = ledger \/ ledger' = Charged(ledger, Beacon)
  BY DEF MayAnnounce, Announce
<1>2. ledger' \in Books /\ ledger'.open = ledger.open
  BY <1>1, ChargedBooks, CostsAreNumbers DEF Inv
<1> QED
  BY <1>2, SameHolds DEF MayAnnounce, Announce

LEMMA WireInv == ASSUME Inv, LateSegments \/ Tick PROVE Inv'
<1>1. ledger' = ledger \/ ledger' = Passed(ledger)
  BY DEF LateSegments, Tick
<1>2. ledger' \in Books /\ ledger'.open = ledger.open
  BY <1>1, PassedBooks DEF Inv
<1> QED
  BY <1>2, SameHolds DEF LateSegments, Tick

-----------------------------------------------------------------------------
LEMMA NextInv == Inv /\ [Next]_vars => Inv'
<1> SUFFICES ASSUME Inv, [Next]_vars PROVE Inv'
  OBVIOUS
<1>1. CASE UNCHANGED vars
  BY <1>1 DEF vars, client, Inv, HoldsEnd, SilenceHolds, Free
<1>2. CASE \/ Failover \/ Connects \/ ConnectFails \/ PeerAcks
           \/ HelloSilent \/ HelloLost \/ HelloLate \/ Oversize
  BY <1>2, FailoverInv, ConnectsInv, ConnectFailsInv, PeerAcksInv, HelloSilentInv,
     HelloLostInv, HelloLateInv, OversizeInv
<1>3. CASE \/ AskRoom \/ Admitted \/ NoBudget \/ LinkChanged \/ Send \/ SendFails
           \/ AckTimeout \/ AckMismatch \/ Acknowledged
  BY <1>3, WaitInv, AdmittedInv, LinkChangedInv, SendInv, AbortsInv, AcknowledgedInv
<1>4. CASE \/ \E prio \in {1, 3} : SendFrame(prio) \/ Dial(prio)
           \/ \E codec \in BOOLEAN : HelloAnswered(codec)
  BY <1>4, SendFrameInv, DialInv, HelloAnsweredInv
<1>5. CASE \/ Command \/ ReplyChunk \/ ReplySendFails \/ ReplyNoBudget
           \/ ChunkAcknowledged \/ ReplyTimeout
  BY <1>5, CommandInv, ReplyChunkInv, ReplySendFailsInv, ReplyNoBudgetInv,
     ChunkAcknowledgedInv, ReplyTimeoutInv
<1>6. CASE \/ \E a \in Announcer : MayAnnounce(a) \/ Announce(a)
           \/ LateSegments \/ Tick
  BY <1>6, AnnounceInv, WireInv
<1> QED
  BY <1>1, <1>2, <1>3, <1>4, <1>5, <1>6 DEF Next

(* Every hold that TelemetryClient or CommandServer opens in the ledger is   *)
(* closed when its exchange ends, on every path: the connect hold may live   *)
(* on only while an unanswered HELLO of the live connection may be answered. *)
THEOREM HoldsSafe == Spec => []HoldsEnd
<1>1. Inv => HoldsEnd
  BY DEF Inv
<1> QED
  BY <1>1, InitInv, NextInv, PTL DEF Spec

(* After RADIO_SILENCE (SetTransmitEnabled(false)) there is no connection    *)
(* and no exchange, and SendFrame starts none, even for a frame that was     *)
(* waiting for room with mu_ released: its checks after WaitHold are enough. *)
THEOREM SilenceSafe == Spec => []SilenceHolds
<1>1. Inv => SilenceHolds
  BY DEF Inv
<1> QED
  BY <1>1, InitInv, NextInv, PTL DEF Spec

-----------------------------------------------------------------------------
(* A sum as the size of a set, which the fold of SumFunction is equal to.    *)
Bytes(f, A) == UNION {{a} \X (1 .. f[a]) : a \in A}
SumOver(f, A) == Cardinality(Bytes(f, A))

LEMMA MinimalSubset ==
  ASSUME NEW S, IsFiniteSet(S), NEW T, T \subseteq SUBSET S, T # {}
  PROVE  \E m \in T : \A U \in T : U \subseteq m => U = m
<1>1. T \subseteq FiniteSubsetsOf(S)
  BY FS_Subset DEF FiniteSubsetsOf
<1>2. IsWellFoundedOn(StrictSubsetOrdering(S), FiniteSubsetsOf(S))
  BY FS_StrictSubsetOrderingWellFounded
<1>3. PICK m \in T : \A U \in T : ~(<<U, m>> \in StrictSubsetOrdering(S))
  BY <1>1, <1>2, WFMin
<1> QED
  BY <1>3 DEF StrictSubsetOrdering

LEMMA BytesOfOneMore ==
  ASSUME NEW f, NEW A, NEW x \in A
  PROVE  /\ Bytes(f, A) = Bytes(f, A \ {x}) \cup ({x} \X (1 .. f[x]))
         /\ Bytes(f, A \ {x}) \cap ({x} \X (1 .. f[x])) = {}
BY DEF Bytes

LEMMA ColumnSize ==
  ASSUME NEW x, NEW n \in Nat
  PROVE  IsFiniteSet({x} \X (1 .. n)) /\ Cardinality({x} \X (1 .. n)) = n
<1>1. IsFiniteSet({x}) /\ Cardinality({x}) = 1
  BY FS_Singleton, Zenon
<1>2. 1 \in Int /\ n \in Int
  OBVIOUS
<1>3. IsFiniteSet(1 .. n) /\ Cardinality(1 .. n) = IF 1 > n THEN 0 ELSE n - 1 + 1
  BY <1>2, FS_Interval, Zenon
<1>4. Cardinality(1 .. n) = n
  BY <1>3
<1>5. /\ IsFiniteSet({x} \X (1 .. n))
      /\ Cardinality({x} \X (1 .. n)) = Cardinality({x}) * Cardinality(1 .. n)
  BY <1>1, <1>3, FS_Product, Zenon
<1> QED
  BY <1>1, <1>4, <1>5

LEMMA BytesFinite ==
  ASSUME NEW A, IsFiniteSet(A), NEW f, \A a \in A : f[a] \in Nat
  PROVE  IsFiniteSet(Bytes(f, A))
<1> DEFINE T == {s \in SUBSET A : ~ IsFiniteSet(Bytes(f, s))}
<1> SUFFICES ASSUME T # {} PROVE FALSE
  BY Zenon
<1>0. T \subseteq SUBSET A
  OBVIOUS
<1>1. \E m \in T : \A U \in T : U \subseteq m => U = m
  <2> HIDE DEF T
  <2> QED
    BY <1>0, MinimalSubset
<1> PICK m \in T : \A U \in T : U \subseteq m => U = m
  BY <1>1
<1>2. CASE m = {}
  <2>1. Bytes(f, m) = {}
    BY <1>2 DEF Bytes
  <2> QED
    BY <2>1, FS_EmptySet
<1>3. CASE m # {}
  <2>1. PICK x \in m : TRUE
    BY <1>3
  <2>2. m \ {x} \notin T
    OBVIOUS
  <2>3. IsFiniteSet(Bytes(f, m \ {x}))
    BY <2>2
  <2>4. f[x] \in Nat
    OBVIOUS
  <2>5. IsFiniteSet({x} \X (1 .. f[x]))
    BY <2>4, ColumnSize
  <2>6. Bytes(f, m) = Bytes(f, m \ {x}) \cup ({x} \X (1 .. f[x]))
    BY BytesOfOneMore
  <2>7. IsFiniteSet(Bytes(f, m \ {x}) \cup ({x} \X (1 .. f[x])))
    BY <2>3, <2>5, FS_Union
  <2> QED
    BY <2>6, <2>7
<1> QED
  BY <1>2, <1>3

LEMMA SumOverStep ==
  ASSUME NEW A, IsFiniteSet(A), NEW f, \A a \in A : f[a] \in Nat, NEW x \in A
  PROVE  /\ SumOver(f, A) \in Nat
         /\ SumOver(f, A) = f[x] + SumOver(f, A \ {x})
<1>1. IsFiniteSet(A \ {x})
  BY FS_RemoveElement
<1>2. IsFiniteSet(Bytes(f, A \ {x})) /\ IsFiniteSet(Bytes(f, A))
  BY <1>1, BytesFinite
<1>3. f[x] \in Nat
  OBVIOUS
<1>5. /\ IsFiniteSet({x} \X (1 .. f[x]))
      /\ Cardinality({x} \X (1 .. f[x])) = f[x]
  BY <1>3, ColumnSize
<1>6. Cardinality(Bytes(f, A)) =
        Cardinality(Bytes(f, A \ {x})) + Cardinality({x} \X (1 .. f[x]))
        - Cardinality({})
  BY <1>2, <1>5, BytesOfOneMore, FS_Union
<1>7. Cardinality(Bytes(f, A \ {x})) \in Nat /\ Cardinality(Bytes(f, A)) \in Nat
  BY <1>2, FS_CardinalityType
<1> QED
  BY <1>3, <1>5, <1>6, <1>7, FS_EmptySet DEF SumOver

LEMMA FoldIsSum ==
  ASSUME NEW S, IsFiniteSet(S), NEW f \in [S -> Nat]
  PROVE  SumFunction(f) = SumOver(f, S)
<1> DEFINE choice(s) == CHOOSE x \in s : TRUE
           body(g, s) == IF s = {} THEN 0 ELSE f[choice(s)] + g[s \ {choice(s)}]
           iter == CHOOSE g : g = [s \in SUBSET S |-> body(g, s)]
           total == [s \in SUBSET S |-> SumOver(f, s)]
<1>1. SumFunction(f) = iter[S]
  BY DEF SumFunction, SumFunctionOnSet, FoldFunctionOnSet, MapThenFoldSet
<1>2. ASSUME NEW s \in SUBSET S, s # {}
      PROVE  /\ choice(s) \in s
             /\ s \ {choice(s)} \in SUBSET S
             /\ SumOver(f, s) = f[choice(s)] + SumOver(f, s \ {choice(s)})
  <2>1. choice(s) \in s
    BY <1>2
  <2> DEFINE x == choice(s)
  <2>2. IsFiniteSet(s) /\ \A a \in s : f[a] \in Nat
    BY FS_Subset
  <2>3. x \in s
    BY <2>1
  <2> HIDE DEF x
  <2>4. SumOver(f, s) = f[x] + SumOver(f, s \ {x})
    BY <2>2, <2>3, SumOverStep
  <2> QED
    BY <2>3, <2>4 DEF x
<1>3. SumOver(f, {}) = 0
  BY FS_EmptySet DEF SumOver, Bytes
<1>4. total = [s \in SUBSET S |-> body(total, s)]
  <2>1. ASSUME NEW s \in SUBSET S PROVE total[s] = body(total, s)
    BY <1>2, <1>3, <2>1
  <2> QED
    BY <2>1
<1>5. iter = [s \in SUBSET S |-> body(iter, s)]
  BY <1>4
<1> HIDE DEF iter
<1> DEFINE T == {s \in SUBSET S : iter[s] # SumOver(f, s)}
<1>6. T = {}
  <2> SUFFICES ASSUME T # {} PROVE FALSE
    OBVIOUS
  <2>1. T \subseteq SUBSET S
    OBVIOUS
  <2>2. \E m \in T : \A U \in T : U \subseteq m => U = m
    <3> HIDE DEF T
    <3> QED
      BY <2>1, MinimalSubset
  <2> PICK m \in T : \A U \in T : U \subseteq m => U = m
    BY <2>2
  <2>3. iter[m] = body(iter, m)
    BY <1>5
  <2>4. m # {}
    BY <1>3, <2>3
  <2>5. m \ {choice(m)} \notin T
    BY <1>2, <2>4
  <2> QED
    BY <1>2, <2>3, <2>4, <2>5
<1>7. S \notin T
  BY <1>6
<1> QED
  BY <1>1, <1>7

LEMMA SumOfNone == ASSUME NEW f PROVE SumOver(f, {}) = 0
BY FS_EmptySet DEF SumOver, Bytes

LEMMA SumIsNat ==
  ASSUME NEW A, IsFiniteSet(A), NEW f, \A a \in A : f[a] \in Nat
  PROVE  SumOver(f, A) \in Nat
BY BytesFinite, FS_CardinalityType DEF SumOver

LEMMA SumSame ==
  ASSUME NEW A, NEW f, NEW g, \A a \in A : f[a] = g[a]
  PROVE  SumOver(f, A) = SumOver(g, A)
<1>1. Bytes(f, A) = Bytes(g, A)
  BY DEF Bytes
<1> QED
  BY <1>1 DEF SumOver

(* One summand changed.                                                      *)
LEMMA SumUpdate ==
  ASSUME NEW A, IsFiniteSet(A), NEW f, NEW g, NEW x \in A, NEW n \in Nat,
         \A a \in A : f[a] \in Nat,
         g[x] = f[x] + n, \A a \in A : a # x => g[a] = f[a]
  PROVE  SumOver(g, A) = SumOver(f, A) + n
<1>1. f[x] \in Nat /\ g[x] \in Nat
  OBVIOUS
<1>2. \A a \in A : g[a] \in Nat
  BY <1>1
<1>3. SumOver(f, A) = f[x] + SumOver(f, A \ {x})
  BY SumOverStep
<1>4. SumOver(g, A) = g[x] + SumOver(g, A \ {x})
  BY <1>2, SumOverStep
<1>5. SumOver(g, A \ {x}) = SumOver(f, A \ {x})
  <2>1. \A a \in A \ {x} : g[a] = f[a]
    OBVIOUS
  <2> QED
    BY <2>1, SumSame
<1>6. IsFiniteSet(A \ {x})
  BY FS_RemoveElement
<1>7. SumOver(f, A \ {x}) \in Nat
  BY <1>6, SumIsNat
<1> QED
  BY <1>1, <1>3, <1>4, <1>5, <1>7

(* The first of an interval taken out of the sum, and the last.              *)
LEMMA SumFirst ==
  ASSUME NEW a \in Int, NEW b \in Int, a <= b, NEW f, \A i \in a .. b : f[i] \in Nat
  PROVE  SumOver(f, a .. b) = f[a] + SumOver(f, (a + 1) .. b)
<1>1. IsFiniteSet(a .. b)
  BY FS_Interval
<1>2. a \in a .. b /\ (a .. b) \ {a} = (a + 1) .. b
  OBVIOUS
<1>3. SumOver(f, a .. b) = f[a] + SumOver(f, (a .. b) \ {a})
  BY <1>1, <1>2, SumOverStep
<1> QED
  BY <1>2, <1>3

LEMMA SumLast ==
  ASSUME NEW a \in Int, NEW b \in Int, a <= b, NEW f, \A i \in a .. b : f[i] \in Nat
  PROVE  SumOver(f, a .. b) = f[b] + SumOver(f, a .. (b - 1))
<1>1. IsFiniteSet(a .. b)
  BY FS_Interval
<1>2. b \in a .. b /\ (a .. b) \ {b} = a .. (b - 1)
  OBVIOUS
<1>3. SumOver(f, a .. b) = f[b] + SumOver(f, (a .. b) \ {b})
  BY <1>1, <1>2, SumOverStep
<1> QED
  BY <1>2, <1>3

(* The same summands at other places.                                        *)
LEMMA SumShifted ==
  ASSUME NEW a \in Int, NEW b \in Int, NEW d \in Int, NEW f, NEW g,
         \A i \in a .. b : f[i] \in Nat /\ f[i] = g[i + d]
  PROVE  SumOver(f, a .. b) = SumOver(g, (a + d) .. (b + d))
<1> DEFINE A == a .. b
           B == (a + d) .. (b + d)
           h == [z \in Bytes(f, A) |-> <<z[1] + d, z[2]>>]
<1>1. \A z : z \in Bytes(f, A) <=>
        \E i \in A : \E n \in 1 .. f[i] : z = <<i, n>>
  BY DEF Bytes
<1>2. \A z : z \in Bytes(g, B) <=>
        \E i \in B : \E n \in 1 .. g[i] : z = <<i, n>>
  BY DEF Bytes
<1>3. h \in [Bytes(f, A) -> Bytes(g, B)]
  <2> SUFFICES ASSUME NEW z \in Bytes(f, A) PROVE <<z[1] + d, z[2]>> \in Bytes(g, B)
    OBVIOUS
  <2>1. PICK i \in A, n \in Nat : n \in 1 .. f[i] /\ z = <<i, n>>
    BY <1>1
  <2>2. i + d \in B /\ n \in 1 .. g[i + d]
    BY <2>1
  <2>3. <<i + d, n>> \in Bytes(g, B)
    BY <1>2, <2>2
  <2> QED
    BY <2>1, <2>3
<1>4. ASSUME NEW y \in Bytes(f, A), NEW z \in Bytes(f, A), h[y] = h[z]
      PROVE  y = z
  <2>1. PICK i \in A, n \in Nat : n \in 1 .. f[i] /\ y = <<i, n>>
    BY <1>1
  <2>2. PICK j \in A, m \in Nat : m \in 1 .. f[j] /\ z = <<j, m>>
    BY <1>1
  <2>3. <<i + d, n>> = <<j + d, m>>
    BY <1>4, <2>1, <2>2
  <2>4. i + d = j + d /\ n = m
    BY <2>3
  <2>5. i = j
    BY <2>4
  <2> QED
    BY <2>1, <2>2, <2>4, <2>5
<1>5. ASSUME NEW z \in Bytes(g, B) PROVE \E y \in Bytes(f, A) : h[y] = z
  <2>1. PICK i \in B, n \in Nat : n \in 1 .. g[i] /\ z = <<i, n>>
    BY <1>2
  <2>2. i - d \in A /\ (i - d) + d = i
    BY <2>1
  <2>3. n \in 1 .. f[i - d]
    BY <2>1, <2>2
  <2>4. <<i - d, n>> \in Bytes(f, A)
    BY <1>1, <2>2, <2>3
  <2>5. h[<<i - d, n>>] = z
    BY <2>1, <2>2, <2>4
  <2> QED
    BY <2>4, <2>5
<1>6. h \in Bijection(Bytes(f, A), Bytes(g, B))
  <2> HIDE DEF h, A, B
  <2>1. h \in Injection(Bytes(f, A), Bytes(g, B))
    BY <1>3, <1>4 DEF Injection, IsInjective
  <2>2. h \in Surjection(Bytes(f, A), Bytes(g, B))
    BY <1>3, <1>5 DEF Surjection
  <2> QED
    BY <2>1, <2>2 DEF Bijection
<1>7. IsFiniteSet(A)
  BY FS_Interval
<1>8. IsFiniteSet(Bytes(f, A))
  BY <1>7, BytesFinite
<1>9. ExistsBijection(Bytes(f, A), Bytes(g, B))
  BY <1>6 DEF ExistsBijection
<1> QED
  BY <1>8, <1>9, FS_Bijection DEF SumOver

LEMMA SumOfZeros ==
  ASSUME NEW A, IsFiniteSet(A), NEW f, \A a \in A : f[a] = 0
  PROVE  SumOver(f, A) = 0
<1>1. Bytes(f, A) = {}
  BY DEF Bytes
<1> QED
  BY <1>1, FS_EmptySet DEF SumOver

-----------------------------------------------------------------------------
(* What the ledger holds against a moment t (negative: so many ticks ago):   *)
(* the entries that end at t or later, and the holds, which have not ended.  *)
OpenBytes(L) == L.open["connect"] + L.open["frame"] + L.open["reply"]
ClosedFrom(L, t) == SumOver(L.closed, t .. MaxTail)

(* What was put on the wire since t, and what may come in at t or later.     *)
WireSince(w, t) == SumOver(w, 0 .. (0 - t))
LateFrom(l, t) == SumOver(l, t .. LateBy)

Wires == [0 .. Window - 1 -> Nat]
Lates == [0 .. LateBy -> Nat]
Past == (1 - Window) .. 0
Future == 1 .. LateBy

(* What the exchange of each hold may still emit or provoke.                 *)
ConnectDue ==
  IF At("dial") THEN ConnectCostBytes - Syn
  ELSE IF At("hello") THEN LateAnswer + 2 * Reset + (IF loop.acked THEN 0 ELSE Pure)
  ELSE IF conn /\ answer = "due" THEN LateAnswer ELSE 0
FrameDue ==
  IF At("admitted") THEN FrameCostBytes
  ELSE IF At("await") THEN LateAnswer + 2 * Reset + (IF loop.acked THEN 0 ELSE Pure)
  ELSE 0
ReplyDue == IF server.pc = "await" THEN Pure + 2 * Reset ELSE 0
Due == ConnectDue + FrameDue + ReplyDue

(* The holds to the byte.                                                    *)
ConnectHold ==
  IF loop.pc \in {"dial", "hello"} THEN ConnectCostBytes
  ELSE IF conn /\ answer # "none" THEN LateAnswer ELSE 0
FrameHold ==
  IF At("admitted") THEN FrameCostBytes
  ELSE IF At("await") THEN FrameCostBytes - Frame ELSE 0
ReplyHold == IF server.pc = "await" THEN Pure + 2 * Reset ELSE 0
HoldsExact ==
  /\ ledger.open["connect"] = ConnectHold
  /\ ledger.open["frame"] = FrameHold
  /\ ledger.open["reply"] = ReplyHold

Links ==
  /\ loop.pc \in {"dial", "hello"} => ~conn
  /\ ~conn => answer = "none"

(* Every byte is inside its charge: what may come in after t is covered by   *)
(* entries that end no earlier, and what went out since t, with all that may *)
(* still follow, by these and the holds.                                     *)
Counted(L, w, l, due) ==
  /\ \A t \in Future : LateFrom(l, t) <= ClosedFrom(L, t)
  /\ \A t \in Past :
       WireSince(w, t) + LateFrom(l, 0) + due <= OpenBytes(L) + ClosedFrom(L, t)

(* What admission keeps.                                                     *)
Capped(L) == OpenBytes(L) + ClosedFrom(L, 1 - Window) <= Share

Cover ==
  /\ wire \in Wires /\ late \in Lates /\ allowed \subseteq Announcer
  /\ HoldsExact /\ Links
  /\ Counted(ledger, wire, late, Due)
  /\ Capped(ledger)

-----------------------------------------------------------------------------
(* What each operation does to these sums.                                   *)
LEMMA Sizes ==
  /\ Frame \in Nat /\ Answer \in Nat /\ Hello \in Nat /\ Pure \in Nat
  /\ Reset \in Nat /\ Syn \in Nat /\ Chunk \in Nat /\ Header \in Nat
  /\ Beacon \in Nat /\ Reset <= Pure
  /\ Window \in Nat /\ Window >= 1 /\ MaxTail \in Nat /\ Share \in Nat
  /\ LateBy \in Nat /\ AbortTail \in Nat /\ LateBy <= AbortTail /\ AbortTail <= MaxTail
  /\ EmissionTail \in 0 .. MaxTail /\ FlushTail \in 0 .. MaxTail
BY TrafficAssumption, BudgetAssumption

LEMMA Tails ==
  AbortTail \in 0 .. MaxTail /\ EmissionTail \in 0 .. MaxTail /\ FlushTail \in 0 .. MaxTail
BY TrafficAssumption

LEMMA Tickets == "connect" \in Ticket /\ "frame" \in Ticket /\ "reply" \in Ticket
BY TrafficAssumption

LEMMA OpenIsNat ==
  ASSUME NEW L \in Books
  PROVE  /\ L.open["connect"] \in Nat /\ L.open["frame"] \in Nat
         /\ L.open["reply"] \in Nat /\ OpenBytes(L) \in Nat
BY Tickets DEF Books, OpenBytes

LEMMA ClosedIsNat ==
  ASSUME NEW L \in Books, NEW t \in Int, 1 - Window <= t
  PROVE  ClosedFrom(L, t) \in Nat
<1>1. IsFiniteSet(t .. MaxTail)
  BY Sizes, FS_Interval
<1>2. \A e \in t .. MaxTail : e \in Ends
  BY Sizes DEF Ends
<1>3. \A e \in t .. MaxTail : L.closed[e] \in Nat
  BY <1>2 DEF Books
<1> QED
  BY <1>1, <1>3, SumIsNat DEF ClosedFrom

LEMMA WireIsNat ==
  ASSUME NEW w \in Wires, NEW t \in Past PROVE WireSince(w, t) \in Nat
<1>1. 0 - t \in Int /\ \A i \in 0 .. (0 - t) : i \in 0 .. Window - 1
  BY Sizes DEF Past
<1>2. IsFiniteSet(0 .. (0 - t))
  BY <1>1, FS_Interval
<1>3. \A i \in 0 .. (0 - t) : w[i] \in Nat
  BY <1>1 DEF Wires
<1> QED
  BY <1>2, <1>3, SumIsNat DEF WireSince

LEMMA LateIsNat ==
  ASSUME NEW l \in Lates, NEW t \in Nat PROVE LateFrom(l, t) \in Nat
<1>1. IsFiniteSet(t .. LateBy)
  BY Sizes, FS_Interval
<1>2. \A k \in t .. LateBy : l[k] \in Nat
  BY Sizes DEF Lates
<1> QED
  BY <1>1, <1>2, SumIsNat DEF LateFrom

(* c bytes go to closed entries that have not ended, p of them or more to    *)
(* entries that end no earlier than what is provoked may come in.            *)
Shut(L, K, c, p) ==
  /\ K \in Books
  /\ \A t \in Past : ClosedFrom(K, t) = ClosedFrom(L, t) + c
  /\ \A t \in Future : ClosedFrom(K, t) >= ClosedFrom(L, t) + p

LEMMA ShutTwice ==
  ASSUME NEW L \in Books, NEW K, NEW M,
         NEW c \in Nat, NEW p \in Nat, NEW d \in Nat, NEW q \in Nat,
         Shut(L, K, c, p), Shut(K, M, d, q)
  PROVE  Shut(L, M, c + d, p + q)
<1>1. K \in Books /\ M \in Books
  BY DEF Shut
<1>2. ASSUME NEW t \in Past PROVE ClosedFrom(M, t) = ClosedFrom(L, t) + (c + d)
  <2>1. t \in Int /\ 1 - Window <= t
    BY Sizes DEF Past
  <2>2. ClosedFrom(L, t) \in Nat
    BY <2>1, ClosedIsNat
  <2>3. ClosedFrom(K, t) = ClosedFrom(L, t) + c /\ ClosedFrom(M, t) = ClosedFrom(K, t) + d
    BY DEF Shut
  <2> QED
    BY <2>2, <2>3
<1>3. ASSUME NEW t \in Future PROVE ClosedFrom(M, t) >= ClosedFrom(L, t) + (p + q)
  <2>1. t \in Int /\ 1 - Window <= t
    BY Sizes DEF Future
  <2>2. ClosedFrom(L, t) \in Nat /\ ClosedFrom(K, t) \in Nat /\ ClosedFrom(M, t) \in Nat
    BY <1>1, <2>1, ClosedIsNat
  <2>3. ClosedFrom(K, t) >= ClosedFrom(L, t) + p /\ ClosedFrom(M, t) >= ClosedFrom(K, t) + q
    BY DEF Shut
  <2> QED
    BY <2>2, <2>3
<1> QED
  BY <1>1, <1>2, <1>3 DEF Shut

LEMMA EntrySum ==
  ASSUME NEW f \in [Ends -> Nat], NEW g, NEW n \in Nat, NEW w \in Ends,
         g[w] = f[w] + n, \A e \in Ends : e # w => g[e] = f[e],
         NEW t \in Int, 1 - Window <= t
  PROVE  SumOver(g, t .. MaxTail) =
           SumOver(f, t .. MaxTail) + (IF w \in t .. MaxTail THEN n ELSE 0)
<1> DEFINE A == t .. MaxTail
<1>1. IsFiniteSet(A)
  BY Sizes, FS_Interval
<1>2. A \subseteq Ends
  BY Sizes DEF Ends
<1> HIDE DEF A
<1>3. \A a \in A : f[a] \in Nat
  BY <1>2
<1>4. g[w] = f[w] + n /\ n \in Nat
  OBVIOUS
<1>5. \A a \in A : a # w => g[a] = f[a]
  BY <1>2
<1>6. SumOver(f, A) \in Nat
  BY <1>1, <1>3, SumIsNat
<1>7. CASE w \in A
  <2>1. SumOver(g, A) = SumOver(f, A) + n
    BY <1>1, <1>3, <1>4, <1>5, <1>7, SumUpdate, Zenon
  <2> QED
    BY <1>7, <2>1 DEF A
<1>8. CASE w \notin A
  <2>1. \A a \in A : g[a] = f[a]
    BY <1>5, <1>8
  <2>2. SumOver(g, A) = SumOver(f, A)
    BY <2>1, SumSame
  <2> QED
    BY <1>6, <1>8, <2>2 DEF A
<1> QED
  BY <1>7, <1>8 DEF A

LEMMA ShutEntry ==
  ASSUME NEW L \in Books, NEW K \in Books, NEW n \in Nat, NEW w \in 0 .. MaxTail,
         K.closed[w] = L.closed[w] + n,
         \A e \in Ends : e # w => K.closed[e] = L.closed[e]
  PROVE  Shut(L, K, n, 0) /\ (w = AbortTail => Shut(L, K, n, n))
<1>1. w \in Ends /\ L.closed \in [Ends -> Nat]
  BY Sizes DEF Ends, Books
<1> DEFINE f == L.closed
           g == K.closed
<1>5. f \in [Ends -> Nat] /\ w \in Ends /\ n \in Nat
  BY <1>1
<1>6. g[w] = f[w] + n
  OBVIOUS
<1>7. \A e \in Ends : e # w => g[e] = f[e]
  OBVIOUS
<1> HIDE DEF f, g
<1>2. ASSUME NEW t \in Int, 1 - Window <= t
      PROVE  ClosedFrom(K, t) = ClosedFrom(L, t) + (IF w \in t .. MaxTail THEN n ELSE 0)
  <2>1. t \in Int /\ 1 - Window <= t
    BY <1>2
  <2>2. SumOver(g, t .. MaxTail) =
          SumOver(f, t .. MaxTail) + (IF w \in t .. MaxTail THEN n ELSE 0)
    BY <1>5, <1>6, <1>7, <2>1, EntrySum
  <2> QED
    BY <2>2 DEF ClosedFrom, f, g
<1>3. ASSUME NEW t \in Past PROVE ClosedFrom(K, t) = ClosedFrom(L, t) + n
  <2>1. t \in Int /\ 1 - Window <= t /\ w \in t .. MaxTail
    BY Sizes DEF Past
  <2> QED
    BY <1>2, <2>1
<1>4. ASSUME NEW t \in Future
      PROVE  /\ ClosedFrom(K, t) >= ClosedFrom(L, t) + 0
             /\ w = AbortTail => ClosedFrom(K, t) >= ClosedFrom(L, t) + n
  <2>1. t \in Int /\ 1 - Window <= t /\ (w = AbortTail => w \in t .. MaxTail)
    BY Sizes DEF Future
  <2>2. ClosedFrom(L, t) \in Nat /\ ClosedFrom(K, t) \in Nat
    BY <2>1, ClosedIsNat
  <2>3. ClosedFrom(K, t) = ClosedFrom(L, t) + (IF w \in t .. MaxTail THEN n ELSE 0)
    BY <1>2, <2>1
  <2>4. CASE w \in t .. MaxTail
    BY <2>2, <2>3, <2>4
  <2>5. CASE w \notin t .. MaxTail
    BY <2>1, <2>2, <2>3, <2>5
  <2> QED
    BY <2>4, <2>5
<1> QED
  BY <1>3, <1>4 DEF Shut

LEMMA ShutNothing ==
  ASSUME NEW L \in Books, NEW K \in Books, K.closed = L.closed
  PROVE  Shut(L, K, 0, 0)
<1>1. \A t : ClosedFrom(K, t) = ClosedFrom(L, t)
  BY DEF ClosedFrom
<1>2. ASSUME NEW t \in Past \cup Future
      PROVE  ClosedFrom(L, t) \in Nat
  <2>1. t \in Int /\ 1 - Window <= t
    BY Sizes DEF Past, Future
  <2> QED
    BY <2>1, ClosedIsNat
<1> QED
  BY <1>1, <1>2 DEF Shut

(* The same, of the operations of the ledger.                                *)
LEMMA ReleasedPartSums ==
  ASSUME NEW L \in Books, NEW t \in Ticket, NEW b \in Nat, b <= L.open[t],
         NEW w \in 0 .. MaxTail, NEW K, K = ReleasedPart(L, t, b, w)
  PROVE  /\ K \in Books /\ K.open[t] = L.open[t] - b
         /\ \A u \in Ticket : u # t => K.open[u] = L.open[u]
         /\ Shut(L, K, b, 0) /\ (w = AbortTail => Shut(L, K, b, b))
<1>1. w \in Ends
  BY Sizes DEF Ends
<1>2. K \in Books /\ \A u \in Ticket : u # t => K.open[u] = L.open[u]
  BY <1>1, ReleasedPartBooks
<1>3. L.open[t] \in Nat
  BY DEF Books
<1>4. Min({b, L.open[t]}) = b
  <2> DEFINE m == L.open[t]
  <2>1. m \in Nat /\ b <= m
    BY <1>3
  <2> HIDE DEF m
  <2>2. Min({b, m}) \in {b, m} /\ Min({b, m}) <= b /\ Min({b, m}) <= m
    BY <2>1, MinOfTwo
  <2>3. Min({b, m}) = b
    BY <2>1, <2>2
  <2> QED
    BY <2>3 DEF m
<1>5. K = [L EXCEPT !.open[t] = @ - b, !.closed[w] = @ + b]
  BY <1>4 DEF ReleasedPart
<1>6. K.open[t] = L.open[t] - b
  BY <1>5 DEF Books
<1>7. K.closed[w] = L.closed[w] + b /\ \A e \in Ends : e # w => K.closed[e] = L.closed[e]
  BY <1>1, <1>5 DEF Books
<1>8. Shut(L, K, b, 0) /\ (w = AbortTail => Shut(L, K, b, b))
  BY <1>2, <1>7, ShutEntry
<1> QED
  BY <1>2, <1>6, <1>8

LEMMA ReleasedAtSums ==
  ASSUME NEW L \in Books, NEW t \in Ticket, NEW w \in 0 .. MaxTail,
         NEW K, K = ReleasedAt(L, t, w)
  PROVE  /\ K \in Books /\ K.open[t] = 0
         /\ \A u \in Ticket : u # t => K.open[u] = L.open[u]
         /\ Shut(L, K, L.open[t], 0) /\ (w = AbortTail => Shut(L, K, L.open[t], L.open[t]))
<1>1. L.open[t] \in Nat /\ L.open[t] <= L.open[t] /\ L.open[t] - L.open[t] = 0
  BY DEF Books
<1>2. K = ReleasedPart(L, t, L.open[t], w)
  BY DEF ReleasedAt
<1> QED
  BY <1>1, <1>2, ReleasedPartSums

LEMMA ReleasedPartNowSums ==
  ASSUME NEW L \in Books, NEW t \in Ticket, NEW b \in Nat, b <= L.open[t],
         NEW K, K = ReleasedPart(L, t, b, 0)
  PROVE  /\ K \in Books /\ K.open[t] = L.open[t] - b
         /\ \A u \in Ticket : u # t => K.open[u] = L.open[u]
         /\ Shut(L, K, b, 0)
<1> DEFINE w == 0
<1>1. w \in 0 .. MaxTail /\ K = ReleasedPart(L, t, b, w)
  BY Sizes
<1> HIDE DEF w
<1> QED
  BY <1>1, ReleasedPartSums

LEMMA ReleasedNowSums ==
  ASSUME NEW L \in Books, NEW t \in Ticket, NEW K, K = ReleasedAt(L, t, 0)
  PROVE  /\ K \in Books /\ K.open[t] = 0
         /\ \A u \in Ticket : u # t => K.open[u] = L.open[u]
         /\ Shut(L, K, L.open[t], 0)
<1> DEFINE w == 0
<1>1. w \in 0 .. MaxTail /\ K = ReleasedAt(L, t, w)
  BY Sizes
<1> HIDE DEF w
<1> QED
  BY <1>1, ReleasedAtSums

LEMMA RefundedSums ==
  ASSUME NEW L \in Books, NEW t \in Ticket, NEW b \in Nat, b <= L.open[t],
         NEW K, K = Refunded(L, t, b)
  PROVE  /\ K \in Books /\ K.open[t] = L.open[t] - b
         /\ \A u \in Ticket : u # t => K.open[u] = L.open[u]
         /\ Shut(L, K, 0, 0)
<1>1. K \in Books /\ \A u \in Ticket : u # t => K.open[u] = L.open[u]
  BY RefundedBooks
<1>2. L.open[t] \in Nat
  BY DEF Books
<1>3. Min({b, L.open[t]}) = b
  <2> DEFINE m == L.open[t]
  <2>1. m \in Nat /\ b <= m
    BY <1>2
  <2> HIDE DEF m
  <2>2. Min({b, m}) \in {b, m} /\ Min({b, m}) <= b /\ Min({b, m}) <= m
    BY <2>1, MinOfTwo
  <2>3. Min({b, m}) = b
    BY <2>1, <2>2
  <2> QED
    BY <2>3 DEF m
<1>4. K = [L EXCEPT !.open[t] = @ - b]
  BY <1>3 DEF Refunded
<1>5. K.open[t] = L.open[t] - b /\ K.closed = L.closed
  BY <1>4 DEF Books
<1> QED
  BY <1>1, <1>5, ShutNothing

LEMMA HeldSums ==
  ASSUME NEW L \in Books, NEW t \in Ticket, NEW b \in Nat, NEW K, K = Held(L, t, b)
  PROVE  /\ K \in Books /\ K.open[t] = b
         /\ \A u \in Ticket : u # t => K.open[u] = L.open[u]
         /\ Shut(L, K, 0, 0)
<1>1. K \in Books /\ \A u \in Ticket : u # t => K.open[u] = L.open[u]
  BY HeldBooks
<1>2. K.open[t] = b /\ K.closed = L.closed
  BY DEF Held, Books
<1> QED
  BY <1>1, <1>2, ShutNothing

LEMMA ChargedSums ==
  ASSUME NEW L \in Books, NEW b \in Nat, NEW K, K = Charged(L, b)
  PROVE  K \in Books /\ K.open = L.open /\ Shut(L, K, b, 0)
<1>1. K \in Books /\ K.open = L.open
  BY ChargedBooks
<1>2. 0 \in Ends /\ 0 \in 0 .. MaxTail
  BY Sizes, TailsAreEnds
<1>3. K.closed[0] = L.closed[0] + b /\ \A e \in Ends : e # 0 => K.closed[e] = L.closed[e]
  BY <1>2 DEF Charged, Books
<1> QED
  BY <1>1, <1>2, <1>3, ShutEntry

LEMMA ClosedSums ==
  ASSUME NEW L \in Books, NEW K, K = Closed(L)
  PROVE  /\ K \in Books /\ K.open["connect"] = 0
         /\ K.open["frame"] = L.open["frame"] /\ K.open["reply"] = L.open["reply"]
         /\ Shut(L, K, L.open["connect"], L.open["connect"])
<1> DEFINE t == "connect"
<1>1. t \in Ticket /\ "frame" \in Ticket /\ "reply" \in Ticket
  BY Tickets
<1>2. AbortTail \in 0 .. MaxTail
  BY Tails
<1>3. "frame" # t /\ "reply" # t
  OBVIOUS
<1>4. K = ReleasedAt(L, t, AbortTail)
  BY DEF Closed
<1> HIDE DEF t
<1>5. /\ K \in Books /\ K.open[t] = 0 /\ Shut(L, K, L.open[t], L.open[t])
      /\ \A u \in Ticket : u # t => K.open[u] = L.open[u]
  BY <1>1, <1>2, <1>4, ReleasedAtSums
<1>6. K.open["frame"] = L.open["frame"] /\ K.open["reply"] = L.open["reply"]
  BY <1>1, <1>3, <1>5
<1> QED
  BY <1>5, <1>6 DEF t

(* Bytes emitted now, and bytes that may come until it is too late.          *)
Emits(w, v, e) ==
  v \in Wires /\ \A t \in Past : WireSince(v, t) = WireSince(w, t) + e

Provokes(l, k, p) ==
  /\ k \in Lates
  /\ LateFrom(k, 0) = LateFrom(l, 0) + p
  /\ \A t \in Future : LateFrom(k, t) = LateFrom(l, t) + p

LEMMA EmitSums ==
  ASSUME NEW w \in Wires, NEW e \in Nat, NEW v, v = [w EXCEPT ![0] = @ + e]
  PROVE  Emits(w, v, e)
<1>1. 0 \in 0 .. Window - 1
  BY Sizes
<1>2. w[0] \in Nat
  BY <1>1 DEF Wires
<1>3. w[0] + e \in Nat
  BY <1>2
<1>4. v \in Wires /\ v[0] = w[0] + e
  BY <1>1, <1>3 DEF Wires
<1>5. \A i \in 0 .. Window - 1 : i # 0 => v[i] = w[i]
  BY DEF Wires
<1>6. ASSUME NEW t \in Past PROVE WireSince(v, t) = WireSince(w, t) + e
  <2> DEFINE A == 0 .. (0 - t)
  <2>1. A \subseteq 0 .. Window - 1 /\ 0 \in A
    BY Sizes DEF Past
  <2>2. IsFiniteSet(A)
    BY FS_Interval DEF Past
  <2> HIDE DEF A
  <2>3. \A i \in A : w[i] \in Nat
    BY <2>1 DEF Wires
  <2>4. \A i \in A : i # 0 => v[i] = w[i]
    BY <1>5, <2>1
  <2>5. SumOver(v, A) = SumOver(w, A) + e
    BY <1>4, <2>1, <2>2, <2>3, <2>4, SumUpdate
  <2> QED
    BY <2>5 DEF WireSince, A
<1> QED
  BY <1>4, <1>6 DEF Emits

LEMMA EmitNothing == ASSUME NEW w \in Wires PROVE Emits(w, w, 0)
BY WireIsNat DEF Emits

LEMMA LateSum ==
  ASSUME NEW l \in Lates, NEW p \in Nat, NEW k, k = [l EXCEPT ![LateBy] = @ + p],
         NEW t \in Nat, t <= LateBy
  PROVE  LateFrom(k, t) = LateFrom(l, t) + p
<1> DEFINE A == t .. LateBy
<1>1. A \subseteq 0 .. LateBy /\ LateBy \in A
  BY Sizes
<1>2. IsFiniteSet(A)
  BY Sizes, FS_Interval
<1> HIDE DEF A
<1>3. \A i \in A : l[i] \in Nat
  BY <1>1 DEF Lates
<1>4. k[LateBy] = l[LateBy] + p
  BY <1>1 DEF Lates
<1>5. \A i \in A : i # LateBy => k[i] = l[i]
  BY <1>1 DEF Lates
<1>6. SumOver(k, A) = SumOver(l, A) + p
  BY <1>1, <1>2, <1>3, <1>4, <1>5, SumUpdate
<1> QED
  BY <1>6 DEF LateFrom, A

LEMMA ProvokeSums ==
  ASSUME NEW l \in Lates, NEW p \in Nat, NEW k, k = [l EXCEPT ![LateBy] = @ + p]
  PROVE  Provokes(l, k, p)
<1>1. LateBy \in 0 .. LateBy
  BY Sizes
<1>2. l[LateBy] + p \in Nat
  BY <1>1 DEF Lates
<1>3. k \in Lates
  BY <1>2 DEF Lates
<1>4. \A t \in Nat : t <= LateBy => LateFrom(k, t) = LateFrom(l, t) + p
  BY LateSum
<1>5. 0 \in Nat /\ 0 <= LateBy /\ \A t \in Future : t \in Nat /\ t <= LateBy
  BY Sizes DEF Future
<1> QED
  BY <1>3, <1>4, <1>5 DEF Provokes

LEMMA ProvokeNothing == ASSUME NEW l \in Lates PROVE Provokes(l, l, 0)
<1>1. 0 \in Nat /\ \A t \in Future : t \in Nat
  BY DEF Future
<1> QED
  BY <1>1, LateIsNat DEF Provokes

(* Sums of an interval that has slid by one.                                 *)
LEMMA ClosedPassed ==
  ASSUME NEW L \in Books, NEW t \in Int, 1 - Window <= t, t <= MaxTail + 1
  PROVE  ClosedFrom(Passed(L), t) = ClosedFrom(L, t + 1)
<1> DEFINE g == Passed(L).closed
           f == L.closed
<1>1. g = [e \in Ends |-> IF e + 1 \in Ends THEN f[e + 1] ELSE 0] /\ f \in [Ends -> Nat]
  BY DEF Passed, Books
<1>2. CASE t = MaxTail + 1
  <2>1. t .. MaxTail = {} /\ (t + 1) .. MaxTail = {}
    BY <1>2, Sizes
  <2> QED
    BY <2>1, SumOfNone DEF ClosedFrom
<1>3. CASE t <= MaxTail
  <2>1. \A e \in t .. (MaxTail - 1) : e \in Ends /\ e + 1 \in Ends
    BY <1>3, Sizes DEF Ends
  <2>2. MaxTail \in Ends /\ MaxTail + 1 \notin Ends
    BY Sizes DEF Ends
  <2>3. \A e \in t .. (MaxTail - 1) : g[e] = f[e + 1] /\ g[e] \in Nat
    BY <1>1, <2>1
  <2>4. g[MaxTail] = 0
    BY <1>1, <2>2
  <2>5. MaxTail \in Int /\ MaxTail - 1 \in Int /\ 1 \in Int /\ (MaxTail - 1) + 1 = MaxTail
    BY Sizes
  <2> HIDE DEF f, g
  <2>6. SumOver(g, t .. (MaxTail - 1)) = SumOver(f, (t + 1) .. ((MaxTail - 1) + 1))
    <3> DEFINE m == MaxTail - 1
    <3>1. m \in Int /\ \A e \in t .. m : g[e] \in Nat /\ g[e] = f[e + 1]
      BY <2>3, <2>5
    <3> HIDE DEF m
    <3>2. SumOver(g, t .. m) = SumOver(f, (t + 1) .. (m + 1))
      BY <3>1, SumShifted
    <3> QED
      BY <3>2 DEF m
  <2>7. \A e \in t .. MaxTail : e \in t .. (MaxTail - 1) \/ e = MaxTail
    BY <2>5
  <2>8. \A e \in t .. MaxTail : g[e] \in Nat
    BY <2>3, <2>4, <2>7
  <2>9. SumOver(g, t .. MaxTail) = g[MaxTail] + SumOver(g, t .. (MaxTail - 1))
    BY <1>3, <2>5, <2>8, SumLast
  <2>10. SumOver(g, t .. (MaxTail - 1)) \in Nat
    <3>1. IsFiniteSet(t .. (MaxTail - 1))
      BY <2>5, FS_Interval
    <3> QED
      BY <2>3, <3>1, SumIsNat
  <2>11. SumOver(g, t .. MaxTail) = SumOver(g, t .. (MaxTail - 1))
    BY <2>4, <2>9, <2>10
  <2> QED
    BY <2>5, <2>6, <2>11 DEF ClosedFrom, f, g
<1> QED
  BY <1>2, <1>3, Sizes

WirePassed(w) == [i \in 0 .. Window - 1 |-> IF i = 0 THEN 0 ELSE w[i - 1]]
LatePassed(l) == [k \in 0 .. LateBy |-> IF k = LateBy THEN 0 ELSE l[k + 1]]

LEMMA SumShiftedByOne ==
  ASSUME NEW m \in Int, NEW f, NEW g,
         \A i \in 0 .. m : f[i] \in Nat /\ f[i] = g[i + 1]
  PROVE  SumOver(f, 0 .. m) = SumOver(g, 1 .. (m + 1))
<1> DEFINE a == 0
<1>1. a \in Int /\ \A i \in a .. m : f[i] \in Nat /\ f[i] = g[i + 1]
  OBVIOUS
<1>2. a + 1 = 1
  OBVIOUS
<1> HIDE DEF a
<1>3. SumOver(f, a .. m) = SumOver(g, (a + 1) .. (m + 1))
  BY <1>1, SumShifted
<1> QED
  BY <1>2, <1>3 DEF a

LEMMA WireSlides ==
  ASSUME NEW w \in Wires
  PROVE  /\ WirePassed(w) \in Wires
         /\ WireSince(WirePassed(w), 0) = 0
         /\ \A t \in (1 - Window) .. -1 :
              WireSince(WirePassed(w), t) = WireSince(w, t + 1)
<1> DEFINE v == WirePassed(w)
<1>1. \A i \in 0 .. Window - 1 : v[i] = IF i = 0 THEN 0 ELSE w[i - 1]
  BY DEF WirePassed
<1>2. ASSUME NEW i \in 0 .. Window - 1, i # 0 PROVE w[i - 1] \in Nat
  <2>1. i - 1 \in 0 .. Window - 1
    BY <1>2, Sizes
  <2> QED
    BY <2>1 DEF Wires
<1>3. v \in Wires
  BY <1>2 DEF WirePassed, Wires
<1>4. v[0] = 0
  BY <1>1, Sizes
<1> HIDE DEF v
<1>5. ASSUME NEW t \in (1 - Window) .. 0
      PROVE  SumOver(v, 0 .. (0 - t)) = SumOver(v, 1 .. (0 - t))
  <2> DEFINE m == 0 - t
  <2>1. m \in Int /\ 0 <= m /\ 0 \in Int /\ \A i \in 0 .. m : i \in 0 .. Window - 1
    BY Sizes
  <2>2. \A i \in 0 .. m : v[i] \in Nat
    BY <1>3, <2>1 DEF Wires
  <2>21. IsFiniteSet(1 .. m) /\ \A i \in 1 .. m : v[i] \in Nat
    <3>1. IsFiniteSet(1 .. m)
      BY <2>1, FS_Interval
    <3>2. \A i \in 1 .. m : i \in 0 .. m
      BY <2>1
    <3> QED
      BY <2>2, <3>1, <3>2
  <2> HIDE DEF m
  <2>3. SumOver(v, 0 .. m) = v[0] + SumOver(v, (0 + 1) .. m)
    BY <2>1, <2>2, SumFirst
  <2>4. SumOver(v, 1 .. m) \in Nat
    BY <2>21, SumIsNat
  <2>5. SumOver(v, 0 .. m) = SumOver(v, 1 .. m)
    BY <1>4, <2>3, <2>4
  <2> QED
    BY <2>5 DEF m
<1>6. WireSince(v, 0) = 0
  <2>1. 0 \in (1 - Window) .. 0 /\ 1 .. (0 - 0) = {}
    BY Sizes
  <2>2. SumOver(v, 0 .. (0 - 0)) = SumOver(v, 1 .. (0 - 0))
    BY <1>5, <2>1
  <2> QED
    BY <2>1, <2>2, SumOfNone DEF WireSince
<1>7. ASSUME NEW t \in (1 - Window) .. -1 PROVE WireSince(v, t) = WireSince(w, t + 1)
  <2> DEFINE m == (0 - t) - 1
  <2>1. m \in Int /\ t \in (1 - Window) .. 0 /\ 0 - (t + 1) = m /\ 0 - t = m + 1
    BY Sizes
  <2>2. \A i \in 0 .. m : i \in 0 .. Window - 1 /\ i + 1 \in 0 .. Window - 1 /\ i + 1 # 0
    BY Sizes
  <2>3. \A i \in 0 .. m : v[i + 1] = w[(i + 1) - 1] /\ (i + 1) - 1 = i
    BY <1>1, <2>2
  <2>4. \A i \in 0 .. m : w[i] \in Nat /\ w[i] = v[i + 1]
    BY <2>2, <2>3 DEF Wires
  <2> HIDE DEF m
  <2>5. SumOver(w, 0 .. m) = SumOver(v, 1 .. (m + 1))
    BY <2>1, <2>4, SumShiftedByOne
  <2>6. SumOver(v, 0 .. (m + 1)) = SumOver(v, 1 .. (m + 1))
    BY <1>5, <2>1
  <2> QED
    BY <2>1, <2>5, <2>6 DEF WireSince
<1> QED
  BY <1>3, <1>6, <1>7 DEF v

LEMMA LateSlides ==
  ASSUME NEW l \in Lates
  PROVE  /\ LatePassed(l) \in Lates
         /\ \A t \in 0 .. LateBy : LateFrom(LatePassed(l), t) = LateFrom(l, t + 1)
<1> DEFINE k == LatePassed(l)
<1>1. \A i \in 0 .. LateBy : k[i] = IF i = LateBy THEN 0 ELSE l[i + 1]
  BY DEF LatePassed
<1>2. ASSUME NEW i \in 0 .. LateBy, i # LateBy PROVE l[i + 1] \in Nat
  <2>1. i + 1 \in 0 .. LateBy
    BY <1>2, Sizes
  <2> QED
    BY <2>1 DEF Lates
<1>3. k \in Lates
  BY <1>2 DEF LatePassed, Lates
<1>4. k[LateBy] = 0
  BY <1>1, Sizes
<1> HIDE DEF k
<1>5. ASSUME NEW t \in 0 .. LateBy PROVE LateFrom(k, t) = LateFrom(l, t + 1)
  <2> DEFINE m == LateBy - 1
  <2>1. m \in Int /\ m + 1 = LateBy /\ LateBy \in Int /\ t \in Int /\ t <= LateBy
    BY Sizes
  <2>2. \A i \in t .. m : i \in 0 .. LateBy /\ i # LateBy
    BY Sizes
  <2>3. \A i \in t .. m : k[i] \in Nat /\ k[i] = l[i + 1]
    BY <1>1, <1>2, <2>2
  <2>4. \A i \in t .. LateBy : i \in 0 .. LateBy
    BY Sizes
  <2>5. \A i \in t .. LateBy : k[i] \in Nat
    BY <1>3, <2>4 DEF Lates
  <2>6. IsFiniteSet(t .. m)
    BY <2>1, FS_Interval
  <2> HIDE DEF m
  <2>7. SumOver(k, t .. m) = SumOver(l, (t + 1) .. (m + 1))
    BY <2>1, <2>3, SumShifted
  <2>8. SumOver(k, t .. LateBy) = k[LateBy] + SumOver(k, t .. (LateBy - 1))
    BY <2>1, <2>5, SumLast
  <2>9. SumOver(k, t .. m) \in Nat
    BY <2>3, <2>6, SumIsNat
  <2>10. SumOver(k, t .. LateBy) = SumOver(k, t .. m)
    BY <1>4, <2>8, <2>9 DEF m
  <2> QED
    BY <2>1, <2>7, <2>10 DEF LateFrom
<1> QED
  BY <1>3, <1>5 DEF k

-----------------------------------------------------------------------------
(* The sums of InWindow are these.                                           *)
LEMMA InWindowIs ==
  ASSUME NEW L \in Books
  PROVE  InWindow(L) = OpenBytes(L) + ClosedFrom(L, 1 - Window)
<1>1. L.open \in [Ticket -> Nat] /\ L.closed \in [Ends -> Nat]
  BY DEF Books
<1>2. Ends = (1 - Window) .. MaxTail /\ IsFiniteSet(Ends)
  BY Sizes, FS_Interval DEF Ends
<1>3. SumFunction(L.closed) = ClosedFrom(L, 1 - Window)
  <2> DEFINE f == L.closed
  <2>1. f \in [Ends -> Nat]
    BY <1>1
  <2> HIDE DEF f
  <2>2. SumFunction(f) = SumOver(f, Ends)
    BY <1>2, <2>1, FoldIsSum
  <2> QED
    BY <1>2, <2>2 DEF ClosedFrom, f
<1>4. SumFunction(L.open) = OpenBytes(L)
  <2> DEFINE f == L.open
             A == {"connect", "frame", "reply"}
  <2>1. f \in [A -> Nat]
    BY <1>1, TrafficAssumption
  <2>2. IsFiniteSet({"reply"})
    BY FS_Singleton
  <2>3. IsFiniteSet({"reply"} \cup {"frame"})
    BY <2>2, FS_AddElement
  <2>4. IsFiniteSet(({"reply"} \cup {"frame"}) \cup {"connect"})
    BY <2>3, FS_AddElement
  <2>5. IsFiniteSet(A)
    <3>1. A = ({"reply"} \cup {"frame"}) \cup {"connect"}
      OBVIOUS
    <3> QED
      BY <2>4, <3>1
  <2>6. f["connect"] \in Nat /\ f["frame"] \in Nat /\ f["reply"] \in Nat
    BY <2>1
  <2> HIDE DEF f
  <2>7. SumFunction(f) = SumOver(f, A)
    BY <2>1, <2>5, FoldIsSum
  <2>8. SumOver(f, A) = f["connect"] + SumOver(f, A \ {"connect"})
    BY <2>1, <2>5, SumOverStep
  <2>9. A \ {"connect"} = {"reply"} \cup {"frame"}
    OBVIOUS
  <2>10. \A a \in {"reply"} \cup {"frame"} : f[a] \in Nat
    BY <2>6
  <2>11. SumOver(f, {"reply"} \cup {"frame"}) =
           f["frame"] + SumOver(f, ({"reply"} \cup {"frame"}) \ {"frame"})
    BY <2>3, <2>10, SumOverStep
  <2>12. ({"reply"} \cup {"frame"}) \ {"frame"} = {"reply"}
    OBVIOUS
  <2>13. SumOver(f, {"reply"}) = f["reply"] + SumOver(f, {"reply"} \ {"reply"})
    BY <2>2, <2>6, SumOverStep
  <2>14. {"reply"} \ {"reply"} = {}
    OBVIOUS
  <2>15. SumOver(f, {"reply"}) = f["reply"] + 0
    BY <2>13, <2>14, SumOfNone
  <2>16. SumOver(f, {"reply"} \cup {"frame"}) = f["frame"] + (f["reply"] + 0)
    BY <2>11, <2>12, <2>15
  <2>17. SumOver(f, A) = f["connect"] + (f["frame"] + (f["reply"] + 0))
    BY <2>8, <2>9, <2>16
  <2>18. SumFunction(f) = f["connect"] + f["frame"] + f["reply"]
    BY <2>6, <2>7, <2>17
  <2> QED
    BY <2>18 DEF OpenBytes, f
<1> QED
  BY <1>3, <1>4, OpenIsNat, ClosedIsNat DEF InWindow

LEMMA WindowIsSince ==
  ASSUME NEW w \in Wires PROVE SumFunction(w) = WireSince(w, 1 - Window)
<1>1. IsFiniteSet(0 .. Window - 1) /\ 0 - (1 - Window) = Window - 1
  BY Sizes, FS_Interval
<1>2. SumFunction(w) = SumOver(w, 0 .. Window - 1)
  <2> DEFINE S == 0 .. Window - 1
  <2>1. IsFiniteSet(S) /\ w \in [S -> Nat]
    BY <1>1 DEF Wires
  <2> HIDE DEF S
  <2>2. SumFunction(w) = SumOver(w, S)
    BY <2>1, FoldIsSum
  <2> QED
    BY <2>2 DEF S
<1> QED
  BY <1>1, <1>2 DEF WireSince

LEMMA DueIsNat ==
  ConnectDue \in Nat /\ FrameDue \in Nat /\ ReplyDue \in Nat /\ Due \in Nat
<1>1. /\ ConnectCostBytes - Syn \in Nat /\ LateAnswer \in Nat /\ FrameCostBytes \in Nat
      /\ LateAnswer + 2 * Reset + 0 \in Nat /\ LateAnswer + 2 * Reset + Pure \in Nat
      /\ Pure + 2 * Reset \in Nat
  BY Sizes DEF ConnectCostBytes, LateAnswer, FrameCostBytes
<1>2. ConnectDue \in Nat
  BY <1>1 DEF ConnectDue
<1>3. FrameDue \in Nat
  BY <1>1 DEF FrameDue
<1>4. ReplyDue \in Nat
  BY <1>1 DEF ReplyDue
<1> QED
  BY <1>2, <1>3, <1>4 DEF Due

LEMMA DueIsNatAfter == Due' \in Nat
<1>1. Due \in Nat
  BY DueIsNat
<1>2. (Due \in Nat)'
  BY <1>1, PTL
<1> QED
  BY <1>2

LEMMA CountedStep ==
  ASSUME NEW L \in Books, NEW K, NEW w \in Wires, NEW v, NEW l \in Lates, NEW k,
         NEW c \in Nat, NEW q \in Nat, NEW e \in Nat, NEW p \in Nat,
         NEW d \in Nat, NEW x \in Nat,
         Counted(L, w, l, d), Shut(L, K, c, q), p <= q,
         Emits(w, v, e), Provokes(l, k, p),
         e + p + x + OpenBytes(L) <= d + OpenBytes(K) + c
  PROVE  Counted(K, v, k, x)
<1>1. K \in Books /\ v \in Wires /\ k \in Lates
  BY DEF Shut, Emits, Provokes
<1>2. OpenBytes(L) \in Nat /\ OpenBytes(K) \in Nat
  BY <1>1, OpenIsNat
<1>3. ASSUME NEW t \in Future PROVE LateFrom(k, t) <= ClosedFrom(K, t)
  <2>1. t \in Nat /\ t \in Int /\ 1 - Window <= t
    BY Sizes DEF Future
  <2>2. LateFrom(l, t) \in Nat /\ ClosedFrom(L, t) \in Nat /\ ClosedFrom(K, t) \in Nat
    BY <1>1, <2>1, LateIsNat, ClosedIsNat
  <2>3. LateFrom(k, t) = LateFrom(l, t) + p /\ LateFrom(l, t) <= ClosedFrom(L, t)
    BY DEF Provokes, Counted
  <2>4. ClosedFrom(K, t) >= ClosedFrom(L, t) + q
    BY DEF Shut
  <2> QED
    BY <2>2, <2>3, <2>4
<1>4. ASSUME NEW t \in Past
      PROVE  WireSince(v, t) + LateFrom(k, 0) + x <= OpenBytes(K) + ClosedFrom(K, t)
  <2>1. 0 \in Nat /\ t \in Int /\ 1 - Window <= t
    BY Sizes DEF Past
  <2>2. WireSince(w, t) \in Nat /\ LateFrom(l, 0) \in Nat /\ ClosedFrom(L, t) \in Nat
    BY <2>1, WireIsNat, LateIsNat, ClosedIsNat
  <2>3. WireSince(v, t) = WireSince(w, t) + e /\ LateFrom(k, 0) = LateFrom(l, 0) + p
    BY DEF Emits, Provokes
  <2>4. ClosedFrom(K, t) = ClosedFrom(L, t) + c
    BY DEF Shut
  <2>5. WireSince(w, t) + LateFrom(l, 0) + d <= OpenBytes(L) + ClosedFrom(L, t)
    BY DEF Counted
  <2> DEFINE ws == WireSince(w, t)
             lf == LateFrom(l, 0)
             cf == ClosedFrom(L, t)
             ol == OpenBytes(L)
             ok == OpenBytes(K)
  <2>6. /\ ws \in Nat /\ lf \in Nat /\ cf \in Nat /\ ol \in Nat /\ ok \in Nat
        /\ ws + lf + d <= ol + cf
        /\ e + p + x + ol <= d + ok + c
    BY <1>2, <2>2, <2>5
  <2> HIDE DEF ws, lf, cf, ol, ok
  <2>7. (ws + e) + (lf + p) + x <= ok + (cf + c)
    BY <2>6
  <2> QED
    BY <2>3, <2>4, <2>7 DEF ws, lf, cf, ok
<1> QED
  BY <1>3, <1>4 DEF Counted

(* A step admitted for b bytes (none: not admitted) that opens and closes no *)
(* more than these, and emits, provokes and leaves due no more than it       *)
(* takes off what was due and adds to what is held or charged.               *)
LEMMA CoverStep ==
  ASSUME Inv, Cover, NEW b \in Nat, b = 0 \/ Fits(ledger, b),
         NEW c \in Nat, NEW q \in Nat, NEW e \in Nat, NEW p \in Nat,
         Shut(ledger, ledger', c, q), p <= q,
         Emits(wire, wire', e), Provokes(late, late', p),
         allowed' \subseteq Announcer, HoldsExact', Links',
         OpenBytes(ledger') + c <= OpenBytes(ledger) + b,
         e + p + Due' + OpenBytes(ledger) <= Due + OpenBytes(ledger') + c
  PROVE  Cover'
<1>1. ledger \in Books /\ ledger' \in Books
  BY DEF Inv, Shut
<1>2. OpenBytes(ledger) \in Nat /\ OpenBytes(ledger') \in Nat
  BY <1>1, OpenIsNat
<1>3. Due \in Nat /\ Due' \in Nat
  <2>1. Due \in Nat
    BY DueIsNat
  <2>2. Due' \in Nat
    BY DueIsNatAfter
  <2> QED
    BY <2>1, <2>2
<1>4. wire \in Wires /\ late \in Lates /\ wire' \in Wires /\ late' \in Lates
  BY DEF Cover, Emits, Provokes
<1>5. Counted(ledger, wire, late, Due)
  BY DEF Cover
<1>6. Counted(ledger', wire', late', Due')
  BY <1>1, <1>3, <1>4, <1>5, CountedStep
<1>7. Capped(ledger')
  <2>1. 1 - Window \in Int /\ 1 - Window <= 1 - Window /\ 1 - Window \in Past /\ Share \in Nat
    BY Sizes DEF Past
  <2>2. ClosedFrom(ledger, 1 - Window) \in Nat
    BY <1>1, <2>1, ClosedIsNat
  <2>3. ClosedFrom(ledger', 1 - Window) = ClosedFrom(ledger, 1 - Window) + c
    BY <2>1 DEF Shut
  <2>4. OpenBytes(ledger) + ClosedFrom(ledger, 1 - Window) + b <= Share
    <3>1. CASE b = 0
      BY <1>2, <2>2, <3>1 DEF Cover, Capped
    <3>2. CASE Fits(ledger, b)
      BY <1>1, <3>2, InWindowIs DEF Fits
    <3> QED
      BY <3>1, <3>2
  <2> DEFINE cf == ClosedFrom(ledger, 1 - Window)
             ol == OpenBytes(ledger)
             ok == OpenBytes(ledger')
  <2>5. cf \in Nat /\ ol \in Nat /\ ok \in Nat /\ ol + cf + b <= Share /\ ok + c <= ol + b
    BY <1>2, <2>2, <2>4
  <2> HIDE DEF cf, ol, ok
  <2>6. ok + (cf + c) <= Share
    BY <2>1, <2>5
  <2> QED
    BY <2>3, <2>6 DEF Capped, cf, ok
<1> QED
  BY <1>4, <1>6, <1>7 DEF Cover

-----------------------------------------------------------------------------
(* The steps of the control loop.                                            *)
LEMMA CoverFacts ==
  ASSUME Inv, Cover
  PROVE  /\ ledger \in Books /\ wire \in Wires /\ late \in Lates
         /\ allowed \subseteq Announcer
         /\ ledger.open["connect"] = ConnectHold /\ ConnectHold \in Nat
         /\ ledger.open["frame"] = FrameHold /\ FrameHold \in Nat
         /\ ledger.open["reply"] = ReplyHold /\ ReplyHold \in Nat
         /\ loop \in LoopType /\ server \in ServerType
         /\ Links
<1>1. ledger \in Books
  BY DEF Inv
<1> QED
  BY <1>1, OpenIsNat DEF Inv, Cover, HoldsExact

LEMMA CostSums ==
  /\ LateAnswer = Answer + Pure
  /\ ConnectCostBytes = 2 * Syn + Pure + Hello + Pure + Reset + (Answer + Pure) + Reset
  /\ FrameCostBytes = Frame + Pure + Reset + Answer + Pure + Reset
  /\ \A first \in BOOLEAN :
       ChunkBytes(first) \in Nat /\ ChunkCost(first) = ChunkBytes(first) + Pure + 2 * Reset
BY Sizes DEF LateAnswer, ConnectCostBytes, FrameCostBytes, ChunkCost, ChunkBytes

LEMMA UnansweredIs ==
  /\ answer = "due" => Unanswered = Answer + Reset
  /\ answer # "due" => Unanswered = 0
  /\ Unanswered \in Nat
BY Sizes DEF Unanswered

(* The bytes of an operation on one hold, seen on the sum.                   *)
LEMMA OpenSums ==
  ASSUME NEW L \in Books, NEW K \in Books
  PROVE  /\ OpenBytes(L) = L.open["connect"] + L.open["frame"] + L.open["reply"]
         /\ OpenBytes(K) = K.open["connect"] + K.open["frame"] + K.open["reply"]
         /\ L.open["connect"] \in Nat /\ L.open["frame"] \in Nat /\ L.open["reply"] \in Nat
         /\ K.open["connect"] \in Nat /\ K.open["frame"] \in Nat /\ K.open["reply"] \in Nat
BY OpenIsNat DEF OpenBytes

LEMMA HoldsAreNat ==
  ConnectHold \in Nat /\ FrameHold \in Nat /\ ReplyHold \in Nat
<1>1. /\ ConnectCostBytes \in Nat /\ LateAnswer \in Nat /\ FrameCostBytes \in Nat
      /\ FrameCostBytes - Frame \in Nat /\ Pure + 2 * Reset \in Nat
  BY Sizes DEF ConnectCostBytes, LateAnswer, FrameCostBytes
<1> QED
  BY <1>1 DEF ConnectHold, FrameHold, ReplyHold

LEMMA NumbersAfter ==
  /\ ConnectHold' \in Nat /\ FrameHold' \in Nat /\ ReplyHold' \in Nat
  /\ ConnectDue' \in Nat /\ FrameDue' \in Nat /\ ReplyDue' \in Nat
<1>1. /\ ConnectHold \in Nat /\ FrameHold \in Nat /\ ReplyHold \in Nat
      /\ ConnectDue \in Nat /\ FrameDue \in Nat /\ ReplyDue \in Nat
  BY HoldsAreNat, DueIsNat
<1>2. (/\ ConnectHold \in Nat /\ FrameHold \in Nat /\ ReplyHold \in Nat
       /\ ConnectDue \in Nat /\ FrameDue \in Nat /\ ReplyDue \in Nat)'
  BY <1>1, PTL
<1> QED
  BY <1>2

(* What a step does to the account: b bytes admitted, c closed (q of them in *)
(* entries that wait for late answers), e emitted, p provoked.               *)
Numbers(b, c, q, e, p) ==
  b \in Nat /\ c \in Nat /\ q \in Nat /\ e \in Nat /\ p \in Nat /\ p <= q
Moves(b, c, q, e, p) ==
  /\ Numbers(b, c, q, e, p)
  /\ b = 0 \/ Fits(ledger, b)
  /\ Shut(ledger, ledger', c, q)
  /\ Emits(wire, wire', e) /\ Provokes(late, late', p)
  /\ allowed' \subseteq Announcer /\ HoldsExact' /\ Links'
Spends(b, c, q, e, p) ==
  /\ Moves(b, c, q, e, p)
  /\ ConnectHold' + FrameHold' + ReplyHold' + c <= ConnectHold + FrameHold + ReplyHold + b
  /\ e + p + (ConnectDue' + FrameDue' + ReplyDue') + (ConnectHold + FrameHold + ReplyHold)
       <= (ConnectDue + FrameDue + ReplyDue) + (ConnectHold' + FrameHold' + ReplyHold') + c

LEMMA Spent ==
  ASSUME Inv, Cover, NEW b, NEW c, NEW q, NEW e, NEW p, Spends(b, c, q, e, p)
  PROVE  Cover'
<1>1. /\ ledger \in Books /\ ledger.open["connect"] = ConnectHold
      /\ ledger.open["frame"] = FrameHold /\ ledger.open["reply"] = ReplyHold
  BY CoverFacts
<1>2. /\ ledger'.open["connect"] = ConnectHold' /\ ledger'.open["frame"] = FrameHold'
      /\ ledger'.open["reply"] = ReplyHold'
  BY DEF Spends, Moves, HoldsExact
<1>3. /\ OpenBytes(ledger) = ConnectHold + FrameHold + ReplyHold
      /\ OpenBytes(ledger') = ConnectHold' + FrameHold' + ReplyHold'
  BY <1>1, <1>2 DEF OpenBytes
<1>4. Due = ConnectDue + FrameDue + ReplyDue /\ Due' = ConnectDue' + FrameDue' + ReplyDue'
  BY DEF Due
<1>5. /\ b \in Nat /\ c \in Nat /\ q \in Nat /\ e \in Nat /\ p \in Nat
      /\ p <= q /\ (b = 0 \/ Fits(ledger, b))
      /\ Shut(ledger, ledger', c, q)
      /\ Emits(wire, wire', e) /\ Provokes(late, late', p)
      /\ allowed' \subseteq Announcer /\ HoldsExact' /\ Links'
      /\ OpenBytes(ledger') + c <= OpenBytes(ledger) + b
      /\ e + p + Due' + OpenBytes(ledger) <= Due + OpenBytes(ledger') + c
  BY <1>3, <1>4 DEF Spends, Moves, Numbers
<1> QED
  BY <1>5, CoverStep

(* The same, of a step of one exchange.                                      *)
SameConnect == ConnectHold' = ConnectHold /\ ConnectDue' = ConnectDue
SameFrame == FrameHold' = FrameHold /\ FrameDue' = FrameDue
SameReply == ReplyHold' = ReplyHold /\ ReplyDue' = ReplyDue

LEMMA ConnectSpent ==
  ASSUME Inv, Cover, NEW b, NEW c, NEW q, NEW e, NEW p, Moves(b, c, q, e, p),
         SameFrame, SameReply,
         ConnectHold' + c <= ConnectHold + b,
         e + p + ConnectDue' + ConnectHold <= ConnectDue + ConnectHold' + c
  PROVE  Cover'
<1> DEFINE h == ConnectHold
           i == ConnectHold'
           d == ConnectDue
           f == ConnectDue'
           h1 == FrameHold
           d1 == FrameDue
           h2 == ReplyHold
           d2 == ReplyDue
<1>1. b \in Nat /\ c \in Nat /\ e \in Nat /\ p \in Nat
  BY DEF Moves, Numbers
<1>2. h \in Nat /\ d \in Nat /\ h1 \in Nat /\ d1 \in Nat /\ h2 \in Nat /\ d2 \in Nat
  BY HoldsAreNat, DueIsNat
<1>3. i \in Nat /\ f \in Nat
  BY NumbersAfter
<1>4. i + c <= h + b /\ e + p + f + h <= d + i + c
  OBVIOUS
<1> HIDE DEF h, i, d, f, h1, d1, h2, d2
<1>5. /\ i + h1 + h2 + c <= h + h1 + h2 + b
      /\ e + p + (f + d1 + d2) + (h + h1 + h2) <= (d + d1 + d2) + (i + h1 + h2) + c
  BY <1>1, <1>2, <1>3, <1>4
<1>6. FrameHold' = h1 /\ FrameDue' = d1 /\ ReplyHold' = h2 /\ ReplyDue' = d2
  BY DEF SameFrame, SameReply, h1, d1, h2, d2
<1>7. Spends(b, c, q, e, p)
  BY <1>5, <1>6 DEF Spends, h, i, d, f, h1, d1, h2, d2
<1> QED
  BY <1>7, Spent

LEMMA FrameSpent ==
  ASSUME Inv, Cover, NEW b, NEW c, NEW q, NEW e, NEW p, Moves(b, c, q, e, p),
         SameConnect, SameReply,
         FrameHold' + c <= FrameHold + b,
         e + p + FrameDue' + FrameHold <= FrameDue + FrameHold' + c
  PROVE  Cover'
<1> DEFINE h == FrameHold
           i == FrameHold'
           d == FrameDue
           f == FrameDue'
           h1 == ConnectHold
           d1 == ConnectDue
           h2 == ReplyHold
           d2 == ReplyDue
<1>1. b \in Nat /\ c \in Nat /\ e \in Nat /\ p \in Nat
  BY DEF Moves, Numbers
<1>2. h \in Nat /\ d \in Nat /\ h1 \in Nat /\ d1 \in Nat /\ h2 \in Nat /\ d2 \in Nat
  BY HoldsAreNat, DueIsNat
<1>3. i \in Nat /\ f \in Nat
  BY NumbersAfter
<1>4. i + c <= h + b /\ e + p + f + h <= d + i + c
  OBVIOUS
<1> HIDE DEF h, i, d, f, h1, d1, h2, d2
<1>5. /\ h1 + i + h2 + c <= h1 + h + h2 + b
      /\ e + p + (d1 + f + d2) + (h1 + h + h2) <= (d1 + d + d2) + (h1 + i + h2) + c
  BY <1>1, <1>2, <1>3, <1>4
<1>6. ConnectHold' = h1 /\ ConnectDue' = d1 /\ ReplyHold' = h2 /\ ReplyDue' = d2
  BY DEF SameConnect, SameReply, h1, d1, h2, d2
<1>7. Spends(b, c, q, e, p)
  BY <1>5, <1>6 DEF Spends, h, i, d, f, h1, d1, h2, d2
<1> QED
  BY <1>7, Spent

LEMMA ReplySpent ==
  ASSUME Inv, Cover, NEW b, NEW c, NEW q, NEW e, NEW p, Moves(b, c, q, e, p),
         SameConnect, SameFrame,
         ReplyHold' + c <= ReplyHold + b,
         e + p + ReplyDue' + ReplyHold <= ReplyDue + ReplyHold' + c
  PROVE  Cover'
<1> DEFINE h == ReplyHold
           i == ReplyHold'
           d == ReplyDue
           f == ReplyDue'
           h1 == ConnectHold
           d1 == ConnectDue
           h2 == FrameHold
           d2 == FrameDue
<1>1. b \in Nat /\ c \in Nat /\ e \in Nat /\ p \in Nat
  BY DEF Moves, Numbers
<1>2. h \in Nat /\ d \in Nat /\ h1 \in Nat /\ d1 \in Nat /\ h2 \in Nat /\ d2 \in Nat
  BY HoldsAreNat, DueIsNat
<1>3. i \in Nat /\ f \in Nat
  BY NumbersAfter
<1>4. i + c <= h + b /\ e + p + f + h <= d + i + c
  OBVIOUS
<1> HIDE DEF h, i, d, f, h1, d1, h2, d2
<1>5. /\ h1 + h2 + i + c <= h1 + h2 + h + b
      /\ e + p + (d1 + d2 + f) + (h1 + h2 + h) <= (d1 + d2 + d) + (h1 + h2 + i) + c
  BY <1>1, <1>2, <1>3, <1>4
<1>6. ConnectHold' = h1 /\ ConnectDue' = d1 /\ FrameHold' = h2 /\ FrameDue' = d2
  BY DEF SameConnect, SameFrame, h1, d1, h2, d2
<1>7. Spends(b, c, q, e, p)
  BY <1>5, <1>6 DEF Spends, h, i, d, f, h1, d1, h2, d2
<1> QED
  BY <1>7, Spent

(* A step that emits what its exchange was to emit, and changes no hold.     *)
LEMMA ConnectEmits ==
  ASSUME Inv, Cover, NEW e \in Nat, Moves(0, 0, 0, e, 0), SameFrame, SameReply,
         ConnectHold' = ConnectHold, e + ConnectDue' <= ConnectDue
  PROVE  Cover'
<1> DEFINE h == ConnectHold
           i == ConnectHold'
           d == ConnectDue
           f == ConnectDue'
<1>1. h \in Nat /\ d \in Nat /\ f \in Nat /\ i \in Nat
  BY HoldsAreNat, DueIsNat, NumbersAfter
<1>2. i = h /\ e + f <= d
  OBVIOUS
<1> HIDE DEF h, i, d, f
<1>3. i + 0 <= h + 0 /\ e + 0 + f + h <= d + i + 0
  BY <1>1, <1>2
<1> QED
  BY <1>3, ConnectSpent DEF h, i, d, f

LEMMA FrameEmits ==
  ASSUME Inv, Cover, NEW e \in Nat, Moves(0, 0, 0, e, 0), SameConnect, SameReply,
         FrameHold' = FrameHold, e + FrameDue' <= FrameDue
  PROVE  Cover'
<1> DEFINE h == FrameHold
           i == FrameHold'
           d == FrameDue
           f == FrameDue'
<1>1. h \in Nat /\ d \in Nat /\ f \in Nat /\ i \in Nat
  BY HoldsAreNat, DueIsNat, NumbersAfter
<1>2. i = h /\ e + f <= d
  OBVIOUS
<1> HIDE DEF h, i, d, f
<1>3. i + 0 <= h + 0 /\ e + 0 + f + h <= d + i + 0
  BY <1>1, <1>2
<1> QED
  BY <1>3, FrameSpent DEF h, i, d, f

(* The loop gives up both its holds.                                         *)
LEMMA BothSpent ==
  ASSUME Inv, Cover, NEW c, NEW q, NEW e, NEW p, Moves(0, c, q, e, p), SameReply,
         ConnectHold' = 0, FrameHold' = 0, ConnectDue' = 0, FrameDue' = 0,
         c <= ConnectHold + FrameHold,
         e + p + ConnectHold + FrameHold <= ConnectDue + FrameDue + c
  PROVE  Cover'
<1> DEFINE h == ConnectHold
           d == ConnectDue
           h1 == FrameHold
           d1 == FrameDue
           h2 == ReplyHold
           d2 == ReplyDue
<1>1. c \in Nat /\ e \in Nat /\ p \in Nat
  BY DEF Moves, Numbers
<1>2. h \in Nat /\ d \in Nat /\ h1 \in Nat /\ d1 \in Nat /\ h2 \in Nat /\ d2 \in Nat
  BY HoldsAreNat, DueIsNat
<1>3. c <= h + h1 /\ e + p + h + h1 <= d + d1 + c
  OBVIOUS
<1> HIDE DEF h, d, h1, d1, h2, d2
<1>4. /\ 0 + 0 + h2 + c <= h + h1 + h2 + 0
      /\ e + p + (0 + 0 + d2) + (h + h1 + h2) <= (d + d1 + d2) + (0 + 0 + h2) + c
  BY <1>1, <1>2, <1>3
<1>5. ReplyHold' = h2 /\ ReplyDue' = d2
  BY DEF SameReply, h2, d2
<1>6. Spends(0, c, q, e, p)
  BY <1>4, <1>5 DEF Spends, h, d, h1, d1, h2, d2
<1> QED
  BY <1>6, Spent

(* Steps that move no byte.                                                  *)
LEMMA QuietStep ==
  ASSUME Inv, Cover, ledger' = ledger, wire' = wire, late' = late,
         allowed' \subseteq Announcer, Links',
         ConnectHold' = ConnectHold, FrameHold' = FrameHold, ReplyHold' = ReplyHold,
         ConnectDue' = ConnectDue, FrameDue' = FrameDue, ReplyDue' = ReplyDue
  PROVE  Cover'
<1>1. Due' = Due
  BY DEF Due
<1> QED
  BY <1>1 DEF Cover, HoldsExact

-----------------------------------------------------------------------------
(* What a thread holds and owes in each of its steps.                        *)
LEMMA LoopIdles ==
  ASSUME loop.pc \notin {"dial", "hello"}
  PROVE  /\ conn /\ answer = "due" => ConnectHold = LateAnswer /\ ConnectDue = LateAnswer
         /\ conn /\ answer = "unread" => ConnectHold = LateAnswer /\ ConnectDue = 0
         /\ ~conn \/ answer = "none" => ConnectHold = 0 /\ ConnectDue = 0
BY DEF ConnectHold, ConnectDue, At

LEMMA DropLinkCover ==
  ASSUME Inv, Cover, DropLink, Free, loop' = loop,
         ReplyHold' = ReplyHold, ReplyDue' = ReplyDue,
         wire' = wire, allowed' = allowed
  PROVE  Cover'
<1>1. /\ ledger \in Books /\ wire \in Wires /\ late \in Lates
      /\ ledger.open["connect"] = ConnectHold /\ ledger.open["frame"] = FrameHold
      /\ ledger.open["reply"] = ReplyHold /\ allowed \subseteq Announcer /\ Links
  BY CoverFacts
<1>2. FrameDue' = FrameDue /\ FrameHold' = FrameHold
  BY DEF FrameDue, FrameHold, At
<1>3. loop.pc \notin {"dial", "hello"} /\ loop'.pc \notin {"dial", "hello"}
  BY DEF Free
<1>4. CASE conn
  <2>1. /\ ledger' = Closed(ledger) /\ late' = [late EXCEPT ![LateBy] = @ + Unanswered]
        /\ conn' = FALSE /\ answer' = "none"
    BY <1>4 DEF DropLink, Provoke, Disconnected
  <2>2. /\ ledger'.open["connect"] = 0 /\ ledger'.open["frame"] = FrameHold
        /\ ledger'.open["reply"] = ReplyHold
        /\ Shut(ledger, ledger', ConnectHold, ConnectHold)
    BY <1>1, <2>1, ClosedSums
  <2>3. Unanswered \in Nat /\ Provokes(late, late', Unanswered)
    BY <1>1, <2>1, UnansweredIs, ProvokeSums
  <2>4. ConnectHold' = 0 /\ ConnectDue' = 0
    BY <1>3, <2>1 DEF ConnectHold, ConnectDue, At
  <2>5. Unanswered <= ConnectHold /\ Unanswered <= ConnectDue
    <3>1. CASE answer = "due"
      <4>1. ConnectHold = LateAnswer /\ ConnectDue = LateAnswer
        BY <1>3, <1>4, <3>1, LoopIdles
      <4> QED
        BY <3>1, <4>1, UnansweredIs, CostSums, Sizes
    <3>2. CASE answer # "due"
      BY <3>2, UnansweredIs, HoldsAreNat, DueIsNat
    <3> QED
      BY <3>1, <3>2
  <2>6. HoldsExact' /\ Links'
    BY <1>2, <1>3, <2>1, <2>2, <2>4 DEF HoldsExact, Links
  <2>7. Emits(wire, wire', 0)
    BY <1>1, EmitNothing
  <2>8. Moves(0, ConnectHold, ConnectHold, 0, Unanswered)
    BY <1>1, <2>2, <2>3, <2>5, <2>6, <2>7, HoldsAreNat DEF Moves, Numbers
  <2>9. /\ ConnectHold' + ConnectHold <= ConnectHold + 0
        /\ 0 + Unanswered + ConnectDue' + ConnectHold
             <= ConnectDue + ConnectHold' + ConnectHold
    BY <2>3, <2>4, <2>5, HoldsAreNat, DueIsNat
  <2> QED
    BY <1>2, <2>8, <2>9, ConnectSpent DEF SameFrame, SameReply
<1>5. CASE ~conn
  <2>1. UNCHANGED <<ledger, late, conn, answer>>
    BY <1>5 DEF DropLink, client
  <2>2. ConnectDue' = ConnectDue /\ ConnectHold' = ConnectHold
    BY <2>1 DEF ConnectDue, ConnectHold, At
  <2>3. Links'
    BY <1>1, <2>1 DEF Links
  <2> QED
    BY <1>1, <1>2, <2>1, <2>2, <2>3, QuietStep
<1> QED
  BY <1>4, <1>5

LEMMA FailoverCover == ASSUME Inv, Cover, Failover PROVE Cover'
<1>1. /\ DropLink /\ Free /\ loop' = loop /\ server' = server
      /\ allowed' = allowed /\ wire' = wire
  BY DEF Failover, Free, At
<1>2. ReplyHold' = ReplyHold /\ ReplyDue' = ReplyDue
  BY <1>1 DEF ReplyHold, ReplyDue
<1> QED
  BY <1>1, <1>2, DropLinkCover

(* The loop between two steps that send nothing and hold nothing.            *)
LEMMA WaitCover ==
  ASSUME Inv, Cover, loop.pc \in {"idle", "ready", "wait"},
         loop'.pc \in {"idle", "ready", "wait"},
         UNCHANGED <<ledger, client, server, allowed, wire, late>>
  PROVE  Cover'
<1>1. Links /\ allowed \subseteq Announcer
  BY CoverFacts
<1>2. conn' = conn /\ answer' = answer
  BY DEF client
<1>3. /\ ConnectHold' = ConnectHold /\ FrameHold' = FrameHold /\ ReplyHold' = ReplyHold
      /\ ConnectDue' = ConnectDue /\ FrameDue' = FrameDue /\ ReplyDue' = ReplyDue
  BY <1>2 DEF ConnectHold, FrameHold, ReplyHold, ConnectDue, FrameDue, ReplyDue, At
<1>4. Links'
  BY <1>1, <1>2 DEF Links
<1> QED
  BY <1>1, <1>3, <1>4, QuietStep

LEMMA SendFrameCover == ASSUME Inv, Cover, NEW prio, SendFrame(prio) PROVE Cover'
<1>1. loop.pc = "idle" /\ loop'.pc = "ready"
  BY DEF SendFrame, At, Idle
<1> QED
  BY <1>1, WaitCover DEF SendFrame

LEMMA AskRoomCover == ASSUME Inv, Cover, AskRoom PROVE Cover'
<1>1. loop.pc = "ready" /\ loop'.pc = "wait"
  BY DEF AskRoom, At, Goto, Inv, LoopType
<1> QED
  BY <1>1, WaitCover DEF AskRoom

LEMMA NoBudgetCover == ASSUME Inv, Cover, NoBudget PROVE Cover'
<1>1. loop.pc = "wait" /\ loop'.pc = "idle"
  BY DEF NoBudget, At, Goto, Inv, LoopType
<1> QED
  BY <1>1, WaitCover DEF NoBudget

LEMMA DialCover == ASSUME Inv, Cover, NEW prio, Dial(prio) PROVE Cover'
<1> DEFINE C == ConnectCostBytes
           L == Held(ledger, "connect", C)
<1>1. /\ ledger \in Books /\ wire \in Wires /\ late \in Lates
      /\ ledger.open["connect"] = ConnectHold /\ ledger.open["frame"] = FrameHold
      /\ ledger.open["reply"] = ReplyHold /\ allowed \subseteq Announcer /\ Links
  BY CoverFacts
<1>2. /\ loop.pc = "idle" /\ ~conn /\ Fits(ledger, C)
      /\ UNCHANGED <<conn, answer, server, allowed, late>>
  BY DEF Dial, At, Admits, client
<1>3. /\ ConnectHold = 0 /\ FrameHold = 0 /\ ConnectDue = 0 /\ FrameDue = 0
      /\ ReplyHold' = ReplyHold /\ ReplyDue' = ReplyDue
  BY <1>2 DEF ConnectHold, FrameHold, ReplyHold, ConnectDue, FrameDue, ReplyDue, At
<1>4. C \in Nat /\ C >= Syn /\ Syn \in Nat
  BY CostSums, Sizes
<1>5. Provokes(late, late', 0)
  BY <1>1, <1>2, ProvokeNothing
<1>6. /\ L \in Books /\ L.open["connect"] = C
      /\ \A u \in Ticket : u # "connect" => L.open[u] = ledger.open[u]
      /\ Shut(ledger, L, 0, 0)
  BY <1>1, <1>4, Tickets, HeldSums
<1>7. L.open["frame"] = FrameHold /\ L.open["reply"] = ReplyHold
  BY <1>1, <1>6, Tickets
<1> HIDE DEF C, L
<1>8. CASE ledger' = L /\ loop'.pc = "dial" /\ Emit(Syn)
  <2>1. ConnectHold' = C /\ FrameHold' = 0 /\ ConnectDue' = C - Syn /\ FrameDue' = 0
    BY <1>8 DEF ConnectHold, FrameHold, ConnectDue, FrameDue, At, C
  <2>2. Emits(wire, wire', Syn)
    BY <1>1, <1>4, <1>8, EmitSums DEF Emit
  <2>3. HoldsExact' /\ Links'
    BY <1>1, <1>2, <1>3, <1>6, <1>7, <1>8, <2>1 DEF HoldsExact, Links
  <2>4. Moves(C, 0, 0, Syn, 0)
    BY <1>1, <1>2, <1>4, <1>5, <1>6, <1>8, <2>2, <2>3 DEF Moves, Numbers
  <2>5. /\ ConnectHold' + 0 <= ConnectHold + C
        /\ Syn + 0 + ConnectDue' + ConnectHold <= ConnectDue + ConnectHold' + 0
    BY <1>3, <1>4, <2>1
  <2> QED
    BY <1>3, <2>1, <2>4, <2>5, ConnectSpent DEF SameFrame, SameReply
<1>9. CASE ledger' = ReleasedAt(L, "connect", 0) /\ loop' = loop /\ wire' = wire
  <2>1. /\ ConnectHold' = 0 /\ FrameHold' = 0 /\ ConnectDue' = 0 /\ FrameDue' = 0
    BY <1>2, <1>9 DEF ConnectHold, FrameHold, ConnectDue, FrameDue, At
  <2>2. Emits(wire, wire', 0)
    BY <1>1, <1>9, EmitNothing
  <2>3. /\ ledger' \in Books /\ ledger'.open["connect"] = 0
        /\ \A u \in Ticket : u # "connect" => ledger'.open[u] = L.open[u]
        /\ Shut(L, ledger', L.open["connect"], 0)
    <3>1. L \in Books /\ "connect" \in Ticket /\ ledger' = ReleasedAt(L, "connect", 0)
      BY <1>6, <1>9, Tickets
    <3> QED
      BY <3>1, ReleasedNowSums
  <2>9. Shut(L, ledger', C, 0)
    BY <1>6, <2>3, Zenon
  <2>4. ledger'.open["frame"] = FrameHold /\ ledger'.open["reply"] = ReplyHold
    BY <1>7, <2>3, Tickets
  <2>5. Shut(ledger, ledger', 0 + C, 0 + 0)
    BY <1>1, <1>4, <1>6, <2>9, ShutTwice
  <2>6. Shut(ledger, ledger', C, 0)
    BY <1>4, <2>5
  <2>7. HoldsExact' /\ Links'
    BY <1>1, <1>2, <1>3, <1>9, <2>1, <2>3, <2>4 DEF HoldsExact, Links
  <2>8. Moves(C, C, 0, 0, 0)
    BY <1>1, <1>2, <1>4, <1>5, <2>2, <2>6, <2>7 DEF Moves, Numbers
  <2>10. /\ ConnectHold' + C <= ConnectHold + C
         /\ 0 + 0 + ConnectDue' + ConnectHold <= ConnectDue + ConnectHold' + C
    BY <1>3, <1>4, <2>1
  <2> QED
    BY <1>3, <2>1, <2>8, <2>10, ConnectSpent DEF SameFrame, SameReply
<1> QED
  <2>1. \/ ledger' = L /\ loop'.pc = "dial" /\ Emit(Syn)
        \/ ledger' = ReleasedAt(L, "connect", 0) /\ loop' = loop /\ wire' = wire
    BY DEF Dial, L, C, Idle
  <2> QED
    BY <1>8, <1>9, <2>1

LEMMA ConnectsCover == ASSUME Inv, Cover, Connects PROVE Cover'
<1>1. /\ ledger \in Books /\ wire \in Wires /\ late \in Lates
      /\ HoldsExact /\ allowed \subseteq Announcer /\ Links
  BY CoverFacts DEF Cover
<1>2. /\ loop.pc = "dial" /\ loop'.pc = "hello"
      /\ UNCHANGED <<ledger, conn, answer, server, allowed, late>>
      /\ Emit(Syn + Pure + Hello)
  BY DEF Connects, At, Goto, client, Inv, LoopType
<1>3. ConnectHold' = ConnectHold /\ FrameHold' = FrameHold /\ ReplyHold' = ReplyHold
      /\ FrameDue' = FrameDue /\ ReplyDue' = ReplyDue
  BY <1>2 DEF ConnectHold, FrameHold, ReplyHold, FrameDue, ReplyDue, At
<1>4. /\ ConnectDue = ConnectCostBytes - Syn
      /\ \/ ConnectDue' = LateAnswer + 2 * Reset + 0
         \/ ConnectDue' = LateAnswer + 2 * Reset + Pure
  BY <1>2 DEF ConnectDue, At
<1>5. (Syn + Pure + Hello) + ConnectDue' <= ConnectDue
  BY <1>4, CostSums, Sizes
<1>6. Shut(ledger, ledger', 0, 0) /\ Provokes(late, late', 0)
  BY <1>1, <1>2, ShutNothing, ProvokeNothing
<1>8. HoldsExact' /\ Links'
  BY <1>1, <1>2, <1>3 DEF HoldsExact, Links
<1> DEFINE e == Syn + Pure + Hello
<1>7. e \in Nat /\ e + ConnectDue' <= ConnectDue
  BY <1>5, Sizes
<1>10. wire' = [wire EXCEPT ![0] = @ + e]
  BY <1>2 DEF Emit
<1> HIDE DEF e
<1>9. Moves(0, 0, 0, e, 0)
  <2>1. Emits(wire, wire', e)
    BY <1>1, <1>7, <1>10, EmitSums
  <2> QED
    BY <1>1, <1>2, <1>6, <1>7, <1>8, <2>1 DEF Moves, Numbers
<1> QED
  BY <1>3, <1>7, <1>9, ConnectEmits DEF SameFrame, SameReply

LEMMA ConnectFailsCover == ASSUME Inv, Cover, ConnectFails PROVE Cover'
<1> DEFINE C == ConnectCostBytes
           p == Syn + Reset
<1>1. /\ ledger \in Books /\ wire \in Wires /\ late \in Lates
      /\ ledger.open["connect"] = ConnectHold /\ HoldsExact
      /\ allowed \subseteq Announcer /\ Links
  BY CoverFacts DEF Cover
<1>2. /\ loop.pc = "dial" /\ loop'.pc = "idle"
      /\ UNCHANGED <<conn, answer, server, allowed, wire>>
      /\ ledger' = ReleasedAt(ledger, "connect", AbortTail)
      /\ late' = [late EXCEPT ![LateBy] = @ + p]
  BY DEF ConnectFails, At, Goto, client, Inv, LoopType, Provoke
<1>3. SameFrame /\ SameReply
  BY <1>2 DEF SameFrame, SameReply, FrameHold, ReplyHold, FrameDue, ReplyDue, At
<1>4. ConnectHold = C /\ ConnectDue = C - Syn /\ ~conn
  BY <1>1, <1>2 DEF ConnectHold, ConnectDue, At, Links
<1>5. ConnectHold' = 0 /\ ConnectDue' = 0
  BY <1>2, <1>4 DEF ConnectHold, ConnectDue, At
<1>6. C \in Nat /\ p \in Nat /\ p + Syn <= C /\ Syn \in Nat
  BY CostSums, Sizes
<1> HIDE DEF C, p
<1>7. /\ ledger'.open["connect"] = 0
      /\ \A u \in Ticket : u # "connect" => ledger'.open[u] = ledger.open[u]
      /\ Shut(ledger, ledger', ledger.open["connect"], ledger.open["connect"])
  <2>1. /\ ledger \in Books /\ "connect" \in Ticket /\ AbortTail \in 0 .. MaxTail
        /\ ledger' = ReleasedAt(ledger, "connect", AbortTail)
    BY <1>1, <1>2, Tickets, Tails
  <2> QED
    BY <2>1, ReleasedAtSums
<1>8. Shut(ledger, ledger', C, C)
  BY <1>1, <1>4, <1>7, Zenon
<1>9. HoldsExact' /\ Links'
  BY <1>1, <1>2, <1>3, <1>5, <1>7, Tickets DEF HoldsExact, Links, SameFrame, SameReply
<1>10. Emits(wire, wire', 0) /\ Provokes(late, late', p)
  BY <1>1, <1>2, <1>6, EmitNothing, ProvokeSums
<1>11. Moves(0, C, C, 0, p)
  BY <1>1, <1>2, <1>6, <1>8, <1>9, <1>10 DEF Moves, Numbers
<1>12. /\ ConnectHold' + C <= ConnectHold + 0
       /\ 0 + p + ConnectDue' + ConnectHold <= ConnectDue + ConnectHold' + C
  BY <1>4, <1>5, <1>6
<1> QED
  BY <1>3, <1>11, <1>12, ConnectSpent

LEMMA PeerAcksCover == ASSUME Inv, Cover, PeerAcks PROVE Cover'
<1>1. /\ ledger \in Books /\ wire \in Wires /\ late \in Lates
      /\ HoldsExact /\ allowed \subseteq Announcer /\ Links
  BY CoverFacts DEF Cover
<1>2. /\ ~loop.acked /\ loop'.acked /\ loop'.pc = loop.pc
      /\ UNCHANGED <<ledger, conn, answer, server, allowed, late>>
      /\ wire' = [wire EXCEPT ![0] = @ + Pure]
  BY DEF PeerAcks, client, Inv, LoopType, Emit
<1>3. SameReply /\ ConnectHold' = ConnectHold /\ FrameHold' = FrameHold
  BY <1>2 DEF SameReply, ConnectHold, FrameHold, ReplyHold, ReplyDue, At
<1>4. HoldsExact' /\ Links'
  BY <1>1, <1>2, <1>3 DEF HoldsExact, Links, SameReply
<1>5. Shut(ledger, ledger', 0, 0) /\ Provokes(late, late', 0) /\ Emits(wire, wire', Pure)
  BY <1>1, <1>2, ShutNothing, ProvokeNothing, EmitSums, Sizes
<1>6. Moves(0, 0, 0, Pure, 0) /\ Pure \in Nat
  BY <1>1, <1>2, <1>4, <1>5, Sizes DEF Moves, Numbers
<1>7. CASE loop.pc = "hello"
  <2>1. SameFrame
    BY <1>2, <1>3, <1>7 DEF SameFrame, FrameDue, At
  <2>2. ConnectDue = LateAnswer + 2 * Reset + Pure /\ ConnectDue' = LateAnswer + 2 * Reset + 0
    BY <1>2, <1>7 DEF ConnectDue, At
  <2>3. Pure + ConnectDue' <= ConnectDue
    BY <2>2, CostSums, Sizes
  <2> QED
    BY <1>3, <1>6, <2>1, <2>3, ConnectEmits
<1>8. CASE loop.pc = "await"
  <2>1. SameConnect
    BY <1>2, <1>3, <1>8 DEF SameConnect, ConnectDue, At
  <2>2. FrameDue = LateAnswer + 2 * Reset + Pure /\ FrameDue' = LateAnswer + 2 * Reset + 0
    BY <1>2, <1>8 DEF FrameDue, At
  <2>3. Pure + FrameDue' <= FrameDue
    BY <2>2, CostSums, Sizes
  <2> QED
    BY <1>3, <1>6, <2>1, <2>3, FrameEmits
<1> QED
  BY <1>7, <1>8 DEF PeerAcks

LEMMA HelloAnsweredCover == ASSUME Inv, Cover, NEW codec, HelloAnswered(codec) PROVE Cover'
<1> DEFINE C == ConnectCostBytes
           e == Answer + Pure
<1>1. /\ ledger \in Books /\ wire \in Wires /\ late \in Lates
      /\ ledger.open["connect"] = ConnectHold /\ HoldsExact
      /\ allowed \subseteq Announcer /\ Links
  BY CoverFacts DEF Cover
<1>2. /\ loop.pc = "hello" /\ loop'.pc = "ready" /\ conn' = TRUE
      /\ UNCHANGED <<answer, server, allowed, late>>
      /\ ledger' = ReleasedAt(ledger, "connect", FlushTail)
      /\ wire' = [wire EXCEPT ![0] = @ + e]
  BY DEF HelloAnswered, At, Goto, Inv, LoopType, Emit
<1>3. SameFrame /\ SameReply
  BY <1>2 DEF SameFrame, SameReply, FrameHold, ReplyHold, FrameDue, ReplyDue, At
<1>4. /\ ConnectHold = C /\ answer = "none"
      /\ \/ ConnectDue = LateAnswer + 2 * Reset + 0
         \/ ConnectDue = LateAnswer + 2 * Reset + Pure
  BY <1>1, <1>2 DEF ConnectHold, ConnectDue, At, Links
<1>5. ConnectHold' = 0 /\ ConnectDue' = 0
  BY <1>2, <1>4 DEF ConnectHold, ConnectDue, At
<1>6. C \in Nat /\ e \in Nat /\ e <= ConnectDue
  BY <1>4, CostSums, Sizes
<1> HIDE DEF C, e
<1>7. /\ ledger'.open["connect"] = 0
      /\ \A u \in Ticket : u # "connect" => ledger'.open[u] = ledger.open[u]
      /\ Shut(ledger, ledger', ledger.open["connect"], 0)
  <2>1. /\ ledger \in Books /\ "connect" \in Ticket /\ FlushTail \in 0 .. MaxTail
        /\ ledger' = ReleasedAt(ledger, "connect", FlushTail)
    BY <1>1, <1>2, Tickets, Tails
  <2> QED
    BY <2>1, ReleasedAtSums
<1>8. Shut(ledger, ledger', C, 0)
  BY <1>1, <1>4, <1>7, Zenon
<1>9. HoldsExact' /\ Links'
  BY <1>1, <1>2, <1>3, <1>5, <1>7, Tickets DEF HoldsExact, Links, SameFrame, SameReply
<1>10. Emits(wire, wire', e) /\ Provokes(late, late', 0)
  BY <1>1, <1>2, <1>6, EmitSums, ProvokeNothing
<1>11. Moves(0, C, 0, e, 0)
  BY <1>1, <1>2, <1>6, <1>8, <1>9, <1>10 DEF Moves, Numbers
<1>12. /\ ConnectHold' + C <= ConnectHold + 0
       /\ e + 0 + ConnectDue' + ConnectHold <= ConnectDue + ConnectHold' + C
  <2>1. ConnectHold = C /\ ConnectDue \in Nat
    BY <1>4, DueIsNat
  <2> QED
    BY <1>5, <1>6, <2>1
<1> QED
  BY <1>3, <1>11, <1>12, ConnectSpent

LEMMA HelloSilentCover == ASSUME Inv, Cover, HelloSilent PROVE Cover'
<1> DEFINE C == ConnectCostBytes
           A == LateAnswer
           c == C - A
<1>1. /\ ledger \in Books /\ wire \in Wires /\ late \in Lates
      /\ ledger.open["connect"] = ConnectHold /\ HoldsExact
      /\ allowed \subseteq Announcer /\ Links
  BY CoverFacts DEF Cover
<1>2. /\ loop.pc = "hello" /\ loop.acked /\ loop'.pc = "ready"
      /\ conn' = TRUE /\ answer' = "due"
      /\ UNCHANGED <<server, allowed, late, wire>>
      /\ ledger' = ReleasedPart(ledger, "connect", c, EmissionTail)
  BY DEF HelloSilent, At, Goto, Inv, LoopType
<1>3. SameFrame /\ SameReply
  BY <1>2 DEF SameFrame, SameReply, FrameHold, ReplyHold, FrameDue, ReplyDue, At
<1>4. ConnectHold = C /\ ConnectDue = A + 2 * Reset + 0
  BY <1>2 DEF ConnectHold, ConnectDue, At
<1>5. ConnectHold' = A /\ ConnectDue' = A
  BY <1>2 DEF ConnectHold, ConnectDue, At
<1>6. C \in Nat /\ A \in Nat /\ c \in Nat /\ c <= C /\ C - c = A /\ c + A = C
  BY CostSums, Sizes
<1> HIDE DEF C, A, c
<1>7. /\ ledger'.open["connect"] = A
      /\ \A u \in Ticket : u # "connect" => ledger'.open[u] = ledger.open[u]
      /\ Shut(ledger, ledger', c, 0)
  <2>1. ledger.open["connect"] = C /\ c \in Nat /\ c <= ledger.open["connect"]
    BY <1>1, <1>4, <1>6
  <2>2. /\ ledger'.open["connect"] = ledger.open["connect"] - c
        /\ \A u \in Ticket : u # "connect" => ledger'.open[u] = ledger.open[u]
        /\ Shut(ledger, ledger', c, 0)
    BY <1>1, <1>2, <2>1, Tickets, Sizes, ReleasedPartSums
  <2> QED
    BY <1>6, <2>1, <2>2
<1>8. HoldsExact' /\ Links'
  BY <1>1, <1>2, <1>3, <1>5, <1>7, Tickets DEF HoldsExact, Links, SameFrame, SameReply
<1>9. Emits(wire, wire', 0) /\ Provokes(late, late', 0)
  BY <1>1, <1>2, EmitNothing, ProvokeNothing
<1>10. Moves(0, c, 0, 0, 0)
  BY <1>1, <1>2, <1>6, <1>7, <1>8, <1>9 DEF Moves, Numbers
<1>11. /\ ConnectHold' + c <= ConnectHold + 0
       /\ 0 + 0 + ConnectDue' + ConnectHold <= ConnectDue + ConnectHold' + c
  BY <1>4, <1>5, <1>6, Sizes
<1> QED
  BY <1>3, <1>10, <1>11, ConnectSpent

(* The resets that its late TCP ACK and its late answer draw, and our own:   *)
(* three, of which two are in the charge, and a pure ACK is for the third.   *)
LEMMA HelloLostCover == ASSUME Inv, Cover, HelloLost PROVE Cover'
<1> DEFINE C == ConnectCostBytes
           p == Pure + Reset + Answer + Reset
<1>1. /\ ledger \in Books /\ wire \in Wires /\ late \in Lates
      /\ ledger.open["connect"] = ConnectHold /\ ledger.open["frame"] = FrameHold
      /\ ledger.open["reply"] = ReplyHold /\ allowed \subseteq Announcer /\ Links
  BY CoverFacts
<1>2. /\ loop.pc = "hello" /\ ~loop.acked /\ loop'.pc = "idle"
      /\ UNCHANGED <<conn, answer, server, allowed>>
      /\ ledger' = Closed(ledger)
      /\ wire' = [wire EXCEPT ![0] = @ + Reset]
      /\ late' = [late EXCEPT ![LateBy] = @ + p]
  BY DEF HelloLost, At, Goto, client, Inv, LoopType, Emit, Provoke
<1>3. SameFrame /\ SameReply
  BY <1>2 DEF SameFrame, SameReply, FrameHold, ReplyHold, FrameDue, ReplyDue, At
<1>4. ConnectHold = C /\ ConnectDue = LateAnswer + 2 * Reset + Pure /\ ~conn
  BY <1>1, <1>2 DEF ConnectHold, ConnectDue, At, Links
<1>5. ConnectHold' = 0 /\ ConnectDue' = 0
  BY <1>2, <1>4 DEF ConnectHold, ConnectDue, At
<1>6. C \in Nat /\ p \in Nat /\ p <= C /\ Reset + p <= LateAnswer + 2 * Reset + Pure
      /\ Reset \in Nat
  BY CostSums, Sizes
<1> HIDE DEF C, p
<1>7. /\ ledger'.open["connect"] = 0 /\ ledger'.open["frame"] = FrameHold
      /\ ledger'.open["reply"] = ReplyHold
      /\ Shut(ledger, ledger', ConnectHold, ConnectHold)
  BY <1>1, <1>2, ClosedSums
<1>8. Shut(ledger, ledger', C, C)
  BY <1>4, <1>7, Zenon
<1>9. HoldsExact' /\ Links'
  BY <1>1, <1>2, <1>3, <1>5, <1>7 DEF HoldsExact, Links, SameFrame, SameReply
<1>10. Emits(wire, wire', Reset) /\ Provokes(late, late', p)
  BY <1>1, <1>2, <1>6, EmitSums, ProvokeSums
<1>11. Moves(0, C, C, Reset, p)
  BY <1>1, <1>2, <1>6, <1>8, <1>9, <1>10 DEF Moves, Numbers
<1>12. /\ ConnectHold' + C <= ConnectHold + 0
       /\ Reset + p + ConnectDue' + ConnectHold <= ConnectDue + ConnectHold' + C
  <2>1. ConnectHold = C /\ ConnectDue \in Nat /\ Reset + p <= ConnectDue
    BY <1>4, <1>6, DueIsNat
  <2> QED
    BY <1>5, <1>6, <2>1
<1> QED
  BY <1>3, <1>11, <1>12, ConnectSpent

LEMMA HelloLateCover == ASSUME Inv, Cover, HelloLate PROVE Cover'
<1> DEFINE e == Answer + Pure
<1>1. /\ ledger \in Books /\ wire \in Wires /\ late \in Lates
      /\ HoldsExact /\ allowed \subseteq Announcer /\ Links
  BY CoverFacts DEF Cover
<1>2. /\ conn /\ answer = "due" /\ answer' = "unread"
      /\ UNCHANGED <<ledger, loop, conn, server, allowed, late>>
      /\ wire' = [wire EXCEPT ![0] = @ + e]
  BY DEF HelloLate, Emit
<1>3. SameFrame /\ SameReply
  BY <1>2 DEF SameFrame, SameReply, FrameHold, ReplyHold, FrameDue, ReplyDue, At
<1>4. loop.pc \notin {"dial", "hello"}
  BY <1>1, <1>2 DEF Links
<1>5. ConnectHold' = ConnectHold /\ ConnectDue = LateAnswer /\ ConnectDue' = 0
  BY <1>2, <1>4 DEF ConnectHold, ConnectDue, At
<1>6. e \in Nat /\ e + ConnectDue' <= ConnectDue
  BY <1>5, CostSums, Sizes
<1> HIDE DEF e
<1>7. HoldsExact' /\ Links'
  BY <1>1, <1>2, <1>3, <1>5 DEF HoldsExact, Links, SameFrame, SameReply
<1>8. Shut(ledger, ledger', 0, 0) /\ Provokes(late, late', 0) /\ Emits(wire, wire', e)
  BY <1>1, <1>2, <1>6, ShutNothing, ProvokeNothing, EmitSums
<1>9. Moves(0, 0, 0, e, 0)
  BY <1>1, <1>2, <1>6, <1>7, <1>8 DEF Moves, Numbers
<1> QED
  BY <1>3, <1>5, <1>6, <1>9, ConnectEmits

LEMMA UnansweredCovered ==
  ASSUME Links, answer \in {"none", "due", "unread"}, loop.pc \notin {"dial", "hello"}
  PROVE  Unanswered \in Nat /\ Unanswered <= ConnectHold /\ Unanswered <= ConnectDue
<1>1. CASE answer = "due"
  <2>1. conn
    BY <1>1 DEF Links
  <2>2. ConnectHold = LateAnswer /\ ConnectDue = LateAnswer
    BY <1>1, <2>1, LoopIdles
  <2> QED
    BY <1>1, <2>2, UnansweredIs, CostSums, Sizes
<1>2. CASE answer # "due"
  BY <1>2, UnansweredIs, HoldsAreNat, DueIsNat
<1> QED
  BY <1>1, <1>2

LEMMA OversizeCover == ASSUME Inv, Cover, Oversize PROVE Cover'
<1> DEFINE H == ConnectHold
           u == Unanswered
<1>1. /\ ledger \in Books /\ wire \in Wires /\ late \in Lates
      /\ ledger.open["connect"] = ConnectHold /\ ledger.open["frame"] = FrameHold
      /\ ledger.open["reply"] = ReplyHold /\ allowed \subseteq Announcer /\ Links
  BY CoverFacts
<1>2. /\ loop.pc = "ready" /\ loop'.pc = "idle" /\ conn' = FALSE /\ answer' = "none"
      /\ server' = server /\ allowed' = allowed
      /\ late' = [late EXCEPT ![LateBy] = @ + u]
  BY DEF Oversize, At, Goto, Disconnected, Inv, LoopType, Provoke
<1>3. SameFrame /\ SameReply
  BY <1>2 DEF SameFrame, SameReply, FrameHold, ReplyHold, FrameDue, ReplyDue, At
<1>4. ConnectHold' = 0 /\ ConnectDue' = 0
  BY <1>2 DEF ConnectHold, ConnectDue, At
<1>5. u \in Nat /\ u <= H /\ u <= ConnectDue /\ H \in Nat /\ ConnectDue \in Nat
  BY <1>1, <1>2, UnansweredCovered, HoldsAreNat, DueIsNat DEF Inv
<1>6. ConnectHold = H
  OBVIOUS
<1>7. Provokes(late, late', u)
  BY <1>1, <1>2, <1>5, ProvokeSums
<1> HIDE DEF H, u
<1>8. CASE Admits(Reset, loop.prio)
  <2> DEFINE L == Charged(ledger, Reset)
  <2>1. ledger' = Closed(L) /\ wire' = [wire EXCEPT ![0] = @ + Reset] /\ Fits(ledger, Reset)
    BY <1>8 DEF Oversize, Emit, Admits
  <2>2. L \in Books /\ L.open = ledger.open /\ Shut(ledger, L, Reset, 0) /\ Reset \in Nat
    BY <1>1, Sizes, ChargedSums
  <2> HIDE DEF L
  <2>3. /\ ledger'.open["connect"] = 0 /\ ledger'.open["frame"] = L.open["frame"]
        /\ ledger'.open["reply"] = L.open["reply"]
        /\ Shut(L, ledger', L.open["connect"], L.open["connect"])
    BY <2>1, <2>2, ClosedSums
  <2>4. Shut(L, ledger', H, H)
    BY <1>1, <1>6, <2>2, <2>3, Zenon
  <2>5. Shut(ledger, ledger', Reset + H, 0 + H)
    BY <1>1, <1>5, <2>2, <2>4, ShutTwice
  <2>6. HoldsExact' /\ Links'
    BY <1>1, <1>2, <1>3, <1>4, <2>2, <2>3 DEF HoldsExact, Links, SameFrame, SameReply
  <2>7. Emits(wire, wire', Reset)
    BY <1>1, <2>1, <2>2, EmitSums
  <2>8. Moves(Reset, Reset + H, 0 + H, Reset, u)
    <3>1. Numbers(Reset, Reset + H, 0 + H, Reset, u)
      BY <1>5, <2>2 DEF Numbers
    <3> QED
      BY <1>1, <1>2, <1>7, <2>1, <2>5, <2>6, <2>7, <3>1 DEF Moves
  <2>9. /\ ConnectHold' + (Reset + H) <= ConnectHold + Reset
        /\ Reset + u + ConnectDue' + ConnectHold <= ConnectDue + ConnectHold' + (Reset + H)
    BY <1>4, <1>5, <1>6, <2>2
  <2> QED
    BY <1>3, <2>8, <2>9, ConnectSpent
<1>9. CASE ~Admits(Reset, loop.prio)
  <2>1. ledger' = Closed(ledger) /\ Emit(0)
    BY <1>9 DEF Oversize
  <2>2. /\ ledger'.open["connect"] = 0 /\ ledger'.open["frame"] = FrameHold
        /\ ledger'.open["reply"] = ReplyHold
        /\ Shut(ledger, ledger', ConnectHold, ConnectHold)
    BY <1>1, <2>1, ClosedSums
  <2>3. Shut(ledger, ledger', H, H)
    BY <1>6, <2>2, Zenon
  <2>4. HoldsExact' /\ Links'
    BY <1>1, <1>2, <1>3, <1>4, <2>2 DEF HoldsExact, Links, SameFrame, SameReply
  <2>5. Emits(wire, wire', 0)
    <3> DEFINE z == 0
    <3>1. z \in Nat /\ wire' = [wire EXCEPT ![0] = @ + z]
      BY <2>1 DEF Emit
    <3> HIDE DEF z
    <3>2. Emits(wire, wire', z)
      BY <1>1, <3>1, EmitSums
    <3> QED
      BY <3>2 DEF z
  <2>6. Moves(0, H, H, 0, u)
    BY <1>1, <1>2, <1>5, <1>7, <2>3, <2>4, <2>5 DEF Moves, Numbers
  <2>7. /\ ConnectHold' + H <= ConnectHold + 0
        /\ 0 + u + ConnectDue' + ConnectHold <= ConnectDue + ConnectHold' + H
    BY <1>4, <1>5, <1>6
  <2> QED
    BY <1>3, <2>6, <2>7, ConnectSpent
<1> QED
  BY <1>8, <1>9

LEMMA AdmittedCover == ASSUME Inv, Cover, Admitted PROVE Cover'
<1> DEFINE F == FrameCostBytes
<1>1. /\ ledger \in Books /\ wire \in Wires /\ late \in Lates
      /\ HoldsExact /\ allowed \subseteq Announcer /\ Links
  BY CoverFacts DEF Cover
<1>2. /\ loop.pc = "wait" /\ loop'.pc = "admitted" /\ Fits(ledger, F)
      /\ UNCHANGED <<conn, answer, server, allowed, wire, late>>
      /\ ledger' = Held(ledger, "frame", F)
  BY DEF Admitted, Admits, At, Goto, client, Inv, LoopType
<1>3. SameConnect /\ SameReply
  BY <1>2 DEF SameConnect, SameReply, ConnectHold, ReplyHold, ConnectDue, ReplyDue, At
<1>4. FrameHold = 0 /\ FrameDue = 0 /\ FrameHold' = F /\ FrameDue' = F
  BY <1>2 DEF FrameHold, FrameDue, At
<1>5. F \in Nat
  BY CostSums, Sizes
<1> HIDE DEF F
<1>6. /\ ledger'.open["frame"] = F
      /\ \A u \in Ticket : u # "frame" => ledger'.open[u] = ledger.open[u]
      /\ Shut(ledger, ledger', 0, 0)
  <2>1. ledger \in Books /\ "frame" \in Ticket /\ ledger' = Held(ledger, "frame", F)
    BY <1>1, <1>2, Tickets
  <2> QED
    BY <1>5, <2>1, HeldSums
<1>7. HoldsExact' /\ Links'
  BY <1>1, <1>2, <1>3, <1>4, <1>6, Tickets DEF HoldsExact, Links, SameConnect, SameReply
<1>8. Emits(wire, wire', 0) /\ Provokes(late, late', 0)
  BY <1>1, <1>2, EmitNothing, ProvokeNothing
<1>9. Moves(F, 0, 0, 0, 0)
  BY <1>1, <1>2, <1>5, <1>6, <1>7, <1>8 DEF Moves, Numbers
<1>10. /\ FrameHold' + 0 <= FrameHold + F
       /\ 0 + 0 + FrameDue' + FrameHold <= FrameDue + FrameHold' + 0
  BY <1>4, <1>5
<1> QED
  BY <1>3, <1>9, <1>10, FrameSpent

LEMMA LinkChangedCover == ASSUME Inv, Cover, LinkChanged PROVE Cover'
<1> DEFINE F == FrameCostBytes
           L == Refunded(ledger, "frame", F)
<1>1. /\ ledger \in Books /\ wire \in Wires /\ late \in Lates
      /\ ledger.open["frame"] = FrameHold
      /\ HoldsExact /\ allowed \subseteq Announcer /\ Links
  BY CoverFacts DEF Cover
<1>2. /\ loop.pc = "admitted" /\ loop'.pc = "idle"
      /\ UNCHANGED <<conn, answer, server, allowed, wire, late>>
      /\ ledger' = ReleasedAt(L, "frame", 0)
  BY DEF LinkChanged, At, Goto, client, Inv, LoopType
<1>3. SameConnect /\ SameReply
  BY <1>2 DEF SameConnect, SameReply, ConnectHold, ReplyHold, ConnectDue, ReplyDue, At
<1>4. FrameHold = F /\ FrameDue = F /\ FrameHold' = 0 /\ FrameDue' = 0
  BY <1>2 DEF FrameHold, FrameDue, At
<1>5. F \in Nat /\ F <= F /\ F - F = 0
  BY CostSums, Sizes
<1>6. /\ L \in Books /\ L.open["frame"] = 0
      /\ \A u \in Ticket : u # "frame" => L.open[u] = ledger.open[u]
      /\ Shut(ledger, L, 0, 0)
  <2>1. ledger.open["frame"] = F
    BY <1>1, <1>4
  <2> HIDE DEF F
  <2>2. L.open["frame"] = ledger.open["frame"] - F
    BY <1>1, <1>5, <2>1, Tickets, RefundedSums
  <2>3. /\ L \in Books
        /\ \A u \in Ticket : u # "frame" => L.open[u] = ledger.open[u]
        /\ Shut(ledger, L, 0, 0)
    BY <1>1, <1>5, <2>1, Tickets, RefundedSums
  <2> QED
    BY <1>5, <2>1, <2>2, <2>3
<1> HIDE DEF F, L
<1>7. /\ ledger'.open["frame"] = 0
      /\ \A u \in Ticket : u # "frame" => ledger'.open[u] = L.open[u]
      /\ Shut(L, ledger', L.open["frame"], 0)
  <2>1. L \in Books /\ "frame" \in Ticket /\ ledger' = ReleasedAt(L, "frame", 0)
    BY <1>2, <1>6, Tickets
  <2> QED
    BY <2>1, ReleasedNowSums
<1>8. Shut(L, ledger', 0, 0)
  BY <1>6, <1>7, Zenon
<1>9. Shut(ledger, ledger', 0 + 0, 0 + 0)
  <2> DEFINE z == 0
  <2>1. z \in Nat /\ Shut(ledger, L, z, z) /\ Shut(L, ledger', z, z)
    BY <1>6, <1>8
  <2> HIDE DEF z
  <2>2. Shut(ledger, ledger', z + z, z + z)
    BY <1>1, <2>1, ShutTwice
  <2> QED
    BY <2>2 DEF z
<1>10. HoldsExact' /\ Links'
  BY <1>1, <1>2, <1>3, <1>4, <1>6, <1>7, Tickets DEF HoldsExact, Links, SameConnect, SameReply
<1>11. Emits(wire, wire', 0) /\ Provokes(late, late', 0)
  BY <1>1, <1>2, EmitNothing, ProvokeNothing
<1>12. Moves(0, 0, 0, 0, 0)
  BY <1>1, <1>2, <1>9, <1>10, <1>11 DEF Moves, Numbers
<1>13. /\ FrameHold' + 0 <= FrameHold + 0
       /\ 0 + 0 + FrameDue' + FrameHold <= FrameDue + FrameHold' + 0
  BY <1>4, <1>5
<1> QED
  BY <1>3, <1>12, <1>13, FrameSpent

LEMMA SendCover == ASSUME Inv, Cover, Send PROVE Cover'
<1> DEFINE F == FrameCostBytes
           r == F - Frame
<1>1. /\ ledger \in Books /\ wire \in Wires /\ late \in Lates
      /\ ledger.open["frame"] = FrameHold
      /\ HoldsExact /\ allowed \subseteq Announcer /\ Links
  BY CoverFacts DEF Cover
<1>2. /\ loop.pc = "admitted" /\ loop'.pc = "await" /\ ~loop'.acked
      /\ UNCHANGED <<conn, answer, server, allowed, late>>
      /\ ledger' = ReleasedPart(ledger, "frame", Frame, 0)
      /\ wire' = [wire EXCEPT ![0] = @ + Frame]
  BY DEF Send, At, client, Inv, LoopType, Emit
<1>3. SameConnect /\ SameReply
  BY <1>2 DEF SameConnect, SameReply, ConnectHold, ReplyHold, ConnectDue, ReplyDue, At
<1>4. FrameHold = F /\ FrameDue = F /\ FrameHold' = r
      /\ FrameDue' = LateAnswer + 2 * Reset + Pure
  BY <1>2 DEF FrameHold, FrameDue, At
<1>5. /\ F \in Nat /\ Frame \in Nat /\ Frame <= F /\ r \in Nat /\ Frame + r = F /\ F - Frame = r
      /\ LateAnswer + 2 * Reset + Pure = r
  BY CostSums, Sizes
<1> HIDE DEF F, r
<1>6. /\ ledger'.open["frame"] = r
      /\ \A u \in Ticket : u # "frame" => ledger'.open[u] = ledger.open[u]
      /\ Shut(ledger, ledger', Frame, 0)
  <2>1. /\ ledger.open["frame"] = F /\ Frame <= ledger.open["frame"]
        /\ ledger' = ReleasedPart(ledger, "frame", Frame, 0)
    BY <1>1, <1>2, <1>4, <1>5
  <2>2. /\ ledger'.open["frame"] = ledger.open["frame"] - Frame
        /\ \A u \in Ticket : u # "frame" => ledger'.open[u] = ledger.open[u]
        /\ Shut(ledger, ledger', Frame, 0)
    BY <1>1, <1>5, <2>1, Tickets, ReleasedPartNowSums
  <2> QED
    BY <1>5, <2>1, <2>2
<1>7. HoldsExact' /\ Links'
  BY <1>1, <1>2, <1>3, <1>4, <1>6, Tickets DEF HoldsExact, Links, SameConnect, SameReply
<1>8. Emits(wire, wire', Frame) /\ Provokes(late, late', 0)
  BY <1>1, <1>2, <1>5, EmitSums, ProvokeNothing
<1>9. Moves(0, Frame, 0, Frame, 0)
  BY <1>1, <1>2, <1>5, <1>6, <1>7, <1>8 DEF Moves, Numbers
<1>10. /\ FrameHold' + Frame <= FrameHold + 0
       /\ Frame + 0 + FrameDue' + FrameHold <= FrameDue + FrameHold' + Frame
  BY <1>4, <1>5
<1> QED
  BY <1>3, <1>9, <1>10, FrameSpent

(* What an exchange that is given up may still emit and provoke: `back` is   *)
(* refunded, `more` provoked besides the late answer to the HELLO.           *)
LEMMA AbortCover ==
  ASSUME Inv, Cover, loop.pc \in {"admitted", "await"},
         NEW sent \in Nat, NEW acked \in BOOLEAN, NEW pending \in BOOLEAN,
         AbortExchange(sent, acked, pending),
         NEW back \in Nat, back = (IF acked THEN Reset ELSE 0),
         NEW more \in Nat, more = (IF acked THEN 0 ELSE Pure + Reset)
                                    + (IF pending THEN Answer + Reset ELSE 0),
         back + more <= FrameHold, sent + Reset + back + more <= FrameDue
  PROVE  Cover'
<1> DEFINE L == IF acked THEN Refunded(ledger, "frame", Reset) ELSE ledger
           M == Closed(L)
           H == ConnectHold
           G == FrameHold - back
           u == Unanswered
           e == sent + Reset
           p == u + more
<1>1. /\ ledger \in Books /\ wire \in Wires /\ late \in Lates
      /\ ledger.open["connect"] = ConnectHold /\ ledger.open["frame"] = FrameHold
      /\ ledger.open["reply"] = ReplyHold /\ allowed \subseteq Announcer /\ Links
  BY CoverFacts
<1>2. /\ loop'.pc = "idle" /\ conn' = FALSE /\ answer' = "none"
      /\ UNCHANGED <<server, allowed>>
      /\ ledger' = ReleasedAt(M, "frame", AbortTail)
  BY DEF AbortExchange, Goto, Inv, LoopType, Disconnected
<1>3. SameReply /\ ConnectHold' = 0 /\ FrameHold' = 0 /\ ConnectDue' = 0 /\ FrameDue' = 0
  BY <1>2 DEF SameReply, ConnectHold, FrameHold, ReplyHold, ConnectDue, FrameDue, ReplyDue, At
<1>4. u \in Nat /\ u <= H /\ u <= ConnectDue /\ H \in Nat /\ ConnectDue \in Nat
  BY <1>1, UnansweredCovered, HoldsAreNat, DueIsNat DEF Inv
<1>5. /\ FrameHold \in Nat /\ FrameDue \in Nat /\ Reset \in Nat /\ back <= FrameHold
      /\ G \in Nat /\ G + back = FrameHold /\ e \in Nat /\ p \in Nat
      /\ more <= G /\ e = sent + Reset /\ p = u + more
  BY <1>4, HoldsAreNat, DueIsNat, Sizes
<1>6. wire' = [wire EXCEPT ![0] = @ + e]
  BY DEF AbortExchange, Emit
<1>7. late' = [late EXCEPT ![LateBy] = @ + p]
  <2>1. late' = [late EXCEPT ![LateBy] =
                   @ + (u + (IF acked THEN 0 ELSE Pure + Reset)
                          + (IF pending THEN Answer + Reset ELSE 0))]
    BY DEF AbortExchange, Provoke
  <2>2. u + (IF acked THEN 0 ELSE Pure + Reset) + (IF pending THEN Answer + Reset ELSE 0)
          = p
    BY <1>4, Sizes
  <2> QED
    BY <2>1, <2>2
<1>8. Emits(wire, wire', e) /\ Provokes(late, late', p)
  <2> HIDE DEF e, p
  <2> QED
    BY <1>1, <1>5, <1>6, <1>7, EmitSums, ProvokeSums
<1>9. /\ L \in Books /\ L.open["frame"] = G /\ L.open["connect"] = H
      /\ L.open["reply"] = ReplyHold /\ Shut(ledger, L, 0, 0)
  <2>1. CASE acked
    <3>1. /\ L = Refunded(ledger, "frame", Reset) /\ back = Reset
          /\ Reset <= ledger.open["frame"]
      BY <1>1, <1>5, <2>1
    <3> HIDE DEF L
    <3>2. L.open["frame"] = ledger.open["frame"] - Reset
      BY <1>1, <1>5, <3>1, Tickets, RefundedSums
    <3>3. /\ L \in Books
          /\ \A w \in Ticket : w # "frame" => L.open[w] = ledger.open[w]
          /\ Shut(ledger, L, 0, 0)
      BY <1>1, <1>5, <3>1, Tickets, RefundedSums
    <3>4. L.open["connect"] = H /\ L.open["reply"] = ReplyHold
      BY <1>1, <3>3, Tickets
    <3>5. L.open["frame"] = G
      BY <1>1, <3>1, <3>2
    <3> QED
      BY <3>3, <3>4, <3>5
  <2>2. CASE ~acked
    <3>1. L = ledger /\ back = 0
      BY <2>2
    <3>2. G = FrameHold
      BY <1>5, <3>1
    <3>3. Shut(ledger, L, 0, 0)
      BY <1>1, <3>1, ShutNothing
    <3> QED
      BY <1>1, <3>1, <3>2, <3>3
  <2> QED
    BY <2>1, <2>2
<1> HIDE DEF L
<1>10. /\ M \in Books /\ M.open["connect"] = 0 /\ M.open["frame"] = L.open["frame"]
       /\ M.open["reply"] = L.open["reply"]
       /\ Shut(L, M, L.open["connect"], L.open["connect"])
  BY <1>9, ClosedSums
<1> HIDE DEF M, H, G
<1>11. Shut(L, M, H, H)
  BY <1>9, <1>10, Zenon
<1>12. /\ ledger'.open["frame"] = 0
       /\ \A w \in Ticket : w # "frame" => ledger'.open[w] = M.open[w]
       /\ Shut(M, ledger', M.open["frame"], M.open["frame"])
  <2>1. /\ M \in Books /\ "frame" \in Ticket /\ AbortTail \in 0 .. MaxTail
        /\ ledger' = ReleasedAt(M, "frame", AbortTail)
    BY <1>2, <1>10, Tickets, Tails
  <2> QED
    BY <2>1, ReleasedAtSums
<1>13. Shut(M, ledger', G, G)
  <2>1. M.open["frame"] = G
    BY <1>9, <1>10
  <2> QED
    BY <1>12, <2>1, Zenon
<1> DEFINE z == 0
<1>14. z \in Nat /\ z = 0 /\ Shut(ledger, L, z, z)
  BY <1>9
<1> HIDE DEF z
<1>15. Shut(ledger, M, z + H, z + H)
  BY <1>1, <1>4, <1>11, <1>14, ShutTwice
<1> DEFINE s == z + H
<1>16. s \in Nat /\ s = H /\ Shut(ledger, M, s, s)
  BY <1>4, <1>14, <1>15
<1> HIDE DEF s
<1>17. Shut(ledger, ledger', s + G, s + G)
  BY <1>1, <1>5, <1>13, <1>16, ShutTwice
<1> DEFINE c == s + G
<1>18. c = H + G /\ c \in Nat /\ Shut(ledger, ledger', c, c)
  BY <1>4, <1>5, <1>16, <1>17
<1> HIDE DEF c, u, e, p
<1>19. HoldsExact' /\ Links'
  <2>1. ledger'.open["connect"] = 0 /\ ledger'.open["reply"] = ReplyHold
    BY <1>9, <1>10, <1>12, Tickets
  <2> QED
    BY <1>2, <1>3, <1>12, <2>1 DEF HoldsExact, Links, SameReply
<1>20. p <= c
  BY <1>4, <1>5, <1>18
<1>21. Moves(0, c, c, e, p)
  <2>1. Numbers(0, c, c, e, p)
    BY <1>5, <1>18, <1>20 DEF Numbers
  <2> QED
    BY <1>1, <1>2, <1>8, <1>18, <1>19, <2>1 DEF Moves
<1>22. /\ c <= ConnectHold + FrameHold
       /\ e + p + ConnectHold + FrameHold <= ConnectDue + FrameDue + c
  <2> DEFINE h == ConnectHold
             g == FrameHold
             d == ConnectDue
             f == FrameDue
  <2>1. /\ h = H /\ g = G + back /\ sent + Reset + back + more <= f
        /\ u <= d /\ d \in Nat /\ f \in Nat
    BY <1>4, <1>5 DEF H
  <2> HIDE DEF h, g, d, f
  <2>2. c <= h + g /\ e + p + h + g <= d + f + c
    BY <1>4, <1>5, <1>18, <2>1
  <2> QED
    BY <2>2 DEF h, g, d, f
<1> QED
  BY <1>3, <1>21, <1>22, BothSpent

LEMMA FrameAmounts ==
  /\ At("admitted") => FrameHold = FrameCostBytes /\ FrameDue = FrameCostBytes
  /\ At("await") =>
       /\ FrameHold = FrameCostBytes - Frame
       /\ loop.acked => FrameDue = LateAnswer + 2 * Reset + 0
       /\ ~loop.acked => FrameDue = LateAnswer + 2 * Reset + Pure
BY DEF FrameHold, FrameDue, At

LEMMA SendFailsCover == ASSUME Inv, Cover, SendFails PROVE Cover'
<1>1. loop.pc \in {"admitted", "await"} /\ At("admitted")
  BY DEF SendFails, At
<1>2. FrameHold = FrameCostBytes /\ FrameDue = FrameCostBytes
  BY <1>1, FrameAmounts
<1>3. CASE AbortExchange(0, TRUE, FALSE)
  <2> DEFINE sent == 0
             acked == TRUE
             pending == FALSE
             back == Reset
             more == 0
  <2>1. /\ sent \in Nat /\ back \in Nat /\ more \in Nat
        /\ acked \in BOOLEAN /\ pending \in BOOLEAN
        /\ back = (IF acked THEN Reset ELSE 0)
        /\ more = (IF acked THEN 0 ELSE Pure + Reset)
                    + (IF pending THEN Answer + Reset ELSE 0)
    BY Sizes
  <2>2. back + more <= FrameHold /\ sent + Reset + back + more <= FrameDue
    BY <1>2, CostSums, Sizes
  <2>3. AbortExchange(sent, acked, pending)
    BY <1>3
  <2> HIDE DEF sent, acked, pending, back, more
  <2> QED
    BY <1>1, <2>1, <2>2, <2>3, AbortCover
<1>4. CASE AbortExchange(Frame, FALSE, TRUE)
  <2> DEFINE acked == FALSE
             pending == TRUE
             back == 0
             more == (Pure + Reset) + (Answer + Reset)
  <2>1. /\ Frame \in Nat /\ back \in Nat /\ more \in Nat
        /\ acked \in BOOLEAN /\ pending \in BOOLEAN
        /\ back = (IF acked THEN Reset ELSE 0)
        /\ more = (IF acked THEN 0 ELSE Pure + Reset)
                    + (IF pending THEN Answer + Reset ELSE 0)
    BY Sizes
  <2>2. back + more <= FrameHold /\ Frame + Reset + back + more <= FrameDue
    BY <1>2, CostSums, Sizes
  <2>3. AbortExchange(Frame, acked, pending)
    BY <1>4
  <2> HIDE DEF acked, pending, back, more
  <2> QED
    BY <1>1, <2>1, <2>2, <2>3, AbortCover
<1> QED
  BY <1>3, <1>4 DEF SendFails

LEMMA AckTimeoutCover ==
  ASSUME Inv, Cover, At("await"), AbortExchange(0, loop.acked, TRUE) PROVE Cover'
<1> DEFINE sent == 0
           acked == loop.acked
           pending == TRUE
<1>1. loop.pc \in {"admitted", "await"} /\ acked \in BOOLEAN
  BY DEF At, Inv, LoopType
<1>2. CASE acked
  <2> DEFINE back == Reset
             more == Answer + Reset
  <2>1. /\ sent \in Nat /\ back \in Nat /\ more \in Nat /\ pending \in BOOLEAN
        /\ back = (IF acked THEN Reset ELSE 0)
        /\ more = (IF acked THEN 0 ELSE Pure + Reset)
                    + (IF pending THEN Answer + Reset ELSE 0)
    BY <1>2, Sizes
  <2>2. back + more <= FrameHold /\ sent + Reset + back + more <= FrameDue
    BY <1>2, FrameAmounts, CostSums, Sizes
  <2>3. AbortExchange(sent, acked, pending)
    OBVIOUS
  <2> HIDE DEF sent, acked, pending, back, more
  <2> QED
    BY <1>1, <2>1, <2>2, <2>3, AbortCover
<1>3. CASE ~acked
  <2> DEFINE back == 0
             more == (Pure + Reset) + (Answer + Reset)
  <2>1. /\ sent \in Nat /\ back \in Nat /\ more \in Nat /\ pending \in BOOLEAN
        /\ back = (IF acked THEN Reset ELSE 0)
        /\ more = (IF acked THEN 0 ELSE Pure + Reset)
                    + (IF pending THEN Answer + Reset ELSE 0)
    BY <1>3, Sizes
  <2>2. back + more <= FrameHold /\ sent + Reset + back + more <= FrameDue
    BY <1>3, FrameAmounts, CostSums, Sizes
  <2>3. AbortExchange(sent, acked, pending)
    OBVIOUS
  <2> HIDE DEF sent, acked, pending, back, more
  <2> QED
    BY <1>1, <2>1, <2>2, <2>3, AbortCover
<1> QED
  BY <1>2, <1>3

LEMMA AckMismatchCover ==
  ASSUME Inv, Cover, At("await"), AbortExchange(Answer + Pure, TRUE, FALSE) PROVE Cover'
<1> DEFINE sent == Answer + Pure
           acked == TRUE
           pending == FALSE
           back == Reset
           more == 0
<1>1. loop.pc \in {"admitted", "await"} /\ loop.acked \in BOOLEAN
  BY DEF At, Inv, LoopType
<1>2. /\ sent \in Nat /\ back \in Nat /\ more \in Nat
      /\ acked \in BOOLEAN /\ pending \in BOOLEAN
      /\ back = (IF acked THEN Reset ELSE 0)
      /\ more = (IF acked THEN 0 ELSE Pure + Reset)
                  + (IF pending THEN Answer + Reset ELSE 0)
  BY Sizes
<1>3. \/ FrameDue = LateAnswer + 2 * Reset + 0
      \/ FrameDue = LateAnswer + 2 * Reset + Pure
  BY <1>1, FrameAmounts
<1>4. back + more <= FrameHold /\ sent + Reset + back + more <= FrameDue
  BY <1>3, FrameAmounts, CostSums, Sizes
<1>5. AbortExchange(sent, acked, pending)
  OBVIOUS
<1> HIDE DEF sent, acked, pending, back, more
<1> QED
  BY <1>1, <1>2, <1>4, <1>5, AbortCover

LEMMA AcknowledgedCover == ASSUME Inv, Cover, Acknowledged PROVE Cover'
<1>1. /\ ledger \in Books /\ wire \in Wires /\ late \in Lates
      /\ ledger.open["connect"] = ConnectHold /\ ledger.open["frame"] = FrameHold
      /\ ledger.open["reply"] = ReplyHold /\ allowed \subseteq Announcer /\ Links
  BY CoverFacts
<1>2. PICK back \in {2 * Reset} \cup (IF loop.acked THEN {} ELSE {2 * Reset + Pure}) :
        ledger' = ReleasedAt(ReleasedAt(Refunded(ledger, "frame", back), "frame", FlushTail),
                             "connect", FlushTail)
  BY DEF Acknowledged
<1> DEFINE L == Refunded(ledger, "frame", back)
           M == ReleasedAt(L, "frame", FlushTail)
           H == ConnectHold
           G == FrameHold - back
           e == Answer + Pure
<1>3. /\ loop.pc = "await" /\ loop'.pc = "idle" /\ conn' = conn /\ answer' = "none"
      /\ UNCHANGED <<server, allowed, late>>
      /\ wire' = [wire EXCEPT ![0] = @ + e]
  BY DEF Acknowledged, At, Goto, Inv, LoopType, Emit
<1>4. ledger' = ReleasedAt(M, "connect", FlushTail)
  BY <1>2
<1>5. SameReply /\ ConnectHold' = 0 /\ FrameHold' = 0 /\ ConnectDue' = 0 /\ FrameDue' = 0
  BY <1>3 DEF SameReply, ConnectHold, FrameHold, ReplyHold, ConnectDue, FrameDue, ReplyDue, At
<1>6. /\ back \in Nat /\ back <= FrameHold /\ e \in Nat
      /\ G \in Nat /\ G + back = FrameHold /\ e + back <= FrameDue
  <2>1. At("await")
    BY <1>3 DEF At
  <2>2. CASE loop.acked
    <3>1. back = 2 * Reset /\ FrameDue = LateAnswer + 2 * Reset + 0
      BY <1>2, <2>1, <2>2, FrameAmounts
    <3> QED
      BY <2>1, <3>1, FrameAmounts, CostSums, Sizes
  <2>3. CASE ~loop.acked
    <3>1. /\ back = 2 * Reset \/ back = 2 * Reset + Pure
          /\ FrameDue = LateAnswer + 2 * Reset + Pure
      BY <1>2, <2>1, <2>3, FrameAmounts
    <3> QED
      BY <2>1, <3>1, FrameAmounts, CostSums, Sizes
  <2> QED
    BY <2>2, <2>3
<1>7. H \in Nat /\ FrameHold \in Nat /\ ConnectDue \in Nat /\ FrameDue \in Nat
  BY HoldsAreNat, DueIsNat
<1>8. /\ L \in Books /\ L.open["frame"] = G /\ L.open["connect"] = H
      /\ L.open["reply"] = ReplyHold /\ Shut(ledger, L, 0, 0)
  <2>1. L = Refunded(ledger, "frame", back) /\ back <= ledger.open["frame"]
    BY <1>1, <1>6
  <2> HIDE DEF L
  <2>2. L.open["frame"] = ledger.open["frame"] - back
    BY <1>1, <1>6, <2>1, Tickets, RefundedSums
  <2>3. /\ L \in Books
        /\ \A w \in Ticket : w # "frame" => L.open[w] = ledger.open[w]
        /\ Shut(ledger, L, 0, 0)
    BY <1>1, <1>6, <2>1, Tickets, RefundedSums
  <2>4. L.open["connect"] = H /\ L.open["reply"] = ReplyHold
    BY <1>1, <2>3, Tickets
  <2>5. L.open["frame"] = G
    BY <1>1, <2>2
  <2> QED
    BY <2>3, <2>4, <2>5
<1> HIDE DEF L
<1>9. /\ M \in Books /\ M.open["frame"] = 0
      /\ \A w \in Ticket : w # "frame" => M.open[w] = L.open[w]
      /\ Shut(L, M, L.open["frame"], 0)
  <2>1. L \in Books /\ "frame" \in Ticket /\ FlushTail \in 0 .. MaxTail
    BY <1>8, Tickets, Tails
  <2> QED
    BY <2>1, ReleasedAtSums
<1> HIDE DEF M, H, G, e
<1>10. Shut(L, M, G, 0)
  BY <1>8, <1>9, Zenon
<1>11. /\ ledger' \in Books /\ ledger'.open["connect"] = 0
       /\ \A w \in Ticket : w # "connect" => ledger'.open[w] = M.open[w]
       /\ Shut(M, ledger', M.open["connect"], 0)
  <2>1. /\ M \in Books /\ "connect" \in Ticket /\ FlushTail \in 0 .. MaxTail
        /\ ledger' = ReleasedAt(M, "connect", FlushTail)
    BY <1>4, <1>9, Tickets, Tails
  <2> QED
    BY <2>1, ReleasedAtSums
<1>12. Shut(M, ledger', H, 0)
  <2>1. M.open["connect"] = H
    BY <1>8, <1>9, Tickets
  <2> QED
    BY <1>11, <2>1, Zenon
<1> DEFINE z == 0
<1>13. z \in Nat /\ z = 0 /\ Shut(ledger, L, z, z) /\ Shut(L, M, G, z) /\ Shut(M, ledger', H, z)
  BY <1>8, <1>10, <1>12
<1> HIDE DEF z
<1>14. Shut(ledger, M, z + G, z + z)
  BY <1>1, <1>6, <1>13, ShutTwice
<1> DEFINE s == z + G
           y == z + z
<1>15. s \in Nat /\ s = G /\ y \in Nat /\ y = 0 /\ Shut(ledger, M, s, y)
  BY <1>6, <1>13, <1>14
<1> HIDE DEF s, y
<1>16. Shut(ledger, ledger', s + H, y + z)
  BY <1>1, <1>7, <1>13, <1>15, ShutTwice
<1> DEFINE c == s + H
<1>17. c = G + H /\ c \in Nat /\ Shut(ledger, ledger', c, y)
  <2>1. y + z = y /\ c \in Nat /\ c = G + H
    BY <1>6, <1>7, <1>13, <1>15
  <2> QED
    BY <1>16, <2>1, Zenon
<1> HIDE DEF c
<1>18. HoldsExact' /\ Links'
  <2>1. ledger'.open["frame"] = 0 /\ ledger'.open["reply"] = ReplyHold
    BY <1>8, <1>9, <1>11, Tickets
  <2> QED
    BY <1>1, <1>3, <1>5, <1>11, <2>1 DEF HoldsExact, Links, SameReply
<1>19. Emits(wire, wire', e) /\ Provokes(late, late', 0)
  BY <1>1, <1>3, <1>6, EmitSums, ProvokeNothing
<1>20. Moves(0, c, y, e, 0)
  <2>1. Numbers(0, c, y, e, 0)
    BY <1>6, <1>15, <1>17 DEF Numbers
  <2> QED
    BY <1>1, <1>3, <1>17, <1>18, <1>19, <2>1 DEF Moves
<1>21. /\ c <= ConnectHold + FrameHold
       /\ e + 0 + ConnectHold + FrameHold <= ConnectDue + FrameDue + c
  <2> DEFINE h == ConnectHold
             g == FrameHold
             d == ConnectDue
             f == FrameDue
  <2>1. h = H /\ g = G + back /\ e + back <= f /\ d \in Nat /\ f \in Nat
    BY <1>6, <1>7 DEF H
  <2> HIDE DEF h, g, d, f
  <2>2. c <= h + g /\ e + 0 + h + g <= d + f + c
    BY <1>6, <1>7, <1>17, <2>1
  <2> QED
    BY <2>2 DEF h, g, d, f
<1> QED
  BY <1>5, <1>20, <1>21, BothSpent

-----------------------------------------------------------------------------
(* The steps of the command thread.                                          *)
LEMMA ReplyAmounts ==
  /\ server.pc # "await" => ReplyHold = 0 /\ ReplyDue = 0
  /\ server.pc = "await" => ReplyHold = Pure + 2 * Reset /\ ReplyDue = Pure + 2 * Reset
BY DEF ReplyHold, ReplyDue

LEMMA ReplyAmountsAfter ==
  /\ server'.pc # "await" => ReplyHold' = 0 /\ ReplyDue' = 0
  /\ server'.pc = "await" => ReplyHold' = Pure + 2 * Reset /\ ReplyDue' = Pure + 2 * Reset
BY DEF ReplyHold, ReplyDue

LEMMA LoopStays ==
  ASSUME loop' = loop, conn' = conn, answer' = answer PROVE SameConnect /\ SameFrame
BY DEF SameConnect, SameFrame, ConnectHold, ConnectDue, FrameHold, FrameDue, At

LEMMA CommandCover == ASSUME Inv, Cover, Command PROVE Cover'
<1>1. Links /\ allowed \subseteq Announcer
  BY CoverFacts
<1>2. /\ server.pc = "idle" /\ server'.pc = "wait"
      /\ loop' = loop /\ allowed' = allowed /\ wire' = wire
  BY DEF Command
<1>3. ReplyHold' = ReplyHold /\ ReplyDue' = ReplyDue
  BY <1>2, ReplyAmounts, ReplyAmountsAfter
<1>4. CASE Free /\ DropLink
  BY <1>2, <1>3, <1>4, DropLinkCover
<1>5. CASE UNCHANGED <<ledger, late, client>>
  <2>1. conn' = conn /\ answer' = answer /\ ledger' = ledger /\ late' = late
    BY <1>5 DEF client
  <2>2. SameConnect /\ SameFrame
    BY <1>2, <2>1, LoopStays
  <2>3. Links'
    BY <1>1, <1>2, <2>1 DEF Links
  <2> QED
    BY <1>1, <1>2, <1>3, <2>1, <2>2, <2>3, QuietStep DEF SameConnect, SameFrame
<1> QED
  BY <1>4, <1>5 DEF Command

LEMMA ReplyNoBudgetCover == ASSUME Inv, Cover, ReplyNoBudget PROVE Cover'
<1>1. Links /\ allowed \subseteq Announcer
  BY CoverFacts
<1>2. /\ server.pc = "wait" /\ server'.pc = "idle"
      /\ UNCHANGED <<ledger, loop, conn, answer, allowed, wire, late>>
  BY DEF ReplyNoBudget, AtIdle, client
<1>3. ReplyHold' = ReplyHold /\ ReplyDue' = ReplyDue
  BY <1>2, ReplyAmounts, ReplyAmountsAfter
<1>4. SameConnect /\ SameFrame /\ Links'
  BY <1>1, <1>2, LoopStays DEF Links
<1> QED
  BY <1>1, <1>2, <1>3, <1>4, QuietStep DEF SameConnect, SameFrame

LEMMA ReplyChunkCover == ASSUME Inv, Cover, ReplyChunk PROVE Cover'
<1> DEFINE x == ChunkBytes(server.first)
           cost == ChunkCost(server.first)
           r == Pure + 2 * Reset
           L == Held(ledger, "reply", cost)
<1>1. /\ ledger \in Books /\ wire \in Wires /\ late \in Lates
      /\ HoldsExact /\ allowed \subseteq Announcer /\ Links
  BY CoverFacts DEF Cover
<1>2. /\ server.pc = "wait" /\ server'.pc = "await" /\ Fits(ledger, cost)
      /\ UNCHANGED <<loop, conn, answer, allowed, late>>
      /\ ledger' = ReleasedPart(L, "reply", cost - 2 * Reset - Pure, 0)
      /\ wire' = [wire EXCEPT ![0] = @ + x]
  BY DEF ReplyChunk, Admits, client, Inv, ServerType, Emit
<1>3. SameConnect /\ SameFrame
  BY <1>2, LoopStays
<1>4. ReplyHold = 0 /\ ReplyDue = 0 /\ ReplyHold' = r /\ ReplyDue' = r
  BY <1>2, ReplyAmounts, ReplyAmountsAfter
<1>5. /\ x \in Nat /\ cost \in Nat /\ r \in Nat /\ x <= cost /\ cost - x = r
      /\ cost - 2 * Reset - Pure = x /\ x + r = cost
  <2>1. server.first \in BOOLEAN
    BY DEF Inv, ServerType
  <2>2. x \in Nat /\ cost = x + Pure + 2 * Reset
    BY <2>1, CostSums
  <2> HIDE DEF x, cost
  <2> QED
    BY <2>2, Sizes
<1> HIDE DEF x, cost, r
<1>6. /\ L \in Books /\ L.open["reply"] = cost
      /\ \A u \in Ticket : u # "reply" => L.open[u] = ledger.open[u]
      /\ Shut(ledger, L, 0, 0)
  BY <1>1, <1>5, Tickets, HeldSums
<1> HIDE DEF L
<1>7. /\ ledger'.open["reply"] = r
      /\ \A u \in Ticket : u # "reply" => ledger'.open[u] = L.open[u]
      /\ Shut(L, ledger', x, 0)
  <2>1. ledger' = ReleasedPart(L, "reply", x, 0) /\ x <= L.open["reply"]
    BY <1>2, <1>5, <1>6
  <2>2. /\ ledger'.open["reply"] = L.open["reply"] - x
        /\ \A u \in Ticket : u # "reply" => ledger'.open[u] = L.open[u]
        /\ Shut(L, ledger', x, 0)
    BY <1>5, <1>6, <2>1, Tickets, ReleasedPartNowSums
  <2> QED
    BY <1>5, <1>6, <2>2
<1> DEFINE z == 0
<1>8. z \in Nat /\ z = 0 /\ Shut(ledger, L, z, z) /\ Shut(L, ledger', x, z)
  BY <1>6, <1>7
<1> HIDE DEF z
<1>9. Shut(ledger, ledger', z + x, z + z)
  BY <1>1, <1>5, <1>8, ShutTwice
<1>10. Shut(ledger, ledger', x, 0)
  <2>1. z + x = x /\ z + z = 0
    BY <1>5, <1>8
  <2> QED
    BY <1>9, <2>1, Zenon
<1>11. HoldsExact' /\ Links'
  BY <1>1, <1>2, <1>3, <1>4, <1>6, <1>7, Tickets DEF HoldsExact, Links, SameConnect, SameFrame
<1>12. Emits(wire, wire', x) /\ Provokes(late, late', 0)
  BY <1>1, <1>2, <1>5, EmitSums, ProvokeNothing
<1>13. Moves(cost, x, 0, x, 0)
  BY <1>1, <1>2, <1>5, <1>10, <1>11, <1>12 DEF Moves, Numbers
<1>14. /\ ReplyHold' + x <= ReplyHold + cost
       /\ x + 0 + ReplyDue' + ReplyHold <= ReplyDue + ReplyHold' + x
  BY <1>4, <1>5
<1> QED
  BY <1>3, <1>13, <1>14, ReplySpent

LEMMA ReplySendFailsCover == ASSUME Inv, Cover, ReplySendFails PROVE Cover'
<1> DEFINE x == ChunkBytes(server.first)
           cost == ChunkCost(server.first)
           L == Held(ledger, "reply", cost)
           e == x + Reset
           p == Pure + Reset
<1>1. /\ ledger \in Books /\ wire \in Wires /\ late \in Lates
      /\ HoldsExact /\ allowed \subseteq Announcer /\ Links
  BY CoverFacts DEF Cover
<1>2. /\ server.pc = "wait" /\ server'.pc = "idle" /\ Fits(ledger, cost)
      /\ UNCHANGED <<loop, conn, answer, allowed>>
      /\ ledger' = ReleasedAt(L, "reply", AbortTail)
  BY DEF ReplySendFails, Admits, client, AtIdle
<1>3. SameConnect /\ SameFrame
  BY <1>2, LoopStays
<1>4. ReplyHold = 0 /\ ReplyDue = 0 /\ ReplyHold' = 0 /\ ReplyDue' = 0
  BY <1>2, ReplyAmounts, ReplyAmountsAfter
<1>5. /\ x \in Nat /\ cost \in Nat /\ e \in Nat /\ p \in Nat /\ Reset \in Nat
      /\ e + p = cost /\ Reset <= cost /\ p <= cost
  <2>1. server.first \in BOOLEAN
    BY DEF Inv, ServerType
  <2>2. x \in Nat /\ cost = x + Pure + 2 * Reset
    BY <2>1, CostSums
  <2> HIDE DEF x, cost
  <2> QED
    BY <2>2, Sizes
<1>6. \/ wire' = [wire EXCEPT ![0] = @ + Reset] /\ late' = late
      \/ wire' = [wire EXCEPT ![0] = @ + e] /\ late' = [late EXCEPT ![LateBy] = @ + p]
  BY DEF ReplySendFails, Emit, Provoke
<1> HIDE DEF x, cost, e, p
<1>7. /\ L \in Books /\ L.open["reply"] = cost
      /\ \A u \in Ticket : u # "reply" => L.open[u] = ledger.open[u]
      /\ Shut(ledger, L, 0, 0)
  BY <1>1, <1>5, Tickets, HeldSums
<1> HIDE DEF L
<1>8. /\ ledger'.open["reply"] = 0
      /\ \A u \in Ticket : u # "reply" => ledger'.open[u] = L.open[u]
      /\ Shut(L, ledger', L.open["reply"], L.open["reply"])
  <2>1. /\ L \in Books /\ "reply" \in Ticket /\ AbortTail \in 0 .. MaxTail
        /\ ledger' = ReleasedAt(L, "reply", AbortTail)
    BY <1>2, <1>7, Tickets, Tails
  <2> QED
    BY <2>1, ReleasedAtSums
<1> DEFINE z == 0
<1>9. z \in Nat /\ z = 0 /\ Shut(ledger, L, z, z)
  BY <1>7
<1>10. Shut(L, ledger', cost, cost)
  BY <1>7, <1>8, Zenon
<1> HIDE DEF z
<1>11. Shut(ledger, ledger', z + cost, z + cost)
  BY <1>1, <1>5, <1>9, <1>10, ShutTwice
<1>12. Shut(ledger, ledger', cost, cost)
  <2>1. z + cost = cost
    BY <1>5, <1>9
  <2> QED
    BY <1>11, <2>1, Zenon
<1>13. HoldsExact' /\ Links'
  BY <1>1, <1>2, <1>3, <1>4, <1>7, <1>8, Tickets DEF HoldsExact, Links, SameConnect, SameFrame
<1>14. CASE wire' = [wire EXCEPT ![0] = @ + Reset] /\ late' = late
  <2>1. Emits(wire, wire', Reset) /\ Provokes(late, late', 0)
    BY <1>1, <1>5, <1>14, EmitSums, ProvokeNothing
  <2>2. Moves(cost, cost, cost, Reset, 0)
    BY <1>1, <1>2, <1>5, <1>12, <1>13, <2>1 DEF Moves, Numbers
  <2>3. /\ ReplyHold' + cost <= ReplyHold + cost
        /\ Reset + 0 + ReplyDue' + ReplyHold <= ReplyDue + ReplyHold' + cost
    BY <1>4, <1>5
  <2> QED
    BY <1>3, <2>2, <2>3, ReplySpent
<1>15. CASE /\ wire' = [wire EXCEPT ![0] = @ + e]
            /\ late' = [late EXCEPT ![LateBy] = @ + p]
  <2>1. Emits(wire, wire', e) /\ Provokes(late, late', p)
    BY <1>1, <1>5, <1>15, EmitSums, ProvokeSums
  <2>2. Moves(cost, cost, cost, e, p)
    BY <1>1, <1>2, <1>5, <1>12, <1>13, <2>1 DEF Moves, Numbers
  <2>3. /\ ReplyHold' + cost <= ReplyHold + cost
        /\ e + p + ReplyDue' + ReplyHold <= ReplyDue + ReplyHold' + cost
    BY <1>4, <1>5
  <2> QED
    BY <1>3, <2>2, <2>3, ReplySpent
<1> QED
  BY <1>6, <1>14, <1>15

LEMMA ChunkAcknowledgedCover == ASSUME Inv, Cover, ChunkAcknowledged PROVE Cover'
<1> DEFINE r == Pure + 2 * Reset
           back == 2 * Reset
           L == Refunded(ledger, "reply", back)
<1>1. /\ ledger \in Books /\ wire \in Wires /\ late \in Lates
      /\ ledger.open["reply"] = ReplyHold
      /\ HoldsExact /\ allowed \subseteq Announcer /\ Links
  BY CoverFacts DEF Cover
<1>2. /\ server.pc = "await" /\ server'.pc \in {"idle", "wait"}
      /\ UNCHANGED <<loop, conn, answer, allowed, late>>
      /\ ledger' = ReleasedAt(L, "reply", EmissionTail)
      /\ wire' = [wire EXCEPT ![0] = @ + Pure]
  BY DEF ChunkAcknowledged, AtIdle, client, Emit
<1>3. SameConnect /\ SameFrame
  BY <1>2, LoopStays
<1>4. ReplyHold = r /\ ReplyDue = r /\ ReplyHold' = 0 /\ ReplyDue' = 0
  BY <1>2, ReplyAmounts, ReplyAmountsAfter
<1>5. /\ r \in Nat /\ back \in Nat /\ back <= r /\ r - back = Pure /\ Pure \in Nat
      /\ Pure <= r
  BY Sizes
<1> HIDE DEF r, back
<1>6. /\ L \in Books /\ L.open["reply"] = Pure
      /\ \A u \in Ticket : u # "reply" => L.open[u] = ledger.open[u]
      /\ Shut(ledger, L, 0, 0)
  <2>1. back <= ledger.open["reply"] /\ ledger.open["reply"] = r
    BY <1>1, <1>4, <1>5
  <2>2. L.open["reply"] = ledger.open["reply"] - back
    BY <1>1, <1>5, <2>1, Tickets, RefundedSums
  <2>3. /\ L \in Books
        /\ \A u \in Ticket : u # "reply" => L.open[u] = ledger.open[u]
        /\ Shut(ledger, L, 0, 0)
    BY <1>1, <1>5, <2>1, Tickets, RefundedSums
  <2> QED
    BY <1>5, <2>1, <2>2, <2>3
<1> HIDE DEF L
<1>7. /\ ledger'.open["reply"] = 0
      /\ \A u \in Ticket : u # "reply" => ledger'.open[u] = L.open[u]
      /\ Shut(L, ledger', L.open["reply"], 0)
  <2>1. /\ L \in Books /\ "reply" \in Ticket /\ EmissionTail \in 0 .. MaxTail
        /\ ledger' = ReleasedAt(L, "reply", EmissionTail)
    BY <1>2, <1>6, Tickets, Tails
  <2> QED
    BY <2>1, ReleasedAtSums
<1> DEFINE z == 0
<1>8. z \in Nat /\ z = 0 /\ Shut(ledger, L, z, z) /\ Shut(L, ledger', Pure, z)
  BY <1>6, <1>7
<1> HIDE DEF z
<1>9. Shut(ledger, ledger', z + Pure, z + z)
  BY <1>1, <1>5, <1>8, ShutTwice
<1>10. Shut(ledger, ledger', Pure, 0)
  <2>1. z + Pure = Pure /\ z + z = 0
    BY <1>5, <1>8
  <2> QED
    BY <1>9, <2>1, Zenon
<1>11. HoldsExact' /\ Links'
  BY <1>1, <1>2, <1>3, <1>4, <1>6, <1>7, Tickets DEF HoldsExact, Links, SameConnect, SameFrame
<1>12. Emits(wire, wire', Pure) /\ Provokes(late, late', 0)
  BY <1>1, <1>2, <1>5, EmitSums, ProvokeNothing
<1>13. Moves(0, Pure, 0, Pure, 0)
  BY <1>1, <1>2, <1>5, <1>10, <1>11, <1>12 DEF Moves, Numbers
<1>14. /\ ReplyHold' + Pure <= ReplyHold + 0
       /\ Pure + 0 + ReplyDue' + ReplyHold <= ReplyDue + ReplyHold' + Pure
  BY <1>4, <1>5
<1> QED
  BY <1>3, <1>13, <1>14, ReplySpent

LEMMA ReplyTimeoutCover == ASSUME Inv, Cover, ReplyTimeout PROVE Cover'
<1> DEFINE r == Pure + 2 * Reset
           p == Pure + Reset
<1>1. /\ ledger \in Books /\ wire \in Wires /\ late \in Lates
      /\ ledger.open["reply"] = ReplyHold
      /\ HoldsExact /\ allowed \subseteq Announcer /\ Links
  BY CoverFacts DEF Cover
<1>2. /\ server.pc = "await" /\ server'.pc = "idle"
      /\ UNCHANGED <<loop, conn, answer, allowed>>
      /\ ledger' = ReleasedAt(ledger, "reply", AbortTail)
      /\ wire' = [wire EXCEPT ![0] = @ + Reset]
      /\ late' = [late EXCEPT ![LateBy] = @ + p]
  BY DEF ReplyTimeout, AtIdle, client, Emit, Provoke
<1>3. SameConnect /\ SameFrame
  BY <1>2, LoopStays
<1>4. ReplyHold = r /\ ReplyDue = r /\ ReplyHold' = 0 /\ ReplyDue' = 0
  BY <1>2, ReplyAmounts, ReplyAmountsAfter
<1>5. r \in Nat /\ p \in Nat /\ Reset \in Nat /\ Reset + p = r /\ p <= r
  BY Sizes
<1> HIDE DEF r, p
<1>6. /\ ledger'.open["reply"] = 0
      /\ \A u \in Ticket : u # "reply" => ledger'.open[u] = ledger.open[u]
      /\ Shut(ledger, ledger', ledger.open["reply"], ledger.open["reply"])
  <2>1. /\ ledger \in Books /\ "reply" \in Ticket /\ AbortTail \in 0 .. MaxTail
        /\ ledger' = ReleasedAt(ledger, "reply", AbortTail)
    BY <1>1, <1>2, Tickets, Tails
  <2> QED
    BY <2>1, ReleasedAtSums
<1>7. Shut(ledger, ledger', r, r)
  BY <1>1, <1>4, <1>6, Zenon
<1>8. HoldsExact' /\ Links'
  BY <1>1, <1>2, <1>3, <1>4, <1>6, Tickets DEF HoldsExact, Links, SameConnect, SameFrame
<1>9. Emits(wire, wire', Reset) /\ Provokes(late, late', p)
  BY <1>1, <1>2, <1>5, EmitSums, ProvokeSums
<1>10. Moves(0, r, r, Reset, p)
  BY <1>1, <1>2, <1>5, <1>7, <1>8, <1>9 DEF Moves, Numbers
<1>11. /\ ReplyHold' + r <= ReplyHold + 0
       /\ Reset + p + ReplyDue' + ReplyHold <= ReplyDue + ReplyHold' + r
  BY <1>4, <1>5
<1> QED
  BY <1>3, <1>10, <1>11, ReplySpent

-----------------------------------------------------------------------------
(* The announcers, the late segments and the passing of time.                *)
LEMMA MayAnnounceCover ==
  ASSUME Inv, Cover, NEW a \in Announcer, MayAnnounce(a) PROVE Cover'
<1>1. Links /\ allowed \subseteq Announcer
  BY CoverFacts
<1>2. /\ allowed' = allowed \cup {a}
      /\ UNCHANGED <<ledger, loop, conn, answer, server, wire, late>>
  BY DEF MayAnnounce, client
<1>3. SameConnect /\ SameFrame /\ Links' /\ allowed' \subseteq Announcer
  BY <1>1, <1>2, LoopStays DEF Links
<1>4. ReplyHold' = ReplyHold /\ ReplyDue' = ReplyDue
  BY <1>2 DEF ReplyHold, ReplyDue
<1> QED
  BY <1>2, <1>3, <1>4, QuietStep DEF SameConnect, SameFrame

LEMMA AnnounceCover ==
  ASSUME Inv, Cover, NEW a \in Announcer, Announce(a) PROVE Cover'
<1>1. /\ ledger \in Books /\ wire \in Wires /\ late \in Lates
      /\ HoldsExact /\ allowed \subseteq Announcer /\ Links
  BY CoverFacts DEF Cover
<1>2. /\ allowed' = allowed \ {a}
      /\ UNCHANGED <<loop, conn, answer, server, late>>
  BY DEF Announce, client
<1>3. /\ SameConnect /\ SameFrame /\ Links' /\ allowed' \subseteq Announcer
      /\ ReplyHold' = ReplyHold /\ ReplyDue' = ReplyDue
  BY <1>1, <1>2, LoopStays DEF Links, ReplyHold, ReplyDue
<1>4. CASE Fits(ledger, Beacon) /\ ledger' = Charged(ledger, Beacon) /\ Emit(Beacon)
  <2>1. Beacon \in Nat /\ wire' = [wire EXCEPT ![0] = @ + Beacon]
    BY <1>4, Sizes DEF Emit
  <2>2. ledger'.open = ledger.open /\ Shut(ledger, ledger', Beacon, 0)
    BY <1>1, <1>4, <2>1, ChargedSums
  <2>3. Emits(wire, wire', Beacon) /\ Provokes(late, late', 0)
    BY <1>1, <1>2, <2>1, EmitSums, ProvokeNothing
  <2>4. HoldsExact'
    BY <1>1, <1>3, <2>2 DEF HoldsExact, SameConnect, SameFrame
  <2>5. Moves(Beacon, Beacon, 0, Beacon, 0)
    BY <1>3, <1>4, <2>1, <2>2, <2>3, <2>4 DEF Moves, Numbers
  <2>6. /\ ReplyHold' + Beacon <= ReplyHold + Beacon
        /\ Beacon + 0 + ReplyDue' + ReplyHold <= ReplyDue + ReplyHold' + Beacon
    <3> DEFINE h == ReplyHold
               i == ReplyHold'
               d == ReplyDue
               f == ReplyDue'
    <3>1. h \in Nat /\ d \in Nat /\ i = h /\ f = d
      BY <1>3, HoldsAreNat, DueIsNat
    <3> HIDE DEF h, i, d, f
    <3>2. i + Beacon <= h + Beacon /\ Beacon + 0 + f + h <= d + i + Beacon
      BY <2>1, <3>1
    <3> QED
      BY <3>2 DEF h, i, d, f
  <2> QED
    BY <1>3, <2>5, <2>6, ReplySpent
<1>5. CASE ledger' = ledger /\ wire' = wire
  BY <1>2, <1>3, <1>5, QuietStep DEF SameConnect, SameFrame
<1> QED
  BY <1>4, <1>5 DEF Announce, Admits

(* n bytes less among those that may come in for k more ticks.               *)
Taken(l, m, k, n) ==
  /\ l \in Lates /\ m \in Lates /\ k \in 0 .. LateBy /\ n \in Nat
  /\ l[k] = m[k] + n
  /\ \A a \in 0 .. LateBy : a # k => l[a] = m[a]
Comes(l, m, n) ==
  /\ LateFrom(l, 0) = LateFrom(m, 0) + n
  /\ \A t \in Future : LateFrom(m, t) <= LateFrom(l, t)

LEMMA SegmentSum ==
  ASSUME NEW l, NEW m, NEW k, NEW n, Taken(l, m, k, n), NEW t \in Nat
  PROVE  /\ k \in t .. LateBy => LateFrom(l, t) = LateFrom(m, t) + n
         /\ k \notin t .. LateBy => LateFrom(l, t) = LateFrom(m, t)
<1> DEFINE A == t .. LateBy
<1>1. IsFiniteSet(A)
  BY Sizes, FS_Interval
<1>2. \A a \in A : a \in 0 .. LateBy
  BY Sizes
<1>3. \A a \in A : m[a] \in Nat
  BY <1>2 DEF Lates, Taken
<1>4. \A a \in A : a # k => l[a] = m[a]
  BY <1>2 DEF Taken
<1>5. n \in Nat /\ l[k] = m[k] + n
  BY DEF Taken
<1> HIDE DEF A
<1>6. SumOver(m, A) \in Nat
  BY <1>1, <1>3, SumIsNat
<1>7. CASE k \in A
  <2>1. SumOver(l, A) = SumOver(m, A) + n
    BY <1>1, <1>3, <1>4, <1>5, <1>7, SumUpdate, Zenon
  <2> QED
    BY <1>7, <2>1 DEF LateFrom, A
<1>8. CASE k \notin A
  <2>1. \A a \in A : l[a] = m[a]
    BY <1>4, <1>8
  <2>2. SumOver(l, A) = SumOver(m, A)
    BY <2>1, SumSame
  <2> QED
    BY <1>6, <1>8, <2>2 DEF LateFrom, A
<1> QED
  BY <1>7, <1>8

LEMMA SegmentComes ==
  ASSUME NEW l \in Lates, NEW k \in 0 .. LateBy, NEW n \in 1 .. l[k],
         NEW m, m = [l EXCEPT ![k] = @ - n]
  PROVE  m \in Lates /\ n \in Nat /\ Comes(l, m, n)
<1>1. l[k] \in Nat /\ n \in Nat /\ l[k] - n \in Nat
  BY DEF Lates
<1>2. m \in Lates
  BY <1>1 DEF Lates
<1>3. m[k] = l[k] - n
  BY DEF Lates
<1>4. l[k] = m[k] + n
  BY <1>1, <1>3
<1>5. \A a \in 0 .. LateBy : a # k => l[a] = m[a]
  BY DEF Lates
<1>6. ASSUME NEW t \in Nat
      PROVE  /\ k \in t .. LateBy => LateFrom(l, t) = LateFrom(m, t) + n
             /\ k \notin t .. LateBy => LateFrom(l, t) = LateFrom(m, t)
  <2>1. Taken(l, m, k, n)
    BY <1>1, <1>2, <1>4, <1>5 DEF Taken
  <2> QED
    BY <2>1, SegmentSum
<1>7. LateFrom(l, 0) = LateFrom(m, 0) + n
  <2> DEFINE z == 0
  <2>1. z \in Nat /\ k \in z .. LateBy
    OBVIOUS
  <2> HIDE DEF z
  <2>2. LateFrom(l, z) = LateFrom(m, z) + n
    BY <1>6, <2>1
  <2> QED
    BY <2>2 DEF z
<1>8. ASSUME NEW t \in Future PROVE LateFrom(m, t) <= LateFrom(l, t)
  <2>1. t \in Nat
    BY DEF Future
  <2>2. LateFrom(l, t) \in Nat /\ LateFrom(m, t) \in Nat
    BY <1>2, <2>1, LateIsNat
  <2>3. /\ k \in t .. LateBy => LateFrom(l, t) = LateFrom(m, t) + n
        /\ k \notin t .. LateBy => LateFrom(l, t) = LateFrom(m, t)
    BY <1>6, <2>1
  <2>4. CASE k \in t .. LateBy
    BY <1>1, <2>2, <2>3, <2>4
  <2>5. CASE k \notin t .. LateBy
    BY <2>2, <2>3, <2>5
  <2> QED
    BY <2>4, <2>5
<1> QED
  BY <1>1, <1>2, <1>7, <1>8 DEF Comes

(* A segment that comes in leaves `late` for the wire.                       *)
LEMMA LateSegmentsCover == ASSUME Inv, Cover, LateSegments PROVE Cover'
<1>1. /\ ledger \in Books /\ wire \in Wires /\ late \in Lates
      /\ HoldsExact /\ allowed \subseteq Announcer /\ Links
  BY CoverFacts DEF Cover
<1>2. UNCHANGED <<ledger, loop, conn, answer, server, allowed>>
  BY DEF LateSegments, client
<1>3. /\ SameConnect /\ SameFrame /\ Links'
      /\ ReplyHold' = ReplyHold /\ ReplyDue' = ReplyDue
  BY <1>1, <1>2, LoopStays DEF Links, ReplyHold, ReplyDue
<1>4. HoldsExact'
  BY <1>1, <1>2, <1>3 DEF HoldsExact, SameConnect, SameFrame
<1>5. Due' = Due /\ Due \in Nat
  BY <1>3, DueIsNat DEF Due, SameConnect, SameFrame
<1>6. \E n \in Nat : late' \in Lates /\ Comes(late, late', n) /\ Emit(n)
  <2>1. PICK k \in 0 .. LateBy : \E n \in 1 .. late[k] :
          late' = [late EXCEPT ![k] = @ - n] /\ Emit(n)
    BY DEF LateSegments
  <2>2. PICK n \in 1 .. late[k] : late' = [late EXCEPT ![k] = @ - n] /\ Emit(n)
    BY <2>1
  <2>3. late' \in Lates /\ n \in Nat /\ Comes(late, late', n)
    BY <1>1, <2>2, SegmentComes, Zenon
  <2> QED
    BY <2>2, <2>3
<1>7. PICK n \in Nat : late' \in Lates /\ Comes(late, late', n) /\ Emit(n)
  BY <1>6
<1>8. late' \in Lates /\ n \in Nat
  BY <1>7
<1>9. Emits(wire, wire', n)
  BY <1>1, <1>7, EmitSums DEF Emit
<1>10. LateFrom(late, 0) = LateFrom(late', 0) + n
  BY <1>7 DEF Comes
<1>11. ASSUME NEW t \in Future PROVE LateFrom(late', t) <= ClosedFrom(ledger, t)
  <2>1. t \in Nat /\ t \in Int /\ 1 - Window <= t
    BY Sizes DEF Future
  <2>2. /\ LateFrom(late, t) \in Nat /\ LateFrom(late', t) \in Nat
        /\ ClosedFrom(ledger, t) \in Nat
    BY <1>1, <1>8, <2>1, LateIsNat, ClosedIsNat
  <2>3. LateFrom(late, t) <= ClosedFrom(ledger, t)
    BY DEF Cover, Counted
  <2>4. LateFrom(late', t) <= LateFrom(late, t)
    BY <1>7 DEF Comes
  <2> QED
    BY <2>2, <2>3, <2>4
<1>12. ASSUME NEW t \in Past
       PROVE  WireSince(wire', t) + LateFrom(late', 0) + Due
                <= OpenBytes(ledger) + ClosedFrom(ledger, t)
  <2>1. 0 \in Nat /\ t \in Int /\ 1 - Window <= t
    BY Sizes DEF Past
  <2>2. /\ WireSince(wire, t) \in Nat /\ LateFrom(late', 0) \in Nat
    BY <1>1, <1>8, <2>1, WireIsNat, LateIsNat
  <2>3. WireSince(wire', t) = WireSince(wire, t) + n
    BY <1>9 DEF Emits
  <2>4. LateFrom(late, 0) = LateFrom(late', 0) + n
    BY <1>10
  <2>5. WireSince(wire, t) + LateFrom(late, 0) + Due
          <= OpenBytes(ledger) + ClosedFrom(ledger, t)
    BY DEF Cover, Counted
  <2> DEFINE ws == WireSince(wire, t)
             lf == LateFrom(late', 0)
             x == OpenBytes(ledger) + ClosedFrom(ledger, t)
             d == Due
  <2>6. ws \in Nat /\ lf \in Nat /\ d \in Nat /\ ws + (lf + n) + d <= x
    BY <1>5, <2>2, <2>4, <2>5
  <2> HIDE DEF ws, lf, x, d
  <2>7. (ws + n) + lf + d <= x
    <3>1. (ws + n) + lf + d = ws + (lf + n) + d
      BY <1>8, <2>6
    <3> QED
      BY <2>6, <3>1
  <2> QED
    BY <2>3, <2>7 DEF ws, lf, x, d
<1>13. Counted(ledger', wire', late', Due')
  BY <1>2, <1>5, <1>11, <1>12 DEF Counted
<1>14. wire' \in Wires
  BY <1>9 DEF Emits
<1> QED
  BY <1>1, <1>2, <1>3, <1>4, <1>8, <1>13, <1>14 DEF Cover, Capped

LEMMA DueHeld == Due <= ConnectHold + FrameHold + ReplyHold
<1>1. ConnectDue <= ConnectHold
  <2>1. /\ ConnectCostBytes - Syn <= ConnectCostBytes
        /\ LateAnswer + 2 * Reset + 0 <= ConnectCostBytes
        /\ LateAnswer + 2 * Reset + Pure <= ConnectCostBytes
        /\ LateAnswer \in Nat /\ LateAnswer <= LateAnswer
    BY CostSums, Sizes
  <2> HIDE DEF ConnectCostBytes, LateAnswer
  <2>2. CASE loop.pc = "dial"
    BY <2>1, <2>2 DEF ConnectDue, ConnectHold, At
  <2>3. CASE loop.pc = "hello"
    BY <2>1, <2>3 DEF ConnectDue, ConnectHold, At
  <2>4. CASE loop.pc \notin {"dial", "hello"}
    BY <2>1, <2>4 DEF ConnectDue, ConnectHold, At
  <2> QED
    BY <2>2, <2>3, <2>4
<1>2. FrameDue <= FrameHold
  <2>1. /\ FrameCostBytes <= FrameCostBytes
        /\ LateAnswer + 2 * Reset + 0 <= FrameCostBytes - Frame
        /\ LateAnswer + 2 * Reset + Pure <= FrameCostBytes - Frame
    BY CostSums, Sizes
  <2> QED
    BY <2>1 DEF FrameDue, FrameHold, At
<1>3. ReplyDue <= ReplyHold
  <2>1. Pure + 2 * Reset <= Pure + 2 * Reset
    BY Sizes
  <2> QED
    BY <2>1 DEF ReplyDue, ReplyHold
<1> DEFINE h == ConnectHold
           d == ConnectDue
           h1 == FrameHold
           d1 == FrameDue
           h2 == ReplyHold
           d2 == ReplyDue
<1>4. /\ h \in Nat /\ d \in Nat /\ h1 \in Nat /\ d1 \in Nat /\ h2 \in Nat /\ d2 \in Nat
      /\ d <= h /\ d1 <= h1 /\ d2 <= h2
  BY <1>1, <1>2, <1>3, HoldsAreNat, DueIsNat
<1> HIDE DEF h, d, h1, d1, h2, d2
<1>5. d + d1 + d2 <= h + h1 + h2
  BY <1>4
<1> QED
  BY <1>5 DEF Due, h, d, h1, d1, h2, d2

(* Time takes from the window what went out first, and its charge with it.   *)
LEMMA ClosedLater ==
  ASSUME NEW L \in Books, NEW t \in Int, 1 - Window <= t, t <= MaxTail
  PROVE  ClosedFrom(L, t + 1) <= ClosedFrom(L, t)
<1>1. \A e \in t .. MaxTail : L.closed[e] \in Nat
  <2>1. \A e \in t .. MaxTail : e \in Ends
    BY Sizes DEF Ends
  <2> QED
    BY <2>1 DEF Books
<1>2. MaxTail \in Int /\ t <= MaxTail /\ t \in t .. MaxTail
  BY Sizes
<1> DEFINE f == L.closed
<1>3. \A e \in t .. MaxTail : f[e] \in Nat
  BY <1>1
<1>4. f[t] \in Nat
  BY <1>2, <1>3
<1> HIDE DEF f
<1>5. SumOver(f, t .. MaxTail) = f[t] + SumOver(f, (t + 1) .. MaxTail)
  BY <1>2, <1>3, SumFirst
<1>6. SumOver(f, (t + 1) .. MaxTail) \in Nat
  <2>1. IsFiniteSet((t + 1) .. MaxTail)
    BY Sizes, FS_Interval
  <2>2. \A e \in (t + 1) .. MaxTail : f[e] \in Nat
    BY <1>3
  <2> QED
    BY <2>1, <2>2, SumIsNat
<1>7. SumOver(f, (t + 1) .. MaxTail) <= SumOver(f, t .. MaxTail)
  BY <1>4, <1>5, <1>6
<1> QED
  BY <1>7 DEF ClosedFrom, f

LEMMA LateNow ==
  ASSUME NEW l \in Lates PROVE LateFrom(l, 1) <= LateFrom(l, 0)
<1> DEFINE z == 0
<1>1. z \in Int /\ LateBy \in Int /\ z <= LateBy /\ \A e \in z .. LateBy : l[e] \in Nat
  BY Sizes DEF Lates
<1>2. z + 1 = 1 /\ l[z] \in Nat
  BY <1>1
<1> HIDE DEF z
<1>3. SumOver(l, z .. LateBy) = l[z] + SumOver(l, (z + 1) .. LateBy)
  BY <1>1, SumFirst
<1>4. LateFrom(l, z) = l[z] + LateFrom(l, 1)
  BY <1>2, <1>3 DEF LateFrom
<1>5. LateFrom(l, 1) \in Nat
  BY LateIsNat
<1>6. LateFrom(l, 1) <= LateFrom(l, z)
  BY <1>2, <1>4, <1>5
<1> QED
  BY <1>6 DEF z

LEMMA LateIsOver ==
  ASSUME NEW l \in Lates, NEW t \in Nat, t > LateBy PROVE LateFrom(l, t) = 0
<1>1. t .. LateBy = {}
  BY Sizes
<1> QED
  BY <1>1, SumOfNone DEF LateFrom

LEMMA PassedAtOne ==
  ASSUME NEW L \in Books PROVE ClosedFrom(Passed(L), 0) = ClosedFrom(L, 1)
<1> DEFINE z == 0
<1>1. z \in Int /\ 1 - Window <= z /\ z <= MaxTail + 1 /\ z + 1 = 1
  BY Sizes
<1> HIDE DEF z
<1>2. ClosedFrom(Passed(L), z) = ClosedFrom(L, z + 1)
  BY <1>1, ClosedPassed
<1> QED
  BY <1>1, <1>2 DEF z

LEMMA LatePassedAtZero ==
  ASSUME NEW l \in Lates PROVE LateFrom(LatePassed(l), 0) = LateFrom(l, 1)
<1> DEFINE z == 0
<1>1. z \in 0 .. LateBy /\ z + 1 = 1
  BY Sizes
<1> HIDE DEF z
<1>2. LateFrom(LatePassed(l), z) = LateFrom(l, z + 1)
  BY <1>1, LateSlides
<1> QED
  BY <1>1, <1>2 DEF z

LEMMA CountedPassed ==
  ASSUME NEW L \in Books, NEW w \in Wires, NEW l \in Lates, NEW d \in Nat,
         Counted(L, w, l, d), d <= OpenBytes(L)
  PROVE  Counted(Passed(L), WirePassed(w), LatePassed(l), d)
<1> DEFINE K == Passed(L)
           v == WirePassed(w)
           k == LatePassed(l)
<1>1. K \in Books /\ OpenBytes(K) = OpenBytes(L)
  BY PassedBooks DEF OpenBytes
<1>2. v \in Wires /\ k \in Lates
  BY WireSlides, LateSlides
<1>3. OpenBytes(L) \in Nat
  BY OpenIsNat
<1>4. ASSUME NEW t \in Future PROVE LateFrom(k, t) <= ClosedFrom(K, t)
  <2>1. /\ t \in Nat /\ t + 1 \in Nat /\ t \in 0 .. LateBy /\ t \in Int
        /\ 1 - Window <= t /\ 1 - Window <= t + 1 /\ t <= MaxTail + 1 /\ t + 1 \in Int
    BY Sizes DEF Future
  <2>2. LateFrom(k, t) = LateFrom(l, t + 1)
    BY <2>1, LateSlides
  <2>3. ClosedFrom(K, t) = ClosedFrom(L, t + 1)
    BY <2>1, ClosedPassed
  <2>4. CASE t + 1 \in Future
    BY <2>2, <2>3, <2>4 DEF Counted
  <2>5. CASE t + 1 \notin Future
    <3>1. t + 1 > LateBy
      BY <2>1, <2>5, Sizes DEF Future
    <3>2. LateFrom(l, t + 1) = 0
      BY <2>1, <3>1, LateIsOver
    <3>3. ClosedFrom(L, t + 1) \in Nat
      BY <2>1, ClosedIsNat
    <3> QED
      BY <2>2, <2>3, <3>2, <3>3
  <2> QED
    BY <2>4, <2>5
<1>5. LateFrom(k, 0) = LateFrom(l, 1) /\ LateFrom(l, 1) \in Nat
  BY LatePassedAtZero, LateIsNat
<1>6. WireSince(v, 0) + LateFrom(k, 0) + d <= OpenBytes(K) + ClosedFrom(K, 0)
  <2>1. WireSince(v, 0) = 0
    BY WireSlides
  <2>2. ClosedFrom(K, 0) = ClosedFrom(L, 1)
    BY PassedAtOne
  <2>3. ClosedFrom(L, 1) \in Nat
    BY Sizes, ClosedIsNat
  <2>4. LateFrom(l, 1) <= ClosedFrom(L, 1)
    <3>1. CASE 1 \in Future
      BY <3>1 DEF Counted
    <3>2. CASE 1 \notin Future
      <4>1. 1 > LateBy
        BY <3>2, Sizes DEF Future
      <4> QED
        BY <2>3, <4>1, LateIsOver
    <3> QED
      BY <3>1, <3>2
  <2> QED
    BY <1>1, <1>3, <1>5, <2>1, <2>2, <2>3, <2>4
<1>7. ASSUME NEW t \in (1 - Window) .. -1
      PROVE  WireSince(v, t) + LateFrom(k, 0) + d <= OpenBytes(K) + ClosedFrom(K, t)
  <2>1. /\ t \in Int /\ t + 1 \in Past /\ t + 1 \in Int /\ 1 - Window <= t
        /\ 1 - Window <= t + 1 /\ t <= MaxTail + 1
    BY Sizes DEF Past
  <2>2. WireSince(v, t) = WireSince(w, t + 1)
    BY WireSlides
  <2>3. ClosedFrom(K, t) = ClosedFrom(L, t + 1)
    BY <2>1, ClosedPassed
  <2>4. WireSince(w, t + 1) + LateFrom(l, 0) + d <= OpenBytes(L) + ClosedFrom(L, t + 1)
    BY <2>1 DEF Counted
  <2>5. LateFrom(l, 1) <= LateFrom(l, 0) /\ LateFrom(l, 0) \in Nat
    BY LateNow, LateIsNat
  <2>6. WireSince(w, t + 1) \in Nat /\ ClosedFrom(L, t + 1) \in Nat
    BY <2>1, WireIsNat, ClosedIsNat
  <2> DEFINE ws == WireSince(w, t + 1)
             l1 == LateFrom(l, 1)
             l0 == LateFrom(l, 0)
             o == OpenBytes(L)
             c == ClosedFrom(L, t + 1)
  <2>7. /\ ws \in Nat /\ l1 \in Nat /\ l0 \in Nat /\ o \in Nat /\ c \in Nat
        /\ l1 <= l0 /\ ws + l0 + d <= o + c
    BY <1>3, <1>5, <2>4, <2>5, <2>6
  <2> HIDE DEF ws, l1, l0, o, c
  <2>8. ws + l1 + d <= o + c
    BY <2>7
  <2> QED
    BY <1>1, <1>5, <2>2, <2>3, <2>8 DEF ws, l1, o, c
<1>8. ASSUME NEW t \in Past
      PROVE  WireSince(v, t) + LateFrom(k, 0) + d <= OpenBytes(K) + ClosedFrom(K, t)
  <2>1. CASE t = 0
    BY <1>6, <2>1
  <2>2. CASE t # 0
    <3>1. t \in (1 - Window) .. -1
      BY <2>2, Sizes DEF Past
    <3> QED
      BY <1>7, <3>1
  <2> QED
    BY <2>1, <2>2
<1> QED
  BY <1>4, <1>8 DEF Counted

LEMMA TickCover == ASSUME Inv, Cover, Tick PROVE Cover'
<1>1. /\ ledger \in Books /\ wire \in Wires /\ late \in Lates
      /\ ledger.open["connect"] = ConnectHold /\ ledger.open["frame"] = FrameHold
      /\ ledger.open["reply"] = ReplyHold
      /\ HoldsExact /\ allowed \subseteq Announcer /\ Links
  BY CoverFacts DEF Cover
<1>2. /\ UNCHANGED <<loop, conn, answer, server, allowed>>
      /\ ledger' = Passed(ledger) /\ wire' = WirePassed(wire) /\ late' = LatePassed(late)
  BY DEF Tick, client, WirePassed, LatePassed
<1>3. /\ SameConnect /\ SameFrame /\ Links'
      /\ ReplyHold' = ReplyHold /\ ReplyDue' = ReplyDue
  BY <1>1, <1>2, LoopStays DEF Links, ReplyHold, ReplyDue
<1>4. ledger'.open = ledger.open /\ OpenBytes(ledger') = OpenBytes(ledger)
  BY <1>1, <1>2, PassedBooks DEF OpenBytes
<1>5. HoldsExact'
  BY <1>1, <1>3, <1>4 DEF HoldsExact, SameConnect, SameFrame
<1>6. Due' = Due /\ Due \in Nat
  BY <1>3, DueIsNat DEF Due, SameConnect, SameFrame
<1>7. Due <= OpenBytes(ledger)
  BY <1>1, DueHeld DEF OpenBytes
<1>8. Counted(ledger, wire, late, Due)
  BY DEF Cover
<1> DEFINE d == Due
<1>9. d \in Nat /\ Counted(ledger, wire, late, d) /\ d <= OpenBytes(ledger) /\ Due' = d
  BY <1>6, <1>7, <1>8
<1> HIDE DEF d
<1>10. Counted(Passed(ledger), WirePassed(wire), LatePassed(late), d)
  BY <1>1, <1>9, CountedPassed
<1>11. Counted(ledger', wire', late', Due')
  BY <1>2, <1>9, <1>10
<1>12. wire' \in Wires /\ late' \in Lates
  BY <1>1, <1>2, WireSlides, LateSlides
<1>13. Capped(ledger')
  <2> DEFINE t == 1 - Window
  <2>1. t \in Int /\ 1 - Window <= t /\ t <= MaxTail /\ t <= MaxTail + 1
        /\ t + 1 \in Int /\ 1 - Window <= t + 1
    BY Sizes
  <2>2. OpenBytes(ledger) + ClosedFrom(ledger, t) <= Share
    BY DEF Cover, Capped
  <2> HIDE DEF t
  <2>3. ClosedFrom(Passed(ledger), t) = ClosedFrom(ledger, t + 1)
    BY <1>1, <2>1, ClosedPassed
  <2>4. ClosedFrom(ledger, t + 1) <= ClosedFrom(ledger, t)
    BY <1>1, <2>1, ClosedLater
  <2>5. /\ ClosedFrom(ledger, t) \in Nat /\ ClosedFrom(ledger, t + 1) \in Nat
        /\ OpenBytes(ledger) \in Nat /\ Share \in Nat
    BY <1>1, <2>1, ClosedIsNat, OpenIsNat, Sizes
  <2>6. OpenBytes(ledger') + ClosedFrom(ledger', t) <= Share
    BY <1>2, <1>4, <2>2, <2>3, <2>4, <2>5
  <2> QED
    BY <2>6 DEF Capped, t
<1> QED
  BY <1>1, <1>2, <1>3, <1>5, <1>11, <1>12, <1>13 DEF Cover

-----------------------------------------------------------------------------
LEMMA InitCover == Init => Cover
<1> SUFFICES ASSUME Init PROVE Cover
  OBVIOUS
<1>1. /\ ledger = NoEntries /\ loop.pc = "idle" /\ conn = FALSE /\ answer = "none"
      /\ server.pc = "idle" /\ allowed = {}
      /\ wire = [i \in 0 .. Window - 1 |-> 0] /\ late = [k \in 0 .. LateBy |-> 0]
  BY DEF Init, Idle, AtIdle
<1>2. /\ ConnectHold = 0 /\ FrameHold = 0 /\ ReplyHold = 0
      /\ ConnectDue = 0 /\ FrameDue = 0 /\ ReplyDue = 0
  BY <1>1 DEF ConnectHold, FrameHold, ReplyHold, ConnectDue, FrameDue, ReplyDue, At
<1>3. /\ ledger \in Books /\ wire \in Wires /\ late \in Lates
      /\ ledger.open["connect"] = 0 /\ ledger.open["frame"] = 0
      /\ ledger.open["reply"] = 0 /\ ledger.closed = [e \in Ends |-> 0]
  BY <1>1, Tickets DEF NoEntries, Books, Wires, Lates
<1>4. HoldsExact /\ Links
  BY <1>1, <1>2, <1>3 DEF HoldsExact, Links
<1>5. Due = 0 /\ OpenBytes(ledger) = 0
  BY <1>2, <1>3 DEF Due, OpenBytes
<1>6. \A t \in Int : 1 - Window <= t => ClosedFrom(ledger, t) = 0
  <2>1. ASSUME NEW t \in Int, 1 - Window <= t PROVE ClosedFrom(ledger, t) = 0
    <3>1. IsFiniteSet(t .. MaxTail)
      BY Sizes, FS_Interval
    <3>4. \A e \in t .. MaxTail : e \in Ends
      BY <2>1, Sizes DEF Ends
    <3> DEFINE f == ledger.closed
    <3>2. \A e \in t .. MaxTail : f[e] = 0
      BY <1>3, <3>4
    <3> HIDE DEF f
    <3>3. SumOver(f, t .. MaxTail) = 0
      BY <3>1, <3>2, SumOfZeros
    <3> QED
      BY <3>3 DEF ClosedFrom, f
  <2> QED
    BY <2>1
<1>7. \A t \in Nat : LateFrom(late, t) = 0
  <2>1. ASSUME NEW t \in Nat PROVE LateFrom(late, t) = 0
    <3>1. IsFiniteSet(t .. LateBy)
      BY Sizes, FS_Interval
    <3>2. \A k \in t .. LateBy : late[k] = 0
      BY <1>1, Sizes
    <3>3. SumOver(late, t .. LateBy) = 0
      BY <3>1, <3>2, SumOfZeros
    <3> QED
      BY <3>3 DEF LateFrom
  <2> QED
    BY <2>1
<1>8. \A t \in Past : WireSince(wire, t) = 0
  <2>1. ASSUME NEW t \in Past PROVE WireSince(wire, t) = 0
    <3> DEFINE m == 0 - t
    <3>1. m \in Int /\ \A i \in 0 .. m : i \in 0 .. Window - 1
      BY Sizes DEF Past
    <3>2. \A i \in 0 .. m : wire[i] = 0
      BY <1>1, <3>1
    <3>3. IsFiniteSet(0 .. m)
      BY <3>1, FS_Interval
    <3> HIDE DEF m
    <3>4. SumOver(wire, 0 .. m) = 0
      BY <3>2, <3>3, SumOfZeros
    <3> QED
      BY <3>4 DEF WireSince, m
  <2> QED
    BY <2>1
<1>9. Counted(ledger, wire, late, Due)
  <2>1. ASSUME NEW t \in Future PROVE LateFrom(late, t) <= ClosedFrom(ledger, t)
    <3>1. t \in Nat /\ t \in Int /\ 1 - Window <= t
      BY Sizes DEF Future
    <3>2. LateFrom(late, t) = 0 /\ ClosedFrom(ledger, t) = 0
      BY <1>6, <1>7, <3>1
    <3> QED
      BY <3>2
  <2>2. ASSUME NEW t \in Past
        PROVE  WireSince(wire, t) + LateFrom(late, 0) + Due
                 <= OpenBytes(ledger) + ClosedFrom(ledger, t)
    <3>1. t \in Int /\ 1 - Window <= t /\ 0 \in Nat
      BY Sizes DEF Past
    <3>2. WireSince(wire, t) = 0 /\ LateFrom(late, 0) = 0 /\ ClosedFrom(ledger, t) = 0
      BY <1>6, <1>7, <1>8, <3>1
    <3> QED
      BY <1>5, <3>2
  <2> QED
    BY <2>1, <2>2 DEF Counted
<1>10. Capped(ledger)
  <2>1. 1 - Window \in Int /\ 1 - Window <= 1 - Window /\ Share \in Nat
    BY Sizes
  <2>2. ClosedFrom(ledger, 1 - Window) = 0
    BY <1>6, <2>1
  <2> QED
    BY <1>5, <2>1, <2>2 DEF Capped
<1> QED
  BY <1>1, <1>3, <1>4, <1>9, <1>10 DEF Cover

LEMMA StutterCover == ASSUME Inv, Cover, UNCHANGED vars PROVE Cover'
<1>1. /\ UNCHANGED <<ledger, loop, conn, answer, server, allowed, wire, late>>
      /\ Links /\ allowed \subseteq Announcer
  BY CoverFacts DEF vars
<1>2. SameConnect /\ SameFrame /\ ReplyHold' = ReplyHold /\ ReplyDue' = ReplyDue /\ Links'
  BY <1>1, LoopStays DEF ReplyHold, ReplyDue, Links
<1> QED
  BY <1>1, <1>2, QuietStep DEF SameConnect, SameFrame

LEMMA NextCover == Inv /\ Cover /\ [Next]_vars => Cover'
<1> SUFFICES ASSUME Inv, Cover, [Next]_vars PROVE Cover'
  OBVIOUS
<1>1. CASE UNCHANGED vars
  BY <1>1, StutterCover
<1>2. CASE \/ Failover \/ Connects \/ ConnectFails \/ PeerAcks
           \/ HelloSilent \/ HelloLost \/ HelloLate \/ Oversize
  BY <1>2, FailoverCover, ConnectsCover, ConnectFailsCover, PeerAcksCover,
     HelloSilentCover, HelloLostCover, HelloLateCover, OversizeCover
<1>3. CASE \/ AskRoom \/ Admitted \/ NoBudget \/ LinkChanged \/ Send \/ SendFails
           \/ AckTimeout \/ AckMismatch \/ Acknowledged
  <2>1. CASE AckTimeout
    BY <2>1, AckTimeoutCover DEF AckTimeout
  <2>2. CASE AckMismatch
    BY <2>2, AckTimeoutCover, AckMismatchCover DEF AckMismatch
  <2>3. CASE \/ AskRoom \/ Admitted \/ NoBudget \/ LinkChanged \/ Send \/ SendFails
             \/ Acknowledged
    BY <2>3, AskRoomCover, AdmittedCover, NoBudgetCover, LinkChangedCover, SendCover,
       SendFailsCover, AcknowledgedCover
  <2> QED
    BY <1>3, <2>1, <2>2, <2>3
<1>4. CASE \/ \E prio \in {1, 3} : SendFrame(prio) \/ Dial(prio)
           \/ \E codec \in BOOLEAN : HelloAnswered(codec)
  BY <1>4, SendFrameCover, DialCover, HelloAnsweredCover
<1>5. CASE \/ Command \/ ReplyChunk \/ ReplySendFails \/ ReplyNoBudget
           \/ ChunkAcknowledged \/ ReplyTimeout
  BY <1>5, CommandCover, ReplyChunkCover, ReplySendFailsCover, ReplyNoBudgetCover,
     ChunkAcknowledgedCover, ReplyTimeoutCover
<1>6. CASE \/ \E a \in Announcer : MayAnnounce(a) \/ Announce(a)
           \/ LateSegments \/ Tick
  BY <1>6, MayAnnounceCover, AnnounceCover, LateSegmentsCover, TickCover
<1> QED
  BY <1>1, <1>2, <1>3, <1>4, <1>5, <1>6 DEF Next

(* z1, which only Oversize reads.                                            *)
CodecKnown == z1 \in BOOLEAN
LEMMA CodecSafe == Spec => []CodecKnown
<1>1. Init => CodecKnown
  BY DEF Init, CodecKnown
<1>2. CodecKnown /\ [Next]_vars => CodecKnown'
  BY DEF CodecKnown, Next, vars, client, Failover, DropLink, Disconnected, SendFrame, Dial, Connects,
     ConnectFails, PeerAcks, HelloAnswered, HelloSilent, HelloLost, HelloLate, Oversize,
     AskRoom, Admitted, NoBudget, LinkChanged, Send, SendFails, AbortExchange, AckTimeout,
     AckMismatch, Acknowledged, Command, ReplyChunk, ReplySendFails, ReplyNoBudget,
     ChunkAcknowledged, ReplyTimeout, MayAnnounce, Announce, LateSegments, Tick
<1> QED
  BY <1>1, <1>2, PTL DEF Spec

LEMMA CoverIsSound == Inv /\ Cover /\ CodecKnown => ShareSound
<1> SUFFICES ASSUME Inv, Cover, CodecKnown PROVE ShareSound
  OBVIOUS
<1>1. /\ ledger \in Books /\ wire \in Wires /\ late \in Lates /\ allowed \subseteq Announcer
      /\ loop \in LoopType /\ server \in ServerType
  BY CoverFacts
<1> DEFINE t == 1 - Window
           o == OpenBytes(ledger)
           c == ClosedFrom(ledger, t)
           ws == WireSince(wire, t)
           lf == LateFrom(late, 0)
           d == Due
<1>2. t \in Int /\ 1 - Window <= t /\ t \in Past /\ Share \in Nat /\ 0 \in Nat
  BY Sizes DEF Past
<1>3. /\ o \in Nat /\ c \in Nat /\ ws \in Nat /\ lf \in Nat /\ d \in Nat
  BY <1>1, <1>2, OpenIsNat, ClosedIsNat, WireIsNat, LateIsNat, DueIsNat
<1>4. o + c <= Share
  BY DEF Cover, Capped
<1>5. ws + lf + d <= o + c
  BY <1>2 DEF Cover, Counted
<1>6. SumFunction(wire) = ws
  BY <1>1, WindowIsSince
<1>7. WindowCapped
  <2> HIDE DEF o, c, ws, lf, d
  <2>1. ws <= Share
    BY <1>2, <1>3, <1>4, <1>5
  <2> QED
    BY <1>6, <2>1 DEF WindowCapped
<1>8. ledger \in Ledger
  <2>1. /\ ledger.open["connect"] \in Nat /\ ledger.open["frame"] \in Nat
        /\ ledger.open["reply"] \in Nat
        /\ o = ledger.open["connect"] + ledger.open["frame"] + ledger.open["reply"]
    BY <1>1, OpenIsNat DEF OpenBytes
  <2>2. o <= Share
    <3> HIDE DEF o, c
    <3> QED
      BY <1>2, <1>3, <1>4
  <2>3. /\ ledger.open["connect"] <= Share /\ ledger.open["frame"] <= Share
        /\ ledger.open["reply"] <= Share
    <3> DEFINE a1 == ledger.open["connect"]
               a2 == ledger.open["frame"]
               a3 == ledger.open["reply"]
    <3>1. a1 \in Nat /\ a2 \in Nat /\ a3 \in Nat /\ a1 + a2 + a3 <= Share
      BY <2>1, <2>2
    <3> HIDE DEF a1, a2, a3
    <3>2. a1 <= Share /\ a2 <= Share /\ a3 <= Share
      BY <1>2, <3>1
    <3> QED
      BY <3>2 DEF a1, a2, a3
  <2>4. \A u \in Ticket : ledger.open[u] \in 0 .. Share
    BY <1>2, <2>1, <2>3, TrafficAssumption
  <2> QED
    BY <1>1, <2>4 DEF Books, Ledger
<1>9. TypeOK
  <2>1. conn \in BOOLEAN /\ answer \in {"none", "due", "unread"} /\ transmit \in BOOLEAN
        /\ z1 \in BOOLEAN
    BY DEF Inv, CodecKnown
  <2> HIDE DEF t, o, c, ws, lf, d
  <2>2. /\ loop \in [pc : {"idle", "dial", "hello", "ready", "wait", "admitted", "await"},
                     prio : {1, 3}, acked : BOOLEAN]
        /\ server \in [pc : {"idle", "wait", "await"}, first : BOOLEAN]
    BY <1>1 DEF LoopType, Step, ServerType
  <2>3. wire \in [0 .. Window - 1 -> Nat] /\ late \in [0 .. LateBy -> Nat]
    BY <1>1 DEF Wires, Lates
  <2> QED
    BY <1>1, <1>8, <2>1, <2>2, <2>3, Zenon DEF TypeOK
<1> QED
  BY <1>7, <1>9 DEF ShareSound

(* Whatever is lost, late, reset or answered twice, no window on the wire    *)
(* carries more than the onboard's share: class LinkBudget's promise, kept   *)
(* by the holds of TelemetryClient and CommandServer, for every share,       *)
(* window, size and tail with a reset no longer than a pure ACK.             *)
THEOREM ShareSafe == Spec => []ShareSound
<1>1. Init => Inv /\ Cover
  BY InitInv, InitCover
<1>2. (Inv /\ Cover) /\ [Next]_vars => (Inv /\ Cover)'
  BY NextInv, NextCover
<1>3. Inv /\ Cover /\ CodecKnown => ShareSound
  BY CoverIsSound
<1> QED
  BY <1>1, <1>2, <1>3, CodecSafe, PTL DEF Spec
=============================================================================
