----------------------------- MODULE LinkBudget -----------------------------
(***************************************************************************)
(* The ledger of onboard/src/link_budget.cpp: how many bytes the onboard   *)
(* side and the answers it provokes may put on the wire in any window.     *)
(*                                                                         *)
(* Times are counted from now, in ticks of any length.  A ledger is        *)
(*   open    the bytes each open hold still covers (no bytes: no hold)     *)
(*   closed  the bytes of the closed entries, by how long from now they    *)
(*           end (negative: how long ago they ended)                       *)
(* The operators are the public operations, each one step under mu_.  The  *)
(* model of the kernel's shaper (tx_bytes) can only refuse a charge, which *)
(* a caller cannot tell from one that waits: it is left out.               *)
(***************************************************************************)
EXTENDS Integers, FiniteSetsExt, Functions

CONSTANTS
  Ticket,     (* the holds that may be open at the same time                 *)
  Share,      (* share_                                                       *)
  Window,     (* window_, in ticks                                            *)
  MaxTail     (* how far in the future an entry is closed, at most            *)

ASSUME BudgetAssumption ==
  /\ Share \in Nat /\ Window \in Nat \ {0} /\ MaxTail \in Nat

(* An entry that ended Window ticks ago is pruned.                           *)
Ends == (1 - Window) .. MaxTail
Ledger == [open : [Ticket -> 0 .. Share], closed : [Ends -> Nat]]

NoEntries == [open |-> [t \in Ticket |-> 0], closed |-> [e \in Ends |-> 0]]

InWindow(L) == SumFunction(L.open) + SumFunction(L.closed)

(* AdmitLocked but for the waiters, who are known to the callers.            *)
Fits(L, bytes) == InWindow(L) + bytes <= Share

Held(L, ticket, bytes) == [L EXCEPT !.open[ticket] = bytes]
Charged(L, bytes) == [L EXCEPT !.closed[0] = @ + bytes]

ReleasedPart(L, ticket, bytes, when) ==
  LET part == Min({bytes, L.open[ticket]})
  IN  [L EXCEPT !.open[ticket] = @ - part, !.closed[when] = @ + part]

ReleasedAt(L, ticket, when) == ReleasedPart(L, ticket, L.open[ticket], when)

Refunded(L, ticket, bytes) == [L EXCEPT !.open[ticket] = @ - Min({bytes, @})]

(* A tick of time.                                                           *)
Passed(L) ==
  [L EXCEPT !.closed = [e \in Ends |-> IF e + 1 \in Ends THEN @[e + 1] ELSE 0]]
=============================================================================
