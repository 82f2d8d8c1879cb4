-------------------------- MODULE ReliableTransfer --------------------------
(***************************************************************************)
(* What the telemetry path promises: at-least-once delivery.  A frame is   *)
(* taken by the onboard, reaches the ground station, and only then is it   *)
(* discharged; in between it may be delivered any number of times.         *)
(***************************************************************************)
CONSTANT Frame
VARIABLES
  taken,        (* frames the onboard took responsibility for                 *)
  reached,      (* frames the ground station received at least once           *)
  discharged    (* frames the onboard no longer owes                          *)

Take(k) == /\ k \notin taken
           /\ taken' = taken \cup {k}
           /\ UNCHANGED <<reached, discharged>>

(* A frame can arrive without ever having been taken: the process died right *)
(* after it had written the frame to its disk.                               *)
Arrive(k) == /\ reached' = reached \cup {k}
             /\ UNCHANGED <<taken, discharged>>

Discharge(k) == /\ k \in taken \cap reached
                /\ discharged' = discharged \cup {k}
                /\ UNCHANGED <<taken, reached>>

Init == taken = {} /\ reached = {} /\ discharged = {}
Next == \E k \in Frame : Take(k) \/ Arrive(k) \/ Discharge(k)
Spec == Init /\ [][Next]_<<taken, reached, discharged>>
=============================================================================
