-------------------------- MODULE MotionInterlock ---------------------------
(***************************************************************************)
(* What the motion layer promises to the heaters and to the other motor    *)
(* (onboard/include/coatheal/motion_lock.hpp): one motor holds the lock,   *)
(* and only the motor that holds it is in motion.                          *)
(***************************************************************************)
CONSTANTS Motor, NoMotor

VARIABLES
  holder,       (* the motor that holds the lock, or NoMotor                  *)
  busy          (* motors that move or hold a position under load             *)

Acquire(m) == holder = NoMotor /\ holder' = m /\ busy' \in {{}, {m}}
Change(m) == holder = m /\ holder' = m /\ busy' \in {{}, {m}}
Release(m) == holder = m /\ holder' = NoMotor /\ busy' = {}

Init == holder = NoMotor /\ busy = {}
Next == \E m \in Motor : Acquire(m) \/ Change(m) \/ Release(m)
Spec == Init /\ [][Next]_<<holder, busy>>
=============================================================================
