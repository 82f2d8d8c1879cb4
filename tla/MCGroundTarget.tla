--------------------------- MODULE MCGroundTarget ---------------------------
(***************************************************************************)
(* An instance of GroundTarget: a console that sends beacons and commands, *)
(* a second one of lower priority, and a command from the Pi itself; none  *)
(* is configured (the flight configuration leaves the host to discovery).  *)
(***************************************************************************)
EXTENDS GroundTarget, TLC

CONSTANTS console, bench, loopback

MCHost == {console, bench, loopback}
MCBeaconPriority == console :> 2 @@ bench :> 1
MCCommandPriority == console :> 3 @@ bench :> 3 @@ loopback :> 0
=============================================================================
