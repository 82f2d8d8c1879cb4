-------------------------- MODULE MCTelemetryQueue --------------------------
(* TelemetryQueue on small instances: the values of its constants, and the   *)
(* replay order of a 15-frame gap that telemetry_queue.hpp gives.            *)
EXTENDS TelemetryQueue, Sequences

MCEventSeqs == {2}

RECURSIVE ReplayOrder(_)
ReplayOrder(rs) ==
  IF rs = {} THEN <<>>
  ELSE LET i == Middle(LongestRun(rs))
       IN  <<i>> \o ReplayOrder(RemoveRun(rs, {i}))

ASSUME BisectionOrder ==
  SubSeq(ReplayOrder({<<0, 14>>}), 1, 10) = <<7, 3, 11, 1, 5, 9, 13, 0, 2, 4>>
=============================================================================
