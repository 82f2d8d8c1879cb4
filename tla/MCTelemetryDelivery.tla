------------------------ MODULE MCTelemetryDelivery -------------------------
(* TelemetryDelivery on small instances: the values of its constants.        *)
EXTENDS TelemetryDelivery
MCEventSeqs == {2}
=============================================================================
