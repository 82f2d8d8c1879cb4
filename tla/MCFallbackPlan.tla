--------------------------- MODULE MCFallbackPlan ---------------------------
(* FallbackPlan on small instances: the .cfg files give its constants.       *)
EXTENDS FallbackPlan
=============================================================================
