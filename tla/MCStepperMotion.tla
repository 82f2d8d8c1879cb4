--------------------------- MODULE MCStepperMotion ---------------------------
(* StepperMotion on small instances: the values of its constants.            *)
EXTENDS StepperMotion
MCDivisor == {1, 2}
MCDelta == {-1}
=============================================================================
