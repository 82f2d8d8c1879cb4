--------------------------- MODULE MCBendSequences ---------------------------
(* BendSequences on small instances: there and back, with and without hold.  *)
EXTENDS BendSequences
ThereAndBack ==
  <<[target |-> 1, hold |-> TRUE], [target |-> 0, hold |-> FALSE]>>
Definitions == {ThereAndBack}
=============================================================================
