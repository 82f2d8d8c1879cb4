--------------------------- MODULE MCHeaterControl ---------------------------
(* HeaterControl on small instances: the .cfg files give its constants.      *)
EXTENDS HeaterControl
=============================================================================
