--------------------------- MODULE MCToolTimeout ---------------------------
(* A stack of three timeout layers, each disabled, defaulted or explicit.   *)
EXTENDS ToolTimeout

MCDurations == {-1, 0, 1}
=============================================================================
