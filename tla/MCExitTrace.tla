---------------------------- MODULE MCExitTrace ----------------------------
(* Two scenarios on one Exit, the second of which may meet what the first  *)
(* left behind, with enough samples for a run to have two edges and a      *)
(* middle.                                                                 *)
EXTENDS ExitTrace
=============================================================================
