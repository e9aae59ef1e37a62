--------------------------- MODULE MCRecvReorder ---------------------------
(***************************************************************************)
(* RecvReorder for TLC: a sequence number space of 16 that wraps once, and *)
(* a window of 3; copies come as late, and frames as early, as the serial  *)
(* number arithmetic can bear.                                             *)
(***************************************************************************)
EXTENDS RecvReorder

CONSTANTS primary, drain

OneContext  == {primary}
TwoContexts == {primary, drain}
=============================================================================
