--------------------------- MODULE MCCoopRxQueue ---------------------------
(***************************************************************************)
(* CoopRxQueue for TLC: few frames and a limit of one make the limit, the  *)
(* batch size and the empty pool occur within a few steps.                 *)
(***************************************************************************)
EXTENDS CoopRxQueue

CONSTANTS f1, f2, f3, h1, h2, w1, w2

ThreeFrames == {f1, f2, f3}
OneHelper   == {h1}
MCHelpers   == {h1, h2}
OneWriter   == {w1}
TwoWriters  == {w1, w2}
=============================================================================
