--------------------------- MODULE MCCoopRxSession ---------------------------
(***************************************************************************)
(* CoopRxSession for TLC: one bind and one helper, and two of everything   *)
(* the setting consists of, so that a change may touch any part of it.     *)
(***************************************************************************)
EXTENDS CoopRxSession

CONSTANTS w1, h1

MCWriters    == {w1}
MCHelpers    == {h1}
MCChannels   == {6, 7}
MCBandwidths == {20, 40}
MCOffsets    == {1, 2}
=============================================================================
