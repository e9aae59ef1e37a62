------------------------------ MODULE MCRtwCmd ------------------------------
(***************************************************************************)
(* RtwCmd for TLC: two clients and two command objects, so that a client   *)
(* may have given up on a command while it or the other one issues a new   *)
(* one, and a freed object is soon used again.                             *)
(***************************************************************************)
EXTENDS RtwCmd

CONSTANTS k1, k2, o1, o2

TwoClients == {k1, k2}
TwoCmds    == {o1, o2}
=============================================================================
