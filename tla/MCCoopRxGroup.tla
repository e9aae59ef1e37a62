--------------------------- MODULE MCCoopRxGroup ---------------------------
(***************************************************************************)
(* CoopRxGroup for TLC: two adapters and two sysfs writers.  One slot for  *)
(* helpers is filled by one pair and found full by the next; a self-paired *)
(* primary makes two helpers of two adapters, which fill two.              *)
(***************************************************************************)
EXTENDS CoopRxGroup

CONSTANTS a1, a2, t1, t2

MCAdapters == {a1, a2}
MCTasks    == {t1, t2}
NoAdapters == {}
OneAdapter == {a1}
=============================================================================
