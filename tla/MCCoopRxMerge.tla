--------------------------- MODULE MCCoopRxMerge ---------------------------
(***************************************************************************)
(* CoopRxMerge for TLC: three frames, one helper, every kind of traffic.   *)
(* Inside an agreement the traffic is not encrypted where properties hold: *)
(* no copy is then lost for its packet number or its decryption, which is  *)
(* what ClaimHonoured needs, and the window is fed any of the frames, in   *)
(* any order, anyhow.                                                      *)
(***************************************************************************)
EXTENDS CoopRxMerge

CONSTANTS primary, drain, h1

BothContexts == {primary, drain}
OneHelper    == {h1}
MCFlows ==
  {f \in [qos : BOOLEAN, ba : BOOLEAN, crypt : {"open", "kernel", "soft"}] :
     f.ba => f.qos /\ f.crypt = "open"}
AgreedFlows == {[qos |-> TRUE, ba |-> TRUE, crypt |-> "kernel"]}
=============================================================================
