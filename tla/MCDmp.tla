------------------------------- MODULE MCDmp ----------------------------------
(* Two paras, two deliverable messages and one that exceeds               *)
(* max_downward_message_size; three relay blocks; up to three links per   *)
(* MQC, so a para can hold a queue of three and process it in parts.      *)
EXTENDS Dmp

CONSTANTS m1, m2, big

MCParas == {100, 200}
MCMsgs == {m1, m2, big}
MCMsgLen == (m1 :> 1) @@ (m2 :> 2) @@ (big :> 5)
=============================================================================
