------------------------------ MODULE MCCollator -------------------------------
(* Two relay parents, numbered 1 and 2, so that a stored watermark can be *)
(* below, at or (by default) equal to the relay-parent number; a stored   *)
(* processed count is absent, undecodable or 0 (its value is copied, so   *)
(* no property tells larger values apart).                                *)
EXTENDS Collator, TLC

CONSTANTS r1, r2

MCRelayParents == {r1, r2}
MCRelayParentNumber == (r1 :> 1) @@ (r2 :> 2)
=============================================================================
