------------------------ MODULE MCCandidateValidation -------------------------
(* One request of each kind, received in either order.  The executor has  *)
(* one outcome per kind of arm of validate_candidate_exhaustive: success, *)
(* an invalid outcome kept as is, one renamed to ExecutionError, and an   *)
(* internal error.                                                        *)
EXTENDS CandidateValidation, TLC

CONSTANTS rChain, rExh

MCRequests == {rChain, rExh}
MCKind == (rChain :> "chain") @@ (rExh :> "exhaustive")
MCWasmChoices == {"Ok", "Timeout", "WasmExecutor", "Internal"}
=============================================================================
