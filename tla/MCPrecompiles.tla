----------------------------- MODULE MCPrecompiles -----------------------------
(* Every address either view names, and one that neither does.           *)
EXTENDS Precompiles

MCAddresses == {0} \cup 1..9 \cup {1024, 1025, 1026}
=============================================================================
