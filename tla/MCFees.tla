-------------------------------- MODULE MCFees --------------------------------
(* The runtime's ratios at a smaller scale: MILLICENTS is 10^11 Balance    *)
(* units and ExtrinsicBaseWeight about 1.25 * 10^8, so p / q is a whole    *)
(* number; here MILLICENTS = 1000 and the base weight is 25, again with    *)
(* p divisible by q, so the Perbill term is zero as in the runtime.        *)
EXTENDS Fees

MCWeights == {0, 25, 100}
=============================================================================
