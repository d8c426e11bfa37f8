--------------------------------- MODULE Fees ---------------------------------
(***************************************************************************)
(* The currency units and the weight-to-fee polynomial of the Selendra     *)
(* runtime (src/runtime/selendra/src/constants.rs, modules currency and    *)
(* fee), and the fee its unit tests expect for one ExtrinsicBaseWeight.    *)
(*                                                                         *)
(* Balances are u128 and no value here comes near 2^128, so no width is    *)
(* kept.  The real unit is 10^18 per UNITS; TLC's integers are 32-bit, so  *)
(* the smallest unit is a constant (Millicent, the Balance per MILLICENTS, *)
(* 10^11 in the runtime) and ExtrinsicBaseWeight (runtime_common) another.  *)
(* Every relation below is linear in both, so a smaller instance keeps     *)
(* the ratios of the real one.                                             *)
(***************************************************************************)
EXTENDS Naturals

CONSTANTS
  Millicent,           \* MILLICENTS, in Balance units
  ExtrinsicBaseWeight, \* runtime_common::ExtrinsicBaseWeight::get()
  Weights              \* the weights the fee is asked for

\* Perbill: parts per billion.
Accuracy == 1000000000

\* currency: CENTS = UNITS / 10_000 and MILLICENTS = CENTS / 1_000.
MILLICENTS == Millicent
CENTS == 1000 * Millicent

\* Perbill::from_rational(n, d), rounded down.
PerbillFromRational(n, d) == (n * Accuracy) \div d

\* WeightToFee::polynomial(): one term of degree 1 with
\* p = 100 * MILLICENTS and q = 10 * ExtrinsicBaseWeight.
Polynomial ==
  LET p == 100 * MILLICENTS
      q == 10 * ExtrinsicBaseWeight
  IN [degree |-> 1, negative |-> FALSE,
      coeff_frac |-> PerbillFromRational(p % q, q), coeff_integer |-> p \div q]

\* WeightToFee::calc, the method WeightToFeePolynomial provides, for the
\* single non-negative term of degree 1: coeff_frac * w (Perbill times a
\* Balance, rounded down) plus coeff_integer * w.
Calc(w) == (Polynomial.coeff_frac * w) \div Accuracy + Polynomial.coeff_integer * w

VARIABLES
  weight,  \* the weight asked about
  fee      \* WeightToFee::calc(&weight)

vars == <<weight, fee>>

Init ==
  /\ weight \in Weights
  /\ fee = Calc(weight)

Next == UNCHANGED vars

Spec == Init /\ [][Next]_vars

-----------------------------------------------------------------------------
\* AbsDiff: x.max(y) - x.min(y).
AbsDiff(x, y) == IF x >= y THEN x - y ELSE y - x

\* The test extrinsic_base_fee_is_correct: an extrinsic of
\* ExtrinsicBaseWeight costs 1/10 of a CENT, to within one MILLICENTS.
ExtrinsicBaseFeeIsCorrect ==
  weight = ExtrinsicBaseWeight => AbsDiff(fee, CENTS \div 10) < MILLICENTS
=============================================================================
