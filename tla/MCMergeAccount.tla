----------------------------- MODULE MCMergeAccount ----------------------------
(* Three accounts with up to two units free and two reserved each, so a   *)
(* merge can meet an empty, a reserved-only and a fully funded source.    *)
EXTENDS MergeAccount, TLC

CONSTANTS alice, bob, charlie

MCAccounts == {alice, bob, charlie}

\* Accounts are interchangeable: no property names one.
MCSymmetry == Permutations(MCAccounts)
=============================================================================
