------------------------------ MODULE Precompiles ------------------------------
(***************************************************************************)
(* FrontierPrecompiles (src/runtime/selendra/src/constants.rs): the set of *)
(* precompiled contracts of the Selendra EVM.  An address is               *)
(* H160::from_low_u64_be(a), which is injective on u64, so an address is   *)
(* its low u64 value a.  A precompile is named after its implementation.   *)
(*                                                                         *)
(* The EVM calls an address: execute says which precompile runs, if any,  *)
(* and is_precompile says whether the address is treated as one.          *)
(***************************************************************************)
EXTENDS Naturals

CONSTANTS
  Addresses,  \* the low u64 values of the addresses called
  None

VARIABLES
  called,     \* the address of the last call
  outcome     \* what the precompile set said about it

vars == <<called, outcome>>

\* used_addresses: vec![1, 2, 3, 4, 5, 1024, 1025] mapped through hash.
UsedAddresses == {1, 2, 3, 4, 5, 1024, 1025}

\* PrecompileSet::execute: the arm of the match that the address selects.
Execute(a) ==
  CASE a = 1 -> "ECRecover"
    [] a = 2 -> "Sha256"
    [] a = 3 -> "Ripemd160"
    [] a = 5 -> "Modexp"
    [] a = 4 -> "Identity"
    [] a = 6 -> "Bn128Add"
    [] a = 7 -> "Bn128Mul"
    [] a = 8 -> "Bn128Pairing"
    [] a = 9 -> "Blake2F"
    [] a = 1024 -> "Sha3FIPS256"
    [] a = 1026 -> "ECRecoverPublicKey"
    [] OTHER -> None

\* PrecompileSet::is_precompile: used_addresses().contains(&address).
IsPrecompile(a) == a \in UsedAddresses

\* A call to address a consults both.
Call(a) ==
  /\ called' = a
  /\ outcome' = [precompile |-> IsPrecompile(a), runs |-> Execute(a)]

Init ==
  /\ called = None
  /\ outcome = [precompile |-> FALSE, runs |-> None]

Next == \E a \in Addresses : Call(a)

Spec == Init /\ [][Next]_vars

-----------------------------------------------------------------------------
\* An address is reported as a precompile by is_precompile exactly when
\* execute runs a precompile for it: the two views of FrontierPrecompiles
\* agree on every address.
PrecompileViewsAgree == outcome.precompile <=> outcome.runs # None
=============================================================================
