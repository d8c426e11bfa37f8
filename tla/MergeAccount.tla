----------------------------- MODULE MergeAccount -----------------------------
(***************************************************************************)
(* MergeAccountEvm::merge_account (src/runtime/selendra/src/constants.rs): *)
(* the source account's whole reserve is unreserved, then its whole free   *)
(* balance is transferred to the destination, inside #[transactional], so  *)
(* an Err from the transfer rolls the unreserve back.                      *)
(*                                                                         *)
(* Balances::transfer belongs to pallet_balances; whether it fails (locks, *)
(* the existential deposit, a reference-counted account) is not decided    *)
(* here, so every call may fail.                                           *)
(***************************************************************************)
EXTENDS Naturals

CONSTANTS
  Accounts,    \* AccountId values
  MaxBalance   \* the largest initial free or reserved balance of an account

VARIABLES
  free,        \* Balances::free_balance
  reserved,    \* Balances::reserved_balance
  lastMerge    \* the last call: source, dest and whether it returned Ok

vars == <<free, reserved, lastMerge>>

NoMerge == [source |-> "none", dest |-> "none", ok |-> FALSE]

\* ReservableCurrency::unreserve of the whole reserve: reserved moves to free.
Unreserve(b, who) ==
  [acct \in {"free", "reserved"} |->
     IF acct = "free" THEN [b.free EXCEPT ![who] = @ + b.reserved[who]]
     ELSE [b.reserved EXCEPT ![who] = 0]]

\* Balances::transfer of amount from source to dest when it succeeds.
Transfer(fr, source, dest, amount) ==
  [fr EXCEPT ![source] = @ - amount, ![dest] = @ + amount]

\* Mutant: the amount is the free balance read before the unreserve.
MergeAccountStaleAmount(source, dest, transferOk) ==
  LET u == Unreserve([free |-> free, reserved |-> reserved], source)
  IN /\ reserved' = IF transferOk THEN u["reserved"] ELSE reserved
     /\ free' = IF transferOk THEN Transfer(u["free"], source, dest, free[source])
                ELSE free
     /\ lastMerge' = [source |-> source, dest |-> dest, ok |-> transferOk]

\* Mutant: the reserve is counted twice, once unreserved and once again in
\* the amount transferred.
MergeAccountDoubleCount(source, dest, transferOk) ==
  LET u == Unreserve([free |-> free, reserved |-> reserved], source)
  IN /\ reserved' = IF transferOk THEN u["reserved"] ELSE reserved
     /\ free' = IF transferOk
                THEN Transfer(u["free"], source, dest, u["free"][source] + reserved[source])
                ELSE free
     /\ lastMerge' = [source |-> source, dest |-> dest, ok |-> transferOk]

\* merge_account: unreserve everything, transfer everything now free; an
\* Err from the transfer is returned and the transaction rolled back.
MergeAccount(source, dest, transferOk) ==
  LET u == Unreserve([free |-> free, reserved |-> reserved], source)
  IN /\ reserved' = IF transferOk THEN u["reserved"] ELSE reserved
     /\ free' = IF transferOk THEN Transfer(u["free"], source, dest, u["free"][source])
                ELSE free
     /\ lastMerge' = [source |-> source, dest |-> dest, ok |-> transferOk]

\* Other runtime calls move funds between free and reserved.
Reserve(who, amount) ==
  /\ amount <= free[who]
  /\ free' = [free EXCEPT ![who] = @ - amount]
  /\ reserved' = [reserved EXCEPT ![who] = @ + amount]
  /\ lastMerge' = NoMerge

Init ==
  /\ free \in [Accounts -> 0..MaxBalance]
  /\ reserved \in [Accounts -> 0..MaxBalance]
  /\ lastMerge = NoMerge

Next ==
  \/ \E s, d \in Accounts, ok \in BOOLEAN : MergeAccount(s, d, ok)
  \/ \E w \in Accounts, a \in 1..MaxBalance : Reserve(w, a)

Spec == Init /\ [][Next]_vars

-----------------------------------------------------------------------------
TypeOKMerge ==
  /\ free \in [Accounts -> Nat]
  /\ reserved \in [Accounts -> Nat]

Total(who) == free[who] + reserved[who]

\* A merge that returns Ok between two accounts leaves the source with no
\* funds, free or reserved, and credits the destination with all of them.
MergeMovesEverything ==
  [][LET s == lastMerge'.source
         d == lastMerge'.dest
     IN lastMerge'.ok /\ s # d =>
          /\ free'[s] + reserved'[s] = 0
          /\ free'[d] + reserved'[d] = Total(d) + Total(s)]_vars
=============================================================================
