------------------------------- MODULE MCGenesis -------------------------------
(* The six testnet seeds, and balances kept only in their order.           *)
EXTENDS Genesis

MCTestnetSeeds == <<"Alice", "Bob", "Charlie", "Dave", "Eve", "Ferdie">>
=============================================================================
