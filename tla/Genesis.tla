-------------------------------- MODULE Genesis --------------------------------
(***************************************************************************)
(* Genesis construction of the Indracore chain specs                       *)
(* (src/node/service/src/chain_spec.rs), and the checks the pallets' own   *)
(* genesis builds make of it when the chain spec is turned into storage.   *)
(*                                                                         *)
(* Only the parts those checks read are kept: the balances list, the       *)
(* stakers with their bond, and the accounts given session keys.  The     *)
(* other pallets' configs are defaults or empty.  An account is its seed   *)
(* and whether it is the seed's //stash derivation.  Balances keep only    *)
(* their order: Endowment stands for 2^32 SELS and Stash for 100 SELS.     *)
(***************************************************************************)
EXTENDS Naturals, Sequences, FiniteSets

CONSTANTS
  TestnetSeeds,   \* <<"Alice", ..., "Ferdie">>, the seeds of testnet_accounts
  Endowment,      \* endownment
  Stash,          \* STASH
  None

ASSUME Stash < Endowment

Account(seed, isStash) == [seed |-> seed, stash |-> isStash]

\* get_authority_keys_from_seed: the stash is seed//stash, the controller
\* and every session key come from seed itself.
AuthorityKeys(seed) == [stash |-> Account(seed, TRUE), controller |-> Account(seed, FALSE)]

\* testnet_accounts: every seed, then every seed's stash.
TestnetAccounts ==
  [i \in 1..Len(TestnetSeeds) |-> Account(TestnetSeeds[i], FALSE)]
    \o [i \in 1..Len(TestnetSeeds) |-> Account(TestnetSeeds[i], TRUE)]

\* The parts of a GenesisConfig built from initial_authorities (a sequence
\* of seeds): stakers bond Stash from the stash to the controller, and the
\* stash is the validator of the session keys.
Stakers(auths) ==
  [i \in DOMAIN auths |-> [stash |-> AuthorityKeys(auths[i]).stash,
                           controller |-> AuthorityKeys(auths[i]).controller,
                           bond |-> Stash]]
SessionKeys(auths) == [i \in DOMAIN auths |-> AuthorityKeys(auths[i]).stash]

\* indracore_staging_testnet_config_genesis: both lists empty; each endowed
\* account gets the endowment and each authority's stash gets STASH.
StagingGenesis(endowed, auths) ==
  [balances |-> [i \in DOMAIN endowed |-> <<endowed[i], Endowment>>]
                  \o [i \in DOMAIN auths |-> <<AuthorityKeys(auths[i]).stash, Stash>>],
   stakers |-> Stakers(auths),
   keys |-> SessionKeys(auths)]

\* indracore_testnet_genesis: endowed_accounts defaults to
\* testnet_accounts; only endowed accounts get a balance.
TestnetGenesis(auths, endowed) ==
  LET e == IF endowed = None THEN TestnetAccounts ELSE endowed
  IN [balances |-> [i \in DOMAIN e |-> <<e[i], Endowment>>],
      stakers |-> Stakers(auths),
      keys |-> SessionKeys(auths)]

\* indracore_development_config_genesis: Alice alone.
DevelopmentGenesis == TestnetGenesis(<<"Alice">>, None)

\* indracore_local_testnet_genesis: Alice and Bob.
LocalTestnetGenesis == TestnetGenesis(<<"Alice", "Bob">>, None)

\* The chain specs the node builds from code, by chain id.
ChainSpecs ==
  [indracore_staging_testnet |-> StagingGenesis(<<>>, <<>>),
   dev |-> DevelopmentGenesis,
   local_testnet |-> LocalTestnetGenesis]

VARIABLES
  chain,    \* the chain spec asked for
  genesis   \* the GenesisConfig its builder returns

vars == <<chain, genesis>>

Init ==
  /\ chain \in DOMAIN ChainSpecs
  /\ genesis = ChainSpecs[chain]

Next == UNCHANGED vars

Spec == Init /\ [][Next]_vars

-----------------------------------------------------------------------------
\* The free balance an account starts with.
FreeAt(g, a) ==
  LET idx == {i \in DOMAIN g.balances : g.balances[i][1] = a}
  IN IF idx = {} THEN 0 ELSE g.balances[CHOOSE i \in idx : TRUE][2]

\* A chain spec the node ships builds its genesis storage: pallet_balances
\* finds no account twice, pallet_staking finds every stash able to bond
\* its stake, and pallet_session finds a non-empty validator set for
\* session 0 with no validator given keys twice.  A failed check is a
\* panic when the chain spec is built or the node started.
GenesisBuildable ==
  /\ \A i, j \in DOMAIN genesis.balances :
       i # j => genesis.balances[i][1] # genesis.balances[j][1]
  /\ \A i \in DOMAIN genesis.stakers :
       FreeAt(genesis, genesis.stakers[i].stash) >= genesis.stakers[i].bond
  /\ genesis.keys # <<>>
  /\ Cardinality({genesis.keys[i] : i \in DOMAIN genesis.keys}) = Len(genesis.keys)
=============================================================================
