# TLA+ models of selendra-chain

This directory holds TLA+ models of the stateful parts of the selendra-chain node and runtime.
It also holds the TLC configurations that check those models.
`PROJECT.json` lists:

- the components;
- the runs;
- the mutants that show each property can fail;
- the map from every definition to the source lines it models;
- the findings;
- the hazards.

## 1. Inventory of the system

| Component | Source | State | Operations | Status |
|---|---|---|---|---|
| ChainWalker | `node/core/approval-voting/src/import.rs` `determine_new_blocks` (93–197) | the ancestry accumulator and the batch being examined | early exits for a known or finalized head; Ancestors request; header batch fetch; scan the batch for the first known or finalized block | modelled |
| SessionWindow | `import.rs` `RollingSessionWindow` (61–82) | `earliest_session`, `session_info` | `session_info(i)`, `latest_session()` | modelled |
| SessionCacheUpdater | `import.rs` `cache_session_info_for_head`, `load_all_sessions` (199–354) | the window | first load; cached or ancient (no-op); roll (drain and extend); SessionsUnavailable (no write) | modelled |
| BlockInfoExtractor | `import.rs` `imported_block_info` (373–539) | none (it reads the window) | session from the parent state; ancient check; window lookup; BABE epoch; VRF; assignments | partly: control flow modelled, data abstracted |
| ImportCoordinator | `import.rs` `handle_new_head` (547–701) | the approval DB and the window | header fetch; cache update; walk; import in the code's order; `add_block_entry` and its error return; NewBlocks | modelled |
| DMP | `runtime/parachains/src/dmp.rs` | per-para queue, MQC head, outgoing paras | queue; check processed; prune; schedule and perform cleanup | modelled |
| Candidate validation | `node/core/candidate-validation/src/lib.rs` | none (request/response) | assumption search; from-chain-state path; exhaustive path; basic checks | modelled |
| Cumulus collator | `cumulus/client/collator/src/lib.rs` | none (reads block status and storage) | block-status gate; build_collation; produce_candidate | partly: the `wait_to_announce` registration is left out |
| MergeAccountEvm | `runtime/selendra/src/constants.rs` (94–114) | free and reserved balances | `merge_account` (transactional unreserve + transfer) | modelled |
| FrontierPrecompiles | `constants.rs` (147–214) | none | `used_addresses`, `is_precompile`, `execute` | modelled |
| Fee constants | `constants.rs` (17–91, tests 136–143) | none | `WeightToFee::polynomial`, `calc` | partly (`Fees.tla`) |
| Chain spec genesis | `node/service/src/chain_spec.rs` | none (pure builders) | staging, testnet, development and local-testnet genesis | partly (`Genesis.tla`) |
| Other constants, weights, chain spec, client wrapper, CLI, build script, perf tooling, EVM support traits | the remaining files | none of their own | configuration and wiring | not modelled (see PROJECT.json) |

How the parts interact:

1. A new head reaches `handle_new_head`.
2. `handle_new_head` updates the window through `cache_session_info_for_head`, using the head's session.
3. `handle_new_head` calls the ChainWalker to find the head's new ancestors. The ChainWalker stops at a block already in the approval DB, at the finalized height, or at height ≤ 1.
4. For each new block, `imported_block_info` looks up the block's session in the window.
5. `handle_new_head` writes a `BlockEntry` and registers the block as a child of its parent's entry.

A restart loses the in-memory window and keeps the DB.

## 2. Modules and how they match the code

**`RollingSessionWindow.tla`** models the window and `cache_session_info_for_head`.

- Variables: `earliest` and `sessionInfo` are the struct fields. `requested` is the list of SessionInfo requests made by the last load.
- A `SessionInfo` is abstracted to the index of the session it describes. A stale or shifted entry is therefore an element that differs from its index.
- Actions: `FirstLoad`, `CachedOrAncient` and `Roll` are the three branches of the code. `DrainOutOfRange` is the condition under which `drain(..overlap_start)` (or the u32 subtraction before it) panics.
- A `load_all_sessions` that fails returns before any write. That step is a stutter.

**`AbstractSessionWindow.tla`** states what the window promises: a map from session index to info that covers the `APPROVAL_SESSIONS` sessions ending at the newest session seen. The detailed window is shown to implement it through `INSTANCE AbstractSessionWindow WITH cache <- ...`, checked as the property `WindowRefinesAbstract`.

**`ApprovalImport.tla`** composes the window (as `W == INSTANCE RollingSessionWindow`) with `handle_new_head`, `determine_new_blocks` and the approval DB.

- The block tree is a set of constants: `Parent`, `Number`, and `SessionForChild` (the runtime's `SessionIndexForChild` at a block's state).
- `phase` tracks where the handler is: idle, walk, ancestors, import, or panicked.
- The walk is split into two steps, `WalkRequestAncestors` and then `WalkBatchReceived` or `WalkBatchFailed`, because the code awaits the answer to each request.
- `NewHead` covers:
  - the header fetch;
  - the cache update;
  - the cold-start `finalized_number` default (`head.number - 1`);
  - the three starts of the walk.
- `ImportBlock` is the body of the import loop. Its control flow matches `imported_block_info`'s early returns. The block order in `todo` is the code's `.rev()` order.
- `WriteBlockEntry` is `approval_db::v1::add_block_entry`. That code is not in `src/`, so it is modelled from the spec.
- `SkipBlock` is any of `imported_block_info`'s data-dependent `None` results: a collaborator error, no VRF, or missing session info.
- `ImportBlockDBError` is the `?` after `add_block_entry` (line 658). The write fails, and `handle_new_head` returns with the loop unfinished. The blocks written earlier in the pass stay in the DB, and no NewBlocks message is sent for them.
- `BlockFinalized` and `Restart` are the subsystem's other inputs.

- `WriteBlockEntry` is the block-entry part of `add_block_entry`: the entry is written and registered as a child of its parent's entry. The candidate entries it also writes are left out, because no property reads them.
- `DetermineNewBlocksStart` is the part of `determine_new_blocks` before its loop: the three ways a walk starts.

**`Dmp.tla`** models `dmp.rs`.

- Variables: `queues`, `heads` and `outgoing` are the storage items. `now` is the block number. `paraHead` is the MQC head of what the para has processed.
- Hashes are abstracted injectively: an MQC link is the tuple `<<prev, sent_at, msg>>`.
- Actions: `QueueDownwardMessage` (size check, head advance, push); `EnactCandidate` (the inclusion module's `check_processed_downward_messages` followed by `prune_dmq`); `ScheduleParaCleanup`; and `NewSession`, which runs `initializer_on_new_session` and so the outgoing cleanup.

**`AbstractDmq.tla`** states what DMP promises each para: an in-order channel. `log` is what was sent since the last reset, and `received` is the prefix the para has processed. The para processes at least one message whenever any is pending. Only scheduled paras are reset at a session change. `Dmp.tla` implements it through `Abs == INSTANCE AbstractDmq WITH ...`: `log` and `received` are the messages the runtime's and the para's MQC heads commit to (`Unroll` reads a hash chain back). The mapping is checked as the property `DmpRefinesAbstract`.

**`CandidateValidation.tla`** models the subsystem's run loop.

- One request is handled at a time. Every `.await` is a step: `PvdAnswered`, `CodeAnswered`, `Executed`, `OutputsAnswered`.
- The relay-parent state and the executor's answer of a request are an oracle. They are chosen when the request is received.
- `SubsystemFails` is a `?` on any await.

**`Collator.tla`** models `produce_candidate` futures, one per relay parent, interleaved with each other.

- Steps: decode of the parent head, `check_block_status`, the consensus, and `build_collation`. The `wait_to_announce` call that follows is paired with every returned collation, so it is left out.
- A storage item is absent, fails to decode, or decodes to a small value.

**`MergeAccount.tla`** models `merge_account`. The unreserve and the transfer are one transactional step, and `Balances::transfer` may fail. `Reserve` stands for the rest of the runtime.

**`Fees.tla`** models the currency units and `WeightToFee::polynomial` / `calc`, with the Balance unit per MILLICENTS and `ExtrinsicBaseWeight` as constants. The relations are linear in both, so a smaller instance keeps the runtime's ratios.

**`Genesis.tla`** models the genesis builders of `chain_spec.rs`. It keeps the parts of `GenesisConfig` that the pallets' genesis builds check: the balances list, the stakers and their bond, and the accounts given session keys. An account is a seed plus whether it is the seed's `//stash`. `GenesisBuildable` states what those builds assert:

- no account in the balances list twice (`pallet_balances`);
- every stash able to bond its stake (`pallet_staking`);
- a non-empty session-0 validator set with no duplicates (`pallet_session`).

**`Precompiles.tla`** models `used_addresses`, `is_precompile` and `execute` as pure operators over a set of addresses.

## 3. Runs

| Run | cfg | Expect | What it shows |
|---|---|---|---|
| window | `MCRollingSessionWindow.cfg` | pass | Heads from sessions 0..14 arrive in any order, with restarts. The window refines `AbstractSessionWindow` (no stale or shifted info is ever served). Every update fetches exactly the sessions it lacked, in ascending order (`FetchOnlyMissing`). |
| import | `MCApprovalImport.cfg` | pass | Heads from the forked chain arrive in any order, with finality, skips, failed writes and restarts. The walk gathers only fresh consecutive ancestors above finality (`WalkIsFreshChain`). A block is pushed to the approval meta only in the step that writes its entry fresh (`NoBlockAnnouncedTwice`). So after a NewBlocks message, a restart or a failed write, no block reaches approval distribution a second time. |
| drain_panic | `MCApprovalImport_DrainPanic.cfg` | violation | `NoDrainPanic`: the window [0] is followed by a head from session 4 with `APPROVAL_SESSIONS = 2`, and `drain` goes past the end. |
| import_order | `MCApprovalImport_Order.cfg` | violation | `NewBlocksOldestFirst`: new blocks are imported and announced newest first. |
| walk_livelock | `MCApprovalImport_Livelock.cfg` | violation | `WalkTerminates`: with block 4 finalized and head a5 arriving, the walk stops at a4 and then requests the same batch from a5 forever. Restarts are not fair, so a behaviour without them is allowed, and a restart counts as leaving the walk: the lasso is the request/answer cycle of line 188 alone. |
| dmp | `MCDmp.cfg` | pass | The runtime's MQC head is always the para's processed head extended by exactly the pending queue (`MqcHeadCommitsQueue`). `OutgoingParas` stays sorted and unique. DMP refines `AbstractDmq` (`DmpRefinesAbstract`). |
| validation | `MCCandidateValidation.cfg` | pass | A `Valid` verdict implies every check of its path passed (`ValidImpliesChecked`). `BadParent` implies that every assumption mismatched. Under `LiveSpec`, every request taken is answered unless the loop fails (`ReceivedRequestAnswered`). |
| merge | `MCMergeAccount.cfg` | pass | A successful merge between two accounts leaves the source empty and credits the destination with all of its funds. |
| collator | `MCCollator.cfg` | pass | No collation is built from a state with a decode failure or a bad parent (`CollationOnlyFromCompleteState`). A missing watermark defaults to the relay-parent number (`TypeOKCollator`). |
| fee_base | `MCFees_BaseFee.cfg` | violation | `ExtrinsicBaseFeeIsCorrect`: the base weight costs 10 MILLICENTS, not the 100 the unit test expects. |
| genesis_staging | `MCGenesis_Buildable.cfg` | violation | `GenesisBuildable`: of the specs built from code (staging, dev, local testnet), the staging one has no authorities, so session 0 has no validators. |
| precompile_views | `MCPrecompiles_ViewsAgree.cfg` | violation | `PrecompileViewsAgree`: `is_precompile` and `execute` disagree at addresses 6–9 and 1026. |

### Bounds

- Window model:
  - Sessions 0..14 with `APPROVAL_SESSIONS = 6` (the upstream value). This is enough for first loads near zero (saturating window start), rolls by 1..5 sessions (overlap) and jumps.
  - Jumps greater than one window are excluded by `DrainOutOfRange`, so the refinement is checked on the non-panicking paths.
- Import model:
  - A chain `g ← a1 ← … ← a6` with a fork `b4` on `a3`.
  - `ANCESTRY_STEP = 4` (the code's constant), so a walk from `a6` takes more than one batch.
  - `APPROVAL_SESSIONS = 2`, so ancestors can fall out of the window (the ancient case).
  - The sessions per block change at a2, a4, a5 and b4, so the parent-state rule makes a difference at session boundaries.

- DMP: two paras and three messages, one of them oversized, so the size check fires. Three blocks and chains of at most three links allow prune counts of 0..3, including over-pruning.
- Candidate validation: two requests, one of each kind, received in either order. The worlds cover every pvd answer under both assumptions and four executor outcomes, one for each arm of the mapping.
- Collator: two relay parents, so the futures interleave. Their numbers are 1 and 2. A stored watermark ranges over 0 up to its relay parent's number. That range is an input restriction of the model, not something the code enforces, so `TypeOKCollator`'s bound on the watermark checks only the default for a missing one. A processed count is absent, undecodable or 0. It is only copied, so larger values tell nothing apart.
- Merge: three accounts with balances up to 2, under account symmetry.

The candidate-validation and collator runs switch deadlock checking off. The subsystem stops in `concluded` or `failed`, and every future ends, so those are real final states.

### Fairness

`LiveSpec` adds weak fairness on the walk's request step and on its answer.

- The chain-API subsystem always answers eventually, or drops the channel, which is `WalkBatchFailed`.
- The handler runs these steps without waiting on anything else.
- No fairness is assumed for new heads, finality or restarts.

`CandidateValidation`'s `LiveSpec` adds weak fairness on each await: the runtime-API answers, the spawned validation, and the outputs check. The runtime API subsystem answers or drops its sender (a `SubsystemFails` step), and the executor is bounded by its execution timeout. No fairness is assumed for overseer messages.

The collator has no liveness property. Its futures are four steps with no loop, so they end whenever each step is taken, and the only await that could block is the consensus, which would have to be assumed to complete.

## 4. Findings

See `PROJECT.json` for sources.

1. **Walk livelock** (`import.rs:188`). The unlabeled `break` leaves only the inner `for`. The outer `loop` then requests the same ancestors forever, whenever the walk stops at a known or finalized block above height 1. This includes every cold start whose head's parent is not in the DB. TLC's trace has block 4 finalized and head a5.
2. **Newest-first import** (`import.rs:609`). The list is reversed twice, so a child is written before its parent. The parent's entry then never lists the child.
3. **Drain panic** (`import.rs:345`). `overlap_start` can exceed `session_info.len()`. This is the spec's own example, window [50,52] followed by session 100.
4. **Precompile views disagree** (`constants.rs:170`). `used_addresses` lists 1–5, 1024 and 1025. `execute` serves 1–9, 1024 and 1026. So `is_precompile` is false for addresses that `execute` runs, and true for 1025, which `execute` does not serve.
5. **Base fee a tenth of the tested value** (`constants.rs:75`). `polynomial()` uses `p = 100 * MILLICENTS` against `q = 10 * ExtrinsicBaseWeight`, so `calc(ExtrinsicBaseWeight)` is 10 MILLICENTS. The test `extrinsic_base_fee_is_correct` asserts 100 MILLICENTS ± 1.
6. **Staging genesis has no authorities** (`chain_spec.rs:80`). `indracore_staging_testnet_config_genesis` passes empty `initial_authorities`. `pallet_session`'s genesis build asserts a non-empty validator set for session 0, so this chain spec cannot be built. Even without that assertion, no block could be authored.

The unit tests that would show findings 1 and 3 never reach their assertions. `futures::future::select` finishes as soon as the mock side has sent its answers.

## 5. Further work

Done: the window, the import, DMP and its refinement of `AbstractDmq`, candidate validation with liveness, the collator, merge_account, the precompile set, the fee polynomial and the genesis builders.

Left:

1. The `BlockInfoExtractor` data paths. Modelled one by one, its early returns would only restate `SkipBlock`'s guard: each is a collaborator answer or a window lookup the model already has. They gain a property only once BABE epochs are part of the model.
2. The full-block fee test, which needs `MAXIMUM_BLOCK_WEIGHT` beyond TLC's 32-bit integers unless it is scaled.
3. A composition of the collator's `processed` count with `Dmp`'s `EnactCandidate`. It needs the parachain runtime that writes `PROCESSED_DOWNWARD_MESSAGES`, which is not in `src/`.

## 6. Not modelled

- `indracore_config` reads a JSON chain spec from `res/`, and the other pallets' genesis configs are constant defaults.
- The EVM support traits (`evm-module/support`) are interfaces whose `()` implementations return an error or do nothing. `client.rs` dispatches one call to one client type. Neither holds state a property could tell apart.
- The weight tables are generated linear formulas.

- The candidate entries `add_block_entry` writes, their deletion on finality, and the approval DB's encoding are in `approval_db`, outside `src/`. No property reads them, so they are left out.
- After a failed `add_block_entry` or a restart in the middle of the import loop, some written blocks have not been announced. Whether approval distribution hears of them later depends on the approval-voting subsystem's `lib.rs`, which handles the error and the startup. That file is outside `src/`, so no property claims that every written block is eventually announced.
- A message to a para that never enacts a candidate stays queued. `dmp.rs:139` documents this as accepted dangling storage, so no property asks otherwise.
- A `merge_account` whose source and destination are the same account releases its reserve. The caller (`pallet_evm_accounts`) is outside `src/`, and nothing states which outcome is intended.

- Wasm execution, BABE/VRF cryptography, SCALE encoding and hashing are oracles or abstracted to model values.
- Configuration files, the CLI, the build script and the test tooling (`gen_ref_constants.rs`) have no state to check.
