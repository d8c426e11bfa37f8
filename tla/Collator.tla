------------------------------- MODULE Collator --------------------------------
(***************************************************************************)
(* The Cumulus collator (src/cumulus/client/collator/src/lib.rs): one      *)
(* produce_candidate future per relay parent the collation-generation      *)
(* subsystem asks about, interleaved with each other.  Each passes the     *)
(* same gates in order: decode the parent head, check its block status,    *)
(* await the parachain consensus, read the built block's state and decode  *)
(* its storage in build_collation, register the block with                 *)
(* wait_to_announce, and return the collation.  The announcement itself  *)
(* is left out: it is paired with every collation returned.               *)
(*                                                                         *)
(* The block backend, the consensus and the runtime's storage writes are   *)
(* oracles: each answer is chosen when the future reaches it.  A decoded   *)
(* storage item is abstracted to whether it is absent, fails to decode, or *)
(* decodes to a small value.                                               *)
(***************************************************************************)
EXTENDS Naturals

CONSTANTS
  RelayParents,     \* the relay parents produce_candidate is called for
  RelayParentNumber,\* [RelayParents -> Nat]: validation_data.relay_parent_number
  MaxProcessed,     \* the largest processed-downward-messages count stored
  None

\* BlockStatus of the parent, or Err from block_status.
BlockStatuses == {"Queued", "InChainWithState", "InChainPruned", "KnownBad", "Unknown", "Err"}

\* A storage item read in build_collation: absent, failing to decode, or
\* decoding to the value v (for a message vector, 1 stands for non-empty).
Item(values) ==
  {[k |-> "absent", v |-> 0], [k |-> "bad", v |-> 0]} \cup {[k |-> "ok", v |-> x] : x \in values}

\* What the freshly built block's state holds.
States(rp) ==
  [available : BOOLEAN,                         \* backend.state_at is Ok
   upward : Item({1}),                          \* UPWARD_MESSAGES
   newCode : BOOLEAN,                           \* NEW_VALIDATION_CODE is set (not decoded)
   processed : Item(0..MaxProcessed),           \* PROCESSED_DOWNWARD_MESSAGES
   horizontal : Item({1}),                      \* HRMP_OUTBOUND_MESSAGES
   watermark : Item(0..RelayParentNumber[rp])]  \* HRMP_WATERMARK

VARIABLES
  stage,      \* relay parent -> where its produce_candidate future is
  gate,       \* relay parent -> the block status check_block_status saw
  built,      \* relay parent -> the state of the block the consensus built
  result      \* relay parent -> the Collation returned, or None

vars == <<stage, gate, built, result>>

Stages == {"decode", "status", "consensus", "build", "done", "none"}

\* check_block_status: only a parent in the chain with its state is good.
CheckBlockStatus(s) == s = "InChainWithState"

\* The value of an item that may be absent: the default when absent.
Decoded(item, default) == IF item.k = "absent" THEN default ELSE item.v

\* Some item of the block's state fails to decode.
DecodeFails(st) == \E it \in {st.upward, st.processed, st.horizontal, st.watermark} : it.k = "bad"

\* Mutant: a PROCESSED_DOWNWARD_MESSAGES that fails to decode counts as 0.
BuildCollationProcessedOrZero(rp, st) ==
  IF ~st.available \/ \E it \in {st.upward, st.horizontal, st.watermark} : it.k = "bad"
    THEN None
    ELSE [upward |-> Decoded(st.upward, 0), newCode |-> st.newCode,
          processed |-> IF st.processed.k = "bad" THEN 0 ELSE Decoded(st.processed, 0),
          horizontal |-> Decoded(st.horizontal, 0),
          watermark |-> Decoded(st.watermark, RelayParentNumber[rp])]

\* Mutant: a missing watermark is moved one past the relay-parent number.
BuildCollationWatermarkPastParent(rp, st) ==
  IF ~st.available \/ DecodeFails(st)
    THEN None
    ELSE [upward |-> Decoded(st.upward, 0), newCode |-> st.newCode,
          processed |-> Decoded(st.processed, 0),
          horizontal |-> Decoded(st.horizontal, 0),
          watermark |-> Decoded(st.watermark, RelayParentNumber[rp] + 1)]

\* build_collation: None when the state is unavailable or any item fails to
\* decode; absent message vectors are empty, an absent processed count is
\* 0, and a missing HRMP_WATERMARK moves the watermark to the relay-parent
\* number.
BuildCollation(rp, st) ==
  IF ~st.available \/ DecodeFails(st)
    THEN None
    ELSE [upward |-> Decoded(st.upward, 0), newCode |-> st.newCode,
          processed |-> Decoded(st.processed, 0),
          horizontal |-> Decoded(st.horizontal, 0),
          watermark |-> Decoded(st.watermark, RelayParentNumber[rp])]

-----------------------------------------------------------------------------
(* The steps of produce_candidate for relay parent rp.                     *)

\* Block::Header::decode of validation_data.parent_head.
DecodeParentHead(rp) ==
  /\ stage[rp] = "decode"
  /\ \E ok \in BOOLEAN : stage' = [stage EXCEPT ![rp] = IF ok THEN "status" ELSE "none"]
  /\ UNCHANGED <<gate, built, result>>

\* check_block_status of the parent; any other status returns None.
CheckParentStatus(rp) ==
  /\ stage[rp] = "status"
  /\ \E s \in BlockStatuses :
       /\ gate' = [gate EXCEPT ![rp] = s]
       /\ stage' = [stage EXCEPT ![rp] = IF CheckBlockStatus(s) THEN "consensus" ELSE "none"]
  /\ UNCHANGED <<built, result>>

\* parachain_consensus.produce_candidate(..).await?: None ends the future.
ProduceBlock(rp) ==
  /\ stage[rp] = "consensus"
  /\ \/ /\ stage' = [stage EXCEPT ![rp] = "none"]
        /\ UNCHANGED built
     \/ \E st \in States(rp) :
          /\ built' = [built EXCEPT ![rp] = st]
          /\ stage' = [stage EXCEPT ![rp] = "build"]
  /\ UNCHANGED <<gate, result>>

\* build_collation(..)?, then wait_to_announce under the lock, then
\* Some(CollationResult).
FinishCollation(rp) ==
  /\ stage[rp] = "build"
  /\ LET c == BuildCollation(rp, built[rp])
     IN /\ stage' = [stage EXCEPT ![rp] = IF c = None THEN "none" ELSE "done"]
        /\ result' = [result EXCEPT ![rp] = c]
  /\ UNCHANGED <<gate, built>>

Init ==
  /\ stage = [rp \in RelayParents |-> "decode"]
  /\ gate = [rp \in RelayParents |-> None]
  /\ built = [rp \in RelayParents |-> None]
  /\ result = [rp \in RelayParents |-> None]

Next ==
  \E rp \in RelayParents :
    \/ DecodeParentHead(rp)
    \/ CheckParentStatus(rp)
    \/ ProduceBlock(rp)
    \/ FinishCollation(rp)

Spec == Init /\ [][Next]_vars

-----------------------------------------------------------------------------
Collations(rp) ==
  [upward : {0, 1}, newCode : BOOLEAN, processed : 0..MaxProcessed,
   horizontal : {0, 1}, watermark : 0..RelayParentNumber[rp]]

\* The collation types; a watermark never lies past the relay parent it was
\* built for.
TypeOKCollator ==
  /\ stage \in [RelayParents -> Stages]
  /\ gate \in [RelayParents -> BlockStatuses \cup {None}]
  /\ \A rp \in RelayParents : result[rp] \in Collations(rp) \cup {None}

\* A collation is returned only for a parent that check_block_status found
\* in the chain with its state, and only from a built block whose state
\* was available and whose every storage item was absent or decoded: no
\* decode failure is turned into a default value.
CollationOnlyFromCompleteState ==
  \A rp \in RelayParents :
    result[rp] # None =>
      /\ gate[rp] = "InChainWithState"
      /\ built[rp].available
      /\ \A it \in {built[rp].upward, built[rp].processed,
                    built[rp].horizontal, built[rp].watermark} : it.k # "bad"
=============================================================================
