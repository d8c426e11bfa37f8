---------------------------- MODULE ApprovalImport ----------------------------
(***************************************************************************)
(* Block-import handling of the approval-voting subsystem                  *)
(* (src/node/core/approval-voting/src/import.rs): handle_new_head, which   *)
(* updates the rolling session window (RollingSessionWindow), walks the    *)
(* ancestry of the new head (determine_new_blocks), extracts the info of   *)
(* every new block (imported_block_info) and writes its BlockEntry to the  *)
(* approval DB, then sends the batch of BlockApprovalMeta downstream.      *)
(*                                                                         *)
(* One head is handled at a time, to completion.  The awaits that matter   *)
(* are separate steps: the Ancestors request of each walk iteration and    *)
(* its answer (with the header batch), and each iteration of the import    *)
(* loop.  Header fetch and the session-cache update have no write before   *)
(* their last await, so they are one step.  The node may stop at any step  *)
(* (Restart): the DB survives, the in-memory State does not.              *)
(***************************************************************************)
EXTENDS Naturals, Sequences, SequencesExt

CONSTANTS
  Blocks,           \* the block tree known to the chain API
  Genesis,          \* its root
  Parent,           \* Parent[b]: header.parent_hash (Parent[Genesis] = Genesis)
  Number,           \* Number[b]: header.number
  SessionForChild,  \* SessionForChild[b]: SessionIndexForChild in b's state
  AncestryStep,     \* ANCESTRY_STEP of determine_new_blocks
  ApprovalSessions, \* APPROVAL_SESSIONS
  Sessions,         \* session indices
  None              \* Option::None

ASSUME Genesis \in Blocks /\ Number[Genesis] = 0 /\ Parent[Genesis] = Genesis
ASSUME \A b \in Blocks \ {Genesis} : Number[b] = Number[Parent[b]] + 1
ASSUME \A b \in Blocks : SessionForChild[Parent[b]] <= SessionForChild[b]
ASSUME AncestryStep \in Nat \ {0}

VARIABLES
  earliest, sessionInfo, requested,  \* State::session_window
  finalizedNumber,  \* the last finalized height known to the subsystem, or None
  phase,            \* where handle_new_head is
  fin,              \* the finalized_number handle_new_head uses for this head
  ancestry,         \* determine_new_blocks' accumulator, head first
  todo,             \* blocks the import loop has still to visit, in visiting order
  meta,             \* approval_meta gathered so far (block hashes, in push order)
  db                \* approval DB: block hash -> BlockEntry

W == INSTANCE RollingSessionWindow

windowVars == <<earliest, sessionInfo, requested>>
handleVars == <<phase, fin, ancestry, todo, meta>>
dbVars == <<db>>
vars == <<windowVars, finalizedNumber, handleVars, dbVars>>

Phases == {"idle", "walk", "ancestors", "import", "panicked"}

Numbers == {Number[b] : b \in Blocks}

\* The fields the model tells apart: the session, the SessionInfo used,
\* and the children of the block.
BlockEntry == [session : Sessions, info : Sessions, children : SUBSET Blocks]

(***************************************************************************)
(* Collaborators.                                                          *)
(***************************************************************************)

\* ChainApiMessage::Ancestors: up to k ancestors of b, parent first, ending
\* at genesis.
RECURSIVE Ancestors(_, _)
Ancestors(b, k) ==
  IF k = 0 \/ b = Genesis THEN <<>> ELSE <<Parent[b]>> \o Ancestors(Parent[b], k - 1)

\* The session index governing block b: SessionIndexForChild asked at its
\* parent's state.  cache_session_info_for_head asks at the head's own state
\* when the head is genesis.
HeadSession(h) == SessionForChild[IF Number[h] = 0 THEN h ELSE Parent[h]]
BlockSession(b) == SessionForChild[Parent[b]]

(***************************************************************************)
(* determine_new_blocks                                                    *)
(***************************************************************************)

\* The inner loop over one batch: append hashes up to the first that is
\* already in the DB or at or below the finalized number.  Its `break`
\* leaves only this `for`, not the outer `loop`.
\* Mutant: the inner loop stops only at the finalized number.
NewInBatchIgnoresDB(hashes) ==
  LET stop == SelectInSeq(hashes, LAMBDA x : Number[x] <= fin)
  IN IF stop = 0 THEN hashes ELSE SubSeq(hashes, 1, stop - 1)

NewInBatch(hashes) ==
  LET stop == SelectInSeq(hashes, LAMBDA x : x \in DOMAIN db \/ Number[x] <= fin)
  IN IF stop = 0 THEN hashes ELSE SubSeq(hashes, 1, stop - 1)

\* The loop has ended: the accumulator is reversed (oldest first), and
\* handle_new_head iterates that list with .rev().
EndWalk ==
  LET newBlocks == Reverse(ancestry)
  IN /\ phase' = "import"
     /\ todo' = Reverse(newBlocks)
     /\ ancestry' = <<>>

\* The last block reached is at height 1 or below: leave the loop.
WalkReachedGenesis ==
  /\ phase = "walk"
  /\ Number[Last(ancestry)] <= 1
  /\ EndWalk
  /\ UNCHANGED <<windowVars, finalizedNumber, fin, meta, dbVars>>

\* Send ChainApiMessage::Ancestors for the last block reached.
WalkRequestAncestors ==
  /\ phase = "walk"
  /\ Number[Last(ancestry)] > 1
  /\ phase' = "ancestors"
  /\ UNCHANGED <<windowVars, finalizedNumber, fin, ancestry, todo, meta, dbVars>>

\* The Ancestors request, or one BlockHeader request of the batch, fails:
\* break with what has been gathered.
WalkBatchFailed ==
  /\ phase = "ancestors"
  /\ EndWalk
  /\ UNCHANGED <<windowVars, finalizedNumber, fin, meta, dbVars>>

\* All answers arrive: append the new prefix of the batch and loop again.
WalkBatchReceived ==
  /\ phase = "ancestors"
  /\ ancestry' = ancestry \o NewInBatch(Ancestors(Last(ancestry), AncestryStep))
  /\ phase' = "walk"
  /\ UNCHANGED <<windowVars, finalizedNumber, fin, todo, meta, dbVars>>

(***************************************************************************)
(* handle_new_head                                                         *)
(***************************************************************************)

\* determine_new_blocks up to its loop: nothing to import when the head is
\* known or at or below the finalized height, the head alone when its
\* parent is known, and otherwise the walk starts from the head.
DetermineNewBlocksStart(h, f) ==
  CASE h \in DOMAIN db \/ Number[h] <= f ->
         phase' = "import" /\ todo' = <<>> /\ ancestry' = <<>>
    [] Parent[h] \in DOMAIN db ->
         phase' = "import" /\ todo' = <<h>> /\ ancestry' = <<>>
    [] OTHER ->
         phase' = "walk" /\ todo' = <<>> /\ ancestry' = <<h>>

\* Header fetched, session window updated for the head's session, and
\* determine_new_blocks started with the finalized number, which defaults
\* to head.number - 1 before any finality is known.  When the window
\* cannot be loaded (SessionsUnavailable, or an error answer) the call
\* returns before any write: that outcome is a stuttering step.
NewHead(h) ==
  LET s == HeadSession(h)
      f == IF finalizedNumber = None THEN W!SatSub(Number[h], 1) ELSE finalizedNumber
  IN /\ phase = "idle"
     /\ \/ /\ W!CacheSessionInfoForHead(s)
           /\ fin' = f
           /\ DetermineNewBlocksStart(h, f)
        \/ /\ W!DrainOutOfRange(s)
           /\ phase' = "panicked"
           /\ UNCHANGED <<windowVars, fin, ancestry, todo>>
     /\ UNCHANGED <<finalizedNumber, meta, dbVars>>

\* approval_db::v1::add_block_entry, as far as the block entry goes: the
\* entry is written, and registered as a child of its parent's entry if
\* the parent has one.  Its candidate entries are left out: no property
\* reads them.
WriteBlockEntry(b, entry) ==
  db' = [x \in DOMAIN db \cup {b} |->
           IF x = b THEN entry
           ELSE IF x = Parent[b] THEN [db[x] EXCEPT !.children = @ \cup {b}]
           ELSE db[x]]

\* imported_block_info returns None: a runtime API request fails, the
\* header has no BABE VRF pre-digest, or the randomness cannot be computed.
\* The block is skipped.
SkipBlock ==
  /\ phase = "import"
  /\ todo # <<>>
  /\ todo' = Tail(todo)
  /\ UNCHANGED <<windowVars, finalizedNumber, phase, fin, ancestry, meta, dbVars>>

\* Mutant: the ancient-session and session_info checks are dropped.
ImportBlockUnchecked ==
  /\ phase = "import"
  /\ todo # <<>>
  /\ LET b == Head(todo)
         s == BlockSession(b)
     IN /\ WriteBlockEntry(b, [session |-> s, info |-> W!SessionInfoAt(s), children |-> {}])
        /\ meta' = Append(meta, b)
  /\ todo' = Tail(todo)
  /\ UNCHANGED <<windowVars, finalizedNumber, phase, fin, ancestry>>

\* imported_block_info succeeds: the block's session is not before the
\* window and its SessionInfo is cached.  The entry is written, the meta
\* pushed, and block_tick / no_show_duration read the same SessionInfo.
ImportBlock ==
  /\ phase = "import"
  /\ todo # <<>>
  /\ LET b == Head(todo)
         s == BlockSession(b)
     IN /\ earliest # None
        /\ s >= earliest
        /\ W!SessionInfoAt(s) # None
        /\ WriteBlockEntry(b, [session |-> s, info |-> W!SessionInfoAt(s), children |-> {}])
        /\ meta' = Append(meta, b)
  /\ todo' = Tail(todo)
  /\ UNCHANGED <<windowVars, finalizedNumber, phase, fin, ancestry>>

\* add_block_entry fails (its `?`): handle_new_head returns the error with
\* the loop unfinished.  The failed block's write is not committed, the
\* blocks written before it stay in the DB, and the NewBlocks message for
\* them is never sent.
ImportBlockDBError ==
  /\ phase = "import"
  /\ todo # <<>>
  /\ LET s == BlockSession(Head(todo))
     IN earliest # None /\ s >= earliest /\ W!SessionInfoAt(s) # None
  /\ phase' = "idle"
  /\ todo' = <<>>
  /\ meta' = <<>>
  /\ fin' = 0
  /\ UNCHANGED <<windowVars, finalizedNumber, ancestry, dbVars>>

\* Every new block visited: send ApprovalDistributionMessage::NewBlocks
\* with the approval meta gathered.
FinishHead ==
  /\ phase = "import"
  /\ todo = <<>>
  /\ phase' = "idle"
  /\ meta' = <<>>
  /\ fin' = 0
  /\ UNCHANGED <<windowVars, finalizedNumber, ancestry, todo, dbVars>>

(***************************************************************************)
(* The subsystem around handle_new_head                                    *)
(***************************************************************************)

\* A finality notification between two heads raises the finalized height.
BlockFinalized(n) ==
  /\ phase = "idle"
  /\ IF finalizedNumber = None THEN TRUE ELSE n > finalizedNumber
  /\ finalizedNumber' = n
  /\ UNCHANGED <<windowVars, handleVars, dbVars>>

\* The node stops at any point and starts again with a fresh State: an
\* empty session window and no finality seen.  The approval DB persists.
Restart ==
  /\ W!ResetWindow
  /\ finalizedNumber' = None
  /\ phase' = "idle"
  /\ fin' = 0
  /\ ancestry' = <<>>
  /\ todo' = <<>>
  /\ meta' = <<>>
  /\ UNCHANGED dbVars

Init ==
  /\ W!InitWindow
  /\ finalizedNumber = None
  /\ phase = "idle"
  /\ fin = 0
  /\ ancestry = <<>>
  /\ todo = <<>>
  /\ meta = <<>>
  /\ db = [x \in {} |-> x]

Next ==
  \/ \E h \in Blocks : NewHead(h)
  \/ WalkReachedGenesis
  \/ WalkRequestAncestors
  \/ WalkBatchFailed
  \/ WalkBatchReceived
  \/ SkipBlock
  \/ ImportBlock
  \/ ImportBlockDBError
  \/ FinishHead
  \/ \E n \in Numbers : BlockFinalized(n)
  \/ Restart

Spec == Init /\ [][Next]_vars

\* The chain API answers every request, and the single subsystem task keeps
\* running the walk while it has a step to take.
LiveSpec ==
  /\ Spec
  /\ WF_vars(WalkRequestAncestors \/ WalkReachedGenesis)
  /\ WF_vars(WalkBatchFailed \/ WalkBatchReceived)

-----------------------------------------------------------------------------
RECURSIVE AncestorSet(_)
AncestorSet(b) == IF b = Genesis THEN {} ELSE {Parent[b]} \cup AncestorSet(Parent[b])

TypeOK ==
  /\ W!TypeOKWindow
  /\ finalizedNumber \in Numbers \cup {None}
  /\ phase \in Phases
  /\ fin \in Nat
  /\ ancestry \in Seq(Blocks)
  /\ todo \in Seq(Blocks)
  /\ meta \in Seq(Blocks)
  /\ DOMAIN db \subseteq Blocks
  /\ \A b \in DOMAIN db : db[b] \in BlockEntry

\* While determine_new_blocks walks, its accumulator is the head followed
\* by consecutive ancestors, none already in the DB and all above the
\* finalized number: the walk never skips a block, repeats one, or picks
\* up a block the DB already tracks.
WalkIsFreshChain ==
  phase \in {"walk", "ancestors"} =>
    /\ \A i \in 1..(Len(ancestry) - 1) : ancestry[i + 1] = Parent[ancestry[i]]
    /\ \A i \in DOMAIN ancestry : ancestry[i] \notin DOMAIN db /\ Number[ancestry[i]] > fin

\* The spec: new blocks are processed oldest first, so the approval meta
\* (and the DB writes) never list a block after one of its descendants.
NewBlocksOldestFirst ==
  \A i, j \in DOMAIN meta : i < j => meta[j] \notin AncestorSet(meta[i])

\* Approval distribution is never told of a block twice: a block is pushed
\* to the approval meta only in the step that writes its entry fresh.
\* Entries are never dropped, so a block a NewBlocks carried, or one whose
\* write landed before a restart or a failed write, is never imported and
\* announced again; it rests on the walk stopping at blocks in the DB.
NoBlockAnnouncedTwice ==
  [][Len(meta') = Len(meta) + 1 => Last(meta') \notin DOMAIN db]_vars

\* cache_session_info_for_head never panics while moving the window.
NoDrainPanic == phase # "panicked"

\* Every ancestry walk ends: once determine_new_blocks has started its
\* loop, the handler eventually leaves it, by returning the ancestry to the
\* import loop or by the node stopping.  A restart also counts as leaving,
\* so only the loop itself can keep the handler in the walk.
WalkTerminates ==
  phase \in {"walk", "ancestors"} ~> phase \notin {"walk", "ancestors"}
=============================================================================
