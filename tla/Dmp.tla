---------------------------------- MODULE Dmp ----------------------------------
(***************************************************************************)
(* Downward message passing of the relay-chain runtime                     *)
(* (src/runtime/parachains/src/dmp.rs): one message queue per para, the    *)
(* head of its message queue chain (MQC), and the list of outgoing paras   *)
(* cleaned up at the next session change.                                  *)
(*                                                                         *)
(* A hash is abstracted by the value it hashes: the MQC link               *)
(* BlakeTwo256::hash_of(&(head, sent_at, H(msg))) is the tuple             *)
(* <<head, sent_at, msg>>, and the zero hash is ZeroHash.  The abstraction *)
(* is injective, as the code assumes of the hash.                          *)
(*                                                                         *)
(* The para side is represented by paraHead, the MQC head of the messages  *)
(* the para has processed: a candidate that processes n messages extends   *)
(* it by the first n pending messages (the parachain validation function   *)
(* checks this).  The caller in the inclusion module checks                *)
(* check_processed_downward_messages and then calls prune_dmq.             *)
(***************************************************************************)
EXTENDS Naturals, Sequences, SequencesExt

CONSTANTS
  Paras,                  \* ParaId values (u32), ordered as integers
  Msgs,                   \* downward message payloads
  MsgLen,                 \* [Msgs -> Nat]: msg.len()
  MaxDownwardMessageSize, \* config.max_downward_message_size
  ZeroHash,               \* Hash::default(), the head of an empty chain
  MaxBlock,               \* bound on the relay-chain block number
  MaxChain                \* bound on the links of one MQC

ASSUME Paras \subseteq Nat
ASSUME MsgLen \in [Msgs -> Nat]

VARIABLES
  queues,    \* DownwardMessageQueues: para -> Vec<InboundDownwardMessage>
  heads,     \* DownwardMessageQueueHeads: para -> Hash
  outgoing,  \* OutgoingParas: Vec<ParaId>, sorted ascending
  now,       \* frame_system block_number
  paraHead   \* the para's MQC head of the messages it has processed

vars == <<queues, heads, outgoing, now, paraHead>>

InboundDownwardMessage == [msg : Msgs, sent_at : 1..MaxBlock]

\* One link of the MQC: hash_of(&(prev_head, B, H(M))).
MqcLink(head, inbound) == <<head, inbound.sent_at, inbound.msg>>

\* The head reached by appending the messages of q to the chain at head.
ExtendChain(head, q) == FoldLeft(MqcLink, head, q)

RECURSIVE ChainLength(_)
ChainLength(h) == IF h = ZeroHash THEN 0 ELSE 1 + ChainLength(h[1])

\* dmq_length: 0 for a para with no queue.
DmqLength(para) == Len(queues[para])

\* check_processed_downward_messages: Ok iff neither the advancement rule
\* nor the underflow check rejects n.
CheckProcessedDownwardMessages(para, n) ==
  /\ ~(DmqLength(para) > 0 /\ n = 0)
  /\ ~(DmqLength(para) < n)

\* Mutant: split_off one past the processed count.
PruneDmqOffByOne(para, n) ==
  queues' = [queues EXCEPT ![para] =
               IF n > Len(@) THEN <<>> ELSE SubSeq(@, n + 2, Len(@))]

\* prune_dmq: drop the first n messages, or all of them if there are fewer.
PruneDmq(para, n) ==
  queues' = [queues EXCEPT ![para] =
               IF n > Len(@) THEN <<>> ELSE SubSeq(@, n + 1, Len(@))]

\* Mutant: the size check is dropped.
QueueDownwardMessageUnchecked(para, m) ==
  /\ ChainLength(heads[para]) < MaxChain
  /\ LET inbound == [msg |-> m, sent_at |-> now]
     IN /\ heads' = [heads EXCEPT ![para] = MqcLink(@, inbound)]
        /\ queues' = [queues EXCEPT ![para] = Append(@, inbound)]
  /\ UNCHANGED <<outgoing, now, paraHead>>

\* queue_downward_message: an oversized message returns
\* ExceedsMaxMessageSize and changes nothing; otherwise the MQC head is
\* advanced and the message pushed.  Any para may be the recipient.
QueueDownwardMessage(para, m) ==
  /\ MsgLen[m] <= MaxDownwardMessageSize
  /\ ChainLength(heads[para]) < MaxChain
  /\ LET inbound == [msg |-> m, sent_at |-> now]
     IN /\ heads' = [heads EXCEPT ![para] = MqcLink(@, inbound)]
        /\ queues' = [queues EXCEPT ![para] = Append(@, inbound)]
  /\ UNCHANGED <<outgoing, now, paraHead>>

\* The inclusion module accepts a candidate of para that processed n
\* messages only if the check passes, and then prunes them; the para's
\* processed head has advanced over exactly those messages.
EnactCandidate(para, n) ==
  /\ CheckProcessedDownwardMessages(para, n)
  /\ PruneDmq(para, n)
  /\ paraHead' = [paraHead EXCEPT ![para] = ExtendChain(@, SubSeq(queues[para], 1, n))]
  /\ UNCHANGED <<heads, outgoing, now>>

\* Mutant: the offboarded para's queue is left in storage.
PerformOutgoingParaCleanupKeepsQueue ==
  LET gone == {outgoing[i] : i \in DOMAIN outgoing}
  IN /\ heads' = [p \in Paras |-> IF p \in gone THEN ZeroHash ELSE heads[p]]
     /\ paraHead' = [p \in Paras |-> IF p \in gone THEN ZeroHash ELSE paraHead[p]]
     /\ outgoing' = <<>>
     /\ UNCHANGED queues

\* Mutant: the para is appended without the binary search.
ScheduleParaCleanupAppend(id) ==
  /\ outgoing' = Append(outgoing, id)
  /\ UNCHANGED <<queues, heads, now, paraHead>>

\* schedule_para_cleanup: insert id at the position binary_search reports
\* unless it is already present.
ScheduleParaCleanup(id) ==
  /\ outgoing' =
       IF \E i \in DOMAIN outgoing : outgoing[i] = id
         THEN outgoing
         ELSE InsertAt(outgoing, Cardinality({i \in DOMAIN outgoing : outgoing[i] < id}) + 1, id)
  /\ UNCHANGED <<queues, heads, now, paraHead>>

\* clean_dmp_after_outgoing for every para of OutgoingParas::take(); the
\* offboarded para's own state goes with it.
PerformOutgoingParaCleanup ==
  LET gone == {outgoing[i] : i \in DOMAIN outgoing}
  IN /\ queues' = [p \in Paras |-> IF p \in gone THEN <<>> ELSE queues[p]]
     /\ heads' = [p \in Paras |-> IF p \in gone THEN ZeroHash ELSE heads[p]]
     /\ paraHead' = [p \in Paras |-> IF p \in gone THEN ZeroHash ELSE paraHead[p]]
     /\ outgoing' = <<>>

\* A new relay-chain block; initializer_initialize and initializer_finalize
\* do nothing, and a session change runs initializer_on_new_session.
NewBlock ==
  /\ now < MaxBlock
  /\ now' = now + 1
  /\ UNCHANGED <<queues, heads, outgoing, paraHead>>

NewSession ==
  /\ now < MaxBlock
  /\ now' = now + 1
  /\ PerformOutgoingParaCleanup

Init ==
  /\ queues = [p \in Paras |-> <<>>]
  /\ heads = [p \in Paras |-> ZeroHash]
  /\ outgoing = <<>>
  /\ now = 1
  /\ paraHead = [p \in Paras |-> ZeroHash]

Next ==
  \/ \E p \in Paras, m \in Msgs : QueueDownwardMessage(p, m)
  \/ \E p \in Paras, n \in 0..MaxChain : EnactCandidate(p, n)
  \/ \E p \in Paras : ScheduleParaCleanup(p)
  \/ NewBlock
  \/ NewSession

Spec == Init /\ [][Next]_vars

-----------------------------------------------------------------------------
TypeOKDmp ==
  /\ queues \in [Paras -> Seq({im \in InboundDownwardMessage : MsgLen[im.msg] <= MaxDownwardMessageSize})]
  /\ outgoing \in Seq(Paras)
  /\ now \in 1..MaxBlock
  /\ \A p \in Paras : ChainLength(heads[p]) <= MaxChain

\* The MQC head the runtime keeps for a para is the para's own processed
\* head extended by exactly the pending queue, in order: the messages
\* prune_dmq removed are the ones the para processed, none is lost, and
\* the queue and the head chain of queue_downward_message never drift
\* apart across enactments and session-change cleanups.
MqcHeadCommitsQueue ==
  \A p \in Paras : ExtendChain(paraHead[p], queues[p]) = heads[p]

\* OutgoingParas stays sorted ascending with no duplicate, whatever order
\* schedule_para_cleanup is called in.
OutgoingSortedUnique ==
  \A i \in 1..(Len(outgoing) - 1) : outgoing[i] < outgoing[i + 1]

\* The messages an MQC head commits to, oldest first: the hash chain read
\* back link by link.
RECURSIVE Unroll(_)
Unroll(h) ==
  IF h = ZeroHash THEN <<>> ELSE Append(Unroll(h[1]), [msg |-> h[3], sent_at |-> h[2]])

Abs == INSTANCE AbstractDmq
         WITH log <- [p \in Paras |-> Unroll(heads[p])],
              received <- [p \in Paras |-> Unroll(paraHead[p])],
              scheduled <- {outgoing[i] : i \in DOMAIN outgoing}

\* DMP implements an in-order channel per para: what the runtime's MQC
\* head commits to is everything sent since the last cleanup, what the
\* para's head commits to is a prefix of it extended by the oldest pending
\* messages, at least one while any is pending, and only paras scheduled
\* by schedule_para_cleanup lose their channel at a session change.
DmpRefinesAbstract == Abs!ASpec
=============================================================================
