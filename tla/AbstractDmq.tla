------------------------------ MODULE AbstractDmq ------------------------------
(***************************************************************************)
(* What downward message passing promises each para: an in-order channel. *)
(* log[p] is every message queued for p since its channel was last reset,  *)
(* with the block it was sent at; received[p] the prefix of it p has       *)
(* processed.  A para processes the oldest pending messages, at least one  *)
(* whenever any is pending, and a channel is reset only at the session     *)
(* change after its para was scheduled for cleanup.                        *)
(***************************************************************************)
EXTENDS Naturals, Sequences

CONSTANTS Paras, Msgs, MsgLen, MaxDownwardMessageSize, MaxBlock

VARIABLES
  log,        \* para -> the messages sent to it, oldest first
  received,   \* para -> the prefix of log[p] the para has processed
  scheduled,  \* paras whose channel is reset at the next session change
  now         \* the block number

avars == <<log, received, scheduled, now>>

AInit ==
  /\ log = [p \in Paras |-> <<>>]
  /\ received = [p \in Paras |-> <<>>]
  /\ scheduled = {}
  /\ now = 1

\* A message within the size limit is appended to the para's channel.
Send(p, m) ==
  /\ MsgLen[m] <= MaxDownwardMessageSize
  /\ log' = [log EXCEPT ![p] = Append(@, [msg |-> m, sent_at |-> now])]
  /\ UNCHANGED <<received, scheduled, now>>

\* The para takes the n oldest pending messages, n >= 1 when any is pending.
Process(p, n) ==
  LET k == Len(received[p])
  IN /\ n \in 0..(Len(log[p]) - k)
     /\ k < Len(log[p]) => n >= 1
     /\ received' = [received EXCEPT ![p] = @ \o SubSeq(log[p], k + 1, k + n)]
     /\ UNCHANGED <<log, scheduled, now>>

Schedule(p) ==
  /\ scheduled' = scheduled \cup {p}
  /\ UNCHANGED <<log, received, now>>

Tick ==
  /\ now < MaxBlock
  /\ now' = now + 1
  /\ UNCHANGED <<log, received, scheduled>>

\* The session change resets exactly the scheduled paras' channels.
SessionChange ==
  /\ now < MaxBlock
  /\ now' = now + 1
  /\ log' = [p \in Paras |-> IF p \in scheduled THEN <<>> ELSE log[p]]
  /\ received' = [p \in Paras |-> IF p \in scheduled THEN <<>> ELSE received[p]]
  /\ scheduled' = {}

ANext ==
  \/ \E p \in Paras, m \in Msgs : Send(p, m)
  \/ \E p \in Paras : \E n \in 0..Len(log[p]) : Process(p, n)
  \/ \E p \in Paras : Schedule(p)
  \/ Tick
  \/ SessionChange

ASpec == AInit /\ [][ANext]_avars
=============================================================================
