------------------------- MODULE AbstractSessionWindow ------------------------
(***************************************************************************)
(* What the approval-voting session window promises its readers, with no   *)
(* offsets, draining or partial loads: a map from session index to that    *)
(* session's info, covering the ApprovalSessions sessions that end at the  *)
(* newest session any head has reported since the subsystem started.       *)
(* Heads from the same or an older session leave it as it is.             *)
(***************************************************************************)
EXTENDS Naturals

CONSTANTS ApprovalSessions, Sessions

VARIABLE cache   \* session index -> SessionInfo (abstracted to its index)

Newest == IF DOMAIN cache = {} THEN 0 ELSE CHOOSE x \in DOMAIN cache : \A y \in DOMAIN cache : y <= x

Covering(s) == [x \in (IF s >= ApprovalSessions THEN s - (ApprovalSessions - 1) ELSE 0)..s |-> x]

\* A head governed by session s: the window ends at s unless it already
\* reaches at least s.
Observe(s) ==
  \/ /\ DOMAIN cache = {} \/ s > Newest
     /\ cache' = Covering(s)
  \/ /\ DOMAIN cache # {}
     /\ s <= Newest
     /\ UNCHANGED cache

\* The subsystem restarts with nothing cached.
Forget == cache' = [x \in {} |-> x]

Init == cache = [x \in {} |-> x]

Next == (\E s \in Sessions : Observe(s)) \/ Forget

Spec == Init /\ [][Next]_cache
=============================================================================
