------------------------- MODULE RollingSessionWindow -------------------------
(***************************************************************************)
(* The rolling window of session info kept by the approval-voting          *)
(* subsystem (src/node/core/approval-voting/src/import.rs):                *)
(* RollingSessionWindow, its lookups session_info / latest_session, and    *)
(* cache_session_info_for_head with its helper load_all_sessions.          *)
(*                                                                         *)
(* A SessionInfo is abstracted to the index of the session it describes:   *)
(* the runtime answers SessionInfo(i) with the info of session i, so an    *)
(* element of sessionInfo that differs from its session index is exactly   *)
(* a stale or misplaced entry.                                             *)
(***************************************************************************)
EXTENDS Naturals, Sequences, FiniteSets

CONSTANTS
  ApprovalSessions, \* APPROVAL_SESSIONS: the number of sessions kept
  Sessions,         \* the session indices a head can report
  None              \* model value standing for Option::None

ASSUME ApprovalSessions \in Nat \ {0}
ASSUME Sessions \subseteq Nat /\ Sessions # {}
ASSUME None \notin Nat

VARIABLES
  earliest,     \* earliest_session: Option<SessionIndex>
  sessionInfo,  \* session_info: Vec<SessionInfo>, element i is for session earliest + i - 1
  requested     \* the session indices of the SessionInfo requests of the last load, in order

windowVars == <<earliest, sessionInfo, requested>>

\* u32::saturating_sub
SatSub(a, b) == IF a > b THEN a - b ELSE 0

\* RollingSessionWindow::session_info: None before earliest or past the end.
SessionInfoAt(index) ==
  IF earliest = None \/ index < earliest \/ index - earliest + 1 > Len(sessionInfo)
    THEN None
    ELSE sessionInfo[index - earliest + 1]

\* RollingSessionWindow::latest_session (only used when earliest is Some).
LatestSession == earliest + SatSub(Len(sessionInfo), 1)

\* The sessions the window holds an entry for.
CachedSessions ==
  IF earliest = None THEN {} ELSE {earliest + i - 1 : i \in DOMAIN sessionInfo}

\* window_start = session_index.saturating_sub(APPROVAL_SESSIONS - 1)
WindowStart(s) == SatSub(s, ApprovalSessions - 1)

\* Mutant: the request loop starts one session late.
LoadAllSessionsShifted(start, endInclusive) ==
  [i \in 1..(endInclusive - start + 1) |-> start + i]

\* load_all_sessions on its success path: one request per session start..=end,
\* answered with that session's info.  A None answer makes the caller return
\* SessionsUnavailable before any write, which leaves every variable as it was.
LoadAllSessions(start, endInclusive) ==
  [i \in 1..(endInclusive - start + 1) |-> start + i - 1]

\* overlap_start = window_start - old_window_start (u32 subtraction).
OverlapStart(s) == WindowStart(s) - earliest

\* Mutant: every move reloads the whole new window.
FreshStartWholeWindow(s) == WindowStart(s)

\* fresh_start: the first session to request when the window moves.
FreshStart(s) == IF LatestSession < WindowStart(s) THEN WindowStart(s) ELSE LatestSession + 1

\* The roll of a non-empty window to session s panics: the u32 subtraction
\* overlap_start underflows, or drain(..overlap_start) runs past the end.
DrainOutOfRange(s) ==
  /\ earliest # None
  /\ s > LatestSession
  /\ \/ OverlapStart(s) < 0
     \/ OverlapStart(s) > Len(sessionInfo)

(***************************************************************************)
(* cache_session_info_for_head, once the head's session index s is known.  *)
(* The three successful outcomes are the three branches of the code.       *)
(***************************************************************************)

\* First block processed on start-up: load the whole window.
FirstLoad(s) ==
  /\ earliest = None
  /\ earliest' = WindowStart(s)
  /\ sessionInfo' = LoadAllSessions(WindowStart(s), s)
  /\ requested' = LoadAllSessions(WindowStart(s), s)

\* Either cached or ancient: return Ok without touching the window.
CachedOrAncient(s) ==
  /\ earliest # None
  /\ s <= LatestSession
  /\ UNCHANGED windowVars

\* Mutant: the roll drains and extends but keeps the old earliest_session.
RollKeepsEarliest(s) ==
  /\ earliest # None
  /\ s > LatestSession
  /\ ~DrainOutOfRange(s)
  /\ sessionInfo' = SubSeq(sessionInfo, OverlapStart(s) + 1, Len(sessionInfo))
                      \o LoadAllSessions(FreshStart(s), s)
  /\ earliest' = earliest
  /\ requested' = LoadAllSessions(FreshStart(s), s)

\* Move the window: fetch fresh_start..=s, drain the outdated prefix, extend.
Roll(s) ==
  /\ earliest # None
  /\ s > LatestSession
  /\ ~DrainOutOfRange(s)
  /\ sessionInfo' = SubSeq(sessionInfo, OverlapStart(s) + 1, Len(sessionInfo))
                      \o LoadAllSessions(FreshStart(s), s)
  /\ earliest' = WindowStart(s)
  /\ requested' = LoadAllSessions(FreshStart(s), s)

CacheSessionInfoForHead(s) == FirstLoad(s) \/ CachedOrAncient(s) \/ Roll(s)

\* A new subsystem State starts with RollingSessionWindow::default().
ResetWindow ==
  /\ earliest' = None
  /\ sessionInfo' = <<>>
  /\ UNCHANGED requested

InitWindow ==
  /\ earliest = None
  /\ sessionInfo = <<>>
  /\ requested = <<>>

NextWindow == (\E s \in Sessions : CacheSessionInfoForHead(s)) \/ ResetWindow

SpecWindow == InitWindow /\ [][NextWindow]_windowVars

-----------------------------------------------------------------------------
TypeOKWindow ==
  /\ earliest \in Sessions \cup {None}
  /\ sessionInfo \in Seq(Sessions)
  /\ requested \in Seq(Sessions)

\* What the window promises (AbstractSessionWindow): it holds exactly the
\* ApprovalSessions sessions ending at the newest one seen, each with its
\* own info.  This is the claim that the drain/extend offset arithmetic of
\* the roll never serves a stale or shifted SessionInfo.
AbstractWindow == INSTANCE AbstractSessionWindow
  WITH cache <- [x \in CachedSessions |-> SessionInfoAt(x)]

WindowRefinesAbstract == AbstractWindow!Spec

\* When an update changes the window, the SessionInfo requests it sent are
\* exactly the sessions that were not cached before, in ascending order:
\* a roll never re-fetches what it keeps (spec: "only the missing sessions
\* are fetched").
FetchOnlyMissing ==
  [][ (CachedSessions' # CachedSessions /\ earliest' # None)
        => /\ {requested'[i] : i \in DOMAIN requested'} = CachedSessions' \ CachedSessions
           /\ \A i \in 1..(Len(requested') - 1) : requested'[i] < requested'[i + 1]
    ]_windowVars
=============================================================================
