--------------------------- MODULE CandidateValidation ---------------------------
(***************************************************************************)
(* The candidate-validation subsystem                                      *)
(* (src/node/core/candidate-validation/src/lib.rs).  The run loop takes    *)
(* one message at a time and awaits each runtime API request and the       *)
(* spawned validation before it takes the next; every await is a step.     *)
(*                                                                         *)
(* The relay-parent state a request is validated against is fixed when the *)
(* request is made and chosen in Init over every combination: the runtime  *)
(* API answers per OccupiedCoreAssumption, the faults perform_basic_checks *)
(* looks for, the outcome of the wasm executor and the answer to           *)
(* CheckValidationOutputs.  The executor and the runtime are oracles.      *)
(***************************************************************************)
EXTENDS Naturals, Sequences, FiniteSets

CONSTANTS
  Requests,  \* the requests sent to the subsystem
  Kind,      \* [Requests -> {"chain", "exhaustive"}]
  WasmChoices, \* the executor outcomes a world may have
  None

\* ASSUMPTIONS: Included is tried before TimedOut.
Assumptions == <<"Included", "TimedOut">>

\* PersistedValidationData(para, assumption): Ok(None) or Err is "none";
\* otherwise its hash matches the descriptor's or not.
PvdAnswers == {"match", "mismatch", "none"}

\* The outcomes of wasm_executor::validate_candidate, one per arm of the match.
WasmOutcomes == {"Ok", "Timeout", "ParamsTooLarge", "CodeTooLarge", "BadReturn",
                 "WasmExecutor", "ExternalWasmExecutor", "Internal"}

\* What the relay parent and the candidate are like for one request.
Worlds ==
  [pvd : [{"Included", "TimedOut"} -> PvdAnswers],
   code : [{"Included", "TimedOut"} -> BOOLEAN],   \* ValidationCode is Some
   tooLarge : BOOLEAN, hashMismatch : BOOLEAN, badSignature : BOOLEAN,
   wasm : WasmChoices,
   outputs : {"true", "false", "err"}]

\* A request of kind k: ValidateFromExhaustive carries its own validation
\* data and code, so only the checks and the executor vary.
WorldsFor(k) ==
  IF k = "chain" THEN Worlds
  ELSE {w \in Worlds : /\ \A a \in DOMAIN w.pvd : w.pvd[a] = "match" /\ w.code[a]
                       /\ w.outputs = "true"}

\* ValidationResult::Valid, ::Invalid(reason) by reason, or Err(ValidationFailed).
Results == {"Valid", "BadParent", "InvalidOutputs", "ParamsTooLarge", "HashMismatch",
            "BadSignature", "Timeout", "CodeTooLarge", "BadReturn", "ExecutionError",
            "ValidationFailed"}

VARIABLES
  world,    \* request -> its relay-parent state, fixed when it is received
  inbox,    \* messages not yet received from the overseer
  pc,       \* where the run loop is
  cur,      \* the request being handled
  ai,       \* index into Assumptions of the assumption being checked
  answers   \* request -> the result sent on its response channel, or None

vars == <<world, inbox, pc, cur, ai, answers>>

Answer(r, res) ==
  /\ answers' = [answers EXCEPT ![r] = res]
  /\ pc' = "idle"
  /\ cur' = None

\* perform_basic_checks: the size, the PoV hash and the collator signature,
\* in that order; "Ok" when all pass.
PerformBasicChecks(w) ==
  IF w.tooLarge THEN "ParamsTooLarge"
  ELSE IF w.hashMismatch THEN "HashMismatch"
  ELSE IF w.badSignature THEN "BadSignature"
  ELSE "Ok"

\* The mapping of the executor's outcome to a result in
\* validate_candidate_exhaustive.
WasmResult(o) ==
  CASE o = "Ok" -> "Valid"
    [] o \in {"WasmExecutor", "ExternalWasmExecutor"} -> "ExecutionError"
    [] o = "Internal" -> "ValidationFailed"
    [] OTHER -> o

\* validate_candidate_exhaustive: the basic checks, then the executor.
ValidateCandidateExhaustive(w) ==
  IF PerformBasicChecks(w) # "Ok" THEN PerformBasicChecks(w) ELSE WasmResult(w.wasm)

-----------------------------------------------------------------------------
(* The run loop.                                                           *)

\* Mutant: the assumption index carries over from the previous request and
\* is advanced past the last assumption.
ReceiveKeepsAssumption ==
  /\ pc = "idle"
  /\ inbox # <<>>
  /\ cur' = Head(inbox)
  /\ inbox' = Tail(inbox)
  /\ \E w \in WorldsFor(Kind[Head(inbox)]) : world' = [world EXCEPT ![Head(inbox)] = w]
  /\ pc' = IF Kind[Head(inbox)] = "chain" THEN "pvd" ELSE "exec"
  /\ ai' = ai + 1
  /\ UNCHANGED answers

\* ctx.recv(): a ValidateFromChainState starts the assumption search, a
\* ValidateFromExhaustive goes straight to the spawned validation.
Receive ==
  /\ pc = "idle"
  /\ inbox # <<>>
  /\ cur' = Head(inbox)
  /\ inbox' = Tail(inbox)
  /\ \E w \in WorldsFor(Kind[Head(inbox)]) : world' = [world EXCEPT ![Head(inbox)] = w]
  /\ pc' = IF Kind[Head(inbox)] = "chain" THEN "pvd" ELSE "exec"
  /\ ai' = 1
  /\ UNCHANGED answers

\* OverseerSignal::Conclude: the loop returns Ok(()).
Conclude ==
  /\ pc = "idle"
  /\ pc' = "concluded"
  /\ UNCHANGED <<world, inbox, cur, ai, answers>>

\* Mutant: only the Included assumption is tried.
PvdAnsweredIncludedOnly ==
  /\ pc = "pvd"
  /\ LET a == Assumptions[ai]
         d == world[cur].pvd[a]
     IN CASE d = "none" -> Answer(cur, "ValidationFailed") /\ UNCHANGED ai
          [] d = "match" -> pc' = "code" /\ UNCHANGED <<cur, ai, answers>>
          [] OTHER -> Answer(cur, "BadParent") /\ UNCHANGED ai
  /\ UNCHANGED <<world, inbox>>

\* Mutant: a DoesNotMatch retries the same assumption instead of the next.
PvdAnsweredRetriesSame ==
  /\ pc = "pvd"
  /\ LET a == Assumptions[ai]
         d == world[cur].pvd[a]
     IN CASE d = "none" -> Answer(cur, "ValidationFailed") /\ UNCHANGED ai
          [] d = "match" -> pc' = "code" /\ UNCHANGED <<cur, ai, answers>>
          [] ai < Len(Assumptions) -> UNCHANGED <<pc, cur, ai, answers>>
          [] OTHER -> Answer(cur, "BadParent") /\ UNCHANGED ai
  /\ UNCHANGED <<world, inbox>>

\* check_assumption_validation_data, first await, inside the loop of
\* find_assumed_validation_data: BadRequest returns at once, DoesNotMatch
\* tries the next assumption and, after the last, gives BadParent.
PvdAnswered ==
  /\ pc = "pvd"
  /\ LET a == Assumptions[ai]
         d == world[cur].pvd[a]
     IN CASE d = "none" -> Answer(cur, "ValidationFailed") /\ UNCHANGED ai
          [] d = "match" -> pc' = "code" /\ UNCHANGED <<cur, ai, answers>>
          [] ai < Len(Assumptions) -> ai' = ai + 1 /\ UNCHANGED <<pc, cur, answers>>
          [] OTHER -> Answer(cur, "BadParent") /\ UNCHANGED ai
  /\ UNCHANGED <<world, inbox>>

\* check_assumption_validation_data, second await: the ValidationCode under
\* the matching assumption; None or an error is BadRequest.
CodeAnswered ==
  /\ pc = "code"
  /\ IF world[cur].code[Assumptions[ai]]
       THEN pc' = "exec" /\ UNCHANGED <<cur, answers>>
       ELSE Answer(cur, "ValidationFailed")
  /\ UNCHANGED <<world, inbox, ai>>

\* Mutant: a Valid result from chain state is sent without the outputs check.
ExecutedNoOutputsCheck ==
  /\ pc = "exec"
  /\ Answer(cur, ValidateCandidateExhaustive(world[cur]))
  /\ UNCHANGED <<world, inbox, ai>>

\* spawn_validate_exhaustive: the blocking task's result.  On the chain-state
\* path a Valid result still awaits CheckValidationOutputs.
Executed ==
  /\ pc = "exec"
  /\ LET res == ValidateCandidateExhaustive(world[cur])
     IN IF Kind[cur] = "chain" /\ res = "Valid"
          THEN pc' = "outputs" /\ UNCHANGED <<cur, answers>>
          ELSE Answer(cur, res)
  /\ UNCHANGED <<world, inbox, ai>>

\* spawn_validate_from_chain_state, the outputs check.
OutputsAnswered ==
  /\ pc = "outputs"
  /\ Answer(cur, CASE world[cur].outputs = "true" -> "Valid"
                   [] world[cur].outputs = "false" -> "InvalidOutputs"
                   [] OTHER -> "ValidationFailed")
  /\ UNCHANGED <<world, inbox, ai>>

\* A `?` on an await: the overseer channel, the spawn or a oneshot fails
\* with a SubsystemError and run returns Err.
SubsystemFails ==
  /\ pc \in {"pvd", "code", "exec", "outputs"}
  /\ pc' = "failed"
  /\ UNCHANGED <<world, inbox, cur, ai, answers>>

Init ==
  /\ world = [r \in Requests |-> None]
  /\ inbox \in {s \in [1..Cardinality(Requests) -> Requests] :
                  \A i, j \in DOMAIN s : i # j => s[i] # s[j]}
  /\ pc = "idle"
  /\ cur = None
  /\ ai = 1
  /\ answers = [r \in Requests |-> None]

Next ==
  \/ Receive \/ Conclude
  \/ PvdAnswered \/ CodeAnswered \/ Executed \/ OutputsAnswered
  \/ SubsystemFails

Spec == Init /\ [][Next]_vars

\* Every await resolves: the runtime API subsystem answers or drops its
\* sender (a SubsystemFails step), and the executor is bounded by its
\* execution timeout.  Nothing is assumed of the overseer's messages.
LiveSpec ==
  /\ Spec
  /\ WF_vars(PvdAnswered)
  /\ WF_vars(CodeAnswered)
  /\ WF_vars(Executed)
  /\ WF_vars(OutputsAnswered)

-----------------------------------------------------------------------------
TypeOKCV ==
  /\ world \in [Requests -> Worlds \cup {None}]
  /\ inbox \in Seq(Requests)
  /\ pc \in {"idle", "pvd", "code", "exec", "outputs", "concluded", "failed"}
  /\ cur \in Requests \cup {None}
  /\ ai \in DOMAIN Assumptions
  /\ answers \in [Requests -> Results \cup {None}]

\* A Valid verdict is sent only for a candidate that passed every check
\* the path it came by makes: the basic checks and the executor always;
\* from chain state also a persisted validation data that matches under
\* the first assumption that does not mismatch, its validation code, and
\* an accepted CheckValidationOutputs.
ValidImpliesChecked ==
  \A r \in Requests :
    answers[r] = "Valid" =>
      /\ PerformBasicChecks(world[r]) = "Ok"
      /\ world[r].wasm = "Ok"
      /\ Kind[r] = "chain" =>
           \E i \in DOMAIN Assumptions :
             /\ world[r].pvd[Assumptions[i]] = "match"
             /\ \A j \in 1..(i - 1) : world[r].pvd[Assumptions[j]] = "mismatch"
             /\ world[r].code[Assumptions[i]]
             /\ world[r].outputs = "true"

\* BadParent (the descriptor's persisted_validation_data_hash is not based
\* on the relay parent) is reported only when the data under every
\* assumption was fetched and none matched.
BadParentOnlyIfNoAssumptionMatches ==
  \A r \in Requests :
    answers[r] = "BadParent" =>
      \A i \in DOMAIN Assumptions : world[r].pvd[Assumptions[i]] = "mismatch"

\* A request the run loop has taken is eventually answered on its response
\* channel, unless an await fails and the loop returns: the assumption
\* search over Included and TimedOut ends, and no await is waited on twice.
ReceivedRequestAnswered ==
  \A r \in Requests : cur = r ~> (answers[r] # None \/ pc = "failed")
=============================================================================
