-------------------------- MODULE DiagnosticAnalyzer --------------------------
(***************************************************************************)
(* The failure modes that detect_failure_modes (backend/core/diagnostic_   *)
(* analyzer.py) finds in the bundle of a run: eleven detectors as          *)
(* operators on the set E of its events, and those events as the typed     *)
(* functions of the recorder and the loop make them, with what they hold   *)
(* (a prompt, a response, a result) cut down to what one compares. "at" is *)
(* the time of an event, which makes it different from every other.        *)
(* Severity, confidence, wording and evidence of a finding are left out.   *)
(***************************************************************************)
EXTENDS Integers, FiniteSets

-----------------------------------------------------------------------------
(* Events *)

\* A response is stripped: "empty" is what is left of blanks, "call" is a text
\* with <tool_call> in it, whether or not a call can be parsed from it.
Texts == {"empty", "text", "call"}

PlanningResponse(at, text) ==
    [type |-> "planning_response", at |-> at, empty |-> text = "empty"]

PlanParsed(at, n) == [type |-> "plan_parsed", at |-> at, steps |-> n > 0]

ModelRequest(at, step, iteration, tools) ==
    [type |-> "model_request", at |-> at, step |-> step, iteration |-> iteration,
     tools |-> tools # {}]

ModelResponse(at, step, iteration, text) ==
    [type |-> "model_response_raw", at |-> at, step |-> step, iteration |-> iteration,
     empty |-> text = "empty", call |-> text = "call"]

ToolCallParsed(at, step, iteration, tool) ==
    [type |-> "tool_call_parsed", at |-> at, step |-> step, iteration |-> iteration,
     tool |-> tool]

ToolExecuted(at, step, tool, ok) ==
    [type |-> "tool_executed", at |-> at, step |-> step, tool |-> tool, ok |-> ok]

\* Of a step's result: "empty", "error" (it starts with "Execution error:") or
\* any other.
StepComplete(at, step, result) ==
    [type |-> "step_complete", at |-> at, step |-> step, result |-> result]

SupervisorIntervention(at, step, action) ==
    [type |-> "supervisor_intervention", at |-> at, step |-> step, action |-> action]

CheckpointRestored(at, step) ==
    [type |-> "checkpoint_restored", at |-> at, restored_to_step |-> step]

OfType(E, type) == {e \in E : e.type = type}

\* The iteration of a step an event belongs to; the attempts of a step share
\* theirs.
Key(e) == <<e.step, e.iteration>>

-----------------------------------------------------------------------------
(* What several detectors look for *)

EmptyResponses(E)   == {e \in OfType(E, "model_response_raw") : e.empty}
TextResponses(E)    == {e \in OfType(E, "model_response_raw") : ~e.empty}
SuccessfulExecs(E)  == {e \in OfType(E, "tool_executed") : e.ok}
EmptySteps(E)       == {e \in OfType(E, "step_complete") : e.result = "empty"}
ParsedKeys(E)       == {Key(e) : e \in OfType(E, "tool_call_parsed")}

-----------------------------------------------------------------------------
(* The detectors, in the order of the code *)

PlanningEmptyResponse(E) == \E e \in OfType(E, "planning_response") : e.empty

\* Also when planning failed and the task itself became the only step.
NoStepsGenerated(E) ==
    \/ \E e \in OfType(E, "plan_parsed") : ~e.steps
    \/ OfType(E, "planning_response") # {} /\ OfType(E, "plan_parsed") = {}

LlmEmptyResponse(E) == EmptyResponses(E) # {}

OfferedKeys(E) == {Key(e) : e \in {r \in OfType(E, "model_request") : r.tools}}

ModelDidNotCallTool(E) ==
    \E e \in TextResponses(E) : ~e.call /\ Key(e) \in OfferedKeys(E) \ ParsedKeys(E)

CallKeys(E) == {Key(e) : e \in {r \in OfType(E, "model_response_raw") : r.call}}

ToolCallParseFailure(E) == CallKeys(E) \ ParsedKeys(E) # {}

ToolExecutionFailed(E) == \E e \in OfType(E, "tool_executed") : ~e.ok

ToolResultNotUsed(E) ==
    /\ SuccessfulExecs(E) # {}
    /\ \E e \in OfType(E, "step_complete") : e.result \in {"empty", "error"}

StepEmptyResult(E) == EmptySteps(E) # {}

CheckpointRestoreLoop(E) == Cardinality(OfType(E, "checkpoint_restored")) >= 3

Retries(E) == {e \in OfType(E, "supervisor_intervention") :
                 e.action \in {"nudge", "retry_step", "reset_context"}}

SupervisorRetryLoop(E) == Cardinality(Retries(E)) >= 3

\* A run that was not verified, although a tool succeeded and no response was
\* empty, or although there was a response and a step ended with none.  A run
\* that ended with an exception has no verdict.
FinalizerDroppedResults(E, verdict) ==
    /\ verdict = "unverified"
    /\ \/ SuccessfulExecs(E) # {} /\ EmptyResponses(E) = {}
       \/ TextResponses(E) # {} /\ EmptySteps(E) # {}

-----------------------------------------------------------------------------
(* All findings *)

Found(id, detected) == IF detected THEN {id} ELSE {}

\* What tells of the run's events alone.
FindingsOfEvents(E) ==
    UNION {Found("PLANNING_EMPTY_RESPONSE", PlanningEmptyResponse(E)),
           Found("NO_STEPS_GENERATED", NoStepsGenerated(E)),
           Found("LLM_EMPTY_RESPONSE", LlmEmptyResponse(E)),
           Found("MODEL_DID_NOT_CALL_REQUIRED_TOOL", ModelDidNotCallTool(E)),
           Found("TOOL_CALL_PARSE_FAILURE", ToolCallParseFailure(E)),
           Found("TOOL_EXECUTION_FAILED", ToolExecutionFailed(E)),
           Found("TOOL_RESULT_NOT_USED", ToolResultNotUsed(E)),
           Found("STEP_COMPLETED_WITH_EMPTY_RESULT", StepEmptyResult(E)),
           Found("CHECKPOINT_RESTORE_LOOP", CheckpointRestoreLoop(E)),
           Found("SUPERVISOR_RETRY_LOOP", SupervisorRetryLoop(E))}

Findings(E, verdict) ==
    FindingsOfEvents(E)
    \cup Found("FINALIZER_DROPPED_RESULTS", FinalizerDroppedResults(E, verdict))
=============================================================================
