---------------------------- MODULE StepExecution ----------------------------
(***************************************************************************)
(* The execution of the steps of one supervised run: MainAgent's           *)
(* execute_step with its tool loop (backend/agents/main_agent.py), the     *)
(* callback _on_step_event that shows each of its events to the run's      *)
(* LoopHandle (backend/agents/agentic_loop.py), and the attempts of the    *)
(* loop around it.                                                         *)
(*                                                                         *)
(* AgenticLoop leaves open which detector fires when; this module has the  *)
(* detectors (LoopHandle) and leaves out what AgenticLoop has: planning,   *)
(* the checkpoints and the reports.  Checkpoints are on, so a reset always *)
(* finds the one of its own step and the step is left without being run.   *)
(* An action ends where the code awaits something outside the process; the *)
(* supervisor may find the run stalled there.                              *)
(***************************************************************************)
EXTENDS LoopHandle

CONSTANTS
    Steps,               \* length of the plan
    MaxRetries,          \* _MAX_STEP_RETRIES
    MaxIterations,       \* _MAX_TOOL_ITERATIONS
    Calls,               \* tool calls: a name with the fingerprint of its arguments
    Batches,             \* the sequences of calls one model response may hold
    Outputs,             \* outputs of tools
    Answers              \* texts of final answers

ASSUME StepAssumption ==
    /\ Steps \in Nat /\ MaxRetries \in Nat
    /\ MaxIterations \in Nat \ {0}
    /\ Batches \subseteq Seq(Calls) \ {<< >>}

VARIABLES
    pc,                  \* where the run is, see Places
    step,                \* current step, 1-based
    attempt,             \* 0-based attempt of it
    iteration,           \* iterations of the tool loop begun in the attempt
    offered,             \* tools are offered to the model
    todo,                \* tool calls of the last response not handled yet
    result,              \* step.result
    handle,              \* the run's LoopHandle
    pending,             \* its _intervention slot holds a reset_context
    lastCall,            \* history: the call executed last, and how often it
    inARow,              \* was executed in a row
    failedHere           \* history: tools that failed in this attempt

tools   == <<iteration, offered, todo>>
history == <<lastCall, inARow, failedHere>>
vars    == <<pc, step, attempt, tools, result, handle, pending, history>>

Places == {"next", "attempt", "entered", "thinking", "calling", "running",
           "returned", "over"}

NoResult == "none"
NoCall   == "none"
Special  == {"paused", "error", "empty", "overflow"}

\* execute_step is in its tool loop.
Looping == pc \in {"thinking", "calling", "running"}

-----------------------------------------------------------------------------
Init ==
    /\ pc = "next"
    /\ step = 0 /\ attempt = 0 /\ iteration = 0
    /\ offered = FALSE
    /\ todo = << >>
    /\ result = NoResult
    /\ handle = NewHandle
    /\ pending = FALSE
    /\ lastCall = NoCall /\ inARow = 0 /\ failedHere = 0

\* The head of a step: heartbeat, fresh AgenticStep.
BeginStep ==
    /\ pc = "next"
    /\ step < Steps
    /\ step' = step + 1
    /\ attempt' = 0
    /\ handle' = Heartbeat(handle, step + 1)
    /\ result' = NoResult
    /\ pc' = "attempt"
    /\ UNCHANGED <<tools, pending, history>>

PlanDone ==
    /\ pc = "next"
    /\ step = Steps
    /\ pc' = "over"
    /\ UNCHANGED <<step, attempt, tools, result, handle, pending, history>>

\* pop_intervention at the head of an attempt returns a reset: the checkpoint
\* of the step is restored and the step left.
Reset ==
    /\ pc = "attempt"
    /\ pending
    /\ pending' = FALSE
    /\ result' = NoResult
    /\ pc' = "next"
    /\ UNCHANGED <<step, attempt, tools, handle, history>>

\* Otherwise execute_step is called.
Enter ==
    /\ pc = "attempt"
    /\ ~pending
    /\ iteration' = 0
    /\ todo' = << >>
    /\ failedHere' = 0
    /\ pc' = "entered"
    /\ UNCHANGED <<step, attempt, offered, result, handle, pending, lastCall, inARow>>

\* execute_step returns a text, of which an empty one becomes an error text.
Returns(text) ==
    /\ result' = text
    /\ pc' = "returned"

\* _try_local_filesystem_fast_path answers by itself, with tools that no event
\* is raised for.
FastPath ==
    /\ pc = "entered"
    /\ \E text \in Answers : Returns(text)
    /\ UNCHANGED <<step, attempt, tools, handle, pending, history>>

\* send_to_main with the prompt of the next iteration.  A slip: it is not counted.
SlipAsk ==
    /\ iteration' = iteration
    /\ pc' = "thinking"

Ask ==
    /\ iteration' = iteration + 1
    /\ pc' = "thinking"

\* Tools are chosen for the step, if any are registered, enabled and routed.
ChooseTools ==
    /\ pc = "entered"
    /\ Ask
    /\ offered' \in BOOLEAN
    /\ UNCHANGED <<step, attempt, todo, result, handle, pending, history>>

\* _on_step_event: a detection goes to the slot and ends execute_step, which
\* returns its message.
Observed(seen) ==
    /\ handle' = seen.handle
    /\ pending' = (pending \/ seen.found # "none")

Paused(seen) ==
    /\ seen.found # "none"
    /\ Observed(seen)
    /\ Returns("paused")

Unpaused(seen) ==
    /\ seen.found = "none"
    /\ Observed(seen)

\* The model call raises: any error, or that the context window is exceeded.
ModelRaises ==
    /\ pc = "thinking"
    /\ LET seen == ObserveModelOutput(handle, TRUE, FALSE) IN
         \/ Paused(seen)
         \/ Unpaused(seen) /\ \E kind \in {"error", "overflow"} : Returns(kind)
    /\ UNCHANGED <<step, attempt, tools, history>>

\* Replies without a tool call, or with no tool offered: the final answer.
\* The text may be empty or contain one of the give-up phrases.
ModelAnswers ==
    /\ pc = "thinking"
    /\ \E text \in Answers \cup {"empty"}, givesUp \in BOOLEAN :
         /\ text = "empty" => ~givesUp
         /\ LET seen == ObserveModelOutput(handle, text = "empty", givesUp) IN
              \/ Paused(seen)
              \/ Unpaused(seen) /\ Returns(text)
    /\ UNCHANGED <<step, attempt, tools, history>>

ModelCallsTools ==
    /\ pc = "thinking"
    /\ offered
    /\ \E batch \in Batches, givesUp \in BOOLEAN :
         LET seen == ObserveModelOutput(handle, FALSE, givesUp) IN
           \/ Paused(seen) /\ UNCHANGED todo
           \/ /\ Unpaused(seen)
              /\ todo' = batch
              /\ pc' = "calling"
              /\ UNCHANGED result
    /\ UNCHANGED <<step, attempt, iteration, offered, history>>

\* The tool_call event, then the tool is executed and awaited.
CallTool ==
    /\ pc = "calling"
    /\ LET call == Head(todo)
           seen == ObserveToolCall(handle, call)
       IN \/ Paused(seen) /\ UNCHANGED history
          \/ /\ Unpaused(seen)
             /\ lastCall' = call
             /\ inARow' = IF call = lastCall THEN inARow + 1 ELSE 1
             /\ pc' = "running"
             /\ UNCHANGED <<result, failedHere>>
    /\ UNCHANGED <<step, attempt, tools>>

\* The arguments of a call are no object: _coerce_tool_args raises before the
\* call is observed, and with it execute_step, whatever the response's earlier
\* calls have done.
BadArguments ==
    /\ pc = "calling"
    /\ Returns("error")
    /\ UNCHANGED <<step, attempt, tools, handle, pending, history>>

\* A slip: one iteration too many.
SlipMoreIterations == iteration <= MaxIterations
MoreIterations == iteration < MaxIterations

\* The next call of the response, else the next iteration, else the iteration
\* limit: the response is returned as it is.
GoOn ==
    /\ todo' = Tail(todo)
    /\ IF Len(todo) > 1
       THEN pc' = "calling" /\ UNCHANGED <<iteration, result>>
       ELSE IF MoreIterations
            THEN Ask /\ UNCHANGED result
            ELSE UNCHANGED iteration /\ \E text \in Answers : Returns(text)

ToolSucceeds ==
    /\ pc = "running"
    /\ \E output \in Outputs :
         LET seen == ObserveToolSuccess(handle, output) IN
           \/ Paused(seen) /\ UNCHANGED <<todo, iteration>>
           \/ Unpaused(seen) /\ GoOn
    /\ UNCHANGED <<step, attempt, offered, history>>

\* ok is false: the tool said so, raised, or does not exist.
ToolFails ==
    /\ pc = "running"
    /\ LET seen == ObserveToolFailure(handle) IN
         \/ Paused(seen) /\ UNCHANGED <<todo, iteration>>
         \/ Unpaused(seen) /\ GoOn
    /\ failedHere' = failedHere + 1
    /\ UNCHANGED <<step, attempt, offered, lastCall, inARow>>

\* The context window is exceeded: the run is aborted.
Abort ==
    /\ pc = "returned"
    /\ result = "overflow"
    /\ pc' = "over"
    /\ UNCHANGED <<step, attempt, tools, result, handle, pending, history>>

\* observe_step_result; an error is retried while attempts are left.
AfterAttempt ==
    /\ pc = "returned"
    /\ result # "overflow"
    /\ Observed(ObserveStepResult(handle, result))
    /\ IF result = "error" /\ attempt < MaxRetries
       THEN attempt' = attempt + 1 /\ pc' = "attempt"
       ELSE pc' = "next" /\ UNCHANGED attempt
    /\ UNCHANGED <<step, tools, result, history>>

\* SafetySupervisor._poll finds no heartbeat for step_timeout while the run
\* awaits a model or a tool.
Stall ==
    /\ pc \in {"thinking", "running"}
    /\ ~pending
    /\ pending' = TRUE
    /\ UNCHANGED <<pc, step, attempt, tools, result, handle, history>>

Running ==
    \/ BeginStep \/ PlanDone \/ Reset \/ Enter \/ FastPath \/ ChooseTools
    \/ ModelRaises \/ ModelAnswers \/ ModelCallsTools
    \/ CallTool \/ BadArguments \/ ToolSucceeds \/ ToolFails
    \/ Abort \/ AfterAttempt

Next == Running \/ Stall

Spec == Init /\ [][Next]_vars

\* The event loop resumes the run; model calls and tools have timeouts.
FairSpec == Spec /\ WF_vars(Running)

-----------------------------------------------------------------------------
(* Properties *)

\* TYPE INVARIANT.  Among others, a call is at hand whenever one is to be made,
\* and the tool loop stays within its iterations.
TypeOK ==
    /\ pc \in Places
    /\ step \in 0..Steps /\ attempt \in 0..MaxRetries
    /\ iteration \in 0..MaxIterations
    /\ offered \in BOOLEAN
    /\ todo \in Seq(Calls)
    /\ pc \in {"calling", "running"} => todo # << >> /\ offered
    /\ result \in Answers \cup Special \cup {NoResult}
    /\ handle.current = step
    /\ handle.calls \in Seq(Calls) /\ Len(handle.calls) <= HistoryLength
    /\ Len(handle.marks) <= ProgressLength
    /\ {handle.failed, handle.empty, handle.giveUps, inARow, failedHere} \subseteq Nat
    /\ pending \in BOOLEAN
    /\ lastCall \in Calls \cup {NoCall}

\* The same tool call is never executed max_repeated_tool_calls times in a row,
\* whatever happens between the calls: answers, errors, retries, resets and new
\* steps.  A detection that was already raised is not raised again, so this
\* needs that no step goes on after one.
NoRunaway == inARow < MaxRepeated

\* Tools that keep failing end the step: after a failure the loop goes on only
\* below max_failed_tool_calls failures in a row, those of earlier steps and
\* attempts included.
FailuresStop == Looping /\ failedHere > 0 => handle.failed < MaxFailed

\* The give-up count is never reset: once the model has given up as often as the
\* limit allows, no step of the run executes a tool any more, however well the
\* model does afterwards.
GivenUpRunsNoTools ==
    [][CallTool /\ pc' = "running" => handle.giveUps < MaxGiveUp]_vars

\* LIVENESS.  Every step ends, also when the model calls tools for ever and when
\* the supervisor finds the run stalled again and again.
StepEnds == pc = "attempt" ~> pc \in {"next", "over"}
=============================================================================
