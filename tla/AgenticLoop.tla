----------------------------- MODULE AgenticLoop -----------------------------
(***************************************************************************)
(* One run of the agentic loop (backend/agents/agentic_loop.py) with its   *)
(* checkpoint store, its LoopHandle and the SafetySupervisor's stall poll  *)
(* (backend/core/safety_supervisor.py).                                    *)
(*                                                                         *)
(* Everything runs on one asyncio event loop: another task acts only while *)
(* this run is suspended in an await.  The calls that always suspend are   *)
(* the model calls (plan_task, execute_step).  An emit() suspends only     *)
(* when the run streams its events to a client (opts.streaming), so the    *)
(* loop's own statements are cut into actions at those awaits and          *)
(* Suspended says when the supervisor may act.                             *)
(*                                                                         *)
(* Which detector of the LoopHandle fires on which event is left open      *)
(* here, except for the per-step deduplication of _last_detected_key.      *)
(***************************************************************************)
EXTENDS CheckpointManager, Sequences

CONSTANTS
    MaxSteps,            \* max_steps of the request
    MaxRetries,          \* _MAX_STEP_RETRIES
    PlanLengths,         \* how many steps plan_task may return
    EventCategories,     \* detections an event inside execute_step may raise
    Injectable,          \* actions set_intervention receives from a caller of
                         \* its own; the code's supervisor injects none
    Options              \* the debug options a request may set

ASSUME LoopAssumption ==
    /\ MaxSteps \in Nat \ {0}
    /\ MaxRetries \in Nat
    /\ PlanLengths \subseteq Nat
    /\ Injectable \subseteq {"nudge", "retry_step", "end_task", "escalate_to_user"}
    /\ Options \subseteq [planning : BOOLEAN, checkpointing : BOOLEAN,
                          supervised : BOOLEAN, rolling : BOOLEAN,
                          streaming : BOOLEAN]

VARIABLES
    opts,                \* the request's debug options, fixed for the run
    pc,                  \* where the run is, see Places
    plan,                \* len(step_descriptions)
    idx,                 \* 0-based index of the step being run
    stepNum,             \* the local step_num of the loop's body
    attempt,             \* 0-based attempt of that step
    step,                \* the AgenticStep being run
    hadError,            \* had_execution_error of the attempt
    finalAction,         \* final_action
    executed,            \* the steps reported so far
    context,             \* the context lines handed to execute_step
    checkpoints,         \* the run's checkpoint store
    registered,          \* the supervisor still holds the run's handle
    handle,              \* the LoopHandle
    outcome              \* how the run ended, "none" before

control == <<opts, plan>>
body    == <<idx, stepNum, attempt, step, hadError, finalAction>>
record  == <<executed, context>>
vars    == <<control, pc, body, record, checkpoints, registered, handle, outcome>>

Places == {"idle", "started", "planning", "head", "attempt", "executing",
           "observed", "report", "reported", "ending", "done"}

-----------------------------------------------------------------------------
(* Values *)

Statuses == {"running", "complete", "failed"}
Results  == {"none", "answer", "error", "paused", "overflow", "supervisor"}

\* AgenticStep; a fresh one has no result.
Step == [num : Nat, status : Statuses, result : Results, retries : Nat]
NewStep(n) == [num |-> n, status |-> "running", result |-> "none", retries |-> 0]

\* A context line: what it says and the step it was appended in.
Line == [kind : {"step", "retry", "nudge"}, step : Nat]
NewLine(kind, n) == [kind |-> kind, step |-> n]

Checkpoint == [step : Nat, context : Seq(Line), executed : Seq(Step)]

Interventions == {"none", "reset_context", "nudge", "retry_step", "end_task",
                  "escalate_to_user"}
Categories == EventCategories \cup {"stalled_progress"}
NoKey      == <<"none", 0>>
Keys       == (Categories \X Nat) \cup {NoKey}

\* LoopHandle: the one-place intervention slot, current_step and
\* _last_detected_key.  The age of the heartbeat is not kept: any await may
\* last longer than step_timeout, also again after the clock was restarted.
Handle == [pending : Interventions, current : Nat, lastKey : Keys]
NewHandle == [pending |-> "none", current |-> 0, lastKey |-> NoKey]

Outcomes == {"none", "verified", "unverified", "stopped", "cancelled"}

-----------------------------------------------------------------------------
(* Starting and planning *)

Init ==
    /\ opts \in Options
    /\ pc = "idle"
    /\ plan = 0
    /\ idx = 0 /\ stepNum = 0 /\ attempt = 0
    /\ step = NewStep(0)
    /\ hadError = FALSE
    /\ finalAction = "continue"
    /\ executed = << >> /\ context = << >>
    /\ checkpoints = NoCheckpoints
    /\ registered = FALSE
    /\ handle = NewHandle
    /\ outcome = "none"

\* run: register with the supervisor, unless the request turned it off.
Start ==
    /\ pc = "idle"
    /\ pc' = "started"
    /\ registered' = opts.supervised
    /\ handle' = NewHandle
    /\ UNCHANGED <<control, body, record, checkpoints, outcome>>

\* llm_only, or planning turned off: the task itself is the only step.
SkipPlanning ==
    /\ pc = "started"
    /\ ~opts.planning
    /\ plan' = 1
    /\ pc' = "head"
    /\ UNCHANGED <<opts, body, record, checkpoints, registered, handle, outcome>>

\* plan_task is called and awaited.
AskForPlan ==
    /\ pc = "started"
    /\ opts.planning
    /\ pc' = "planning"
    /\ UNCHANGED <<control, body, record, checkpoints, registered, handle, outcome>>

\* "steps" of the plan, or [task] when it is empty, cut to max_steps.
Usable(n) == IF n = 0 THEN 1 ELSE IF n > MaxSteps THEN MaxSteps ELSE n

PlanReturns ==
    /\ pc = "planning"
    /\ \E n \in PlanLengths : plan' = Usable(n)
    /\ pc' = "head"
    /\ UNCHANGED <<opts, body, record, checkpoints, registered, handle, outcome>>

\* plan_task raised: the task itself is the only step.
PlanFails ==
    /\ pc = "planning"
    /\ plan' = 1
    /\ pc' = "head"
    /\ UNCHANGED <<opts, body, record, checkpoints, registered, handle, outcome>>

-----------------------------------------------------------------------------
(* The head of the step loop *)

\* heartbeat(step_num): a new step may detect everything afresh.
Heartbeat(h, n) ==
    [h EXCEPT !.current = n,
              !.lastKey = IF h.current # n THEN NoKey ELSE h.lastKey]

\* Checkpoint, heartbeat, fresh AgenticStep: one stretch without an await
\* that matters, up to the emits of the first attempt.
BeginStep ==
    /\ pc = "head"
    /\ idx < plan
    /\ stepNum' = idx + 1
    /\ checkpoints' =
         IF opts.checkpointing
         THEN Save(checkpoints, idx + 1,
                   [step |-> idx + 1, context |-> context, executed |-> executed])
         ELSE checkpoints
    /\ handle' = IF opts.supervised THEN Heartbeat(handle, idx + 1) ELSE handle
    /\ step' = NewStep(idx + 1)
    /\ attempt' = 0
    /\ pc' = "attempt"
    /\ UNCHANGED <<control, idx, hadError, finalAction, record, registered, outcome>>

\* verified: some step was reported and every reported one is complete.
AllStepsComplete == \A i \in 1..Len(executed) : executed[i].status = "complete"

\* The while loop ran out of steps.
Finalize ==
    /\ pc = "head"
    /\ idx >= plan
    /\ outcome' = IF Len(executed) > 0 /\ AllStepsComplete
                  THEN "verified" ELSE "unverified"
    /\ pc' = "ending"
    /\ UNCHANGED <<control, body, record, checkpoints, registered, handle>>

-----------------------------------------------------------------------------
(* The head of an attempt: pop_intervention and _apply_intervention.  The   *)
(* pop empties the slot whatever was in it.                                 *)

Popped == handle' = [handle EXCEPT !.pending = "none"]

Attempting == pc = "attempt" /\ hadError' = FALSE

\* Nothing to apply, or retry_step, which only shows an event: execute.
NothingToApply ==
    /\ Attempting
    /\ handle.pending \in {"none", "retry_step"}
    /\ Popped
    /\ pc' = "executing"
    /\ UNCHANGED <<control, idx, stepNum, attempt, step, finalAction, record,
                   checkpoints, registered, outcome>>

\* The checkpoint's step number is 1-based, the index 0-based.  A slip: the
\* difference is forgotten.
SlipJumpTo(cp) == cp.step
JumpTo(cp) == cp.step - 1

\* The context lines come back with the reported steps.  Slips: they stay as
\* they are, or they are all dropped.
SlipKeptContext(cp) == context
SlipClearedContext(cp) == << >>
RestoredContext(cp) == cp.context

\* A slip: the step starts all its attempts again, at every reset.
SlipAfterReset == pc' = "executing" /\ attempt' = 0

\* The break after a reset leaves the attempt loop for good: what comes next
\* is the report of the fresh, never executed step.
AfterReset == pc' = "report" /\ UNCHANGED attempt

\* reset_context: roll back to the last checkpoint.
ResetContext ==
    LET cp == RestoreLast(checkpoints) IN
    /\ Attempting
    /\ handle.pending = "reset_context"
    /\ Restorable(checkpoints)
    /\ idx' = JumpTo(cp)
    /\ context' = RestoredContext(cp)
    /\ executed' = cp.executed
    /\ step' = NewStep(JumpTo(cp) + 1)
    /\ Popped
    /\ AfterReset
    /\ UNCHANGED <<control, stepNum, finalAction, checkpoints, registered, outcome>>

\* A nudge, or a reset with no checkpoint to restore, becomes a context line.
Nudge ==
    /\ Attempting
    /\ \/ handle.pending = "nudge"
       \/ handle.pending = "reset_context" /\ ~Restorable(checkpoints)
    /\ context' = Append(context, NewLine("nudge", stepNum))
    /\ Popped
    /\ pc' = "executing"
    /\ UNCHANGED <<control, idx, stepNum, attempt, step, finalAction, executed,
                   checkpoints, registered, outcome>>

\* end_task and escalate_to_user: the step is over and has failed.
GiveUp ==
    /\ Attempting
    /\ handle.pending \in {"end_task", "escalate_to_user"}
    /\ finalAction' = IF handle.pending = "end_task" THEN "abort" ELSE "escalate"
    /\ step' = [step EXCEPT !.result = "supervisor"]
    /\ Popped
    /\ pc' = "report"
    /\ UNCHANGED <<control, idx, stepNum, attempt, record, checkpoints,
                   registered, outcome>>

-----------------------------------------------------------------------------
(* Executing a step *)

\* _build_detection_intervention: a category fires once per step, unless
\* another one or a successful tool call came in between.
Fresh(category) == handle.lastKey # <<category, handle.current>>

Detected(category) ==
    handle' = [handle EXCEPT !.pending = "reset_context",
                             !.lastKey = <<category, handle.current>>]

\* A tool call succeeded: the deduplication key is forgotten.
ToolSucceeds ==
    /\ pc = "executing"
    /\ opts.supervised
    /\ handle' = [handle EXCEPT !.lastKey = NoKey]
    /\ UNCHANGED <<control, pc, body, record, checkpoints, registered, outcome>>

\* An event of execute_step raised a detection: _on_step_event stores it and
\* hands it back, and execute_step returns its message as the step's result.
StepPaused ==
    /\ pc = "executing"
    /\ opts.supervised
    /\ \E category \in EventCategories : Fresh(category) /\ Detected(category)
    /\ step' = [step EXCEPT !.result = "paused"]
    /\ pc' = "observed"
    /\ UNCHANGED <<control, idx, stepNum, attempt, hadError, finalAction, record,
                   checkpoints, registered, outcome>>

\* execute_step returned an answer; a blank one is replaced by an error text,
\* but is no execution error.
StepReturns ==
    /\ pc = "executing"
    /\ step' = [step EXCEPT !.result = "answer"]
    /\ pc' = "observed"
    /\ UNCHANGED <<control, idx, stepNum, attempt, hadError, finalAction, record,
                   checkpoints, registered, handle, outcome>>

\* execute_step raised.
StepRaises ==
    /\ pc = "executing"
    /\ step' = [step EXCEPT !.result = "error"]
    /\ hadError' = TRUE
    /\ pc' = "observed"
    /\ UNCHANGED <<control, idx, stepNum, attempt, finalAction, record,
                   checkpoints, registered, handle, outcome>>

\* execute_step raised the llama.cpp context overflow: no retry can help.
ContextOverflow ==
    /\ pc = "executing"
    /\ step' = [step EXCEPT !.result = "overflow"]
    /\ hadError' = TRUE
    /\ finalAction' = "abort"
    /\ pc' = "report"
    /\ UNCHANGED <<control, idx, stepNum, attempt, record, checkpoints,
                   registered, handle, outcome>>

\* observe_step_result may raise stalled_progress, in the slot as well.
ObserveResult ==
    \/ UNCHANGED handle
    \/ opts.supervised /\ Fresh("stalled_progress") /\ Detected("stalled_progress")

\* Slips: one attempt too few, one attempt too many.
SlipTooFew == hadError /\ attempt + 1 < MaxRetries
SlipTooMany == hadError /\ attempt <= MaxRetries

RetriesLeft == hadError /\ attempt < MaxRetries

\* The next attempt of the same AgenticStep.
RetryStep ==
    /\ pc = "observed"
    /\ ObserveResult
    /\ RetriesLeft
    /\ step' = [step EXCEPT !.retries = @ + 1]
    /\ context' = Append(context, NewLine("retry", stepNum))
    /\ attempt' = attempt + 1
    /\ pc' = "attempt"
    /\ UNCHANGED <<control, idx, stepNum, hadError, finalAction, executed,
                   checkpoints, registered, outcome>>

\* The attempt loop is left, after an answer or after the last attempt.
LeaveAttempts ==
    /\ pc = "observed"
    /\ ObserveResult
    /\ ~RetriesLeft
    /\ pc' = "report"
    /\ UNCHANGED <<control, body, record, checkpoints, registered, outcome>>

-----------------------------------------------------------------------------
(* Reporting a step and ending the run *)

Failed == finalAction \in {"abort", "escalate"}

\* The step is failed after an abort or an escalation only; every other one
\* is complete, whatever its result.
ReportStep ==
    /\ pc = "report"
    /\ LET status == IF Failed THEN "failed" ELSE "complete"
       IN  executed' = Append(executed, [step EXCEPT !.status = status])
    /\ context' = IF opts.rolling
                  THEN Append(context, NewLine("step", stepNum)) ELSE context
    /\ pc' = "reported"
    /\ UNCHANGED <<control, body, checkpoints, registered, handle, outcome>>

\* A slip: the loop goes on after a failed step.
SlipNextStep ==
    /\ pc = "reported"
    /\ idx' = idx + 1
    /\ pc' = "head"
    /\ UNCHANGED <<control, stepNum, attempt, step, hadError, finalAction, record,
                   checkpoints, registered, handle, outcome>>

NextStep ==
    /\ pc = "reported"
    /\ ~Failed
    /\ idx' = idx + 1
    /\ pc' = "head"
    /\ UNCHANGED <<control, stepNum, attempt, step, hadError, finalAction, record,
                   checkpoints, registered, handle, outcome>>

\* "Task stopped at step": completion_verified is False.
StopTask ==
    /\ pc = "reported"
    /\ Failed
    /\ outcome' = "stopped"
    /\ pc' = "ending"
    /\ UNCHANGED <<control, body, record, checkpoints, registered, handle>>

\* A slip: only a run that ends by itself deregisters.
SlipCleanUp ==
    /\ pc' = "done"
    /\ registered' = IF pc = "ending" THEN FALSE ELSE registered
    /\ checkpoints' = IF opts.checkpointing THEN NoCheckpoints ELSE checkpoints

\* The finally block of run.
CleanUp ==
    /\ pc' = "done"
    /\ registered' = FALSE
    /\ checkpoints' = IF opts.checkpointing THEN NoCheckpoints ELSE checkpoints

Return ==
    /\ pc = "ending"
    /\ CleanUp
    /\ UNCHANGED <<control, body, record, handle, outcome>>

\* _run_agentic_with_cancel: the HTTP client went away while a model call was
\* awaited.  No except clause of the loop catches a CancelledError.  A
\* streaming run is not wrapped in that guard.
Cancel ==
    /\ pc \in {"planning", "executing"}
    /\ ~opts.streaming
    /\ outcome' = "cancelled"
    /\ CleanUp
    /\ UNCHANGED <<control, body, record, handle>>

-----------------------------------------------------------------------------
(* The other tasks of the event loop *)

\* The run is inside an await, so another task may act.
Suspended ==
    \/ pc \in {"planning", "executing"}
    \/ opts.streaming /\ pc \in {"started", "attempt", "reported", "ending"}

\* SafetySupervisor._poll: the await has lasted longer than step_timeout, so
\* the handle is stalled and a reset_context goes into its slot, over whatever
\* was there.
Poll ==
    /\ registered
    /\ Suspended
    /\ handle' = [handle EXCEPT !.pending = "reset_context"]
    /\ UNCHANGED <<control, pc, body, record, checkpoints, registered, outcome>>

\* Another caller of LoopHandle.set_intervention, with one of the documented
\* actions that the supervisor itself never chooses.
Inject ==
    /\ registered
    /\ Suspended
    /\ \E action \in Injectable : handle' = [handle EXCEPT !.pending = action]
    /\ UNCHANGED <<control, pc, body, record, checkpoints, registered, outcome>>

Finished == pc = "done" /\ UNCHANGED vars

-----------------------------------------------------------------------------

Planning   == Start \/ SkipPlanning \/ AskForPlan \/ PlanReturns \/ PlanFails
Intervening == NothingToApply \/ ResetContext \/ Nudge \/ GiveUp
Executing  == StepPaused \/ StepReturns \/ StepRaises \/ ContextOverflow
Deciding   == RetryStep \/ LeaveAttempts
Closing    == ReportStep \/ NextStep \/ StopTask \/ Finalize \/ Return

\* The run's own steps; each model call ends, by an answer, a detection or an
\* exception, because every request to llama.cpp carries a timeout.
LoopStep == Planning \/ BeginStep \/ Intervening \/ Executing \/ Deciding \/ Closing

Next == LoopStep \/ ToolSucceeds \/ Cancel \/ Poll \/ Inject \/ Finished

Spec     == Init /\ [][Next]_vars
FairSpec == Spec /\ WF_vars(LoopStep)

-----------------------------------------------------------------------------
(* Properties *)

\* TYPE INVARIANT.  The loop's locals, its handle and its store keep their
\* shape, and no step is attempted more than 1 + _MAX_STEP_RETRIES times.
TypeOK ==
    /\ opts \in [planning : BOOLEAN, checkpointing : BOOLEAN, supervised : BOOLEAN,
                 rolling : BOOLEAN, streaming : BOOLEAN]
    /\ pc \in Places
    /\ plan \in 0..MaxSteps
    /\ idx \in 0..MaxSteps
    /\ stepNum \in 0..MaxSteps
    /\ attempt \in 0..MaxRetries
    /\ step \in Step
    /\ hadError \in BOOLEAN
    /\ finalAction \in {"continue", "abort", "escalate"}
    /\ executed \in Seq(Step)
    /\ context \in Seq(Line)
    /\ DOMAIN checkpoints \subseteq 1..MaxSteps
    /\ \A n \in DOMAIN checkpoints : checkpoints[n] \in Checkpoint
    /\ registered \in BOOLEAN
    /\ handle \in Handle
    /\ outcome \in Outcomes

\* How many steps the run must have reported, by where it is.
ReportsDue == IF pc = "reported" THEN idx + 1 ELSE idx

\* While a run goes on, the steps it has reported are exactly steps 1, 2, ...
\* up to the one it is at, each once and in order: no rollback loses a step,
\* repeats one or shifts the ones that follow (_apply_intervention's jump and
\* the list rebuilt from the checkpoint agree).
ReportedInOrder ==
    /\ \A i \in 1..Len(executed) : executed[i].num = i
    /\ pc \notin {"ending", "done"} => Len(executed) = ReportsDue

\* The lines among the first n that tell of a reported step.
StepLines(lines, n) == {i \in 1..n : lines[i].kind = "step"}

\* The k-th of them tells of the k-th report.
Tells(lines, reports) ==
    LET told == StepLines(lines, Len(lines)) IN
    /\ Cardinality(told) = Len(reports)
    /\ \A i \in told : lines[i].step = reports[Cardinality(StepLines(lines, i))].num

\* With the rolling context on, the step lines of the context are those of
\* the reported steps, in order: what the model is told it has done is what
\* has been reported, also after a rollback (two lists, restored separately).
ContextTellsReports == opts.rolling => Tells(context, executed)

\* A rollback wipes every trace of the step it resets from the context: the
\* retry and nudge lines of its earlier attempts, which come last, go, and the
\* lines of the steps before it stay.
RollbackIsClean ==
    [][ResetContext =>
         \E n \in 0..Len(context) :
            /\ context' = SubSeq(context, 1, n)
            /\ \A i \in 1..Len(context) : i <= n <=> context[i].step # stepNum]_vars

\* A step reported with an execution error used up all its retries first:
\* neither a detection nor a reset in between makes the loop move on early
\* with an error as the step's result.
RetriesBeforeGivingUp ==
    \A i \in 1..Len(executed) :
        executed[i].result = "error" => executed[i].retries = MaxRetries

\* Between the head of a step and its report, the newest checkpoint is the
\* one of this very step and holds what was reported before it, although the
\* cap evicts checkpoints: a reset can only ever return to the current step.
NewestIsCurrent ==
    opts.checkpointing /\ pc \in {"attempt", "executing", "observed", "report"} =>
        /\ Restorable(checkpoints)
        /\ RestoreLast(checkpoints).step = idx + 1
        /\ RestoreLast(checkpoints).executed = executed

\* A run never keeps more snapshots than the cap allows.
CheckpointsCapped == Cardinality(DOMAIN checkpoints) <= MaxCheckpoints

\* However the run ended, also by a cancellation in a model call, the
\* supervisor has forgotten it and its checkpoints are gone.
NothingLeftBehind == pc = "done" => ~registered /\ DOMAIN checkpoints = {}

\* A verified run reported every step of its plan and none of them failed; a
\* stopped one failed at its last report.
VerdictIsEarned ==
    /\ outcome = "verified" => Len(executed) = plan /\ AllStepsComplete
    /\ outcome = "stopped" =>
         \A i \in 1..Len(executed) :
             executed[i].status = "failed" <=> i = Len(executed)

\* The run implements what TaskRun promises: in particular the list of
\* reports the caller sees only ever grows, although resets replace it.
Promised == INSTANCE TaskRun WITH
    phase   <- CASE pc = "idle" -> "idle"
                 [] pc \in {"ending", "done"} -> "over"
                 [] OTHER -> "working",
    reports <- [i \in 1..Len(executed) |-> executed[i].status],
    verdict <- outcome

KeepsPromise == Promised!Promise

\* LIVENESS.  Every run that starts ends, however often the supervisor calls
\* it stalled.
RunEnds == pc = "started" ~> pc = "done"

\* What the documentation says of reset_context: "restore context from
\* checkpoint, then retry the step".  A step reported complete therefore has
\* been executed since it was last reset.
ResetStepsAreRetried ==
    \A i \in 1..Len(executed) :
        executed[i].status = "complete" => executed[i].result # "none"
=============================================================================
