------------------------------ MODULE LoopHandle ------------------------------
(***************************************************************************)
(* The detectors of a LoopHandle (backend/core/safety_supervisor.py) as    *)
(* operators on its state.  An observation returns the handle afterwards   *)
(* and the category detected, "none" for None and for the empty dict of a  *)
(* detection that was already made in the step.                            *)
(*                                                                         *)
(* A fingerprint is a value that is equal for equal payloads.  The trace   *)
(* of failed tools and the wording of messages are left out.               *)
(***************************************************************************)
EXTENDS Naturals, Sequences

CONSTANTS
    MaxRepeated,         \* max_repeated_tool_calls
    MaxFailed,           \* max_failed_tool_calls
    MaxNoProgress,       \* max_no_progress_steps
    MaxEmpty,            \* max_empty_or_malformed
    MaxGiveUp,           \* max_give_up_signals
    HistoryLength,       \* maxlen of _tool_call_history
    ProgressLength       \* maxlen of _progress_fingerprints

\* configure_detection_thresholds keeps every threshold at 1 or more.  A
\* threshold above the length of its deque would switch the detector off; the
\* defaults are far below.
ASSUME HandleAssumption ==
    /\ {MaxRepeated, MaxFailed, MaxNoProgress, MaxEmpty, MaxGiveUp} \subseteq Nat \ {0}
    /\ HistoryLength \in Nat /\ MaxRepeated <= HistoryLength
    /\ ProgressLength \in Nat /\ MaxNoProgress <= ProgressLength

Categories == {"no_response", "model_gave_up", "looping_tool_calls",
               "failed_actions", "stalled_progress"}
NoKey      == <<"none", 0>>

\* LoopHandle.__init__
NewHandle ==
    [current |-> 0, lastKey |-> NoKey, calls |-> << >>, marks |-> << >>,
     failed |-> 0, empty |-> 0, giveUps |-> 0]

\* append to a deque with a maxlen.  A slip: it keeps one entry less.
SlipPush(queue, item, maxlen) ==
    IF Len(queue) < maxlen - 1 THEN Append(queue, item) ELSE Append(Tail(queue), item)

Push(queue, item, maxlen) ==
    IF Len(queue) < maxlen THEN Append(queue, item) ELSE Append(Tail(queue), item)

\* the last n entries exist and are one and the same
Repeats(queue, n) ==
    /\ Len(queue) >= n
    /\ \A i \in (Len(queue) - n + 1)..Len(queue) : queue[i] = queue[Len(queue)]

Seen(h, category) == [handle |-> h, found |-> category]

\* _build_detection_intervention: a category is raised once until the step
\* changes, a tool succeeds or another category is raised.
Detect(h, category) ==
    LET key == <<category, h.current>> IN
    IF h.lastKey = key THEN Seen(h, "none")
                       ELSE Seen([h EXCEPT !.lastKey = key], category)

Heartbeat(h, step) ==
    [h EXCEPT !.current = step,
              !.lastKey = IF h.current # step THEN NoKey ELSE @]

\* Both counters first, then the empty outputs before the signals to give up;
\* the second count is compared whether or not this output gives up.  A slip: it
\* is compared only when it does.
SlipObserveModelOutput(h, isEmpty, givesUp) ==
    LET seen == [h EXCEPT !.empty   = IF isEmpty THEN @ + 1 ELSE 0,
                          !.giveUps = IF givesUp THEN @ + 1 ELSE @]
    IN CASE seen.empty >= MaxEmpty -> Detect(seen, "no_response")
         [] seen.empty < MaxEmpty /\ givesUp /\ seen.giveUps >= MaxGiveUp ->
                Detect(seen, "model_gave_up")
         [] OTHER -> Seen(seen, "none")

ObserveModelOutput(h, isEmpty, givesUp) ==
    LET seen == [h EXCEPT !.empty   = IF isEmpty THEN @ + 1 ELSE 0,
                          !.giveUps = IF givesUp THEN @ + 1 ELSE @]
    IN CASE seen.empty >= MaxEmpty -> Detect(seen, "no_response")
         [] seen.empty < MaxEmpty /\ seen.giveUps >= MaxGiveUp ->
                Detect(seen, "model_gave_up")
         [] OTHER -> Seen(seen, "none")

ObserveToolCall(h, call) ==
    LET seen == [h EXCEPT !.calls = Push(@, call, HistoryLength)]
    IN IF Repeats(seen.calls, MaxRepeated)
       THEN Detect(seen, "looping_tool_calls")
       ELSE Seen(seen, "none")

\* A fingerprint is appended; the same one too often means no progress.
Progress(h, mark) ==
    LET seen == [h EXCEPT !.marks = Push(@, mark, ProgressLength)]
    IN IF Repeats(seen.marks, MaxNoProgress)
       THEN Detect(seen, "stalled_progress")
       ELSE Seen(seen, "none")

\* A slip: the failure that reaches the limit is let through.
SlipObserveToolFailure(h) ==
    LET seen == [h EXCEPT !.failed = @ + 1]
    IN IF seen.failed > MaxFailed
       THEN Detect(seen, "failed_actions")
       ELSE Seen(seen, "none")

ObserveToolFailure(h) ==
    LET seen == [h EXCEPT !.failed = @ + 1]
    IN IF seen.failed >= MaxFailed
       THEN Detect(seen, "failed_actions")
       ELSE Seen(seen, "none")

ObserveToolSuccess(h, output) ==
    Progress([h EXCEPT !.failed = 0, !.lastKey = NoKey], <<"output", output>>)

ObserveStepResult(h, result) == Progress(h, <<"step_result", result>>)
=============================================================================
