-------------------------- MODULE StepExecutionProofs --------------------------
(***************************************************************************)
(* Proofs about StepExecution for every value of its constants: lengths of *)
(* plans and deques, thresholds, calls, responses and outputs.  IInv is    *)
(* the inductive invariant: TypeOK with what the handle remembers of the   *)
(* calls that were executed and of the detections that were made.          *)
(***************************************************************************)
EXTENDS StepExecution, SequenceTheorems, TLAPS

Results == Answers \cup Special \cup {NoResult}
Keys    == (Categories \cup {"none"}) \X Nat
Marks   == ({"output"} \X Outputs) \cup ({"step_result"} \X Results)
Handle  ==
    [current : Nat, lastKey : Keys, calls : Seq(Calls), marks : Seq(Marks),
     failed : Nat, empty : Nat, giveUps : Nat]

\* What an observation may return.
Observations == [handle : Handle, found : Categories \cup {"none"}]

\* While a step goes on, nothing has been detected in it: a detection leads
\* to the end of the step.
NothingDetected ==
    \/ pc \in {"entered", "thinking", "calling", "running"}
    \/ pc = "attempt" /\ ~pending
    \/ pc = "returned" /\ result # "paused"
    => handle.lastKey = NoKey

\* The last n entries of a deque are item.
EndsWith(queue, n, item) ==
    /\ n <= Len(queue)
    /\ \A i \in (Len(queue) - n + 1)..Len(queue) : queue[i] = item

\* The deque of tool calls tells how often the last one was executed in a row;
\* a call that was observed and not executed only adds to the same.
CallsTell ==
    /\ NoRunaway
    /\ inARow > 0 => EndsWith(handle.calls, inARow, lastCall)
    /\ MaxRepeated > 1 /\ handle.calls # << >> => inARow > 0

\* A model that gave up does not get to its tool calls.
GaveUpBefore == pc \in {"calling", "running"} => handle.giveUps < MaxGiveUp

\* An attempt begins without iterations and failures.
FreshAttempt == pc = "entered" => iteration = 0 /\ failedHere = 0

IInv ==
    /\ TypeOK
    /\ handle \in Handle
    /\ NothingDetected
    /\ CallsTell
    /\ FailuresStop
    /\ FreshAttempt
    /\ GaveUpBefore

-----------------------------------------------------------------------------
(* Deques *)

\* new is queue with item appended, without its oldest entry if it was full.
Pushed(queue, item, max, new) ==
    /\ Len(new) \in {Len(queue), Len(queue) + 1}
    /\ Len(new) > 0 /\ Len(new) <= max
    /\ Len(queue) < max => Len(new) = Len(queue) + 1
    /\ new[Len(new)] = item
    /\ \A i \in 1..(Len(new) - 1) : new[i] = queue[i + Len(queue) + 1 - Len(new)]

\* Push appends to a deque, and a deque never outgrows its length.
LEMMA PushProperties ==
    ASSUME NEW S, NEW queue \in Seq(S), NEW item \in S,
           NEW max \in Nat \ {0}, Len(queue) <= max
    PROVE  /\ Push(queue, item, max) \in Seq(S)
           /\ Pushed(queue, item, max, Push(queue, item, max))
<1>1. CASE Len(queue) < max
    BY <1>1, AppendProperties DEF Push, Pushed
<1>2. CASE Len(queue) = max
  <2>1. queue # << >> /\ Tail(queue) \in Seq(S) /\ Len(Tail(queue)) = Len(queue) - 1
      BY <1>2, HeadTailProperties, EmptySeq
  <2>2. \A i \in 1..Len(Tail(queue)) : Tail(queue)[i] = queue[i + 1]
      BY <2>1, HeadTailProperties
  <2>3. Push(queue, item, max) = Append(Tail(queue), item)
      BY <1>2 DEF Push
  <2> QED BY <1>2, <2>1, <2>2, <2>3, AppendProperties DEF Pushed
<1> QED BY <1>1, <1>2

\* One more of the same at the end.
LEMMA PushSame ==
    ASSUME NEW S, NEW queue \in Seq(S), NEW item \in S,
           NEW max \in Nat \ {0}, Len(queue) <= max,
           NEW n \in Nat, n < max, EndsWith(queue, n, item)
    PROVE  EndsWith(Push(queue, item, max), n + 1, item)
<1> DEFINE new == Push(queue, item, max)
<1>1. /\ new \in Seq(S)
      /\ Len(new) \in {Len(queue), Len(queue) + 1}
      /\ Len(queue) < max => Len(new) = Len(queue) + 1
      /\ Len(new) > 0
      /\ new[Len(new)] = item
      /\ \A i \in 1..(Len(new) - 1) : new[i] = queue[i + Len(queue) + 1 - Len(new)]
  <2>1. new \in Seq(S) /\ Pushed(queue, item, max, new)
      BY PushProperties
  <2> HIDE DEF new
  <2> QED BY <2>1 DEF Pushed
<1>0. Len(queue) \in Nat /\ Len(new) \in Nat
    BY <1>1, LenProperties
<1> HIDE DEF new
<1>2. n + 1 <= Len(new)
    BY <1>0, <1>1 DEF EndsWith
<1>3. ASSUME NEW i \in (Len(new) - n)..(Len(new) - 1)
      PROVE  new[i] = item
  <2>1. i \in 1..(Len(new) - 1)
      BY <1>0, <1>1, <1>2
  <2>2. new[i] = queue[i + Len(queue) + 1 - Len(new)]
      BY <1>1, <2>1
  <2>3. i + Len(queue) + 1 - Len(new) \in (Len(queue) - n + 1)..Len(queue)
      BY <1>0, <1>1, <1>2
  <2> QED BY <2>2, <2>3 DEF EndsWith
<1>4. \A i \in (Len(new) - n)..Len(new) : new[i] = item
    BY <1>0, <1>1, <1>3
<1> QED BY <1>0, <1>1, <1>2, <1>4 DEF EndsWith, new

-----------------------------------------------------------------------------
(* Observations *)

LEMMA NewHandleType == NewHandle \in Handle /\ NewHandle.lastKey = NoKey
BY DEF NewHandle, Handle, Keys, NoKey

LEMMA HeartbeatType ==
    ASSUME NEW h \in Handle, NEW n \in Nat
    PROVE  /\ Heartbeat(h, n) \in Handle
           /\ Heartbeat(h, n).current = n
           /\ h.current # n => Heartbeat(h, n).lastKey = NoKey
           /\ Heartbeat(h, n).calls = h.calls /\ Heartbeat(h, n).marks = h.marks
           /\ Heartbeat(h, n).failed = h.failed /\ Heartbeat(h, n).giveUps = h.giveUps
           /\ Heartbeat(h, n).empty = h.empty
BY DEF Heartbeat, Handle, Keys, NoKey

\* With nothing detected in the step, a detection is not swallowed.
LEMMA DetectProperties ==
    ASSUME NEW h \in Handle, NEW c \in Categories
    PROVE  /\ Detect(h, c) \in Observations
           /\ h.lastKey = NoKey => Detect(h, c).found # "none"
           /\ Detect(h, c).handle.current = h.current
           /\ Detect(h, c).handle.calls = h.calls /\ Detect(h, c).handle.marks = h.marks
           /\ Detect(h, c).handle.failed = h.failed
           /\ Detect(h, c).handle.giveUps = h.giveUps
<1> DEFINE key == <<c, h.current>>
<1>1. key \in Keys /\ key # NoKey /\ c # "none"
    BY DEF Handle, Keys, NoKey, Categories
<1> HIDE DEF key
<1>2. Detect(h, c) = IF h.lastKey = key THEN Seen(h, "none")
                     ELSE Seen([h EXCEPT !.lastKey = key], c)
    BY Zenon DEF Detect, key
<1> DEFINE now == [h EXCEPT !.lastKey = key]
<1>3. /\ now \in Handle /\ now.current = h.current
      /\ now.calls = h.calls /\ now.marks = h.marks
      /\ now.failed = h.failed /\ now.giveUps = h.giveUps
    BY <1>1 DEF Handle
<1> HIDE DEF now
<1>4. CASE h.lastKey = key
    BY <1>1, <1>2, <1>4 DEF Seen, Observations
<1>5. CASE h.lastKey # key
  <2>1. Detect(h, c) = Seen(now, c)
      BY <1>2, <1>5 DEF now
  <2> QED BY <1>1, <1>3, <2>1 DEF Seen, Observations
<1> QED BY <1>4, <1>5

LEMMA ObserveModelOutputProperties ==
    ASSUME NEW h \in Handle, NEW isEmpty \in BOOLEAN, NEW givesUp \in BOOLEAN
    PROVE  LET seen == ObserveModelOutput(h, isEmpty, givesUp) IN
             /\ seen \in Observations
             /\ seen.handle.current = h.current
             /\ seen.handle.calls = h.calls /\ seen.handle.marks = h.marks
             /\ seen.handle.failed = h.failed
             /\ h.lastKey = NoKey /\ seen.found = "none" =>
                  seen.handle.lastKey = NoKey /\ seen.handle.giveUps < MaxGiveUp
<1> DEFINE empties == IF isEmpty THEN h.empty + 1 ELSE 0
           signals == IF givesUp THEN h.giveUps + 1 ELSE h.giveUps
           now == [h EXCEPT !.empty = empties, !.giveUps = signals]
<1>0. empties \in Nat /\ signals \in Nat
    BY DEF Handle
<1> HIDE DEF empties, signals
<1>1. /\ now \in Handle /\ now.lastKey = h.lastKey /\ now.current = h.current
      /\ now.calls = h.calls /\ now.marks = h.marks /\ now.failed = h.failed
    BY <1>0 DEF Handle
<1> HIDE DEF now
<1>2. now.empty \in Nat /\ now.giveUps \in Nat /\ MaxEmpty \in Nat /\ MaxGiveUp \in Nat
  <2>1. now.empty \in Nat /\ now.giveUps \in Nat
      BY <1>1 DEF Handle
  <2>2. MaxEmpty \in Nat /\ MaxGiveUp \in Nat
      BY HandleAssumption
  <2> QED BY <2>1, <2>2
<1>3. CASE now.empty >= MaxEmpty
  <2>1. ObserveModelOutput(h, isEmpty, givesUp) = Detect(now, "no_response")
      BY <1>2, <1>3 DEF ObserveModelOutput, now, empties, signals
  <2> QED BY <1>1, <2>1, DetectProperties DEF Categories
<1>4. CASE now.empty < MaxEmpty /\ now.giveUps >= MaxGiveUp
  <2>1. ObserveModelOutput(h, isEmpty, givesUp) = Detect(now, "model_gave_up")
      BY <1>2, <1>4 DEF ObserveModelOutput, now, empties, signals
  <2> QED BY <1>1, <2>1, DetectProperties DEF Categories
<1>5. CASE now.empty < MaxEmpty /\ now.giveUps < MaxGiveUp
  <2>1. ObserveModelOutput(h, isEmpty, givesUp) = Seen(now, "none")
      BY <1>2, <1>5 DEF ObserveModelOutput, now, empties, signals
  <2> QED BY <1>1, <1>5, <2>1 DEF Seen, Observations
<1> QED BY <1>2, <1>3, <1>4, <1>5

LEMMA ObserveToolCallProperties ==
    ASSUME NEW h \in Handle, NEW call \in Calls, Len(h.calls) <= HistoryLength
    PROVE  LET seen == ObserveToolCall(h, call) IN
             /\ seen \in Observations
             /\ seen.handle.current = h.current
             /\ seen.handle.marks = h.marks
             /\ seen.handle.failed = h.failed /\ seen.handle.giveUps = h.giveUps
             /\ seen.handle.calls = Push(h.calls, call, HistoryLength)
             /\ h.lastKey = NoKey =>
                  /\ seen.found = "none" => seen.handle.lastKey = NoKey
                  /\ seen.found = "none" <=> ~Repeats(seen.handle.calls, MaxRepeated)
<1> DEFINE new == Push(h.calls, call, HistoryLength)
           now == [h EXCEPT !.calls = new]
<1>1. HistoryLength \in Nat \ {0}
    BY HandleAssumption
<1>2. new \in Seq(Calls)
    BY <1>1, PushProperties DEF Handle, Pushed
<1> HIDE DEF new
<1>3. /\ now \in Handle /\ now.lastKey = h.lastKey /\ now.current = h.current
      /\ now.calls = new /\ now.marks = h.marks /\ now.failed = h.failed
      /\ now.giveUps = h.giveUps
    BY <1>2 DEF Handle
<1> HIDE DEF now
<1>4. CASE Repeats(new, MaxRepeated)
  <2>1. ObserveToolCall(h, call) = Detect(now, "looping_tool_calls")
      BY <1>3, <1>4 DEF ObserveToolCall, now, new
  <2> QED BY <1>3, <1>4, <2>1, DetectProperties DEF Categories, new
<1>5. CASE ~Repeats(new, MaxRepeated)
  <2>1. ObserveToolCall(h, call) = Seen(now, "none")
      BY <1>3, <1>5 DEF ObserveToolCall, now, new
  <2> QED BY <1>3, <1>5, <2>1 DEF Seen, Observations, new
<1> QED BY <1>4, <1>5

LEMMA ProgressProperties ==
    ASSUME NEW h \in Handle, NEW mark \in Marks, Len(h.marks) <= ProgressLength
    PROVE  LET seen == Progress(h, mark) IN
             /\ seen \in Observations
             /\ seen.handle.current = h.current
             /\ seen.handle.calls = h.calls
             /\ Len(seen.handle.marks) <= ProgressLength
             /\ seen.handle.failed = h.failed /\ seen.handle.giveUps = h.giveUps
             /\ h.lastKey = NoKey /\ seen.found = "none" => seen.handle.lastKey = NoKey
<1> DEFINE new == Push(h.marks, mark, ProgressLength)
           now == [h EXCEPT !.marks = new]
<1>1. ProgressLength \in Nat \ {0}
    BY HandleAssumption
<1>2. new \in Seq(Marks) /\ Len(new) <= ProgressLength
    BY <1>1, PushProperties DEF Handle, Pushed
<1> HIDE DEF new
<1>3. /\ now \in Handle /\ now.lastKey = h.lastKey /\ now.current = h.current
      /\ now.calls = h.calls /\ now.marks = new /\ now.failed = h.failed
      /\ now.giveUps = h.giveUps
    BY <1>2 DEF Handle
<1> HIDE DEF now
<1>4. Progress(h, mark) = IF Repeats(now.marks, MaxNoProgress)
                          THEN Detect(now, "stalled_progress") ELSE Seen(now, "none")
    BY DEF Progress, now, new
<1>5. CASE Repeats(now.marks, MaxNoProgress)
    BY <1>2, <1>3, <1>4, <1>5, DetectProperties DEF Categories
<1>6. CASE ~Repeats(now.marks, MaxNoProgress)
    BY <1>2, <1>3, <1>4, <1>6 DEF Seen, Observations
<1> QED BY <1>5, <1>6

LEMMA ObserveToolFailureProperties ==
    ASSUME NEW h \in Handle
    PROVE  LET seen == ObserveToolFailure(h) IN
             /\ seen \in Observations
             /\ seen.handle.current = h.current
             /\ seen.handle.calls = h.calls /\ seen.handle.marks = h.marks
             /\ seen.handle.giveUps = h.giveUps
             /\ h.lastKey = NoKey /\ seen.found = "none" =>
                  seen.handle.lastKey = NoKey /\ seen.handle.failed < MaxFailed
<1> DEFINE now == [h EXCEPT !.failed = @ + 1]
<1>1. /\ now \in Handle /\ now.lastKey = h.lastKey /\ now.current = h.current
      /\ now.calls = h.calls /\ now.marks = h.marks /\ now.giveUps = h.giveUps
    BY DEF Handle
<1>2. now.failed \in Nat /\ MaxFailed \in Nat
    BY <1>1, HandleAssumption DEF Handle
<1>3. ObserveToolFailure(h) = IF now.failed >= MaxFailed
                              THEN Detect(now, "failed_actions") ELSE Seen(now, "none")
    BY DEF ObserveToolFailure
<1> HIDE DEF now
<1>4. CASE now.failed >= MaxFailed
    BY <1>1, <1>3, <1>4, DetectProperties DEF Categories
<1>5. CASE now.failed < MaxFailed
    BY <1>1, <1>2, <1>3, <1>5 DEF Seen, Observations
<1> QED BY <1>2, <1>4, <1>5

LEMMA ObserveToolSuccessProperties ==
    ASSUME NEW h \in Handle, NEW output \in Outputs, Len(h.marks) <= ProgressLength
    PROVE  LET seen == ObserveToolSuccess(h, output) IN
             /\ seen \in Observations
             /\ seen.handle.current = h.current
             /\ seen.handle.calls = h.calls
             /\ Len(seen.handle.marks) <= ProgressLength
             /\ seen.handle.giveUps = h.giveUps
             /\ seen.handle.failed < MaxFailed
             /\ seen.found = "none" => seen.handle.lastKey = NoKey
<1> DEFINE now == [h EXCEPT !.failed = 0, !.lastKey = NoKey]
<1>1. /\ now \in Handle /\ now.lastKey = NoKey /\ now.current = h.current
      /\ now.calls = h.calls /\ now.marks = h.marks /\ now.giveUps = h.giveUps
      /\ now.failed = 0
    BY DEF Handle, Keys, NoKey
<1>0. 0 < MaxFailed
    BY HandleAssumption
<1>2. <<"output", output>> \in Marks
    BY DEF Marks
<1>3. ObserveToolSuccess(h, output) = Progress(now, <<"output", output>>)
    BY DEF ObserveToolSuccess
<1> HIDE DEF now
<1> QED BY <1>0, <1>1, <1>2, <1>3, ProgressProperties

LEMMA ObserveStepResultProperties ==
    ASSUME NEW h \in Handle, NEW text \in Results, Len(h.marks) <= ProgressLength
    PROVE  LET seen == ObserveStepResult(h, text) IN
             /\ seen \in Observations
             /\ seen.handle.current = h.current
             /\ seen.handle.calls = h.calls
             /\ Len(seen.handle.marks) <= ProgressLength
             /\ seen.handle.failed = h.failed /\ seen.handle.giveUps = h.giveUps
             /\ h.lastKey = NoKey /\ seen.found = "none" => seen.handle.lastKey = NoKey
<1>1. <<"step_result", text>> \in Marks
    BY DEF Marks
<1>2. ObserveStepResult(h, text) = Progress(h, <<"step_result", text>>)
    BY DEF ObserveStepResult
<1> QED BY <1>1, <1>2, ProgressProperties

-----------------------------------------------------------------------------
(* The invariant *)

LEMMA InitEstablishes == Init => IInv
<1> SUFFICES ASSUME Init PROVE IInv
    OBVIOUS
<1>1. NewHandle \in Handle /\ NewHandle.lastKey = NoKey
    BY NewHandleType
<1>2. 0 < MaxRepeated /\ 0 < MaxGiveUp
    BY HandleAssumption
<1>3. HistoryLength \in Nat /\ ProgressLength \in Nat
    BY HandleAssumption
<1>4. TypeOK
  <2>1. NewHandle.calls = << >> /\ NewHandle.marks = << >> /\ NewHandle.current = 0
      BY DEF NewHandle
  <2>2. /\ NewHandle.failed \in Nat /\ NewHandle.empty \in Nat /\ NewHandle.giveUps \in Nat
        /\ NewHandle.calls \in Seq(Calls)
      BY <1>1 DEF Handle
  <2>3. /\ todo = << >> /\ todo \in Seq(Calls)
        /\ handle.calls \in Seq(Calls) /\ handle.current = step
        /\ Len(handle.calls) <= HistoryLength /\ Len(handle.marks) <= ProgressLength
      BY <1>3, <2>1 DEF Init
  <2>4. step \in 0..Steps /\ attempt \in 0..MaxRetries /\ iteration \in 0..MaxIterations
      BY StepAssumption DEF Init
  <2>5. {handle.failed, handle.empty, handle.giveUps, inARow, failedHere} \subseteq Nat
      BY <2>2 DEF Init
  <2> QED BY <2>3, <2>4, <2>5 DEF Init, TypeOK, Places
<1>5. CallsTell
    BY <1>2 DEF Init, CallsTell, NoRunaway, NewHandle
<1> QED BY <1>1, <1>4, <1>5
        DEF Init, IInv, NothingDetected, FailuresStop, Looping, FreshAttempt, GaveUpBefore

\* The actions that observe nothing.
LEMMA QuietKeeps ==
    ASSUME IInv,
           PlanDone \/ Reset \/ Enter \/ FastPath \/ ChooseTools \/ BadArguments
             \/ Abort \/ Stall \/ UNCHANGED vars
    PROVE  IInv'
<1> USE DEF PlanDone, Reset, Enter, FastPath, ChooseTools, Ask, BadArguments, Abort,
            Stall, Returns, vars, tools, history
<1>1. TypeOK'
  <2>1. 0 \in Nat /\ 0 \in 0..MaxIterations /\ << >> \in Seq(Calls)
      BY StepAssumption
  <2>2. ChooseTools => iteration' \in 0..MaxIterations
      BY StepAssumption DEF IInv, FreshAttempt, TypeOK
  <2> QED BY <2>1, <2>2 DEF IInv, TypeOK, Places, Special
<1>2. (handle \in Handle)'
    BY DEF IInv
<1>3. NothingDetected'
    BY DEF IInv, NothingDetected, TypeOK
<1>4. CallsTell'
    BY DEF IInv, CallsTell, NoRunaway
<1>5. FailuresStop' /\ FreshAttempt' /\ GaveUpBefore'
    BY DEF IInv, FailuresStop, Looping, FreshAttempt, GaveUpBefore
<1> QED BY <1>1, <1>2, <1>3, <1>4, <1>5 DEF IInv

LEMMA BeginStepKeeps ==
    ASSUME IInv, BeginStep
    PROVE  IInv'
<1>1. handle' \in Handle /\ handle'.current = step' /\ handle'.lastKey = NoKey
  <2>1. handle \in Handle /\ step + 1 \in Nat /\ handle.current # step + 1
      BY StepAssumption DEF IInv, TypeOK
  <2> QED BY <2>1, HeartbeatType DEF BeginStep
<1>2. /\ handle'.calls = handle.calls /\ handle'.marks = handle.marks
      /\ handle'.failed = handle.failed /\ handle'.giveUps = handle.giveUps
      /\ handle'.empty = handle.empty
  <2>1. handle \in Handle /\ step + 1 \in Nat
      BY StepAssumption DEF IInv, TypeOK
  <2> QED BY <2>1, HeartbeatType DEF BeginStep
<1>3. TypeOK'
  <2>1. step' \in 0..Steps /\ attempt' \in 0..MaxRetries
      BY StepAssumption DEF IInv, TypeOK, BeginStep
  <2>2. pc' = "attempt" /\ result' = NoResult /\ UNCHANGED <<tools, pending, history>>
      BY DEF BeginStep
  <2> QED BY <1>1, <1>2, <2>1, <2>2 DEF IInv, TypeOK, tools, history, Places
<1>4. CallsTell'
    BY <1>2 DEF IInv, CallsTell, NoRunaway, BeginStep, history
<1> QED BY <1>1, <1>3, <1>4 DEF IInv, BeginStep, NothingDetected, FailuresStop, Looping,
                                FreshAttempt, GaveUpBefore

\* What every observation keeps of the handle's type.
LEMMA ObservedType ==
    ASSUME IInv, NEW seen \in Observations, Observed(seen),
           seen.handle.current = handle.current,
           Len(seen.handle.calls) <= HistoryLength,
           Len(seen.handle.marks) <= ProgressLength
    PROVE  /\ handle' \in Handle /\ handle'.current = step
           /\ handle'.calls \in Seq(Calls) /\ Len(handle'.calls) <= HistoryLength
           /\ Len(handle'.marks) <= ProgressLength
           /\ {handle'.failed, handle'.empty, handle'.giveUps} \subseteq Nat
           /\ pending' \in BOOLEAN
<1>1. handle' = seen.handle /\ handle' \in Handle
    BY DEF Observed, Observations
<1>2. pending' \in BOOLEAN
    BY DEF Observed
<1>3. handle'.calls \in Seq(Calls) /\ {handle'.failed, handle'.empty, handle'.giveUps} \subseteq Nat
    BY <1>1 DEF Handle
<1> QED BY <1>1, <1>2, <1>3 DEF IInv, TypeOK

\* A detection ends the step, whatever was being observed, as long as the
\* deque of calls still tells.
LEMMA PausedKeeps ==
    ASSUME IInv, NEW seen \in Observations, Paused(seen),
           seen.handle.current = handle.current,
           Len(seen.handle.calls) <= HistoryLength,
           Len(seen.handle.marks) <= ProgressLength,
           UNCHANGED <<step, attempt, tools, lastCall, inARow>>,
           failedHere' \in Nat,
           CallsTell'
    PROVE  IInv'
<1>1. /\ handle' \in Handle /\ handle'.current = step
      /\ handle'.calls \in Seq(Calls) /\ Len(handle'.calls) <= HistoryLength
      /\ Len(handle'.marks) <= ProgressLength
      /\ {handle'.failed, handle'.empty, handle'.giveUps} \subseteq Nat
      /\ pending' \in BOOLEAN
    BY ObservedType DEF Paused
<1>2. pc' = "returned" /\ result' = "paused"
    BY DEF Paused, Returns
<1>3. TypeOK'
    BY <1>1, <1>2 DEF IInv, TypeOK, tools, Places, Special
<1> QED BY <1>1, <1>2, <1>3 DEF IInv, NothingDetected, FailuresStop, Looping,
                                FreshAttempt, GaveUpBefore

\* The model was asked and the attempt is over with it.
LEMMA ModelOutputKeeps ==
    ASSUME IInv, pc = "thinking",
           NEW isEmpty \in BOOLEAN, NEW givesUp \in BOOLEAN, NEW text \in Results,
           \/ Paused(ObserveModelOutput(handle, isEmpty, givesUp))
           \/ Unpaused(ObserveModelOutput(handle, isEmpty, givesUp)) /\ Returns(text),
           UNCHANGED <<step, attempt, tools, history>>
    PROVE  IInv'
<1> DEFINE seen == ObserveModelOutput(handle, isEmpty, givesUp)
<1>2. /\ seen \in Observations
      /\ seen.handle.current = handle.current
      /\ seen.handle.calls = handle.calls /\ seen.handle.marks = handle.marks
      /\ handle.lastKey = NoKey /\ seen.found = "none" => seen.handle.lastKey = NoKey
    BY ObserveModelOutputProperties DEF IInv
<1>3. \/ Paused(seen)
      \/ Unpaused(seen) /\ Returns(text)
    OBVIOUS
<1> HIDE DEF seen
<1>4. UNCHANGED <<step, attempt, tools, history>> /\ pc = "thinking"
    OBVIOUS
<1>5. handle' = seen.handle
    BY <1>3 DEF Paused, Unpaused, Observed
<1>6. CallsTell'
    BY <1>2, <1>4, <1>5 DEF IInv, CallsTell, NoRunaway, history
<1>7. /\ Len(seen.handle.calls) <= HistoryLength
      /\ Len(seen.handle.marks) <= ProgressLength
    BY <1>2 DEF IInv, TypeOK
<1>8. CASE Paused(seen)
  <2>1. failedHere' \in Nat
      BY <1>4 DEF history, IInv, TypeOK
  <2> QED BY <1>2, <1>4, <1>6, <1>7, <1>8, <2>1, PausedKeeps DEF history
<1>9. CASE Unpaused(seen) /\ Returns(text)
  <2>1. /\ handle' \in Handle /\ handle'.current = step
        /\ handle'.calls \in Seq(Calls) /\ Len(handle'.calls) <= HistoryLength
        /\ Len(handle'.marks) <= ProgressLength
        /\ {handle'.failed, handle'.empty, handle'.giveUps} \subseteq Nat
        /\ pending' \in BOOLEAN
      BY <1>2, <1>7, <1>9, ObservedType DEF Unpaused
  <2>2. pc' = "returned" /\ result' \in Results
      BY <1>9 DEF Returns
  <2>3. TypeOK'
      BY <1>4, <2>1, <2>2 DEF IInv, TypeOK, tools, history, Places, Results
  <2>4. NothingDetected'
      BY <1>2, <1>4, <1>5, <1>9, <2>2 DEF IInv, NothingDetected, Unpaused
  <2> QED BY <1>6, <2>1, <2>2, <2>3, <2>4 DEF IInv, FailuresStop, Looping,
                                              FreshAttempt, GaveUpBefore
<1> QED BY <1>3, <1>8, <1>9

LEMMA ModelRaisesKeeps ==
    ASSUME IInv, ModelRaises
    PROVE  IInv'
<1>1. PICK text \in {"error", "overflow"} :
        \/ Paused(ObserveModelOutput(handle, TRUE, FALSE))
        \/ Unpaused(ObserveModelOutput(handle, TRUE, FALSE)) /\ Returns(text)
    BY DEF ModelRaises
<1>2. text \in Results
    BY DEF Results, Special
<1>3. pc = "thinking" /\ UNCHANGED <<step, attempt, tools, history>>
    BY DEF ModelRaises
<1> QED BY <1>1, <1>2, <1>3, ModelOutputKeeps

LEMMA ModelAnswersKeeps ==
    ASSUME IInv, ModelAnswers
    PROVE  IInv'
<1>1. PICK text \in Answers \cup {"empty"}, givesUp \in BOOLEAN :
        \/ Paused(ObserveModelOutput(handle, text = "empty", givesUp))
        \/ Unpaused(ObserveModelOutput(handle, text = "empty", givesUp)) /\ Returns(text)
    BY DEF ModelAnswers
<1>2. text \in Results /\ (text = "empty") \in BOOLEAN
    BY DEF Results, Special
<1>3. pc = "thinking" /\ UNCHANGED <<step, attempt, tools, history>>
    BY DEF ModelAnswers
<1> QED BY <1>1, <1>2, <1>3, ModelOutputKeeps

LEMMA ModelCallsToolsKeeps ==
    ASSUME IInv, ModelCallsTools
    PROVE  IInv'
<1>1. PICK batch \in Batches, givesUp \in BOOLEAN :
        LET seen == ObserveModelOutput(handle, FALSE, givesUp) IN
          \/ Paused(seen) /\ UNCHANGED todo
          \/ Unpaused(seen) /\ todo' = batch /\ pc' = "calling" /\ UNCHANGED result
    BY DEF ModelCallsTools
<1> DEFINE seen == ObserveModelOutput(handle, FALSE, givesUp)
<1>2. /\ seen \in Observations
      /\ seen.handle.current = handle.current
      /\ seen.handle.calls = handle.calls /\ seen.handle.marks = handle.marks
      /\ seen.handle.failed = handle.failed
      /\ handle.lastKey = NoKey /\ seen.found = "none" =>
           seen.handle.lastKey = NoKey /\ seen.handle.giveUps < MaxGiveUp
    BY ObserveModelOutputProperties DEF IInv
<1>3. \/ Paused(seen) /\ UNCHANGED todo
      \/ Unpaused(seen) /\ todo' = batch /\ pc' = "calling" /\ UNCHANGED result
    BY <1>1
<1> HIDE DEF seen
<1>4. UNCHANGED <<step, attempt, iteration, offered, history>> /\ pc = "thinking" /\ offered
    BY DEF ModelCallsTools
<1>5. handle' = seen.handle
    BY <1>3 DEF Paused, Unpaused, Observed
<1>6. CallsTell'
    BY <1>2, <1>4, <1>5 DEF IInv, CallsTell, NoRunaway, history
<1>7. /\ Len(seen.handle.calls) <= HistoryLength
      /\ Len(seen.handle.marks) <= ProgressLength
    BY <1>2 DEF IInv, TypeOK
<1>8. CASE Paused(seen) /\ UNCHANGED todo
  <2>1. failedHere' \in Nat
      BY <1>4 DEF history, IInv, TypeOK
  <2> QED BY <1>2, <1>4, <1>6, <1>7, <1>8, <2>1, PausedKeeps DEF history, tools
<1>9. CASE Unpaused(seen) /\ todo' = batch /\ pc' = "calling" /\ UNCHANGED result
  <2>1. /\ handle' \in Handle /\ handle'.current = step
        /\ handle'.calls \in Seq(Calls) /\ Len(handle'.calls) <= HistoryLength
        /\ Len(handle'.marks) <= ProgressLength
        /\ {handle'.failed, handle'.empty, handle'.giveUps} \subseteq Nat
        /\ pending' \in BOOLEAN
      BY <1>2, <1>7, <1>9, ObservedType DEF Unpaused
  <2>2. todo' \in Seq(Calls) /\ todo' # << >>
      BY <1>9, StepAssumption
  <2>3. TypeOK'
      BY <1>4, <1>9, <2>1, <2>2 DEF IInv, TypeOK, history, Places
  <2>4. handle'.lastKey = NoKey /\ handle'.giveUps < MaxGiveUp
      BY <1>2, <1>4, <1>5, <1>9 DEF IInv, NothingDetected, Unpaused
  <2>5. FailuresStop'
      BY <1>2, <1>4, <1>5, <1>9 DEF IInv, FailuresStop, Looping, history
  <2> QED BY <1>6, <1>9, <2>1, <2>3, <2>4, <2>5
          DEF IInv, NothingDetected, FreshAttempt, GaveUpBefore
<1> QED BY <1>3, <1>8, <1>9

\* A deque ends with some item n times or more.
LEMMA EndsWithFewer ==
    ASSUME NEW queue, Len(queue) \in Nat, NEW item, NEW m \in Nat, NEW n \in Nat,
           m <= n, EndsWith(queue, n, item)
    PROVE  EndsWith(queue, m, item)
BY DEF EndsWith

\* The call is executed, and with it the deque has it inARow' times at its
\* end; it would have been found to repeat, had that been the limit.
LEMMA ExecutedTells ==
    ASSUME IInv, NEW call \in Calls,
           handle'.calls = Push(handle.calls, call, HistoryLength),
           ~Repeats(handle'.calls, MaxRepeated),
           lastCall' = call,
           inARow' = IF call = lastCall THEN inARow + 1 ELSE 1
    PROVE  CallsTell'
<1>1. /\ HistoryLength \in Nat \ {0} /\ MaxRepeated \in Nat \ {0}
      /\ MaxRepeated <= HistoryLength
      /\ handle.calls \in Seq(Calls) /\ Len(handle.calls) <= HistoryLength
      /\ inARow \in Nat
  <2>1. /\ HistoryLength \in Nat \ {0} /\ MaxRepeated \in Nat \ {0}
        /\ MaxRepeated <= HistoryLength
      BY HandleAssumption
  <2> QED BY <2>1 DEF IInv, TypeOK
<1>2. Pushed(handle.calls, call, HistoryLength, handle'.calls)
    BY <1>1, PushProperties
<1>3. Len(handle'.calls) \in Nat
    BY <1>1, PushProperties
<1>4. EndsWith(handle'.calls, inARow', call)
  <2>1. CASE call = lastCall /\ inARow > 0
    <3>1. EndsWith(handle.calls, inARow, call) /\ inARow < HistoryLength
        BY <1>1, <2>1 DEF IInv, CallsTell, NoRunaway
    <3>2. EndsWith(handle'.calls, inARow + 1, call)
        BY <1>1, <3>1, PushSame
    <3> QED BY <2>1, <3>2
  <2>2. CASE ~(call = lastCall /\ inARow > 0)
    <3>1. inARow' = 1
        BY <1>1, <2>2
    <3>2. EndsWith(handle'.calls, 1, call)
        BY <1>2, <1>3 DEF Pushed, EndsWith
    <3> QED BY <3>1, <3>2
  <2> QED BY <2>1, <2>2
<1>5. inARow' \in Nat \ {0} /\ inARow' <= MaxRepeated
    BY <1>1 DEF IInv, CallsTell, NoRunaway
<1>6. inARow' # MaxRepeated
  <2> SUFFICES ASSUME inARow' = MaxRepeated PROVE FALSE
      OBVIOUS
  <2>1. EndsWith(handle'.calls, MaxRepeated, call)
      BY <1>4
  <2>2. Repeats(handle'.calls, MaxRepeated)
      BY <1>1, <1>3, <2>1 DEF EndsWith, Repeats
  <2> QED BY <2>2
<1>7. NoRunaway'
    BY <1>1, <1>5, <1>6 DEF NoRunaway
<1> QED BY <1>4, <1>5, <1>7 DEF CallsTell

\* The call is found to repeat and not executed: it is the one executed last,
\* or nothing may be executed at all.
LEMMA RepeatedTells ==
    ASSUME IInv, NEW call \in Calls,
           handle'.calls = Push(handle.calls, call, HistoryLength),
           Repeats(handle'.calls, MaxRepeated),
           UNCHANGED <<lastCall, inARow>>
    PROVE  CallsTell'
<1>1. /\ HistoryLength \in Nat \ {0} /\ MaxRepeated \in Nat \ {0}
      /\ MaxRepeated <= HistoryLength
      /\ handle.calls \in Seq(Calls) /\ Len(handle.calls) <= HistoryLength
      /\ inARow \in Nat
  <2>1. /\ HistoryLength \in Nat \ {0} /\ MaxRepeated \in Nat \ {0}
        /\ MaxRepeated <= HistoryLength
      BY HandleAssumption
  <2> QED BY <2>1 DEF IInv, TypeOK
<1>2. NoRunaway' /\ inARow < MaxRepeated
    BY DEF IInv, CallsTell, NoRunaway
<1>3. CASE MaxRepeated = 1
    BY <1>1, <1>2, <1>3 DEF CallsTell
<1>4. CASE MaxRepeated > 1
  <2>1. Pushed(handle.calls, call, HistoryLength, handle'.calls)
      BY <1>1, PushProperties
  <2>2. Len(handle'.calls) \in Nat /\ Len(handle.calls) \in Nat
    <3>1. handle'.calls \in Seq(Calls)
        BY <1>1, PushProperties
    <3> QED BY <1>1, <3>1, LenProperties
  <2>3. /\ Len(handle'.calls) > 1
        /\ handle'.calls[Len(handle'.calls) - 1] = call
    <3>1. handle'.calls[Len(handle'.calls)] = call
        BY <2>1 DEF Pushed
    <3>2. Len(handle'.calls) >= MaxRepeated
        BY DEF Repeats
    <3>3. Len(handle'.calls) - 1 \in (Len(handle'.calls) - MaxRepeated + 1)..Len(handle'.calls)
        BY <1>1, <1>4, <2>2, <3>2
    <3>4. handle'.calls[Len(handle'.calls) - 1] = handle'.calls[Len(handle'.calls)]
        BY <3>3 DEF Repeats
    <3> QED BY <1>1, <1>4, <2>2, <3>1, <3>2, <3>4
  <2>4. handle.calls # << >> /\ handle.calls[Len(handle.calls)] = call
      BY <1>1, <2>1, <2>2, <2>3 DEF Pushed
  <2>5. inARow > 0 /\ EndsWith(handle.calls, inARow, lastCall)
      BY <1>4, <2>4 DEF IInv, CallsTell
  <2>6. lastCall = call
      BY <1>1, <2>2, <2>4, <2>5 DEF EndsWith
  <2>7. EndsWith(handle'.calls, inARow + 1, lastCall)
    <3>1. inARow < HistoryLength /\ lastCall \in Calls
        BY <1>1, <1>2, <2>6
    <3> QED BY <1>1, <2>5, <3>1, PushSame, <2>6
  <2>8. EndsWith(handle'.calls, inARow, lastCall)
      BY <1>1, <2>2, <2>7, EndsWithFewer
  <2> QED BY <1>2, <2>5, <2>8 DEF CallsTell
<1> QED BY <1>1, <1>3, <1>4

LEMMA CallToolKeeps ==
    ASSUME IInv, CallTool
    PROVE  IInv'
<1> DEFINE call == Head(todo)
           seen == ObserveToolCall(handle, call)
<1>1. pc = "calling" /\ UNCHANGED <<step, attempt, tools>>
    BY DEF CallTool
<1>2. \/ Paused(seen) /\ UNCHANGED history
      \/ /\ Unpaused(seen)
         /\ lastCall' = call
         /\ inARow' = IF call = lastCall THEN inARow + 1 ELSE 1
         /\ pc' = "running"
         /\ UNCHANGED <<result, failedHere>>
    BY DEF CallTool
<1>3. call \in Calls
    BY <1>1 DEF IInv, TypeOK
<1> HIDE DEF call
<1>4. handle.lastKey = NoKey
    BY <1>1 DEF IInv, NothingDetected
<1>5. /\ seen \in Observations
      /\ seen.handle.current = handle.current
      /\ seen.handle.marks = handle.marks
      /\ seen.handle.failed = handle.failed /\ seen.handle.giveUps = handle.giveUps
      /\ seen.handle.calls = Push(handle.calls, call, HistoryLength)
      /\ seen.found = "none" => seen.handle.lastKey = NoKey
      /\ seen.found = "none" <=> ~Repeats(seen.handle.calls, MaxRepeated)
  <2>1. handle \in Handle /\ Len(handle.calls) <= HistoryLength
      BY DEF IInv, TypeOK
  <2> QED BY <1>3, <1>4, <2>1, ObserveToolCallProperties
<1> HIDE DEF seen
<1>6. Len(seen.handle.calls) <= HistoryLength /\ Len(seen.handle.marks) <= ProgressLength
  <2>1. HistoryLength \in Nat \ {0}
      BY HandleAssumption
  <2> QED BY <1>3, <1>5, <2>1, PushProperties DEF IInv, TypeOK, Pushed
<1>7. handle' = seen.handle
    BY <1>2 DEF Paused, Unpaused, Observed
<1>8. CASE Paused(seen) /\ UNCHANGED history
  <2>1. CallsTell'
    <3>1. Repeats(handle'.calls, MaxRepeated)
        BY <1>5, <1>7, <1>8 DEF Paused
    <3>2. UNCHANGED <<lastCall, inARow>>
        BY <1>8 DEF history
    <3> QED BY <1>3, <1>5, <1>7, <3>1, <3>2, RepeatedTells
  <2>2. failedHere' \in Nat /\ UNCHANGED <<lastCall, inARow>>
      BY <1>8 DEF history, IInv, TypeOK
  <2> QED BY <1>1, <1>5, <1>6, <1>8, <2>1, <2>2, PausedKeeps
<1>9. CASE /\ Unpaused(seen)
           /\ lastCall' = call
           /\ inARow' = IF call = lastCall THEN inARow + 1 ELSE 1
           /\ pc' = "running"
           /\ UNCHANGED <<result, failedHere>>
  <2>1. /\ handle' \in Handle /\ handle'.current = step
        /\ handle'.calls \in Seq(Calls) /\ Len(handle'.calls) <= HistoryLength
        /\ Len(handle'.marks) <= ProgressLength
        /\ {handle'.failed, handle'.empty, handle'.giveUps} \subseteq Nat
        /\ pending' \in BOOLEAN
      BY <1>5, <1>6, <1>9, ObservedType DEF Unpaused
  <2>2. CallsTell'
    <3>1. ~Repeats(handle'.calls, MaxRepeated)
        BY <1>5, <1>7, <1>9 DEF Unpaused
    <3> QED BY <1>3, <1>5, <1>7, <1>9, <3>1, ExecutedTells
  <2>3. TypeOK'
    <3>1. inARow' \in Nat /\ lastCall' \in Calls
        BY <1>3, <1>9 DEF IInv, TypeOK
    <3> QED BY <1>1, <1>9, <2>1, <3>1 DEF IInv, TypeOK, tools, Places
  <2>4. handle'.lastKey = NoKey
      BY <1>5, <1>7, <1>9 DEF Unpaused
  <2>5. FailuresStop' /\ GaveUpBefore'
      BY <1>1, <1>5, <1>7, <1>9 DEF IInv, FailuresStop, Looping, GaveUpBefore
  <2> QED BY <1>9, <2>1, <2>2, <2>3, <2>4, <2>5 DEF IInv, NothingDetected, FreshAttempt
<1> QED BY <1>2, <1>8, <1>9

\* A tool has run, and the attempt goes on with the next call, the next
\* iteration or its result.
LEMMA ToolReturnedKeeps ==
    ASSUME IInv, pc = "running",
           NEW seen \in Observations,
           seen.handle.current = handle.current,
           seen.handle.calls = handle.calls,
           Len(seen.handle.marks) <= ProgressLength,
           seen.handle.giveUps = handle.giveUps,
           seen.found = "none" => seen.handle.lastKey = NoKey /\ seen.handle.failed < MaxFailed,
           \/ Paused(seen) /\ UNCHANGED <<todo, iteration>>
           \/ Unpaused(seen) /\ GoOn,
           UNCHANGED <<step, attempt, offered, lastCall, inARow>>,
           failedHere' \in Nat
    PROVE  IInv'
<1>1. handle' = seen.handle
    BY DEF Paused, Unpaused, Observed
<1>2. CallsTell'
    BY <1>1 DEF IInv, CallsTell, NoRunaway
<1>3. Len(seen.handle.calls) <= HistoryLength
    BY DEF IInv, TypeOK
<1>4. CASE Paused(seen) /\ UNCHANGED <<todo, iteration>>
  <2>1. UNCHANGED <<step, attempt, tools, lastCall, inARow>>
      BY <1>4 DEF tools
  <2> QED BY <1>2, <1>3, <1>4, <2>1, PausedKeeps
<1>5. CASE Unpaused(seen) /\ GoOn
  <2>1. /\ handle' \in Handle /\ handle'.current = step
        /\ handle'.calls \in Seq(Calls) /\ Len(handle'.calls) <= HistoryLength
        /\ Len(handle'.marks) <= ProgressLength
        /\ {handle'.failed, handle'.empty, handle'.giveUps} \subseteq Nat
        /\ pending' \in BOOLEAN
      BY <1>3, <1>5, ObservedType DEF Unpaused
  <2>2. todo \in Seq(Calls) /\ todo # << >> /\ offered
      BY DEF IInv, TypeOK
  <2>3. /\ todo' \in Seq(Calls)
        /\ Len(todo) > 1 => todo' # << >>
    <3>1. Tail(todo) \in Seq(Calls) /\ Len(Tail(todo)) = Len(todo) - 1
        BY <2>2, HeadTailProperties
    <3>2. Len(todo) > 1 => Tail(todo) # << >>
      <4>1. Len(todo) \in Nat
          BY <2>2, LenProperties
      <4>2. Tail(todo) = << >> => Len(Tail(todo)) = 0
          BY <3>1, EmptySeq
      <4> QED BY <3>1, <4>1, <4>2
    <3> QED BY <1>5, <3>1, <3>2 DEF GoOn
  <2>4. /\ pc' \in {"calling", "thinking", "returned"}
        /\ pc' = "calling" => todo' # << >>
        /\ iteration' \in 0..MaxIterations
        /\ result' \in Results
    <3>1. iteration \in 0..MaxIterations /\ MaxIterations \in Nat /\ result \in Results
        BY StepAssumption DEF IInv, TypeOK, Results
    <3>2. Answers \subseteq Results
        BY DEF Results
    <3>3. CASE Len(todo) > 1
        BY <1>5, <2>3, <3>1, <3>3 DEF GoOn
    <3>4. CASE ~(Len(todo) > 1)
        BY <1>5, <3>1, <3>2, <3>4 DEF GoOn, Ask, MoreIterations, Returns
    <3> QED BY <3>3, <3>4
  <2>5. TypeOK'
      BY <2>1, <2>2, <2>3, <2>4 DEF IInv, TypeOK, Places, Results
  <2>6. handle'.lastKey = NoKey /\ handle'.failed < MaxFailed
      BY <1>1, <1>5 DEF Unpaused
  <2>7. GaveUpBefore'
      BY <1>1, <2>4 DEF IInv, GaveUpBefore
  <2> QED BY <1>2, <2>1, <2>4, <2>5, <2>6, <2>7
          DEF IInv, NothingDetected, FailuresStop, FreshAttempt
<1> QED BY <1>4, <1>5

LEMMA ToolSucceedsKeeps ==
    ASSUME IInv, ToolSucceeds
    PROVE  IInv'
<1>1. PICK output \in Outputs :
        \/ Paused(ObserveToolSuccess(handle, output)) /\ UNCHANGED <<todo, iteration>>
        \/ Unpaused(ObserveToolSuccess(handle, output)) /\ GoOn
    BY DEF ToolSucceeds
<1> DEFINE seen == ObserveToolSuccess(handle, output)
<1>2. /\ seen \in Observations
      /\ seen.handle.current = handle.current
      /\ seen.handle.calls = handle.calls
      /\ Len(seen.handle.marks) <= ProgressLength
      /\ seen.handle.giveUps = handle.giveUps
      /\ seen.handle.failed < MaxFailed
      /\ seen.found = "none" => seen.handle.lastKey = NoKey
  <2>1. handle \in Handle /\ Len(handle.marks) <= ProgressLength
      BY DEF IInv, TypeOK
  <2> QED BY <2>1, ObserveToolSuccessProperties
<1>3. \/ Paused(seen) /\ UNCHANGED <<todo, iteration>>
      \/ Unpaused(seen) /\ GoOn
    BY <1>1
<1> HIDE DEF seen
<1>4. /\ pc = "running"
      /\ UNCHANGED <<step, attempt, offered, lastCall, inARow>>
      /\ failedHere' \in Nat
    BY DEF ToolSucceeds, history, IInv, TypeOK
<1> QED BY <1>2, <1>3, <1>4, ToolReturnedKeeps

LEMMA ToolFailsKeeps ==
    ASSUME IInv, ToolFails
    PROVE  IInv'
<1> DEFINE seen == ObserveToolFailure(handle)
<1>1. pc = "running" /\ handle.lastKey = NoKey
    BY DEF ToolFails, IInv, NothingDetected
<1>2. /\ seen \in Observations
      /\ seen.handle.current = handle.current
      /\ seen.handle.calls = handle.calls /\ seen.handle.marks = handle.marks
      /\ seen.handle.giveUps = handle.giveUps
      /\ seen.found = "none" => seen.handle.lastKey = NoKey /\ seen.handle.failed < MaxFailed
    BY <1>1, ObserveToolFailureProperties DEF IInv
<1>3. \/ Paused(seen) /\ UNCHANGED <<todo, iteration>>
      \/ Unpaused(seen) /\ GoOn
    BY DEF ToolFails
<1> HIDE DEF seen
<1>4. /\ Len(seen.handle.marks) <= ProgressLength
      /\ UNCHANGED <<step, attempt, offered, lastCall, inARow>>
      /\ failedHere' \in Nat
    BY <1>2 DEF ToolFails, IInv, TypeOK
<1> QED BY <1>1, <1>2, <1>3, <1>4, ToolReturnedKeeps

LEMMA AfterAttemptKeeps ==
    ASSUME IInv, AfterAttempt
    PROVE  IInv'
<1> DEFINE seen == ObserveStepResult(handle, result)
<1>1. /\ pc = "returned" /\ pc' \in {"attempt", "next"}
      /\ pc' = "attempt" => result = "error"
      /\ attempt' \in 0..MaxRetries
      /\ UNCHANGED <<step, tools, result, history>>
    BY StepAssumption DEF AfterAttempt, IInv, TypeOK
<1>2. Observed(seen)
    BY DEF AfterAttempt
<1>3. /\ seen \in Observations
      /\ seen.handle.current = handle.current
      /\ seen.handle.calls = handle.calls
      /\ Len(seen.handle.marks) <= ProgressLength
      /\ handle.lastKey = NoKey /\ seen.found = "none" => seen.handle.lastKey = NoKey
  <2>1. handle \in Handle /\ Len(handle.marks) <= ProgressLength /\ result \in Results
      BY DEF IInv, TypeOK, Results
  <2> QED BY <2>1, ObserveStepResultProperties
<1> HIDE DEF seen
<1>4. handle' = seen.handle /\ pending' = (pending \/ seen.found # "none")
    BY <1>2 DEF Observed
<1>5. /\ handle' \in Handle /\ handle'.current = step
      /\ handle'.calls \in Seq(Calls) /\ Len(handle'.calls) <= HistoryLength
      /\ Len(handle'.marks) <= ProgressLength
      /\ {handle'.failed, handle'.empty, handle'.giveUps} \subseteq Nat
      /\ pending' \in BOOLEAN
  <2>1. Len(seen.handle.calls) <= HistoryLength
      BY <1>3 DEF IInv, TypeOK
  <2> QED BY <1>2, <1>3, <2>1, ObservedType
<1>6. TypeOK'
    BY <1>1, <1>5 DEF IInv, TypeOK, tools, history, Places
<1>7. NothingDetected'
  <2>1. CASE pc' = "attempt" /\ ~pending'
    <3>1. handle.lastKey = NoKey
        BY <1>1, <2>1 DEF IInv, NothingDetected
    <3> QED BY <1>3, <1>4, <2>1, <3>1 DEF NothingDetected
  <2>2. CASE ~(pc' = "attempt" /\ ~pending')
      BY <1>1, <2>2 DEF NothingDetected
  <2> QED BY <2>1, <2>2
<1>8. CallsTell'
    BY <1>1, <1>3, <1>4 DEF IInv, CallsTell, NoRunaway, history
<1> QED BY <1>1, <1>5, <1>6, <1>7, <1>8 DEF IInv, FailuresStop, Looping,
                                            FreshAttempt, GaveUpBefore

\* Every step of the run and of the supervisor keeps the invariant.
LEMMA NextKeeps == IInv /\ [Next]_vars => IInv'
<1> SUFFICES ASSUME IInv, [Next]_vars PROVE IInv'
    OBVIOUS
<1>1. CASE \/ PlanDone \/ Reset \/ Enter \/ FastPath \/ ChooseTools \/ BadArguments
           \/ Abort \/ Stall \/ UNCHANGED vars
    BY <1>1, QuietKeeps
<1>2. CASE BeginStep
    BY <1>2, BeginStepKeeps
<1>3. CASE ModelRaises
    BY <1>3, ModelRaisesKeeps
<1>4. CASE ModelAnswers
    BY <1>4, ModelAnswersKeeps
<1>5. CASE ModelCallsTools
    BY <1>5, ModelCallsToolsKeeps
<1>6. CASE CallTool
    BY <1>6, CallToolKeeps
<1>7. CASE ToolSucceeds
    BY <1>7, ToolSucceedsKeeps
<1>8. CASE ToolFails
    BY <1>8, ToolFailsKeeps
<1>9. CASE AfterAttempt
    BY <1>9, AfterAttemptKeeps
<1> QED BY <1>1, <1>2, <1>3, <1>4, <1>5, <1>6, <1>7, <1>8, <1>9 DEF Next, Running

THEOREM Invariance == Spec => []IInv
BY InitEstablishes, NextKeeps, PTL DEF Spec

-----------------------------------------------------------------------------
(* What a supervised run never does *)

\* The loop's counters stay within their limits and the handle's deques within
\* their lengths, for every plan and every answer of the model.
THEOREM TypeCorrect == Spec => []TypeOK
<1>1. IInv => TypeOK
    BY DEF IInv
<1> QED BY <1>1, Invariance, PTL

\* No tool call is executed max_repeated_tool_calls times in a row, across
\* answers, errors, retries, resets and steps.
THEOREM RunawayNever == Spec => []NoRunaway
<1>1. IInv => NoRunaway
    BY DEF IInv, CallsTell
<1> QED BY <1>1, Invariance, PTL

\* After a failure a step goes on only below max_failed_tool_calls failures.
THEOREM FailuresAlwaysStop == Spec => []FailuresStop
<1>1. IInv => FailuresStop
    BY DEF IInv
<1> QED BY <1>1, Invariance, PTL

\* No tool is executed any more once the model has given up too often.
THEOREM GivenUpForGood == Spec => GivenUpRunsNoTools
<1>1. IInv => [CallTool /\ pc' = "running" => handle.giveUps < MaxGiveUp]_vars
    BY DEF IInv, GaveUpBefore, CallTool
<1> QED BY <1>1, Invariance, PTL DEF GivenUpRunsNoTools
=============================================================================
