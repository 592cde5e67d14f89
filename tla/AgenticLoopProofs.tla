-------------------------- MODULE AgenticLoopProofs --------------------------
(***************************************************************************)
(* Proofs about AgenticLoop for every value of its constants.  IInv is the *)
(* inductive invariant: TypeOK with what ties the loop's index, its report *)
(* list and its checkpoint store together.                                 *)
(***************************************************************************)
EXTENDS AgenticLoop, FiniteSetTheorems, SequenceTheorems, TLAPS

-----------------------------------------------------------------------------
(* What save and restore_last do to a store of checkpoints, for every cap *)

\* The newest snapshot is the one with the greatest step number.
LEMMA NewestIsGreatest ==
    ASSUME NEW store, NEW n \in DOMAIN store,
           DOMAIN store \subseteq Int,
           \A m \in DOMAIN store : m <= n
    PROVE  Newest(store) = n
  <1>1. Newest(store) \in DOMAIN store /\ \A m \in DOMAIN store : m <= Newest(store)
    BY DEF Newest
  <1>2. QED
    BY <1>1

\* The oldest snapshot is the one with the least step number.
LEMMA OldestIsLeast ==
    ASSUME NEW store, NEW n \in DOMAIN store,
           DOMAIN store \subseteq Int,
           \A m \in DOMAIN store : n <= m
    PROVE  Oldest(store) = n
  <1>1. Oldest(store) \in DOMAIN store /\ \A m \in DOMAIN store : Oldest(store) <= m
    BY DEF Oldest
  <1>2. QED
    BY <1>1

\* Saving the snapshot of the step after the newest one keeps the store
\* gapless and within its cap, and never evicts that snapshot itself.
LEMMA SaveKeepsNewest ==
    ASSUME NEW store, NEW cp, NEW n \in Nat \ {0},
           NEW lo \in Nat, NEW hi \in Nat,
           DOMAIN store = lo..hi,
           DOMAIN store # {} => hi = n - 1,
           Cardinality(DOMAIN store) <= MaxCheckpoints
    PROVE  /\ \E l \in Nat : DOMAIN Save(store, n, cp) = l..n
           /\ n \in DOMAIN Save(store, n, cp)
           /\ Save(store, n, cp)[n] = cp
           /\ Cardinality(DOMAIN Save(store, n, cp)) <= MaxCheckpoints
           /\ \A m \in DOMAIN Save(store, n, cp) :
                m # n => m \in DOMAIN store /\ Save(store, n, cp)[m] = store[m]
  <1> DEFINE put == Put(store, n, cp)
  <1>1. /\ DOMAIN put = DOMAIN store \cup {n}
        /\ put[n] = cp
        /\ \A m \in DOMAIN put : m # n => m \in DOMAIN store /\ put[m] = store[m]
    BY DEF Put
  <1>2. PICK l \in Nat : /\ DOMAIN put = l..n
                         /\ l <= n
                         /\ n - l <= MaxCheckpoints
    <2>1. CASE DOMAIN store = {}
      <3>1. DOMAIN put = n..n
        BY <1>1, <2>1
      <3>2. QED
        BY <3>1, CapAssumption
    <2>2. CASE DOMAIN store # {}
      <3>1. hi = n - 1 /\ lo <= hi
        BY <2>2
      <3>2. DOMAIN put = lo..n
        BY <1>1, <3>1
      <3>3. Cardinality(lo..hi) = hi - lo + 1
        BY <3>1, FS_Interval
      <3>4. QED
        BY <3>1, <3>2, <3>3, CapAssumption
    <2>3. QED
      BY <2>1, <2>2
  <1> HIDE DEF put
  <1>3. Cardinality(DOMAIN put) = n - l + 1
    BY <1>2, FS_Interval
  <1>4. CASE Cardinality(DOMAIN put) > MaxCheckpoints
    <2>1. l < n
      BY <1>2, <1>3, <1>4, CapAssumption
    <2>2. Oldest(put) = l
      <3>1. l \in DOMAIN put /\ DOMAIN put \subseteq Int /\ \A m \in DOMAIN put : l <= m
        BY <1>2
      <3>2. QED
        BY <3>1, OldestIsLeast
    <2>3. (l..n) \ {l} = (l+1)..n
      BY <1>2
    <2>4. Save(store, n, cp) = [m \in (l+1)..n |-> put[m]]
      BY <1>2, <1>4, <2>2, <2>3 DEF Save, Evict, put
    <2>5. Cardinality((l+1)..n) = n - (l+1) + 1
      BY <1>2, <2>1, FS_Interval
    <2>6. /\ DOMAIN Save(store, n, cp) = (l+1)..n
          /\ n \in (l+1)..n
          /\ \A m \in (l+1)..n : m \in DOMAIN put /\ Save(store, n, cp)[m] = put[m]
      BY <1>2, <2>1, <2>4
    <2>7. QED
      BY <1>1, <1>2, <2>5, <2>6, CapAssumption
  <1>5. CASE ~(Cardinality(DOMAIN put) > MaxCheckpoints)
    <2>1. Save(store, n, cp) = put
      BY <1>5 DEF Save, Evict, put
    <2>2. Cardinality(DOMAIN put) <= MaxCheckpoints
      BY <1>2, <1>3, <1>5, CapAssumption
    <2>3. QED
      BY <1>1, <1>2, <2>1, <2>2
  <1>6. QED
    BY <1>4, <1>5

-----------------------------------------------------------------------------
(* The inductive invariant *)

\* Where a step is being run, and where one has been reported.
InBody   == pc \in {"attempt", "executing", "observed", "report"}
InLoop   == InBody \/ pc \in {"head", "reported"}
Unplanned == pc \in {"idle", "started", "planning"}

\* The index stays within the plan.
IndexInv ==
    /\ Unplanned => idx = 0 /\ plan = 0
    /\ InLoop => plan > 0 /\ idx <= plan
    /\ InBody \/ pc = "reported" => idx < plan /\ stepNum = idx + 1

\* The reports are those of steps 1, 2, ...
ReportInv ==
    /\ \A i \in 1..Len(executed) : executed[i].num = i
    /\ pc \notin {"ending", "done"} => Len(executed) = ReportsDue
    /\ InBody => step.num = stepNum

\* The snapshots are those of the latest steps, without a gap, and the newest
\* one is the current step's.
StoreInv ==
    /\ \E lo, hi \in 0..MaxSteps : DOMAIN checkpoints = lo..hi
    /\ Cardinality(DOMAIN checkpoints) <= MaxCheckpoints
    /\ ~opts.checkpointing \/ Unplanned => DOMAIN checkpoints = {}
    /\ pc = "head" =>
         /\ \A n \in DOMAIN checkpoints : n <= idx
         /\ DOMAIN checkpoints # {} => idx \in DOMAIN checkpoints
    /\ InBody \/ pc = "reported" =>
         /\ \A n \in DOMAIN checkpoints : n <= stepNum
         /\ DOMAIN checkpoints # {} => stepNum \in DOMAIN checkpoints
    /\ opts.checkpointing /\ InBody =>
         /\ stepNum \in DOMAIN checkpoints
         /\ checkpoints[stepNum].step = stepNum
         /\ checkpoints[stepNum].executed = executed

\* Attempts, retries and error results go together.
RetryInv ==
    /\ pc \in {"attempt", "executing", "observed"} => step.retries = attempt
    /\ pc = "executing" => ~hadError
    /\ pc = "observed" => (step.result = "error" <=> hadError)
    /\ pc = "report" /\ step.result = "error" => step.retries = MaxRetries
    /\ RetriesBeforeGivingUp

\* What has failed so far, by final_action.
VerdictInv ==
    /\ pc \in {"head", "attempt", "executing", "observed"} \/ Unplanned => ~Failed
    /\ pc # "reported" /\ pc \notin {"ending", "done"} => AllStepsComplete
    /\ pc = "reported" =>
         \A i \in 1..Len(executed) :
             executed[i].status = IF Failed /\ i = Len(executed)
                                  THEN "failed" ELSE "complete"
    /\ pc \notin {"ending", "done"} => outcome = "none"
    /\ pc = "ending" => outcome # "none"
    /\ outcome # "unverified"
    /\ outcome = "verified" => Len(executed) > 0
    /\ VerdictIsEarned

\* The inductive invariant.
IInv ==
    /\ TypeOK
    /\ IndexInv
    /\ ReportInv
    /\ StoreInv
    /\ RetryInv
    /\ VerdictInv
    /\ NothingLeftBehind

-----------------------------------------------------------------------------
(* Types of the values the actions build *)

LEMMA HandleType ==
    /\ NewHandle \in Handle
    /\ \A h \in Handle :
         /\ \A p \in Interventions : [h EXCEPT !.pending = p] \in Handle
         /\ [h EXCEPT !.lastKey = NoKey] \in Handle
         /\ \A c \in Categories :
              [h EXCEPT !.pending = "reset_context",
                        !.lastKey = <<c, h.current>>] \in Handle
         /\ \A n \in Nat : Heartbeat(h, n) \in Handle
  BY DEF Handle, NewHandle, Interventions, Keys, Heartbeat

LEMMA DetectedType ==
    ASSUME handle \in Handle, NEW c \in Categories, Detected(c)
    PROVE  handle' \in Handle
  BY HandleType DEF Detected

LEMMA StepType ==
    /\ \A n \in Nat : NewStep(n) \in Step
    /\ \A s \in Step :
         /\ \A r \in Results : [s EXCEPT !.result = r] \in Step
         /\ \A t \in Statuses : [s EXCEPT !.status = t] \in Step
         /\ [s EXCEPT !.retries = @ + 1] \in Step
  BY DEF Step, NewStep, Statuses, Results

LEMMA LineType ==
    \A n \in Nat : \A k \in {"step", "retry", "nudge"} : NewLine(k, n) \in Line
  BY DEF Line, NewLine

LEMMA EmptyStore ==
    /\ DOMAIN NoCheckpoints = {}
    /\ Cardinality(DOMAIN NoCheckpoints) <= MaxCheckpoints
    /\ \E lo, hi \in 0..MaxSteps : DOMAIN NoCheckpoints = lo..hi
  <1>1. DOMAIN NoCheckpoints = {} /\ {} = 1..0
    BY DEF NoCheckpoints
  <1>2. Cardinality({}) <= MaxCheckpoints
    BY FS_EmptySet, CapAssumption
  <1>3. 1 \in 0..MaxSteps /\ 0 \in 0..MaxSteps
    BY LoopAssumption
  <1>4. QED
    BY <1>1, <1>2, <1>3

-----------------------------------------------------------------------------
(* Every action keeps the inductive invariant *)

LEMMA KeepsStart == IInv /\ Start => IInv'
  <1> SUFFICES ASSUME IInv, Start PROVE IInv'
    OBVIOUS
  <1> USE LoopAssumption DEF control, body, record, InBody, InLoop, Unplanned
  <1>1. TypeOK'
    BY HandleType DEF IInv, TypeOK, Start, Places
  <1>2. IndexInv'
    BY DEF IInv, IndexInv, Start
  <1>3. ReportInv'
    BY DEF IInv, ReportInv, ReportsDue, Start
  <1>4. StoreInv'
    BY DEF IInv, StoreInv, Start
  <1>5. RetryInv'
    BY DEF IInv, RetryInv, RetriesBeforeGivingUp, Start
  <1>6. VerdictInv'
    BY DEF IInv, VerdictInv, VerdictIsEarned, AllStepsComplete, Failed, Start
  <1>7. NothingLeftBehind'
    BY DEF NothingLeftBehind, Start
  <1>8. QED
    BY <1>1, <1>2, <1>3, <1>4, <1>5, <1>6, <1>7 DEF IInv

LEMMA KeepsSkipPlanning == IInv /\ SkipPlanning => IInv'
  <1> SUFFICES ASSUME IInv, SkipPlanning PROVE IInv'
    OBVIOUS
  <1> USE LoopAssumption DEF control, body, record, InBody, InLoop, Unplanned
  <1>1. TypeOK'
    <2>1. plan' \in 0..MaxSteps /\ pc' \in Places
      BY DEF SkipPlanning, Places
    <2>2. QED
      BY <2>1 DEF IInv, TypeOK, SkipPlanning
  <1>2. IndexInv'
    BY DEF IInv, IndexInv, SkipPlanning
  <1>3. ReportInv'
    BY DEF IInv, ReportInv, ReportsDue, SkipPlanning
  <1>4. StoreInv'
    BY DEF IInv, StoreInv, SkipPlanning
  <1>5. RetryInv'
    BY DEF IInv, RetryInv, RetriesBeforeGivingUp, SkipPlanning
  <1>6. VerdictInv'
    BY DEF IInv, VerdictInv, VerdictIsEarned, AllStepsComplete, Failed, SkipPlanning
  <1>7. NothingLeftBehind'
    BY DEF NothingLeftBehind, SkipPlanning
  <1>8. QED
    BY <1>1, <1>2, <1>3, <1>4, <1>5, <1>6, <1>7 DEF IInv

LEMMA KeepsAskForPlan == IInv /\ AskForPlan => IInv'
  <1> SUFFICES ASSUME IInv, AskForPlan PROVE IInv'
    OBVIOUS
  <1> USE LoopAssumption DEF control, body, record, InBody, InLoop, Unplanned
  <1>1. TypeOK'
    BY DEF IInv, TypeOK, AskForPlan, Places
  <1>2. IndexInv'
    BY DEF IInv, IndexInv, AskForPlan
  <1>3. ReportInv'
    BY DEF IInv, ReportInv, ReportsDue, AskForPlan
  <1>4. StoreInv'
    BY DEF IInv, StoreInv, AskForPlan
  <1>5. RetryInv'
    BY DEF IInv, RetryInv, RetriesBeforeGivingUp, AskForPlan
  <1>6. VerdictInv'
    BY DEF IInv, VerdictInv, VerdictIsEarned, AllStepsComplete, Failed, AskForPlan
  <1>7. NothingLeftBehind'
    BY DEF NothingLeftBehind, AskForPlan
  <1>8. QED
    BY <1>1, <1>2, <1>3, <1>4, <1>5, <1>6, <1>7 DEF IInv

LEMMA KeepsPlanReturns == IInv /\ PlanReturns => IInv'
  <1> SUFFICES ASSUME IInv, PlanReturns PROVE IInv'
    OBVIOUS
  <1> USE LoopAssumption DEF control, body, record, InBody, InLoop, Unplanned
  <1>1. TypeOK'
    <2>1. plan' \in 0..MaxSteps /\ pc' \in Places
      BY DEF PlanReturns, Usable, Places
    <2>2. QED
      BY <2>1 DEF IInv, TypeOK, PlanReturns
  <1>2. IndexInv'
    BY DEF IInv, IndexInv, PlanReturns, Usable
  <1>3. ReportInv'
    BY DEF IInv, ReportInv, ReportsDue, PlanReturns
  <1>4. StoreInv'
    BY DEF IInv, StoreInv, PlanReturns
  <1>5. RetryInv'
    BY DEF IInv, RetryInv, RetriesBeforeGivingUp, PlanReturns
  <1>6. VerdictInv'
    BY DEF IInv, VerdictInv, VerdictIsEarned, AllStepsComplete, Failed, PlanReturns
  <1>7. NothingLeftBehind'
    BY DEF NothingLeftBehind, PlanReturns
  <1>8. QED
    BY <1>1, <1>2, <1>3, <1>4, <1>5, <1>6, <1>7 DEF IInv

LEMMA KeepsPlanFails == IInv /\ PlanFails => IInv'
  <1> SUFFICES ASSUME IInv, PlanFails PROVE IInv'
    OBVIOUS
  <1> USE LoopAssumption DEF control, body, record, InBody, InLoop, Unplanned
  <1>1. TypeOK'
    <2>1. plan' \in 0..MaxSteps /\ pc' \in Places
      BY DEF PlanFails, Places
    <2>2. QED
      BY <2>1 DEF IInv, TypeOK, PlanFails
  <1>2. IndexInv'
    BY DEF IInv, IndexInv, PlanFails
  <1>3. ReportInv'
    BY DEF IInv, ReportInv, ReportsDue, PlanFails
  <1>4. StoreInv'
    BY DEF IInv, StoreInv, PlanFails
  <1>5. RetryInv'
    BY DEF IInv, RetryInv, RetriesBeforeGivingUp, PlanFails
  <1>6. VerdictInv'
    BY DEF IInv, VerdictInv, VerdictIsEarned, AllStepsComplete, Failed, PlanFails
  <1>7. NothingLeftBehind'
    BY DEF NothingLeftBehind, PlanFails
  <1>8. QED
    BY <1>1, <1>2, <1>3, <1>4, <1>5, <1>6, <1>7 DEF IInv

LEMMA KeepsNothingToApply == IInv /\ NothingToApply => IInv'
  <1> SUFFICES ASSUME IInv, NothingToApply PROVE IInv'
    OBVIOUS
  <1> USE LoopAssumption DEF control, body, record, InBody, InLoop, Unplanned
  <1>1. TypeOK'
    BY HandleType DEF IInv, TypeOK, NothingToApply, Attempting, Popped,
       Interventions, Places
  <1>2. IndexInv'
    BY DEF IInv, IndexInv, NothingToApply, Attempting
  <1>3. ReportInv'
    BY DEF IInv, ReportInv, ReportsDue, NothingToApply, Attempting
  <1>4. StoreInv'
    BY DEF IInv, StoreInv, NothingToApply, Attempting
  <1>5. RetryInv'
    BY DEF IInv, RetryInv, RetriesBeforeGivingUp, NothingToApply, Attempting
  <1>6. VerdictInv'
    BY DEF IInv, VerdictInv, VerdictIsEarned, AllStepsComplete, Failed,
       NothingToApply, Attempting
  <1>7. NothingLeftBehind'
    BY DEF NothingLeftBehind, NothingToApply
  <1>8. QED
    BY <1>1, <1>2, <1>3, <1>4, <1>5, <1>6, <1>7 DEF IInv

LEMMA KeepsNudge == IInv /\ Nudge => IInv'
  <1> SUFFICES ASSUME IInv, Nudge PROVE IInv'
    OBVIOUS
  <1> USE LoopAssumption DEF control, body, record, InBody, InLoop, Unplanned
  <1>1. TypeOK'
    <2>1. handle' \in Handle
      BY HandleType DEF IInv, TypeOK, Nudge, Popped, Interventions
    <2>2. context' \in Seq(Line)
      BY LineType DEF IInv, TypeOK, Nudge
    <2>3. QED
      BY <2>1, <2>2 DEF IInv, TypeOK, Nudge, Attempting, Places
  <1>2. IndexInv'
    BY DEF IInv, IndexInv, Nudge, Attempting
  <1>3. ReportInv'
    BY DEF IInv, ReportInv, ReportsDue, Nudge, Attempting
  <1>4. StoreInv'
    BY DEF IInv, StoreInv, Nudge, Attempting
  <1>5. RetryInv'
    BY DEF IInv, RetryInv, RetriesBeforeGivingUp, Nudge, Attempting
  <1>6. VerdictInv'
    BY DEF IInv, VerdictInv, VerdictIsEarned, AllStepsComplete, Failed, Nudge,
       Attempting
  <1>7. NothingLeftBehind'
    BY DEF NothingLeftBehind, Nudge
  <1>8. QED
    BY <1>1, <1>2, <1>3, <1>4, <1>5, <1>6, <1>7 DEF IInv

LEMMA KeepsGiveUp == IInv /\ GiveUp => IInv'
  <1> SUFFICES ASSUME IInv, GiveUp PROVE IInv'
    OBVIOUS
  <1> USE LoopAssumption DEF control, body, record, InBody, InLoop, Unplanned
  <1>1. TypeOK'
    BY HandleType, StepType DEF IInv, TypeOK, GiveUp, Attempting, Popped,
       Interventions, Results, Places
  <1>2. IndexInv'
    BY DEF IInv, IndexInv, GiveUp, Attempting
  <1>3. ReportInv'
    BY DEF IInv, ReportInv, ReportsDue, GiveUp, Attempting
  <1>4. StoreInv'
    BY DEF IInv, StoreInv, GiveUp, Attempting
  <1>5. RetryInv'
    BY DEF IInv, RetryInv, RetriesBeforeGivingUp, GiveUp
  <1>6. VerdictInv'
    BY DEF IInv, VerdictInv, VerdictIsEarned, AllStepsComplete, GiveUp, Attempting
  <1>7. NothingLeftBehind'
    BY DEF NothingLeftBehind, GiveUp
  <1>8. QED
    BY <1>1, <1>2, <1>3, <1>4, <1>5, <1>6, <1>7 DEF IInv

LEMMA KeepsStepPaused == IInv /\ StepPaused => IInv'
  <1> SUFFICES ASSUME IInv, StepPaused PROVE IInv'
    OBVIOUS
  <1> USE LoopAssumption DEF control, body, record, InBody, InLoop, Unplanned
  <1>1. TypeOK'
    <2>1. handle' \in Handle
      BY DetectedType DEF IInv, TypeOK, StepPaused, Categories
    <2>2. step' \in Step
      BY StepType DEF IInv, TypeOK, StepPaused, Results
    <2>3. QED
      BY <2>1, <2>2 DEF IInv, TypeOK, StepPaused, Places
  <1>2. IndexInv'
    BY DEF IInv, IndexInv, StepPaused
  <1>3. ReportInv'
    BY DEF IInv, ReportInv, ReportsDue, StepPaused
  <1>4. StoreInv'
    BY DEF IInv, StoreInv, StepPaused
  <1>5. RetryInv'
    BY DEF IInv, RetryInv, RetriesBeforeGivingUp, StepPaused
  <1>6. VerdictInv'
    BY DEF IInv, VerdictInv, VerdictIsEarned, AllStepsComplete, Failed, StepPaused
  <1>7. NothingLeftBehind'
    BY DEF NothingLeftBehind, StepPaused
  <1>8. QED
    BY <1>1, <1>2, <1>3, <1>4, <1>5, <1>6, <1>7 DEF IInv

LEMMA KeepsStepReturns == IInv /\ StepReturns => IInv'
  <1> SUFFICES ASSUME IInv, StepReturns PROVE IInv'
    OBVIOUS
  <1> USE LoopAssumption DEF control, body, record, InBody, InLoop, Unplanned
  <1>1. TypeOK'
    BY StepType DEF IInv, TypeOK, StepReturns, Results, Places
  <1>2. IndexInv'
    BY DEF IInv, IndexInv, StepReturns
  <1>3. ReportInv'
    BY DEF IInv, ReportInv, ReportsDue, StepReturns
  <1>4. StoreInv'
    BY DEF IInv, StoreInv, StepReturns
  <1>5. RetryInv'
    BY DEF IInv, RetryInv, RetriesBeforeGivingUp, StepReturns
  <1>6. VerdictInv'
    BY DEF IInv, VerdictInv, VerdictIsEarned, AllStepsComplete, Failed, StepReturns
  <1>7. NothingLeftBehind'
    BY DEF NothingLeftBehind, StepReturns
  <1>8. QED
    BY <1>1, <1>2, <1>3, <1>4, <1>5, <1>6, <1>7 DEF IInv

LEMMA KeepsStepRaises == IInv /\ StepRaises => IInv'
  <1> SUFFICES ASSUME IInv, StepRaises PROVE IInv'
    OBVIOUS
  <1> USE LoopAssumption DEF control, body, record, InBody, InLoop, Unplanned
  <1>1. TypeOK'
    BY StepType DEF IInv, TypeOK, StepRaises, Results, Places
  <1>2. IndexInv'
    BY DEF IInv, IndexInv, StepRaises
  <1>3. ReportInv'
    BY DEF IInv, ReportInv, ReportsDue, StepRaises
  <1>4. StoreInv'
    BY DEF IInv, StoreInv, StepRaises
  <1>5. RetryInv'
    BY DEF IInv, RetryInv, RetriesBeforeGivingUp, StepRaises
  <1>6. VerdictInv'
    BY DEF IInv, VerdictInv, VerdictIsEarned, AllStepsComplete, Failed, StepRaises
  <1>7. NothingLeftBehind'
    BY DEF NothingLeftBehind, StepRaises
  <1>8. QED
    BY <1>1, <1>2, <1>3, <1>4, <1>5, <1>6, <1>7 DEF IInv

LEMMA KeepsContextOverflow == IInv /\ ContextOverflow => IInv'
  <1> SUFFICES ASSUME IInv, ContextOverflow PROVE IInv'
    OBVIOUS
  <1> USE LoopAssumption DEF control, body, record, InBody, InLoop, Unplanned
  <1>1. TypeOK'
    BY StepType DEF IInv, TypeOK, ContextOverflow, Results, Places
  <1>2. IndexInv'
    BY DEF IInv, IndexInv, ContextOverflow
  <1>3. ReportInv'
    BY DEF IInv, ReportInv, ReportsDue, ContextOverflow
  <1>4. StoreInv'
    BY DEF IInv, StoreInv, ContextOverflow
  <1>5. RetryInv'
    BY DEF IInv, RetryInv, RetriesBeforeGivingUp, ContextOverflow
  <1>6. VerdictInv'
    BY DEF IInv, VerdictInv, VerdictIsEarned, AllStepsComplete, ContextOverflow
  <1>7. NothingLeftBehind'
    BY DEF NothingLeftBehind, ContextOverflow
  <1>8. QED
    BY <1>1, <1>2, <1>3, <1>4, <1>5, <1>6, <1>7 DEF IInv

LEMMA KeepsRetryStep == IInv /\ RetryStep => IInv'
  <1> SUFFICES ASSUME IInv, RetryStep PROVE IInv'
    OBVIOUS
  <1> USE LoopAssumption DEF control, body, record, InBody, InLoop, Unplanned
  <1>1. TypeOK'
    <2>1. handle' \in Handle
      BY DetectedType DEF IInv, TypeOK, RetryStep, ObserveResult, Categories
    <2>2. context' \in Seq(Line)
      BY LineType DEF IInv, TypeOK, RetryStep
    <2>3. step' \in Step
      BY StepType DEF IInv, TypeOK, RetryStep
    <2>4. attempt' \in 0..MaxRetries
      BY DEF IInv, TypeOK, RetryStep, RetriesLeft
    <2>5. QED
      BY <2>1, <2>2, <2>3, <2>4 DEF IInv, TypeOK, RetryStep, Places
  <1>2. IndexInv'
    BY DEF IInv, IndexInv, RetryStep
  <1>3. ReportInv'
    BY DEF IInv, ReportInv, ReportsDue, RetryStep
  <1>4. StoreInv'
    BY DEF IInv, StoreInv, RetryStep
  <1>5. RetryInv'
    BY DEF IInv, RetryInv, RetriesBeforeGivingUp, RetryStep
  <1>6. VerdictInv'
    BY DEF IInv, VerdictInv, VerdictIsEarned, AllStepsComplete, Failed, RetryStep
  <1>7. NothingLeftBehind'
    BY DEF NothingLeftBehind, RetryStep
  <1>8. QED
    BY <1>1, <1>2, <1>3, <1>4, <1>5, <1>6, <1>7 DEF IInv

LEMMA KeepsLeaveAttempts == IInv /\ LeaveAttempts => IInv'
  <1> SUFFICES ASSUME IInv, LeaveAttempts PROVE IInv'
    OBVIOUS
  <1> USE LoopAssumption DEF control, body, record, InBody, InLoop, Unplanned
  <1>1. TypeOK'
    <2>1. handle' \in Handle
      BY DetectedType DEF IInv, TypeOK, LeaveAttempts, ObserveResult, Categories
    <2>2. QED
      BY <2>1 DEF IInv, TypeOK, LeaveAttempts, Places
  <1>2. IndexInv'
    BY DEF IInv, IndexInv, LeaveAttempts
  <1>3. ReportInv'
    BY DEF IInv, ReportInv, ReportsDue, LeaveAttempts
  <1>4. StoreInv'
    BY DEF IInv, StoreInv, LeaveAttempts
  <1>5. RetryInv'
    BY DEF IInv, TypeOK, RetryInv, RetriesBeforeGivingUp, LeaveAttempts, RetriesLeft
  <1>6. VerdictInv'
    BY DEF IInv, VerdictInv, VerdictIsEarned, AllStepsComplete, LeaveAttempts
  <1>7. NothingLeftBehind'
    BY DEF NothingLeftBehind, LeaveAttempts
  <1>8. QED
    BY <1>1, <1>2, <1>3, <1>4, <1>5, <1>6, <1>7 DEF IInv

LEMMA KeepsReportStep == IInv /\ ReportStep => IInv'
  <1> SUFFICES ASSUME IInv, ReportStep PROVE IInv'
    OBVIOUS
  <1> USE LoopAssumption DEF control, body, record, InBody, InLoop, Unplanned
  <1>1. TypeOK'
    <2>1. [step EXCEPT !.status = IF Failed THEN "failed" ELSE "complete"] \in Step
      BY StepType DEF IInv, TypeOK, Statuses
    <2>2. executed' \in Seq(Step)
      BY <2>1 DEF IInv, TypeOK, ReportStep
    <2>3. context' \in Seq(Line)
      BY LineType DEF IInv, TypeOK, ReportStep
    <2>4. QED
      BY <2>1, <2>2, <2>3 DEF IInv, TypeOK, ReportStep, Places
  <1>2. IndexInv'
    BY DEF IInv, IndexInv, ReportStep
  <1>3. ReportInv'
    <2> DEFINE new == [step EXCEPT !.status = IF Failed THEN "failed" ELSE "complete"]
    <2>1. executed' = Append(executed, new) /\ Len(executed') = Len(executed) + 1
      BY DEF ReportStep
    <2>2. Len(executed) = idx /\ new.num = idx + 1
      BY DEF IInv, IndexInv, ReportInv, ReportsDue, ReportStep
    <2>3. \A i \in 1..Len(executed') : executed'[i].num = i
      <3> SUFFICES ASSUME NEW i \in 1..Len(executed') PROVE executed'[i].num = i
        OBVIOUS
      <3>1. CASE i = Len(executed) + 1
        BY <2>1, <2>2, <3>1
      <3>2. CASE i \in 1..Len(executed)
        BY <2>1, <3>2 DEF IInv, ReportInv
      <3>3. QED
        BY <2>1, <3>1, <3>2
    <2>4. QED
      BY <2>1, <2>2, <2>3 DEF ReportInv, ReportsDue, ReportStep
  <1>4. StoreInv'
    BY DEF IInv, StoreInv, ReportStep
  <1>5. RetryInv'
    <2> DEFINE new == [step EXCEPT !.status = IF Failed THEN "failed" ELSE "complete"]
    <2>1. executed' = Append(executed, new) /\ Len(executed') = Len(executed) + 1
      BY DEF ReportStep
    <2>2. new.result = "error" => new.retries = MaxRetries
      BY DEF IInv, RetryInv, ReportStep
    <2>3. RetriesBeforeGivingUp'
      <3> SUFFICES ASSUME NEW i \in 1..Len(executed'), executed'[i].result = "error"
                   PROVE  executed'[i].retries = MaxRetries
        BY DEF RetriesBeforeGivingUp
      <3>1. CASE i = Len(executed) + 1
        BY <2>1, <2>2, <3>1
      <3>2. CASE i \in 1..Len(executed)
        BY <2>1, <3>2 DEF IInv, RetryInv, RetriesBeforeGivingUp
      <3>3. QED
        BY <2>1, <3>1, <3>2
    <2>4. QED
      BY <2>3 DEF RetryInv, ReportStep
  <1>6. VerdictInv'
    BY DEF IInv, VerdictInv, VerdictIsEarned, AllStepsComplete, Failed, ReportStep,
       Failed
  <1>7. NothingLeftBehind'
    BY DEF NothingLeftBehind, ReportStep
  <1>8. QED
    BY <1>1, <1>2, <1>3, <1>4, <1>5, <1>6, <1>7 DEF IInv

LEMMA KeepsNextStep == IInv /\ NextStep => IInv'
  <1> SUFFICES ASSUME IInv, NextStep PROVE IInv'
    OBVIOUS
  <1> USE LoopAssumption DEF control, body, record, InBody, InLoop, Unplanned
  <1>1. TypeOK'
    BY DEF IInv, TypeOK, IndexInv, NextStep, Places
  <1>2. IndexInv'
    BY DEF IInv, TypeOK, IndexInv, NextStep
  <1>3. ReportInv'
    BY DEF IInv, ReportInv, ReportsDue, NextStep
  <1>4. StoreInv'
    BY DEF IInv, IndexInv, StoreInv, NextStep
  <1>5. RetryInv'
    BY DEF IInv, RetryInv, RetriesBeforeGivingUp, NextStep
  <1>6. VerdictInv'
    BY DEF IInv, VerdictInv, VerdictIsEarned, AllStepsComplete, Failed, NextStep,
       Failed
  <1>7. NothingLeftBehind'
    BY DEF NothingLeftBehind, NextStep
  <1>8. QED
    BY <1>1, <1>2, <1>3, <1>4, <1>5, <1>6, <1>7 DEF IInv

LEMMA KeepsStopTask == IInv /\ StopTask => IInv'
  <1> SUFFICES ASSUME IInv, StopTask PROVE IInv'
    OBVIOUS
  <1> USE LoopAssumption DEF control, body, record, InBody, InLoop, Unplanned
  <1>1. TypeOK'
    BY DEF IInv, TypeOK, StopTask, Outcomes, Places
  <1>2. IndexInv'
    BY DEF IndexInv, StopTask
  <1>3. ReportInv'
    BY DEF IInv, ReportInv, StopTask
  <1>4. StoreInv'
    BY DEF IInv, StoreInv, StopTask
  <1>5. RetryInv'
    BY DEF IInv, RetryInv, RetriesBeforeGivingUp, StopTask
  <1>6. VerdictInv'
    BY DEF IInv, VerdictInv, VerdictIsEarned, StopTask
  <1>7. NothingLeftBehind'
    BY DEF NothingLeftBehind, StopTask
  <1>8. QED
    BY <1>1, <1>2, <1>3, <1>4, <1>5, <1>6, <1>7 DEF IInv

LEMMA KeepsFinalize == IInv /\ Finalize => IInv'
  <1> SUFFICES ASSUME IInv, Finalize PROVE IInv'
    OBVIOUS
  <1> USE LoopAssumption DEF control, body, record, InBody, InLoop, Unplanned
  <1>1. TypeOK'
    BY DEF IInv, TypeOK, Finalize, Outcomes, Places
  <1>2. IndexInv'
    BY DEF IndexInv, Finalize
  <1>3. ReportInv'
    BY DEF IInv, ReportInv, Finalize
  <1>4. StoreInv'
    BY DEF IInv, StoreInv, Finalize
  <1>5. RetryInv'
    BY DEF IInv, RetryInv, RetriesBeforeGivingUp, Finalize
  <1>6. VerdictInv'
    BY DEF IInv, TypeOK, IndexInv, ReportInv, ReportsDue, VerdictInv,
       VerdictIsEarned, AllStepsComplete, Finalize
  <1>7. NothingLeftBehind'
    BY DEF NothingLeftBehind, Finalize
  <1>8. QED
    BY <1>1, <1>2, <1>3, <1>4, <1>5, <1>6, <1>7 DEF IInv

LEMMA KeepsReturn == IInv /\ Return => IInv'
  <1> SUFFICES ASSUME IInv, Return PROVE IInv'
    OBVIOUS
  <1> USE LoopAssumption DEF control, body, record, InBody, InLoop, Unplanned
  <1>1. TypeOK'
    BY EmptyStore DEF IInv, TypeOK, Return, CleanUp, Places
  <1>2. IndexInv'
    BY DEF IndexInv, Return, CleanUp
  <1>3. ReportInv'
    BY DEF IInv, ReportInv, Return, CleanUp
  <1>4. StoreInv'
    BY EmptyStore DEF IInv, StoreInv, Return, CleanUp
  <1>5. RetryInv'
    BY DEF IInv, RetryInv, RetriesBeforeGivingUp, Return, CleanUp
  <1>6. VerdictInv'
    BY DEF IInv, VerdictInv, VerdictIsEarned, AllStepsComplete, Return, CleanUp
  <1>7. NothingLeftBehind'
    BY EmptyStore DEF IInv, StoreInv, NothingLeftBehind, Return, CleanUp
  <1>8. QED
    BY <1>1, <1>2, <1>3, <1>4, <1>5, <1>6, <1>7 DEF IInv

LEMMA KeepsToolSucceeds == IInv /\ ToolSucceeds => IInv'
  <1> SUFFICES ASSUME IInv, ToolSucceeds PROVE IInv'
    OBVIOUS
  <1> USE LoopAssumption DEF control, body, record, InBody, InLoop, Unplanned
  <1>1. TypeOK'
    BY HandleType DEF IInv, TypeOK, ToolSucceeds
  <1>2. IndexInv'
    BY DEF IInv, IndexInv, ToolSucceeds
  <1>3. ReportInv'
    BY DEF IInv, ReportInv, ReportsDue, ToolSucceeds
  <1>4. StoreInv'
    BY DEF IInv, StoreInv, ToolSucceeds
  <1>5. RetryInv'
    BY DEF IInv, RetryInv, RetriesBeforeGivingUp, ToolSucceeds
  <1>6. VerdictInv'
    BY DEF IInv, VerdictInv, VerdictIsEarned, AllStepsComplete, Failed, ToolSucceeds
  <1>7. NothingLeftBehind'
    BY DEF NothingLeftBehind, ToolSucceeds
  <1>8. QED
    BY <1>1, <1>2, <1>3, <1>4, <1>5, <1>6, <1>7 DEF IInv

LEMMA KeepsCancel == IInv /\ Cancel => IInv'
  <1> SUFFICES ASSUME IInv, Cancel PROVE IInv'
    OBVIOUS
  <1> USE LoopAssumption DEF control, body, record, InBody, InLoop, Unplanned
  <1>1. TypeOK'
    BY EmptyStore DEF IInv, TypeOK, Cancel, CleanUp, Outcomes, Places
  <1>2. IndexInv'
    BY DEF IndexInv, Cancel, CleanUp
  <1>3. ReportInv'
    BY DEF IInv, ReportInv, Cancel, CleanUp
  <1>4. StoreInv'
    BY EmptyStore DEF IInv, StoreInv, Cancel, CleanUp
  <1>5. RetryInv'
    BY DEF IInv, RetryInv, RetriesBeforeGivingUp, Cancel, CleanUp
  <1>6. VerdictInv'
    BY DEF VerdictInv, VerdictIsEarned, Cancel, CleanUp
  <1>7. NothingLeftBehind'
    BY EmptyStore DEF IInv, StoreInv, NothingLeftBehind, Cancel, CleanUp
  <1>8. QED
    BY <1>1, <1>2, <1>3, <1>4, <1>5, <1>6, <1>7 DEF IInv

LEMMA KeepsPoll == IInv /\ Poll => IInv'
  <1> SUFFICES ASSUME IInv, Poll PROVE IInv'
    OBVIOUS
  <1> USE LoopAssumption DEF control, body, record, InBody, InLoop, Unplanned
  <1>1. TypeOK'
    <2>1. handle' \in Handle
      BY HandleType DEF IInv, TypeOK, Poll, Interventions
    <2>2. QED
      BY <2>1 DEF IInv, TypeOK, Poll
  <1>2. IndexInv'
    BY DEF IInv, IndexInv, Poll
  <1>3. ReportInv'
    BY DEF IInv, ReportInv, ReportsDue, Poll
  <1>4. StoreInv'
    BY DEF IInv, StoreInv, Poll
  <1>5. RetryInv'
    BY DEF IInv, RetryInv, RetriesBeforeGivingUp, Poll
  <1>6. VerdictInv'
    BY DEF IInv, VerdictInv, VerdictIsEarned, AllStepsComplete, Failed, Poll
  <1>7. NothingLeftBehind'
    BY DEF IInv, NothingLeftBehind, Poll
  <1>8. QED
    BY <1>1, <1>2, <1>3, <1>4, <1>5, <1>6, <1>7 DEF IInv

LEMMA KeepsInject == IInv /\ Inject => IInv'
  <1> SUFFICES ASSUME IInv, Inject PROVE IInv'
    OBVIOUS
  <1> USE LoopAssumption DEF control, body, record, InBody, InLoop, Unplanned
  <1>1. TypeOK'
    <2>1. handle' \in Handle
      <3>1. PICK action \in Injectable : handle' = [handle EXCEPT !.pending = action]
        BY DEF Inject
      <3>2. action \in Interventions
        BY DEF Interventions
      <3>3. QED
        BY <3>1, <3>2, HandleType DEF IInv, TypeOK
    <2>2. QED
      BY <2>1 DEF IInv, TypeOK, Inject
  <1>2. IndexInv'
    BY DEF IInv, IndexInv, Inject
  <1>3. ReportInv'
    BY DEF IInv, ReportInv, ReportsDue, Inject
  <1>4. StoreInv'
    BY DEF IInv, StoreInv, Inject
  <1>5. RetryInv'
    BY DEF IInv, RetryInv, RetriesBeforeGivingUp, Inject
  <1>6. VerdictInv'
    BY DEF IInv, VerdictInv, VerdictIsEarned, AllStepsComplete, Failed, Inject
  <1>7. NothingLeftBehind'
    BY DEF IInv, NothingLeftBehind, Inject
  <1>8. QED
    BY <1>1, <1>2, <1>3, <1>4, <1>5, <1>6, <1>7 DEF IInv

\* The checkpoint of the new step is saved whole, and none of the others changes.
LEMMA BeginSaves ==
    ASSUME IInv, BeginStep, opts.checkpointing, NEW cp,
           cp = [step |-> idx + 1, context |-> context, executed |-> executed]
    PROVE  /\ \E l \in Nat : DOMAIN checkpoints' = l..(idx + 1)
           /\ idx + 1 \in DOMAIN checkpoints'
           /\ checkpoints'[idx + 1] = cp
           /\ Cardinality(DOMAIN checkpoints') <= MaxCheckpoints
           /\ \A m \in DOMAIN checkpoints' :
                m # idx + 1 => m \in DOMAIN checkpoints /\ checkpoints'[m] = checkpoints[m]
  <1> USE LoopAssumption DEF InBody, InLoop, Unplanned
  <1>1. idx \in Nat
    BY DEF IInv, TypeOK
  <1>2. PICK lo, hi \in 0..MaxSteps : DOMAIN checkpoints = lo..hi
    BY DEF IInv, StoreInv
  <1>3. DOMAIN checkpoints # {} => hi = idx
    <2> SUFFICES ASSUME DOMAIN checkpoints # {} PROVE hi = idx
      OBVIOUS
    <2>1. idx \in lo..hi /\ \A n \in lo..hi : n <= idx
      BY <1>2 DEF IInv, StoreInv, BeginStep
    <2>2. hi \in lo..hi
      BY <1>2, <2>1
    <2>3. QED
      BY <1>1, <1>2, <2>1, <2>2
  <1>4. Cardinality(DOMAIN checkpoints) <= MaxCheckpoints
    BY DEF IInv, StoreInv
  <1>5. PICK n \in Nat \ {0} : n = idx + 1
    BY <1>1
  <1>6. lo \in Nat /\ hi \in Nat /\ (DOMAIN checkpoints # {} => hi = n - 1)
    BY <1>1, <1>2, <1>3, <1>5
  <1> DEFINE after == Save(checkpoints, n, cp)
  <1>7. /\ \E l \in Nat : DOMAIN after = l..n
        /\ n \in DOMAIN after
        /\ after[n] = cp
        /\ Cardinality(DOMAIN after) <= MaxCheckpoints
        /\ \A m \in DOMAIN after :
             m # n => m \in DOMAIN checkpoints /\ after[m] = checkpoints[m]
    BY <1>2, <1>4, <1>6, SaveKeepsNewest
  <1>8. checkpoints' = after
    BY <1>5 DEF BeginStep
  <1>9. QED
    BY <1>5, <1>7, <1>8

\* The checkpoint of the new step becomes the newest one, and the cap evicts
\* an older one at most.
LEMMA KeepsBeginStep == IInv /\ BeginStep => IInv'
  <1> SUFFICES ASSUME IInv, BeginStep PROVE IInv'
    OBVIOUS
  <1> USE LoopAssumption DEF control, body, record, InBody, InLoop, Unplanned
  <1> DEFINE cp == [step |-> idx + 1, context |-> context, executed |-> executed]
  <1>1. /\ idx \in Nat /\ idx + 1 \in 1..MaxSteps
        /\ cp \in Checkpoint
    BY DEF IInv, TypeOK, BeginStep, Checkpoint
  <1>2. StoreInv' /\ DOMAIN checkpoints' \subseteq 1..MaxSteps
        /\ \A n \in DOMAIN checkpoints' : checkpoints'[n] \in Checkpoint
    <2>1. CASE opts.checkpointing
      <3>1. PICK saved : saved = checkpoints'
        OBVIOUS
      <3>2. /\ \E l \in Nat : DOMAIN saved = l..(idx + 1)
            /\ idx + 1 \in DOMAIN saved
            /\ saved[idx + 1] = cp
            /\ Cardinality(DOMAIN saved) <= MaxCheckpoints
            /\ \A m \in DOMAIN saved :
                 m # idx + 1 => m \in DOMAIN checkpoints /\ saved[m] = checkpoints[m]
        BY <2>1, <3>1, BeginSaves
      <3>3. DOMAIN saved \subseteq 1..MaxSteps
        BY <1>1, <3>2 DEF IInv, TypeOK
      <3>4. \A n \in DOMAIN saved : saved[n] \in Checkpoint
        BY <1>1, <3>2 DEF IInv, TypeOK
      <3>5. \E l, h \in 0..MaxSteps : DOMAIN saved = l..h
        BY <1>1, <3>2, <3>3
      <3>6. \A n \in DOMAIN saved : n <= idx + 1
        BY <1>1, <3>2
      <3>7. StoreInv'
        BY <2>1, <3>1, <3>2, <3>5, <3>6 DEF StoreInv, BeginStep
      <3>8. QED
        BY <3>1, <3>3, <3>4, <3>7
    <2>2. CASE ~opts.checkpointing
      BY <2>2 DEF IInv, StoreInv, BeginStep
    <2>3. QED
      BY <2>1, <2>2
  <1>3. TypeOK'
    <2>1. handle' \in Handle
      <3>1. Heartbeat(handle, idx + 1) \in Handle
        <4>1. PICK n \in Nat : n = idx + 1
          BY <1>1
        <4>2. Heartbeat(handle, n) \in Handle
          BY HandleType DEF IInv, TypeOK
        <4>3. QED
          BY <4>1, <4>2
      <3>2. QED
        BY <3>1 DEF IInv, TypeOK, BeginStep
    <2>2. step' \in Step
      BY <1>1, StepType DEF BeginStep
    <2>3. QED
      BY <1>1, <1>2, <2>1, <2>2 DEF IInv, TypeOK, BeginStep, Places
  <1>4. IndexInv'
    BY DEF IInv, IndexInv, BeginStep
  <1>5. ReportInv'
    BY DEF IInv, ReportInv, ReportsDue, BeginStep, NewStep
  <1>6. RetryInv'
    BY DEF IInv, RetryInv, RetriesBeforeGivingUp, BeginStep, NewStep
  <1>7. VerdictInv'
    BY DEF IInv, VerdictInv, VerdictIsEarned, AllStepsComplete, Failed, BeginStep
  <1>8. NothingLeftBehind'
    BY DEF NothingLeftBehind, BeginStep
  <1>9. QED
    BY <1>2, <1>3, <1>4, <1>5, <1>6, <1>7, <1>8 DEF IInv

\* What is restored is the snapshot of the step being run, so the jump leaves
\* the index and the reports where they were.
LEMMA ResetRestoresCurrent ==
    ASSUME IInv, ResetContext
    PROVE  /\ RestoreLast(checkpoints) = checkpoints[stepNum]
           /\ RestoreLast(checkpoints) \in Checkpoint
           /\ RestoreLast(checkpoints).executed = executed
           /\ JumpTo(RestoreLast(checkpoints)) = idx
           /\ stepNum = idx + 1
  <1> USE LoopAssumption DEF InBody, InLoop, Unplanned
  <1>1. pc = "attempt" /\ DOMAIN checkpoints # {}
    BY DEF ResetContext, Attempting, Restorable
  <1>2. opts.checkpointing
    BY <1>1 DEF IInv, StoreInv
  <1>3. /\ stepNum \in DOMAIN checkpoints
        /\ checkpoints[stepNum].step = stepNum
        /\ checkpoints[stepNum].executed = executed
        /\ \A n \in DOMAIN checkpoints : n <= stepNum
    BY <1>1, <1>2 DEF IInv, StoreInv
  <1>4. DOMAIN checkpoints \subseteq Int
    BY DEF IInv, TypeOK
  <1>5. Newest(checkpoints) = stepNum
    BY <1>3, <1>4, NewestIsGreatest
  <1>6. stepNum = idx + 1 /\ idx \in Nat
    BY <1>1 DEF IInv, TypeOK, IndexInv
  <1>7. checkpoints[stepNum] \in Checkpoint
    BY <1>3 DEF IInv, TypeOK
  <1>8. QED
    BY <1>3, <1>5, <1>6, <1>7 DEF RestoreLast, JumpTo

LEMMA KeepsResetContext == IInv /\ ResetContext => IInv'
  <1> SUFFICES ASSUME IInv, ResetContext PROVE IInv'
    OBVIOUS
  <1> USE LoopAssumption DEF control, body, record, InBody, InLoop, Unplanned
  <1> DEFINE cp == RestoreLast(checkpoints)
  <1>1. /\ cp = checkpoints[stepNum] /\ cp \in Checkpoint
        /\ cp.executed = executed /\ JumpTo(cp) = idx /\ stepNum = idx + 1
    BY ResetRestoresCurrent
  <1> HIDE DEF cp
  <1>2. /\ idx' = idx /\ executed' = executed /\ step' = NewStep(idx + 1)
        /\ context' = cp.context
        /\ UNCHANGED <<opts, plan, stepNum, attempt, finalAction, checkpoints,
                       registered, outcome>>
        /\ pc = "attempt" /\ pc' = "report" /\ hadError' = FALSE
    BY <1>1 DEF ResetContext, RestoredContext, AfterReset, Attempting, cp
  <1>3. TypeOK'
    <2>1. handle' \in Handle
      BY HandleType DEF IInv, TypeOK, ResetContext, Popped, Interventions
    <2>2. step' \in Step
      BY <1>2, StepType DEF IInv, TypeOK
    <2>3. context' \in Seq(Line)
      BY <1>1, <1>2 DEF Checkpoint
    <2>4. QED
      BY <1>2, <2>1, <2>2, <2>3 DEF IInv, TypeOK, Places
  <1>4. IndexInv'
    BY <1>2 DEF IInv, IndexInv
  <1>5. ReportInv'
    BY <1>1, <1>2 DEF IInv, ReportInv, ReportsDue, NewStep
  <1>6. StoreInv'
    BY <1>2 DEF IInv, StoreInv
  <1>7. RetryInv'
    BY <1>2 DEF IInv, RetryInv, RetriesBeforeGivingUp, NewStep
  <1>8. VerdictInv'
    BY <1>2 DEF IInv, VerdictInv, VerdictIsEarned, AllStepsComplete
  <1>9. NothingLeftBehind'
    BY <1>2 DEF NothingLeftBehind
  <1>10. QED
    BY <1>3, <1>4, <1>5, <1>6, <1>7, <1>8, <1>9 DEF IInv

LEMMA KeepsStutter == IInv /\ UNCHANGED vars => IInv'
  <1> SUFFICES ASSUME IInv, UNCHANGED vars PROVE IInv'
    OBVIOUS
  <1> USE DEF vars, control, body, record, InBody, InLoop, Unplanned
  <1>1. TypeOK' /\ IndexInv' /\ ReportInv'
    BY DEF IInv, TypeOK, IndexInv, ReportInv, ReportsDue
  <1>2. StoreInv' /\ RetryInv' /\ NothingLeftBehind'
    BY DEF IInv, StoreInv, RetryInv, RetriesBeforeGivingUp, NothingLeftBehind
  <1>3. VerdictInv'
    BY DEF IInv, VerdictInv, VerdictIsEarned, AllStepsComplete, Failed
  <1>4. QED
    BY <1>1, <1>2, <1>3 DEF IInv

-----------------------------------------------------------------------------
(* The inductive invariant holds *)

LEMMA InitInv == Init => IInv
  <1> SUFFICES ASSUME Init PROVE IInv
    OBVIOUS
  <1> USE LoopAssumption DEF Init, InBody, InLoop, Unplanned
  <1>1. TypeOK
    <2>1. handle \in Handle /\ step \in Step
      BY HandleType, StepType
    <2>2. executed \in Seq(Step) /\ context \in Seq(Line)
      OBVIOUS
    <2>3. /\ DOMAIN checkpoints \subseteq 1..MaxSteps
          /\ \A n \in DOMAIN checkpoints : checkpoints[n] \in Checkpoint
      BY EmptyStore
    <2>4. opts \in [planning : BOOLEAN, checkpointing : BOOLEAN, supervised : BOOLEAN,
                   rolling : BOOLEAN, streaming : BOOLEAN]
      OBVIOUS
    <2>5. /\ plan \in 0..MaxSteps /\ idx \in 0..MaxSteps /\ stepNum \in 0..MaxSteps
          /\ attempt \in 0..MaxRetries
      OBVIOUS
    <2>6. /\ pc \in Places /\ outcome \in Outcomes
          /\ finalAction \in {"continue", "abort", "escalate"}
      BY DEF Places, Outcomes
    <2>7. hadError \in BOOLEAN /\ registered \in BOOLEAN
      OBVIOUS
    <2>8. QED
      BY <2>1, <2>2, <2>3, <2>4, <2>5, <2>6, <2>7 DEF TypeOK
  <1>2. IndexInv /\ ReportInv
    BY DEF IndexInv, ReportInv, ReportsDue
  <1>3. StoreInv /\ NothingLeftBehind
    BY EmptyStore DEF StoreInv, NothingLeftBehind
  <1>4. RetryInv /\ VerdictInv
    BY DEF RetryInv, RetriesBeforeGivingUp, VerdictInv, VerdictIsEarned,
       AllStepsComplete, Failed
  <1>5. QED
    BY <1>1, <1>2, <1>3, <1>4 DEF IInv

LEMMA StepInv == IInv /\ [Next]_vars => IInv'
  <1> SUFFICES ASSUME IInv, [Next]_vars PROVE IInv'
    OBVIOUS
  <1>1. CASE Planning
    BY <1>1, KeepsStart, KeepsSkipPlanning, KeepsAskForPlan, KeepsPlanReturns,
       KeepsPlanFails DEF Planning
  <1>2. CASE BeginStep
    BY <1>2, KeepsBeginStep
  <1>3. CASE Intervening
    BY <1>3, KeepsNothingToApply, KeepsResetContext, KeepsNudge, KeepsGiveUp DEF
       Intervening
  <1>4. CASE Executing
    BY <1>4, KeepsStepPaused, KeepsStepReturns, KeepsStepRaises,
       KeepsContextOverflow DEF Executing
  <1>5. CASE Deciding
    BY <1>5, KeepsRetryStep, KeepsLeaveAttempts DEF Deciding
  <1>6. CASE Closing
    BY <1>6, KeepsReportStep, KeepsNextStep, KeepsStopTask, KeepsFinalize,
       KeepsReturn DEF Closing
  <1>7. CASE ToolSucceeds \/ Cancel \/ Poll \/ Inject
    BY <1>7, KeepsToolSucceeds, KeepsCancel, KeepsPoll, KeepsInject
  <1>8. CASE Finished \/ UNCHANGED vars
    BY <1>8, KeepsStutter DEF Finished
  <1>9. QED
    BY <1>1, <1>2, <1>3, <1>4, <1>5, <1>6, <1>7, <1>8 DEF Next, LoopStep

\* The invariant that carries every safety theorem below: the loop's index,
\* reports, checkpoints, retries and verdict fit together in every state.
THEOREM Inductive == Spec => []IInv
  BY InitInv, StepInv, PTL DEF Spec

-----------------------------------------------------------------------------
(* The properties the runs check, for every value of the constants *)

\* The loop's variables keep their types, and attempts and steps their bounds.
THEOREM TypeCorrect == Spec => []TypeOK
  <1>1. IInv => TypeOK
    BY DEF IInv
  <1>2. QED
    BY Inductive, <1>1, PTL

\* The reports are those of steps 1, 2, ... with none lost, repeated or
\* shifted by a reset.
THEOREM ReportsStayInOrder == Spec => []ReportedInOrder
  <1>1. IInv => ReportedInOrder
    BY DEF IInv, ReportInv, ReportedInOrder
  <1>2. QED
    BY Inductive, <1>1, PTL

\* Whatever the cap evicts, a reset finds the checkpoint of the current step.
THEOREM ResetFindsCurrentStep == Spec => []NewestIsCurrent
  <1>1. IInv => NewestIsCurrent
    <2> SUFFICES ASSUME IInv, opts.checkpointing,
                        pc \in {"attempt", "executing", "observed", "report"}
                 PROVE  /\ Restorable(checkpoints)
                        /\ RestoreLast(checkpoints).step = idx + 1
                        /\ RestoreLast(checkpoints).executed = executed
      BY DEF NewestIsCurrent
    <2>1. /\ stepNum \in DOMAIN checkpoints
          /\ checkpoints[stepNum].step = stepNum
          /\ checkpoints[stepNum].executed = executed
          /\ \A n \in DOMAIN checkpoints : n <= stepNum
      BY DEF IInv, StoreInv, InBody
    <2>2. DOMAIN checkpoints \subseteq Int
      BY DEF IInv, TypeOK
    <2>3. Newest(checkpoints) = stepNum
      BY <2>1, <2>2, NewestIsGreatest
    <2>4. stepNum = idx + 1
      BY DEF IInv, IndexInv, InBody
    <2>5. QED
      BY <2>1, <2>3, <2>4 DEF RestoreLast, Restorable
  <1>2. QED
    BY Inductive, <1>1, PTL

\* The store of a run never outgrows max_checkpoints_per_run.
THEOREM StoreStaysCapped == Spec => []CheckpointsCapped
  <1>1. IInv => CheckpointsCapped
    BY DEF IInv, StoreInv, CheckpointsCapped
  <1>2. QED
    BY Inductive, <1>1, PTL

\* A step is reported with an execution error only after its last retry.
THEOREM ErrorsAreRetried == Spec => []RetriesBeforeGivingUp
  <1>1. IInv => RetriesBeforeGivingUp
    BY DEF IInv, RetryInv
  <1>2. QED
    BY Inductive, <1>1, PTL

\* A finished run is deregistered and its checkpoints are cleared.
THEOREM RunsCleanUp == Spec => []NothingLeftBehind
  <1>1. IInv => NothingLeftBehind
    BY DEF IInv
  <1>2. QED
    BY Inductive, <1>1, PTL

\* A verdict is the one the reports justify.
THEOREM VerdictsAreEarned == Spec => []VerdictIsEarned
  <1>1. IInv => VerdictIsEarned
    BY DEF IInv, VerdictInv
  <1>2. QED
    BY Inductive, <1>1, PTL

-----------------------------------------------------------------------------
(* The context lines, also for every value of the constants.  A line bears  *)
(* the number of the step it was appended in, so the lines of the step      *)
(* being run come last, after those the checkpoint of that step holds.      *)

ContextLinesInv ==
    /\ pc = "head" \/ Unplanned => \A i \in 1..Len(context) : context[i].step <= idx
    /\ InBody \/ pc = "reported" => \A i \in 1..Len(context) : context[i].step <= stepNum

\* How the saved lines go with those there are now.
GrownFrom(saved, lines, n) ==
    /\ Len(saved) <= Len(lines)
    /\ \A i \in 1..Len(saved) : lines[i] = saved[i] /\ saved[i].step < n
    /\ \A i \in 1..Len(lines) : i > Len(saved) => lines[i].step = n

SavedLinesInv ==
    opts.checkpointing /\ InBody =>
        /\ GrownFrom(checkpoints[stepNum].context, context, stepNum)
        /\ opts.rolling => Tells(checkpoints[stepNum].context, executed)

ContextInv == ContextTellsReports /\ ContextLinesInv /\ SavedLinesInv

LEMMA AppendedLine ==
    ASSUME NEW lines \in Seq(Line), NEW line \in Line, NEW all, all = Append(lines, line)
    PROVE  /\ all \in Seq(Line)
           /\ Len(lines) \in Nat /\ Len(all) = Len(lines) + 1
           /\ \A i \in 1..Len(lines) : all[i] = lines[i]
           /\ all[Len(all)] = line
  BY AppendProperties

LEMMA StepLinesFinite ==
    ASSUME NEW lines, NEW n \in Nat
    PROVE  IsFiniteSet(StepLines(lines, n))
  <1>1. IsFiniteSet(1..n)
    BY FS_Interval
  <1>2. QED
    BY <1>1, FS_Subset DEF StepLines

\* A retry or a nudge tells of no report.
LEMMA TellsOtherLine ==
    ASSUME NEW lines \in Seq(Line), NEW reports, Tells(lines, reports),
           NEW line \in Line, line.kind # "step"
    PROVE  Tells(Append(lines, line), reports)
  <1>1. PICK all : all = Append(lines, line)
    OBVIOUS
  <1>2. /\ Len(lines) \in Nat /\ Len(all) = Len(lines) + 1
        /\ \A i \in 1..Len(lines) : all[i] = lines[i]
        /\ all[Len(all)] = line
    BY <1>1, AppendedLine
  <1>3. \A n \in 1..Len(lines) : StepLines(all, n) = StepLines(lines, n)
    BY <1>2 DEF StepLines
  <1>4. StepLines(all, Len(all)) = StepLines(lines, Len(lines))
    BY <1>2 DEF StepLines
  <1>5. Tells(all, reports)
    <2>1. ASSUME NEW i \in StepLines(lines, Len(lines))
          PROVE  all[i].step = reports[Cardinality(StepLines(all, i))].num
      <3>1. i \in 1..Len(lines)
        BY DEF StepLines
      <3>2. QED
        BY <1>2, <1>3, <3>1 DEF Tells
    <2>2. QED
      BY <1>4, <2>1 DEF Tells
  <1>6. QED
    BY <1>1, <1>5

\* The line of a step that is reported tells of its report.
LEMMA TellsReport ==
    ASSUME NEW lines \in Seq(Line), NEW reports \in Seq(Step), Tells(lines, reports),
           NEW line \in Line, NEW report \in Step,
           line.kind = "step", line.step = report.num
    PROVE  Tells(Append(lines, line), Append(reports, report))
  <1>1. PICK all, more : all = Append(lines, line) /\ more = Append(reports, report)
    OBVIOUS
  <1>2. /\ Len(lines) \in Nat /\ Len(all) = Len(lines) + 1
        /\ \A i \in 1..Len(lines) : all[i] = lines[i]
        /\ all[Len(all)] = line
    BY <1>1, AppendedLine
  <1>3. /\ Len(reports) \in Nat /\ Len(more) = Len(reports) + 1
        /\ \A i \in 1..Len(reports) : more[i] = reports[i]
        /\ more[Len(more)] = report
    BY <1>1, AppendProperties
  <1> DEFINE told == StepLines(lines, Len(lines))
  <1>4. IsFiniteSet(told) /\ Cardinality(told) = Len(reports)
    BY <1>2, StepLinesFinite DEF Tells
  <1>5. \A n \in 1..Len(lines) : StepLines(all, n) = StepLines(lines, n)
    BY <1>2 DEF StepLines
  <1>6. StepLines(all, Len(all)) = told \cup {Len(all)} /\ Len(all) \notin told
    BY <1>2 DEF StepLines
  <1>7. Cardinality(StepLines(all, Len(all))) = Len(more)
    BY <1>3, <1>4, <1>6, FS_AddElement
  <1>8. ASSUME NEW i \in told
        PROVE  all[i].step = more[Cardinality(StepLines(all, i))].num
    <2>1. i \in 1..Len(lines) /\ i \in StepLines(lines, i)
      BY <1>2 DEF StepLines
    <2>2. StepLines(lines, i) \subseteq told
      BY <1>2, <2>1 DEF StepLines
    <2>3. /\ IsFiniteSet(StepLines(lines, i))
          /\ Cardinality(StepLines(lines, i)) <= Len(reports)
      BY <1>4, <2>2, FS_Subset
    <2>4. Cardinality(StepLines(lines, i)) \in 1..Len(reports)
      <3>1. Cardinality(StepLines(lines, i)) \in Nat
        BY <2>3, FS_CardinalityType
      <3>2. Cardinality(StepLines(lines, i)) # 0
        BY <2>1, <2>3, FS_EmptySet
      <3>3. QED
        BY <1>3, <2>3, <3>1, <3>2
    <2>5. lines[i].step = reports[Cardinality(StepLines(lines, i))].num
      BY DEF Tells
    <2>6. QED
      BY <1>2, <1>3, <1>5, <2>1, <2>4, <2>5
  <1>9. all[Len(all)].step = more[Cardinality(StepLines(all, Len(all)))].num
    BY <1>2, <1>3, <1>7
  <1> HIDE DEF told
  <1>10. Tells(all, more)
    BY <1>6, <1>7, <1>8, <1>9 DEF Tells
  <1>11. QED
    BY <1>1, <1>10

\* A step that changes neither the lines nor the reports, and begins nothing.
LEMMA ContextStays ==
    ASSUME ContextInv, UNCHANGED <<opts, context, executed>>,
           InBody' => InBody /\ UNCHANGED <<stepNum, checkpoints>>,
           pc' = "reported" => (InBody \/ pc = "reported") /\ UNCHANGED stepNum,
           pc' = "head" \/ Unplanned' => (pc = "head" \/ Unplanned) /\ UNCHANGED idx
    PROVE  ContextInv'
  <1>1. ContextTellsReports'
    BY DEF ContextInv, ContextTellsReports
  <1>2. ContextLinesInv'
    <2>1. ASSUME pc' = "head" \/ Unplanned'
          PROVE  \A i \in 1..Len(context') : context'[i].step <= idx'
      BY <2>1 DEF ContextInv, ContextLinesInv
    <2>2. ASSUME InBody' \/ pc' = "reported"
          PROVE  \A i \in 1..Len(context') : context'[i].step <= stepNum'
      BY <2>2 DEF ContextInv, ContextLinesInv
    <2>3. QED
      BY <2>1, <2>2 DEF ContextLinesInv
  <1>3. SavedLinesInv'
    <2> SUFFICES ASSUME opts'.checkpointing, InBody'
                 PROVE  /\ GrownFrom(checkpoints'[stepNum'].context, context', stepNum')
                        /\ opts'.rolling =>
                             Tells(checkpoints'[stepNum'].context, executed')
      BY DEF SavedLinesInv
    <2>1. QED
      BY DEF ContextInv, SavedLinesInv
  <1>4. QED
    BY <1>1, <1>2, <1>3 DEF ContextInv

LEMMA ContextStaysQuiet ==
    ASSUME IInv, ContextInv,
           \/ Planning
           \/ NothingToApply \/ GiveUp
           \/ Executing \/ LeaveAttempts
           \/ StopTask \/ Finalize \/ Return
           \/ ToolSucceeds \/ Cancel \/ Poll \/ Inject \/ Finished \/ UNCHANGED vars
    PROVE  ContextInv'
  <1> USE DEF InBody, Unplanned, control, body, record
  <1>1. CASE Planning
    <2>1. /\ UNCHANGED <<opts, context, executed, idx>>
          /\ Unplanned /\ (pc' = "head" \/ Unplanned')
      BY <1>1 DEF Planning, Start, SkipPlanning, AskForPlan, PlanReturns, PlanFails
    <2>2. QED
      BY <2>1, ContextStays
  <1>2. CASE NothingToApply \/ GiveUp \/ Executing \/ LeaveAttempts
    <2>1. /\ UNCHANGED <<opts, context, executed, stepNum, checkpoints>>
          /\ InBody /\ InBody'
      BY <1>2 DEF NothingToApply, GiveUp, Attempting, LeaveAttempts, Executing,
                  StepPaused, StepReturns, StepRaises, ContextOverflow
    <2>2. QED
      BY <2>1, ContextStays
  <1>3. CASE StopTask \/ Finalize \/ Return \/ Cancel
    <2>1. /\ UNCHANGED <<opts, context, executed>>
          /\ pc' \in {"ending", "done"}
      BY <1>3 DEF StopTask, Finalize, Return, Cancel, CleanUp
    <2>2. QED
      BY <2>1, ContextStays
  <1>4. CASE ToolSucceeds \/ Poll \/ Inject \/ Finished \/ UNCHANGED vars
    <2>1. UNCHANGED <<opts, pc, idx, stepNum, context, executed, checkpoints>>
      BY <1>4 DEF ToolSucceeds, Poll, Inject, Finished, vars
    <2>2. QED
      BY <2>1, ContextStays
  <1>5. QED
    BY <1>1, <1>2, <1>3, <1>4

\* A line of the step being run comes last.
LEMMA ContextGrows ==
    ASSUME IInv, ContextInv, InBody, InBody', NEW kind \in {"retry", "nudge"},
           context' = Append(context, NewLine(kind, stepNum)),
           UNCHANGED <<opts, executed, stepNum, checkpoints>>
    PROVE  ContextInv'
  <1>1. PICK n \in Nat : n = stepNum
    BY DEF IInv, TypeOK
  <1>2. PICK lines \in Seq(Line) : lines = context
    BY DEF IInv, TypeOK
  <1>3. PICK line \in Line : line = NewLine(kind, n)
    BY <1>1, LineType
  <1>4. line.kind # "step" /\ line.step = n
    BY <1>3 DEF NewLine
  <1>5. PICK all : all = context'
    OBVIOUS
  <1>6. all = Append(lines, line)
    BY <1>1, <1>2, <1>3, <1>5
  <1>7. /\ Len(lines) \in Nat /\ Len(all) = Len(lines) + 1
        /\ \A i \in 1..Len(lines) : all[i] = lines[i]
        /\ all[Len(all)] = line
    BY <1>6, AppendedLine
  <1>8. ContextTellsReports'
    BY <1>2, <1>4, <1>5, <1>6, TellsOtherLine DEF ContextInv, ContextTellsReports
  <1>9. ContextLinesInv'
    <2>1. \A i \in 1..Len(lines) : lines[i].step <= n
      BY <1>1, <1>2 DEF ContextInv, ContextLinesInv
    <2>2. \A i \in 1..Len(all) : all[i].step <= n
      BY <1>4, <1>7, <2>1
    <2>3. ~ (pc' = "head" \/ Unplanned')
      BY DEF InBody, Unplanned
    <2>4. QED
      BY <1>1, <1>5, <2>2, <2>3 DEF ContextLinesInv
  <1>10. SavedLinesInv'
    <2> SUFFICES ASSUME opts.checkpointing
                 PROVE  /\ GrownFrom(checkpoints[stepNum].context, all, n)
                        /\ opts.rolling => Tells(checkpoints[stepNum].context, executed)
      BY <1>1, <1>5 DEF SavedLinesInv
    <2>1. PICK saved : saved = checkpoints[stepNum].context
      OBVIOUS
    <2>2. GrownFrom(saved, lines, n) /\ (opts.rolling => Tells(saved, executed))
      BY <1>1, <1>2, <2>1 DEF ContextInv, SavedLinesInv
    <2>3. Len(saved) \in Nat
      <3>1. checkpoints[stepNum] \in Checkpoint
        BY DEF IInv, TypeOK, StoreInv
      <3>2. saved \in Seq(Line)
        BY <2>1, <3>1 DEF Checkpoint
      <3>3. QED
        BY <3>2
    <2>4. GrownFrom(saved, all, n)
      <3>1. Len(saved) <= Len(all)
        BY <1>7, <2>2, <2>3 DEF GrownFrom
      <3>2. ASSUME NEW i \in 1..Len(saved) PROVE all[i] = saved[i] /\ saved[i].step < n
        <4>1. i \in 1..Len(lines)
          BY <1>7, <2>2, <2>3 DEF GrownFrom
        <4>2. QED
          BY <1>7, <2>2, <4>1 DEF GrownFrom
      <3>3. ASSUME NEW i \in 1..Len(all), i > Len(saved) PROVE all[i].step = n
        <4>1. CASE i = Len(all)
          BY <1>4, <1>7, <4>1
        <4>2. CASE i # Len(all)
          <5>1. i \in 1..Len(lines)
            BY <1>7, <4>2
          <5>2. QED
            BY <1>7, <2>2, <3>3, <5>1 DEF GrownFrom
        <4>3. QED
          BY <4>1, <4>2
      <3>4. QED
        BY <3>1, <3>2, <3>3 DEF GrownFrom
    <2>5. QED
      BY <2>1, <2>2, <2>4
  <1>11. QED
    BY <1>8, <1>9, <1>10 DEF ContextInv

LEMMA ContextReports == ASSUME IInv, ContextInv, ReportStep PROVE ContextInv'
  <1>1. InBody /\ pc' = "reported" /\ ~InBody' /\ ~Unplanned'
        /\ UNCHANGED <<opts, stepNum>>
    BY DEF ReportStep, InBody, Unplanned, control, body
  <1>2. PICK n \in Nat : n = stepNum
    BY DEF IInv, TypeOK
  <1>3. PICK lines \in Seq(Line), reports \in Seq(Step) : lines = context /\ reports = executed
    BY DEF IInv, TypeOK
  <1>4. PICK line \in Line : line = NewLine("step", n)
    BY LineType
  <1>5. PICK report \in Step : report.num = n /\ executed' = Append(reports, report)
    <2>1. step \in Step /\ step.num = n
      BY <1>1, <1>2 DEF IInv, TypeOK, ReportInv
    <2>2. PICK status \in Statuses : executed' = Append(reports, [step EXCEPT !.status = status])
      BY <1>3 DEF ReportStep, Statuses
    <2>3. [step EXCEPT !.status = status] \in Step /\ [step EXCEPT !.status = status].num = n
      BY <2>1 DEF Step
    <2>4. QED
      BY <2>2, <2>3
  <1>6. line.kind = "step" /\ line.step = n
    BY <1>4 DEF NewLine
  <1>7. context' = IF opts.rolling THEN Append(lines, line) ELSE lines
    BY <1>2, <1>3, <1>4 DEF ReportStep
  <1>8. ContextTellsReports'
    <2> SUFFICES ASSUME opts.rolling PROVE Tells(context', executed')
      BY <1>1 DEF ContextTellsReports
    <2>1. Tells(lines, reports)
      BY <1>3 DEF ContextInv, ContextTellsReports
    <2>2. QED
      BY <1>5, <1>6, <1>7, <2>1, TellsReport
  <1>9. ContextLinesInv'
    <2>1. \A i \in 1..Len(lines) : lines[i].step <= n
      BY <1>1, <1>2, <1>3 DEF ContextInv, ContextLinesInv
    <2>2. PICK all : all = context'
      OBVIOUS
    <2>3. \A i \in 1..Len(all) : all[i].step <= n
      <3>1. CASE opts.rolling
        <4>1. all = Append(lines, line)
          BY <1>7, <2>2, <3>1
        <4>2. QED
          BY <1>6, <2>1, <4>1, AppendedLine
      <3>2. CASE ~opts.rolling
        BY <1>7, <2>1, <2>2, <3>2
      <3>3. QED
        BY <3>1, <3>2
    <2>4. QED
      BY <1>1, <1>2, <2>2, <2>3 DEF ContextLinesInv
  <1>10. SavedLinesInv'
    BY <1>1 DEF SavedLinesInv
  <1>11. QED
    BY <1>8, <1>9, <1>10 DEF ContextInv

LEMMA ContextNext == ASSUME IInv, ContextInv, NextStep PROVE ContextInv'
  <1>1. /\ pc = "reported" /\ pc' = "head" /\ ~InBody'
        /\ UNCHANGED <<opts, context, executed>> /\ idx' = idx + 1
    BY DEF NextStep, InBody, control, record
  <1>2. stepNum = idx + 1
    BY <1>1 DEF IInv, IndexInv
  <1>3. ContextLinesInv'
    <2>1. ~ (InBody' \/ pc' = "reported")
      BY <1>1
    <2>2. \A i \in 1..Len(context) : context[i].step <= stepNum
      BY <1>1 DEF ContextInv, ContextLinesInv
    <2>3. \A i \in 1..Len(context') : context'[i].step <= idx'
      BY <1>1, <1>2, <2>2
    <2>4. QED
      BY <2>1, <2>3 DEF ContextLinesInv
  <1>4. ContextTellsReports' /\ SavedLinesInv'
    BY <1>1 DEF ContextInv, ContextTellsReports, SavedLinesInv
  <1>5. QED
    BY <1>3, <1>4 DEF ContextInv

LEMMA ContextBegins == ASSUME IInv, ContextInv, BeginStep PROVE ContextInv'
  <1>1. /\ pc = "head" /\ pc' = "attempt" /\ stepNum' = idx + 1
        /\ UNCHANGED <<opts, context, executed>>
    BY DEF BeginStep, control, record
  <1>2. idx \in Nat /\ context \in Seq(Line)
    BY DEF IInv, TypeOK
  <1>3. \A i \in 1..Len(context) : context[i].step <= idx /\ context[i].step \in Nat
    <2>1. \A i \in 1..Len(context) : context[i].step <= idx
      BY <1>1 DEF ContextInv, ContextLinesInv
    <2>2. \A i \in 1..Len(context) : context[i] \in Line
      BY <1>2
    <2>3. QED
      BY <2>1, <2>2 DEF Line
  <1>4. ContextTellsReports'
    BY <1>1 DEF ContextInv, ContextTellsReports
  <1>5. ContextLinesInv'
    <2>1. ~ (pc' = "head" \/ Unplanned')
      BY <1>1 DEF Unplanned
    <2>2. \A i \in 1..Len(context') : context'[i].step <= stepNum'
      BY <1>1, <1>2, <1>3
    <2>3. QED
      BY <2>1, <2>2 DEF ContextLinesInv
  <1>6. SavedLinesInv'
    <2> SUFFICES ASSUME opts.checkpointing
                 PROVE  /\ GrownFrom(checkpoints'[stepNum'].context, context', stepNum')
                        /\ opts.rolling => Tells(checkpoints'[stepNum'].context, executed')
      BY <1>1 DEF SavedLinesInv
    <2>1. PICK cp : cp = [step |-> idx + 1, context |-> context, executed |-> executed]
      OBVIOUS
    <2>2. checkpoints'[stepNum'].context = context
      BY <1>1, <2>1, BeginSaves
    <2>3. GrownFrom(context, context, idx + 1)
      BY <1>2, <1>3 DEF GrownFrom
    <2>4. opts.rolling => Tells(context, executed)
      BY DEF ContextInv, ContextTellsReports
    <2>5. QED
      BY <1>1, <2>2, <2>3, <2>4
  <1>7. QED
    BY <1>4, <1>5, <1>6 DEF ContextInv

\* What a reset gives back are the lines from before the step.
LEMMA ResetCutsContext ==
    ASSUME IInv, ContextInv, ResetContext
    PROVE  /\ opts.checkpointing /\ pc = "attempt"
           /\ context' = checkpoints[stepNum].context
           /\ context' \in Seq(Line)
           /\ GrownFrom(context', context, stepNum)
           /\ executed' = executed
           /\ opts.rolling => Tells(context', executed)
  <1>1. pc = "attempt" /\ opts.checkpointing
    BY DEF ResetContext, Attempting, Restorable, IInv, StoreInv
  <1>2. context' = checkpoints[stepNum].context /\ context' \in Seq(Line) /\ executed' = executed
    BY ResetRestoresCurrent DEF ResetContext, RestoredContext, Checkpoint
  <1>3. /\ GrownFrom(checkpoints[stepNum].context, context, stepNum)
        /\ opts.rolling => Tells(checkpoints[stepNum].context, executed)
    BY <1>1 DEF ContextInv, SavedLinesInv, InBody
  <1>4. QED
    BY <1>1, <1>2, <1>3

LEMMA ContextResets == ASSUME IInv, ContextInv, ResetContext PROVE ContextInv'
  <1>1. pc' = "report" /\ UNCHANGED <<opts, stepNum, checkpoints>>
    BY DEF ResetContext, AfterReset, control
  <1>2. /\ opts.checkpointing /\ pc = "attempt"
        /\ context' = checkpoints[stepNum].context
        /\ context' \in Seq(Line)
        /\ GrownFrom(context', context, stepNum)
        /\ executed' = executed
        /\ opts.rolling => Tells(context', executed)
    BY ResetCutsContext
  <1>3. PICK lines \in Seq(Line) : lines = context'
    BY <1>2
  <1>4. PICK n \in Nat : n = stepNum
    BY DEF IInv, TypeOK
  <1>5. \A i \in 1..Len(lines) : lines[i].step < n /\ lines[i].step \in Nat
    <2>1. \A i \in 1..Len(lines) : lines[i].step < n
      BY <1>2, <1>3, <1>4 DEF GrownFrom
    <2>2. \A i \in 1..Len(lines) : lines[i] \in Line
      BY <1>3
    <2>3. QED
      BY <2>1, <2>2 DEF Line
  <1>6. ContextTellsReports'
    BY <1>1, <1>2 DEF ContextTellsReports
  <1>7. ContextLinesInv'
    <2>1. ~ (pc' = "head" \/ Unplanned')
      BY <1>1 DEF Unplanned
    <2>2. \A i \in 1..Len(context') : context'[i].step <= stepNum'
      BY <1>1, <1>3, <1>4, <1>5
    <2>3. QED
      BY <2>1, <2>2 DEF ContextLinesInv
  <1>8. SavedLinesInv'
    <2>1. GrownFrom(lines, lines, n)
      BY <1>5 DEF GrownFrom
    <2>2. checkpoints'[stepNum'].context = lines /\ context' = lines /\ stepNum' = n
      BY <1>1, <1>2, <1>3, <1>4
    <2>3. QED
      BY <1>1, <1>2, <2>1, <2>2 DEF SavedLinesInv
  <1>9. QED
    BY <1>6, <1>7, <1>8 DEF ContextInv

LEMMA InitContext == Init => ContextInv
  <1> SUFFICES ASSUME Init PROVE ContextInv
    OBVIOUS
  <1>1. context = << >> /\ executed = << >> /\ pc = "idle"
    BY DEF Init
  <1>2. ContextTellsReports
    <2>1. StepLines(context, Len(context)) = {}
      BY <1>1 DEF StepLines
    <2>2. QED
      BY <1>1, <2>1, FS_EmptySet DEF ContextTellsReports, Tells
  <1>3. ContextLinesInv /\ SavedLinesInv
    BY <1>1 DEF ContextLinesInv, SavedLinesInv, InBody
  <1>4. QED
    BY <1>2, <1>3 DEF ContextInv

LEMMA StepContext == IInv /\ ContextInv /\ [Next]_vars => ContextInv'
  <1> SUFFICES ASSUME IInv, ContextInv, [Next]_vars PROVE ContextInv'
    OBVIOUS
  <1>1. CASE Nudge
    <2>1. /\ InBody /\ InBody'
          /\ context' = Append(context, NewLine("nudge", stepNum))
          /\ UNCHANGED <<opts, executed, stepNum, checkpoints>>
      BY <1>1 DEF Nudge, Attempting, InBody, control
    <2>2. QED
      BY <2>1, ContextGrows
  <1>2. CASE RetryStep
    <2>1. /\ InBody /\ InBody'
          /\ context' = Append(context, NewLine("retry", stepNum))
          /\ UNCHANGED <<opts, executed, stepNum, checkpoints>>
      BY <1>2 DEF RetryStep, InBody, control
    <2>2. QED
      BY <2>1, ContextGrows
  <1>3. CASE BeginStep \/ ResetContext \/ ReportStep \/ NextStep
    BY <1>3, ContextBegins, ContextResets, ContextReports, ContextNext
  <1>4. CASE \/ Planning
             \/ NothingToApply \/ GiveUp
             \/ Executing \/ LeaveAttempts
             \/ StopTask \/ Finalize \/ Return
             \/ ToolSucceeds \/ Cancel \/ Poll \/ Inject \/ Finished \/ UNCHANGED vars
    BY <1>4, ContextStaysQuiet
  <1>5. QED
    BY <1>1, <1>2, <1>3, <1>4 DEF Next, LoopStep, Intervening, Deciding, Closing

\* With the rolling context on, the model is told exactly what has been reported,
\* whatever was rolled back in between (agentic_loop.py:400-420, 485, 597).
THEOREM ContextAgrees == Spec => []ContextTellsReports
  <1>1. Spec => []ContextInv
    BY Inductive, InitContext, StepContext, PTL DEF Spec
  <1>2. ContextInv => ContextTellsReports
    BY DEF ContextInv
  <1>3. QED
    BY <1>1, <1>2, PTL

\* A reset cuts the context back to where the step began: every line the step
\* has added goes, no other.
THEOREM ResetCutsClean == Spec => RollbackIsClean
  <1> DEFINE Cut == \E n \in 0..Len(context) :
                       /\ context' = SubSeq(context, 1, n)
                       /\ \A i \in 1..Len(context) : i <= n <=> context[i].step # stepNum
  <1>1. ASSUME IInv, ContextInv, ResetContext PROVE Cut
    <2>1. PICK lines \in Seq(Line), saved \in Seq(Line), m \in Nat :
            lines = context /\ saved = context' /\ m = stepNum
      BY <1>1, ResetCutsContext DEF IInv, TypeOK
    <2>2. GrownFrom(saved, lines, m)
      BY <1>1, <2>1, ResetCutsContext
    <2>3. PICK n \in Nat : n = Len(saved)
      BY <2>1
    <2>4. n \in 0..Len(lines) /\ Len(lines) \in Nat
      BY <2>2, <2>3 DEF GrownFrom
    <2>5. saved = SubSeq(lines, 1, n)
      <3>1. PICK part : part = SubSeq(lines, 1, n)
        OBVIOUS
      <3>2. /\ part \in Seq(Line) /\ Len(part) = n
            /\ \A i \in 1..n : part[i] = lines[i]
        BY <2>4, <3>1, SubSeqProperties
      <3>3. \A i \in 1..n : part[i] = saved[i]
        BY <2>2, <2>3, <3>2 DEF GrownFrom
      <3>4. part = saved
        BY <2>3, <3>2, <3>3
      <3>5. QED
        BY <3>1, <3>4
    <2>6. ASSUME NEW i \in 1..Len(lines) PROVE i <= n <=> lines[i].step # m
      <3>1. CASE i <= n
        <4>1. lines[i] = saved[i] /\ saved[i].step < m
          BY <2>2, <2>3, <3>1 DEF GrownFrom
        <4>2. saved[i].step \in Nat
          <5>1. saved[i] \in Line
            BY <2>3, <3>1, ElementOfSeq
          <5>2. QED
            BY <5>1 DEF Line
        <4>3. QED
          BY <3>1, <4>1, <4>2
      <3>2. CASE ~ (i <= n)
        BY <2>2, <2>3, <2>4, <3>2 DEF GrownFrom
      <3>3. QED
        BY <3>1, <3>2
    <2>7. QED
      BY <2>1, <2>4, <2>5, <2>6
  <1>2. IInv /\ ContextInv => (ResetContext => Cut)
    BY <1>1
  <1>3. Spec => []ContextInv
    BY Inductive, InitContext, StepContext, PTL DEF Spec
  <1>4. QED
    BY Inductive, <1>2, <1>3, PTL DEF RollbackIsClean

-----------------------------------------------------------------------------
(* A run of the agentic loop keeps the promise of TaskRun: every step of   *)
(* AgenticLoop is a step of TaskRun or changes nothing a caller sees.      *)

\* What the caller sees of a run, the refinement mapping of Promised.
Phase == CASE pc = "idle" -> "idle"
           [] pc \in {"ending", "done"} -> "over"
           [] OTHER -> "working"

Told(steps) == [i \in 1..Len(steps) |-> steps[i].status]

Seen == <<Phase, Told(executed), outcome>>

-----------------------------------------------------------------------------

\* What is told of a list of steps is the list of their statuses.
LEMMA ToldType ==
    ASSUME NEW steps \in Seq(Step)
    PROVE  /\ Told(steps) \in Seq(Statuses)
           /\ Len(Told(steps)) = Len(steps)
           /\ \A i \in 1..Len(steps) : Told(steps)[i] = steps[i].status
  <1>1. \A i \in 1..Len(steps) : steps[i].status \in Statuses
    <2>1. \A i \in 1..Len(steps) : steps[i] \in Step
      OBVIOUS
    <2>2. QED
      BY <2>1 DEF Step
  <1>2. PICK n \in Nat : n = Len(steps)
    OBVIOUS
  <1>3. Told(steps) \in [1..n -> Statuses]
    BY <1>1, <1>2 DEF Told
  <1>4. Told(steps) \in Seq(Statuses) /\ Len(Told(steps)) = n
    BY <1>3
  <1>5. QED
    BY <1>2, <1>4 DEF Told

\* Reporting a step appends its status to what was told before.
LEMMA ToldGrows ==
    ASSUME NEW steps \in Seq(Step), NEW new \in Step
    PROVE  Told(Append(steps, new)) = Append(Told(steps), new.status)
  <1> DEFINE longer == Append(steps, new)
             told   == Append(Told(steps), new.status)
  <1>1. longer \in Seq(Step) /\ Len(longer) = Len(steps) + 1
    OBVIOUS
  <1>2. new.status \in Statuses
    BY DEF Step
  <1>3. told \in Seq(Statuses) /\ Len(told) = Len(steps) + 1
    BY <1>2, ToldType
  <1>4. Told(longer) \in Seq(Statuses) /\ Len(Told(longer)) = Len(steps) + 1
    BY <1>1, ToldType
  <1>5. ASSUME NEW i \in 1..(Len(steps) + 1)
        PROVE  Told(longer)[i] = told[i]
    <2>1. Told(longer)[i] = longer[i].status
      BY <1>1, ToldType
    <2>2. CASE i = Len(steps) + 1
      BY <1>2, <2>1, <2>2, ToldType
    <2>3. CASE i \in 1..Len(steps)
      <3>1. longer[i] = steps[i]
        BY <2>3
      <3>2. \A c : \A t \in Seq(Statuses) : i \in 1..Len(t) => Append(t, c)[i] = t[i]
        OBVIOUS
      <3>3. told[i] = Told(steps)[i]
        BY <2>3, <3>2, ToldType
      <3>4. QED
        BY <2>1, <2>3, <3>1, <3>3, ToldType
    <2>4. i = Len(steps) + 1 \/ i \in 1..Len(steps)
      <3>1. Len(steps) \in Nat
        OBVIOUS
      <3>2. QED
        BY <1>5, <3>1
    <2>5. QED
      BY <2>2, <2>3, <2>4
  <1> HIDE DEF longer, told
  <1>6. Told(longer) = told
    BY <1>3, <1>4, <1>5
  <1>7. QED
    BY <1>6 DEF longer, told

\* The steps of a run that its caller sees nothing of.
LEMMA QuietSteps ==
    ASSUME IInv,
           \/ SkipPlanning \/ AskForPlan \/ PlanReturns \/ PlanFails
           \/ BeginStep \/ Intervening \/ Executing \/ Deciding
           \/ NextStep \/ Return \/ ToolSucceeds \/ Poll \/ Inject
           \/ UNCHANGED vars
    PROVE  UNCHANGED Seen
  <1> USE DEF Seen, Phase, control, body, record
  <1>1. CASE SkipPlanning \/ AskForPlan \/ PlanReturns \/ PlanFails \/ BeginStep
    BY <1>1 DEF SkipPlanning, AskForPlan, PlanReturns, PlanFails, BeginStep
  <1>2. CASE NothingToApply \/ Nudge \/ GiveUp
    BY <1>2 DEF NothingToApply, Nudge, GiveUp, Attempting
  <1>3. CASE ResetContext
    <2>1. executed' = executed
      BY <1>3, ResetRestoresCurrent DEF ResetContext
    <2>2. QED
      BY <1>3, <2>1 DEF ResetContext, Attempting, AfterReset
  <1>4. CASE Executing
    BY <1>4 DEF Executing, StepPaused, StepReturns, StepRaises, ContextOverflow
  <1>5. CASE Deciding
    BY <1>5 DEF Deciding, RetryStep, LeaveAttempts
  <1>6. CASE NextStep \/ Return \/ ToolSucceeds \/ Poll \/ Inject
    BY <1>6 DEF NextStep, Return, CleanUp, ToolSucceeds, Poll, Inject
  <1>7. CASE UNCHANGED vars
    BY <1>7 DEF vars
  <1>8. QED
    BY <1>1, <1>2, <1>3, <1>4, <1>5, <1>6, <1>7 DEF Intervening

\* The report of a step is TaskRun's ReportStep: all steps before it are
\* complete and the plan has room for it.
LEMMA ReportIsPromised == IInv /\ ReportStep => Promised!ReportStep
  <1> SUFFICES ASSUME IInv, ReportStep PROVE Promised!ReportStep
    OBVIOUS
  <1> USE LoopAssumption DEF control, body, record
  <1> DEFINE status == IF Failed THEN "failed" ELSE "complete"
             new == [step EXCEPT !.status = status]
  <1>1. pc = "report" /\ pc' = "reported" /\ executed' = Append(executed, new)
        /\ outcome' = outcome
    BY DEF ReportStep
  <1>2. executed \in Seq(Step) /\ new \in Step /\ new.status = status
        /\ status \in {"complete", "failed"}
    BY StepType DEF IInv, TypeOK, Statuses, Step
  <1>3. Len(executed) = idx /\ idx < plan /\ plan <= MaxSteps /\ AllStepsComplete
    BY <1>1 DEF IInv, TypeOK, IndexInv, ReportInv, ReportsDue, VerdictInv, InBody
  <1> HIDE DEF status, new
  <1>4. Told(executed') = Append(Told(executed), status)
    BY <1>1, <1>2, ToldGrows
  <1>5. Len(Told(executed)) = Len(executed)
        /\ \A i \in 1..Len(executed) : Told(executed)[i] = executed[i].status
    BY <1>2 DEF Told
  <1>6. Len(Told(executed)) < MaxSteps
    BY <1>2, <1>3, <1>5 DEF IInv, TypeOK
  <1>7. \A i \in 1..Len(Told(executed)) : Told(executed)[i] = "complete"
    BY <1>3, <1>5 DEF AllStepsComplete
  <1>8. QED
    BY <1>1, <1>2, <1>4, <1>6, <1>7
       DEF Promised!ReportStep, Promised!AllComplete, Told

\* The verdicts are TaskRun's: "verified" with every report complete,
\* "stopped" after a failed last report, "cancelled" at any time.
LEMMA EndsArePromised ==
    IInv /\ (Finalize \/ StopTask \/ Cancel) =>
        Promised!Verified \/ Promised!Stopped \/ Promised!Cancelled
  <1> SUFFICES ASSUME IInv, Finalize \/ StopTask \/ Cancel
               PROVE  Promised!Verified \/ Promised!Stopped \/ Promised!Cancelled
    OBVIOUS
  <1> USE LoopAssumption DEF control, body, record
  <1>1. executed \in Seq(Step) /\ Len(Told(executed)) = Len(executed)
        /\ \A i \in 1..Len(executed) : Told(executed)[i] = executed[i].status
    BY DEF IInv, TypeOK, Told
  <1>2. CASE Finalize
    <2>1. Len(executed) > 0 /\ AllStepsComplete
      BY <1>2 DEF Finalize, IInv, TypeOK, IndexInv, InLoop, ReportInv, ReportsDue, VerdictInv
    <2>2. outcome' = "verified" /\ executed' = executed /\ pc = "head" /\ pc' = "ending"
      BY <1>2, <2>1 DEF Finalize
    <2>3. Promised!Verified
      BY <1>1, <2>1, <2>2 DEF Promised!Verified, Promised!AllComplete, Promised!End,
                              AllStepsComplete, Told
    <2>4. QED
      BY <2>3
  <1>3. CASE StopTask
    <2>1. pc = "reported" /\ pc' = "ending" /\ outcome' = "stopped" /\ executed' = executed
      BY <1>3 DEF StopTask
    <2>2. Len(executed) > 0 /\ executed[Len(executed)].status = "failed"
      BY <1>1, <1>3 DEF StopTask, IInv, TypeOK, IndexInv, ReportInv, ReportsDue, VerdictInv
    <2>3. Promised!Stopped
      BY <1>1, <2>1, <2>2 DEF Promised!Stopped, Promised!FailedLast, Promised!End, Told
    <2>4. QED
      BY <2>3
  <1>4. CASE Cancel
    BY <1>4 DEF Cancel, CleanUp, Promised!Cancelled, Promised!End
  <1>5. QED
    BY <1>2, <1>3, <1>4

\* A run keeps TaskRun's promise whatever is planned, retried, rolled back or
\* injected: no report is ever withdrawn or changed, none follows a failure.
THEOREM LoopKeepsPromise == Spec => KeepsPromise
  <1>1. Init => Promised!PromiseInit
    BY DEF Init, Promised!PromiseInit
  <1>2. IInv /\ [Next]_vars => [Promised!PromiseNext]_Seen
    <2> SUFFICES ASSUME IInv, [Next]_vars PROVE [Promised!PromiseNext]_Seen
      OBVIOUS
    <2>1. CASE Start
      BY <2>1 DEF Start, Promised!PromiseNext, Promised!Start, control, body, record
    <2>2. CASE ReportStep
      BY <2>2, ReportIsPromised DEF Promised!PromiseNext
    <2>3. CASE Finalize \/ StopTask \/ Cancel
      BY <2>3, EndsArePromised DEF Promised!PromiseNext
    <2>4. CASE \/ SkipPlanning \/ AskForPlan \/ PlanReturns \/ PlanFails
               \/ BeginStep \/ Intervening \/ Executing \/ Deciding
               \/ NextStep \/ Return \/ ToolSucceeds \/ Poll \/ Inject
               \/ UNCHANGED vars
      BY <2>4, QuietSteps
    <2>5. QED
      BY <2>1, <2>2, <2>3, <2>4 DEF Next, LoopStep, Planning, Closing, Finished
  <1>3. QED
    BY Inductive, <1>1, <1>2, PTL
       DEF Spec, KeepsPromise, Promised!Promise, Promised!promiseVars, Seen, Phase, Told
=============================================================================
