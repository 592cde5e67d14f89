------------------------------ MODULE Scheduler ------------------------------
(***************************************************************************)
(* The scheduler tool (backend/tools/impl/scheduler_tool.py): its jobs,    *)
(* the JSON file they are kept in, the poll loop that fires due jobs, and  *)
(* restarts of the process.                                                *)
(*                                                                         *)
(* The poll loop suspends in its sleep and while it awaits on_trigger;     *)
(* only then do other tasks call the tool's add and cancel, which await    *)
(* nothing.  A job is known by its place in the _jobs dict, which keeps    *)
(* its entries in the order they were added and never drops one.           *)
(***************************************************************************)
EXTENDS Naturals, Sequences

CONSTANTS
    MaxJobs,             \* bound: how many jobs are added
    MaxRestarts,         \* bound: how often the process goes down
    MaxFailures,         \* failures in a row that cancel a job, 3 in the code
    Kinds,               \* the kinds of job that are added
    SaveFaults           \* what else than success a _save may end in

\* "naive": run_at without a timezone, which _parse_iso lets through.
ASSUME SchedulerAssumption ==
    /\ MaxJobs \in Nat \ {0}
    /\ MaxRestarts \in Nat
    /\ MaxFailures \in Nat \ {0}
    /\ Kinds \subseteq {"once", "every", "daily", "naive"}
    /\ SaveFaults \subseteq {"refused", "torn"}

VARIABLES
    pc,                  \* the poll loop, or "down" with its process
    jobs,                \* _jobs
    file,                \* the jobs that _load would find in jobs_file
    todo,                \* the jobs this poll has still to look at
    restarts,            \* how often the process went down
    \* history, read by no action
    over,                \* the one-shot jobs that were triggered and the jobs
                         \* whose cancellation was confirmed
    forgot               \* the process once went down with unsaved changes

ghosts == <<over, forgot>>
vars   == <<pc, jobs, file, todo, restarts, ghosts>>

Job == [kind : Kinds, due : BOOLEAN, cancelled : BOOLEAN, running : BOOLEAN,
        failures : 0..MaxFailures]

Ids == 1..MaxJobs

\* _save swallows every exception: the file may keep its old content, or be
\* left truncated, which _load takes for no jobs at all.
Save == \/ file' = jobs'
        \/ "refused" \in SaveFaults /\ file' = file
        \/ "torn" \in SaveFaults /\ file' = << >>

Init ==
    /\ pc = "sleeping"
    /\ jobs = << >> /\ file = << >>
    /\ todo = {}
    /\ restarts = 0
    /\ over = {} /\ forgot = FALSE

-----------------------------------------------------------------------------
(* The poll loop *)

\* _fire_due starts: `now` is read and the jobs are listed, once for the whole
\* poll.  Only a poll changes next_run_at, so the jobs that are not due yet are
\* left out of the list here.
PollStarts ==
    /\ pc = "sleeping"
    /\ todo' = {id \in 1..Len(jobs) : jobs[id].due \/ jobs[id].kind = "naive"}
    /\ pc' = "scanning"
    /\ UNCHANGED <<jobs, file, restarts, ghosts>>

PollEnds ==
    /\ pc = "scanning"
    /\ todo = {}
    /\ pc' = "sleeping"
    /\ UNCHANGED <<jobs, file, todo, restarts, ghosts>>

\* The job the scan is at: the next in the order of the dict.
At == CHOOSE id \in todo : \A other \in todo : id <= other

\* The flags are read when the scan gets to the job.  A slip: the time alone
\* decides.
SlipPassedOver(job) == job.running
PassedOver(job) == job.cancelled \/ job.running

SkipJob ==
    /\ pc = "scanning" /\ todo # {}
    /\ PassedOver(jobs[At])
    /\ todo' = todo \ {At}
    /\ UNCHANGED <<pc, jobs, file, restarts, ghosts>>

\* Comparing now with a naive run_at raises, and the whole poll is over.
PollBreaks ==
    /\ pc = "scanning" /\ todo # {}
    /\ ~PassedOver(jobs[At]) /\ jobs[At].kind = "naive"
    /\ todo' = {}
    /\ pc' = "sleeping"
    /\ UNCHANGED <<jobs, file, restarts, ghosts>>

Firing ==
    /\ pc = "scanning" /\ todo # {}
    /\ ~PassedOver(jobs[At]) /\ jobs[At].kind # "naive"

\* What is saved before the trigger is awaited: a one-shot job is cancelled,
\* a recurring one gets its next run.
Marked(job) == [job EXCEPT !.running = TRUE, !.due = FALSE,
                           !.cancelled = (job.kind = "once")]

FireJob ==
    /\ Firing
    /\ jobs' = [jobs EXCEPT ![At] = Marked(@)]
    /\ Save
    /\ over' = IF jobs[At].kind = "once" THEN over \cup {At} ELSE over
    /\ pc' = "firing"
    /\ UNCHANGED <<todo, restarts, forgot>>

\* The timezone of a daily job is not known any more.
DailyFails ==
    /\ Firing
    /\ jobs[At].kind = "daily"
    /\ jobs' = [jobs EXCEPT ![At].cancelled = TRUE]
    /\ Save
    /\ todo' = todo \ {At}
    /\ UNCHANGED <<pc, restarts, ghosts>>

\* Slips: the job stays marked; a fourth failure is allowed.
SlipSettled(job) == job
SlipFailed(job) == [job EXCEPT !.failures = @ + 1,
                               !.cancelled = @ \/ job.failures + 1 > MaxFailures]

Settled(job) == [job EXCEPT !.running = FALSE]

\* The third failure in a row cancels the job.
Failed(job) == [job EXCEPT !.failures = @ + 1,
                           !.cancelled = @ \/ job.failures + 1 >= MaxFailures]

\* A slip: the poll is over after its first trigger.
SlipRest == {}
Rest == todo \ {At}

\* on_trigger returned or raised; the scan goes on with the next job.
TriggerEnds ==
    /\ pc = "firing"
    /\ \/ jobs' = [jobs EXCEPT ![At] = Settled([@ EXCEPT !.failures = 0])]
       \/ jobs' = [jobs EXCEPT ![At] = Settled(Failed(@))]
    /\ Save
    /\ todo' = Rest
    /\ pc' = "scanning"
    /\ UNCHANGED <<restarts, ghosts>>

-----------------------------------------------------------------------------
(* The tool's callers, time, and the process *)

AtAwait == pc \in {"sleeping", "firing"}

Add ==
    /\ AtAwait
    /\ Len(jobs) < MaxJobs
    /\ \E kind \in Kinds :
         jobs' = Append(jobs, [kind |-> kind, due |-> FALSE, cancelled |-> FALSE,
                               running |-> FALSE, failures |-> 0])
    /\ Save
    /\ UNCHANGED <<pc, todo, restarts, ghosts>>

Cancel ==
    /\ AtAwait
    /\ \E id \in 1..Len(jobs) :
         /\ jobs' = [jobs EXCEPT ![id].cancelled = TRUE]
         /\ over' = over \cup {id}
    /\ Save
    /\ UNCHANGED <<pc, todo, restarts, forgot>>

\* next_run_at is passed, in memory and in the file alike.
Pass(list, id) == IF id \in DOMAIN list THEN [list EXCEPT ![id].due = TRUE] ELSE list

TimePasses ==
    /\ \E id \in Ids :
         /\ jobs' = Pass(jobs, id)
         /\ file' = Pass(file, id)
    /\ UNCHANGED <<pc, todo, restarts, ghosts>>

\* A crash, or stop(): the poll task is cancelled wherever it is suspended and
\* writes nothing any more.
GoDown ==
    /\ pc # "down"
    /\ restarts < MaxRestarts
    /\ pc' = "down"
    /\ restarts' = restarts + 1
    /\ forgot' = (forgot \/ file # jobs)
    /\ jobs' = << >> /\ todo' = {}
    /\ UNCHANGED <<file, over>>

\* _load: the jobs are taken as they are, a running one included.
ComeUp ==
    /\ pc = "down"
    /\ jobs' = file
    /\ pc' = "sleeping"
    /\ UNCHANGED <<file, todo, restarts, ghosts>>

Polling == PollStarts \/ PollEnds \/ SkipJob \/ PollBreaks \/ FireJob \/ DailyFails
           \/ TriggerEnds

Next == Polling \/ Add \/ Cancel \/ TimePasses \/ GoDown \/ ComeUp

Spec == Init /\ [][Next]_vars

\* The event loop runs the poll task, every trigger ends, and a process that
\* went down is started again.
FairSpec == Spec /\ WF_vars(Polling) /\ WF_vars(ComeUp)

-----------------------------------------------------------------------------
(* Properties *)

\* TYPE INVARIANT.  Among others, no job is triggered again after MaxFailures
\* failures in a row.
TypeOK ==
    /\ pc \in {"sleeping", "scanning", "firing", "down"}
    /\ jobs \in Seq(Job) /\ Len(jobs) <= MaxJobs
    /\ file \in Seq(Job) /\ Len(file) <= MaxJobs
    /\ todo \subseteq 1..Len(jobs)
    /\ pc = "firing" => todo # {}
    /\ restarts \in 0..MaxRestarts
    /\ over \subseteq Ids
    /\ forgot \in BOOLEAN

\* A one-shot job is triggered once, and a job whose cancellation was answered
\* with ok is not triggered again, although it may be cancelled while it runs or
\* while the poll is on its way to it, and although the process may go down
\* before, during or after the trigger.  A failed save is no exception as long
\* as a later one succeeded before the process went down.
OverIsOver ==
    [][~forgot /\ pc # "firing" /\ pc' = "firing" => At \notin over]_vars

\* A trigger leaves its job free, however it ended: between two polls no job is
\* marked running, unless the file said so when the process came up.
FreeAfterPoll ==
    restarts = 0 /\ pc = "sleeping" => \A id \in 1..Len(jobs) : ~jobs[id].running

Runnable(id) == id <= Len(jobs) /\ ~jobs[id].cancelled /\ ~jobs[id].running

\* LIVENESS.  A due job is triggered, unless it is cancelled, the process goes
\* down, or a naive run_at among the jobs before it breaks every poll.
DueJobsFire ==
    \A id \in Ids :
        /\ Runnable(id) /\ jobs[id].kind # "naive" /\ jobs[id].due
        /\ \A i \in 1..(id - 1) : jobs[i].kind # "naive" \/ jobs[i].cancelled
        ~> \/ pc = "firing" /\ At = id
           \/ pc = "down"
           \/ id <= Len(jobs) /\ jobs[id].cancelled

\* What the module's docstring says: the scheduler "polls for due jobs every
\* 60 seconds and triggers them".
DueJobsAreTriggered ==
    \A id \in Ids :
        Runnable(id) /\ jobs[id].kind # "naive" /\ jobs[id].due
        ~> \/ pc = "firing" /\ At = id
           \/ pc = "down"
           \/ id <= Len(jobs) /\ jobs[id].cancelled

\* What the module's docstring says: the jobs "survive restarts".  A recurring
\* job goes on being triggered whenever it is due, or is cancelled.
JobsSurviveRestarts ==
    \A id \in Ids :
        id <= Len(jobs) /\ jobs[id].kind = "every" /\ jobs[id].due
        ~> \/ pc = "firing" /\ At = id
           \/ id <= Len(jobs) /\ jobs[id].cancelled
=============================================================================
