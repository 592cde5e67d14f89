---------------------------- MODULE ServerManager ----------------------------
(***************************************************************************)
(* The llama-server process and the tasks that start, stop and restart it: *)
(* backend/core/server_manager.py with its callers in backend/main.py and  *)
(* the slowdown monitor of backend/core/safety_supervisor.py.              *)
(*                                                                         *)
(* start, stop and restart are coroutines that nothing makes exclusive.    *)
(* Each task is in at most one of them, and the others act whenever it     *)
(* awaits: the exit of a process, the second between stop and start, or    *)
(* the creation of a process.  A child that exits wakes all tasks that     *)
(* wait for it before any timer or later task.  _status only decides what  *)
(* is displayed and is left out.                                           *)
(***************************************************************************)
EXTENDS Naturals, Sequences, FiniteSets

CONSTANTS
    Callers,             \* tasks that call restart: API, Discord
    Stoppers,            \* tasks that call stop: emergency stops
    Processes,           \* identities of child processes, reused when free
    NoProcess,
    MaxRestarts,         \* max_restarts_per_hour
    Hour,                \* length of the rolling hour in ticks of the model
    SlowPolls,           \* slowdown_consecutive_polls
    CanFail              \* start may fail

Watchdog == "watchdog"
Monitor  == "monitor"    \* _monitor_throughput_slowdown, by the supervisor's task
Boot     == "boot"       \* _auto_start_llama_if_missing
Tasks    == Callers \cup Stoppers \cup {Watchdog, Monitor, Boot}
Restarters == Callers \cup {Watchdog, Monitor}

ASSUME ServerAssumption ==
    /\ Callers \cap Stoppers = {}
    /\ {Watchdog, Monitor, Boot} \cap (Callers \cup Stoppers) = {}
    /\ IsFiniteSet(Processes) /\ NoProcess \notin Processes
    /\ MaxRestarts \in Nat \ {0}
    /\ Hour \in Nat
    /\ SlowPolls \in Nat \ {0}
    /\ CanFail \in BOOLEAN

VARIABLES
    pc,                  \* where each task is
    child,               \* the process whose exit it awaits, or that it created
    current,             \* _process
    alive,               \* the children that have not exited
    times,               \* _restart_times, as ages, oldest first
    slow,                \* the monitor's: breaches, _slowdown_breach_count up to
                         \* SlowPolls, and cooling, whether it acted of late
    \* history, read by no action
    recent,              \* the ages of the restarts of the last hour
    overlapped           \* two processes were once being created at the same time

server == <<current, alive>>
vars   == <<pc, child, server, times, slow, recent, overlapped>>

Running == current \in alive

\* Auto-start is about to call start; the watchdog may be turned off.  The
\* monitor counts its last action from the start of the clock.
Init ==
    /\ \E watch \in {"idle", "gone"} :
         pc = [t \in Tasks |-> CASE t = Boot -> "resting"
                                 [] t = Watchdog -> watch
                                 [] OTHER -> "idle"]
    /\ child = [t \in Tasks |-> NoProcess]
    /\ current = NoProcess /\ alive = {}
    /\ times = << >> /\ recent = << >>
    /\ slow \in [breaches : {0}, cooling : BOOLEAN]
    /\ overlapped = FALSE

-----------------------------------------------------------------------------
(* restart, up to its first await *)

\* What is left when the head is dropped as long as it is older than an hour.
\* A slip: nothing is dropped.
SlipYoung(ages) == ages
Young(ages) ==
    LET dropped == CHOOSE n \in 0..Len(ages) :
                     /\ \A i \in 1..n : ages[i] > Hour
                     /\ n < Len(ages) => ages[n + 1] <= Hour
    IN  SubSeq(ages, dropped + 1, Len(ages))

\* _prune_restart_times
Pruned == Young(times)

\* _check_restart_rate.  A slip: one restart too many.
SlipAllowed == Len(Pruned) <= MaxRestarts
Allowed == Len(Pruned) < MaxRestarts

\* stop: SIGTERM and wait for the exit, or nothing if there is no process.
StopOr(t, next) ==
    IF Running
    THEN pc' = [pc EXCEPT ![t] = "stopping"] /\ child' = [child EXCEPT ![t] = current]
    ELSE pc' = [pc EXCEPT ![t] = next] /\ UNCHANGED child

\* The restart counts from now on, whatever becomes of it.
BeginRestart(t) ==
    /\ pc[t] = "idle"
    /\ Allowed
    /\ times' = Append(Pruned, 0)
    /\ recent' = Append(recent, 0)
    /\ StopOr(t, "resting")
    /\ UNCHANGED <<server, overlapped>>

\* "Restart rate limit exceeded": the watchdog, too, goes on.
RefuseRestart(t) ==
    /\ pc[t] = "idle"
    /\ ~Allowed
    /\ times' = Pruned
    /\ UNCHANGED <<pc, child, server, recent, overlapped>>

TriesRestart(t) == BeginRestart(t) \/ RefuseRestart(t)

\* A sample of the throughput that is good enough, or that cannot be had.
NotSlow ==
    /\ pc[Monitor] = "idle"
    /\ slow.breaches > 0
    /\ slow' = [slow EXCEPT !.breaches = 0]
    /\ UNCHANGED <<pc, child, server, times, recent, overlapped>>

Breaches  == IF slow.breaches < SlowPolls THEN slow.breaches + 1 ELSE SlowPolls
Sustained == Breaches = SlowPolls /\ ~slow.cooling

\* One that is below the threshold.  The restart is tried once the slowdown has
\* lasted, and not again until it has cooled down, whether it is refused or not.
Slow ==
    /\ pc[Monitor] = "idle"
    /\ ~Sustained
    /\ slow' = [slow EXCEPT !.breaches = Breaches]
    /\ UNCHANGED <<pc, child, server, times, recent, overlapped>>

SlowRestart ==
    /\ Sustained
    /\ TriesRestart(Monitor)
    /\ slow' = [breaches |-> 0, cooling |-> TRUE]

CoolDown ==
    /\ slow.cooling
    /\ slow' = [slow EXCEPT !.cooling = FALSE]
    /\ UNCHANGED <<pc, child, server, times, recent, overlapped>>

\* An emergency stop.
Stop(t) ==
    /\ pc[t] = "idle"
    /\ StopOr(t, "idle")
    /\ UNCHANGED <<server, times, slow, recent, overlapped>>

-----------------------------------------------------------------------------
(* stop, after its awaits *)

\* What follows stop: the second before start, or the answer.
AfterStop(t) == IF t \in Restarters THEN "resting" ELSE "idle"

\* An exception nobody foresaw ends the watchdog's task; the handlers of the
\* other tasks turn it into an answer.
AfterError(t) == IF t = Watchdog THEN "gone" ELSE "idle"

\* A slip: the exit after SIGKILL is not awaited where SIGTERM's was.
SlipWoken(p) == {t \in Tasks : child[t] = p /\ pc[t] = "stopping"}
Woken(p) == {t \in Tasks : child[t] = p /\ pc[t] \in {"stopping", "killing"}}

\* A child exits, by a signal or on its own, and wakes those who wait for it.
Exit(p) ==
    /\ p \in alive
    /\ alive' = alive \ {p}
    /\ pc' = [t \in Tasks |-> IF t \in Woken(p) THEN AfterStop(t) ELSE pc[t]]
    /\ child' = [t \in Tasks |-> IF t \in Woken(p) THEN NoProcess ELSE child[t]]
    /\ UNCHANGED <<current, times, slow, recent, overlapped>>

\* A slip: the killed process is not awaited.
SlipKilled(t) ==
    /\ pc' = [pc EXCEPT ![t] = AfterStop(t)]
    /\ child' = [child EXCEPT ![t] = NoProcess]

\* SIGKILL goes to the process that is current by now, and its exit is awaited.
\* One that has exited already cannot be killed: ProcessLookupError.
Killed(t) ==
    IF Running
    THEN pc' = [pc EXCEPT ![t] = "killing"] /\ child' = [child EXCEPT ![t] = current]
    ELSE /\ pc' = [pc EXCEPT ![t] = AfterError(t)]
         /\ child' = [child EXCEPT ![t] = NoProcess]

\* The ten seconds are over.
Timeout(t) ==
    /\ pc[t] = "stopping"
    /\ Killed(t)
    /\ UNCHANGED <<server, times, slow, recent, overlapped>>

-----------------------------------------------------------------------------
(* start *)

\* A slip: start does not look at the process.
SlipNeeded == TRUE
Needed == ~Running

\* "llama-server is already running": nothing to do.
StartIsDone(t) ==
    /\ pc[t] = "resting"
    /\ ~Needed
    /\ pc' = [pc EXCEPT ![t] = "idle"]
    /\ UNCHANGED <<child, server, times, slow, recent, overlapped>>

Free == {p \in Processes \ alive : p # current /\ \A t \in Tasks : child[t] # p}

\* create_subprocess_exec forks the process and then awaits its pipes.
StartProcess(t) ==
    /\ pc[t] = "resting"
    /\ Needed
    /\ \E p \in Free : child' = [child EXCEPT ![t] = p] /\ alive' = alive \cup {p}
    /\ pc' = [pc EXCEPT ![t] = "spawning"]
    /\ overlapped' = (overlapped \/ \E other \in Tasks : pc[other] = "spawning")
    /\ UNCHANGED <<current, times, slow, recent>>

\* llama_server_path is not set, or the executable cannot be run.  The watchdog
\* returns on the first and does not catch the second.
StartFails(t) ==
    /\ CanFail
    /\ pc[t] = "resting"
    /\ Needed
    /\ pc' = [pc EXCEPT ![t] = AfterError(t)]
    /\ UNCHANGED <<child, server, times, slow, recent, overlapped>>

\* _process is assigned; whatever was current is forgotten.
Spawned(t) ==
    /\ pc[t] = "spawning"
    /\ current' = child[t]
    /\ child' = [child EXCEPT ![t] = NoProcess]
    /\ pc' = [pc EXCEPT ![t] = "idle"]
    /\ UNCHANGED <<alive, times, slow, recent, overlapped>>

-----------------------------------------------------------------------------

Older(ages) == [i \in 1..Len(ages) |-> IF ages[i] > Hour THEN ages[i] ELSE ages[i] + 1]

\* The restarts of the last hour are as many as are not older, the last ones.
LastHour(ages) ==
    SubSeq(ages, Cardinality({i \in 1..Len(ages) : ages[i] > Hour}) + 1, Len(ages))

\* Time passes.
Tick ==
    /\ times' = Older(times)
    /\ recent' = LastHour(Older(recent))
    /\ UNCHANGED <<pc, child, server, slow, overlapped>>

Ends(t) == Timeout(t) \/ StartIsDone(t) \/ StartProcess(t) \/ StartFails(t)
           \/ Spawned(t)

Next ==
    \/ \E t \in Callers \cup {Watchdog} : TriesRestart(t) /\ UNCHANGED slow
    \/ NotSlow \/ Slow \/ SlowRestart \/ CoolDown
    \/ \E t \in Stoppers : Stop(t)
    \/ \E t \in Tasks : Ends(t)
    \/ \E p \in Processes : Exit(p)
    \/ Tick

Spec == Init /\ [][Next]_vars

\* A health check that finds no server fails, at the latest at the next poll.
WatchdogActs == ~Running /\ TriesRestart(Watchdog) /\ UNCHANGED slow

\* Time passes and awaits end: timers run out, a killed process exits, and a
\* creation has a result.
FairSpec ==
    /\ Spec
    /\ WF_vars(WatchdogActs)
    /\ WF_vars(Tick)
    /\ \A t \in Tasks : WF_vars(Ends(t))
    /\ \A p \in Processes :
         WF_vars((\E t \in Tasks : pc[t] = "killing" /\ child[t] = p) /\ Exit(p))

-----------------------------------------------------------------------------
(* Properties *)

\* TYPE INVARIANT.  Among others, a task waits for a process exactly while it is
\* stopping or killing one, and that process has not exited.
TypeOK ==
    /\ pc \in [Tasks -> {"idle", "stopping", "killing", "resting", "spawning", "gone"}]
    /\ child \in [Tasks -> Processes \cup {NoProcess}]
    /\ \A t \in Tasks : pc[t] \in {"stopping", "killing"} => child[t] \in alive
    /\ \A t \in Tasks : child[t] = NoProcess <=> pc[t] \in {"idle", "resting", "gone"}
    /\ current \in Processes \cup {NoProcess}
    /\ alive \subseteq Processes
    /\ times \in Seq(0..(Hour + 1))
    /\ slow \in [breaches : 0..SlowPolls, cooling : BOOLEAN]
    /\ recent \in Seq(0..Hour)
    /\ overlapped \in BOOLEAN

\* No hour sees more than max_restarts_per_hour restarts, however the tasks
\* that call restart interleave.
RestartsLimited == Len(recent) <= MaxRestarts

\* More than one server process can only come of two starts that create their
\* processes at the same time: a restart always waits for the old process to be
\* gone, and a start that finds one running leaves it alone.
OneAtATime ==
    ~overlapped => Cardinality(alive) <= 1

\* stop signals the process it was called for and no other, although other
\* tasks may replace the current process while it waits.
StopsWhatItFound ==
    ~overlapped =>
        \A t \in Tasks : pc[t] \in {"stopping", "killing"} => child[t] = current

StopAnswers(t) == pc'[t] = "idle" /\ (Stop(t) \/ pc[t] # "idle")

\* When a stop is answered there is no server left, unless another task is just
\* creating one, or two were created at the same time before.
StopLeavesNone ==
    [][\A t \in Stoppers :
         /\ StopAnswers(t)
         /\ ~overlapped /\ \A other \in Tasks : pc[other] # "spawning"
         => alive' = {}]_vars

\* LIVENESS.  A server that is gone comes back, at the latest when the hour
\* allows another restart, unless the watchdog is off or has ended, or starting
\* the server fails again and again.
ServerComesBack ==
    \/ alive = {} ~> alive # {}
    \/ <>(pc[Watchdog] = "gone")
    \/ []<><<\E t \in Tasks : StartFails(t)>>_vars

\* What the module's docstrings promise: it manages "the llama-server process",
\* and start leaves a running one alone.
OneServer == Cardinality(alive) <= 1
=============================================================================
