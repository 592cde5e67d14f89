------------------------------- MODULE Console -------------------------------
(***************************************************************************)
(* The backend with the clients that operate it: ControlPlane with the     *)
(* chat tab of the TUI (tui/app.py), the chat endpoints it talks to and    *)
(* the runs these start (backend/main.py).                                 *)
(*                                                                         *)
(* The tab sends one message at a time.  A task goes to the websocket      *)
(* /ws/agent-progress.  If that ends without a result it goes to POST      *)
(* /api/chat/agentic, and whichever of the two fails, it goes there (once  *)
(* more); a message that is no task goes to POST /api/chat.  Progress      *)
(* events are left out, the tab only prints them.                          *)
(***************************************************************************)
EXTENDS ControlPlane

CONSTANTS
    MaxTasks,            \* bound: tasks typed
    MaxBreaks            \* bound: connections that break or time out

ASSUME ConsoleAssumption == {MaxTasks, MaxBreaks} \subseteq Nat

VARIABLES
    tab,                 \* what the tab does, its task, and whether it has a result
    wire,                \* what the websocket has sent and the tab has not read
    preflight,           \* requests that check whether llama.cpp is up
    line,                \* _inference_lock: its holder and those waiting, in order
    typed, breaks,
    \* history, read by no action
    started,             \* how often each task was started
    failed               \* per task: sendings that failed and led to another

tui  == <<tab, wire, typed, breaks, failed>>
chat == <<tui, preflight, line, started>>
vars == <<control, chat>>

Tasks == 1..MaxTasks
NoJob == [kind |-> "none", task |-> None, there |-> FALSE, at |-> "over", slot |-> None]
Ready == [at |-> "ready", task |-> None, result |-> FALSE]

ChatInit ==
    /\ tab = Ready /\ wire = << >>
    /\ preflight = {} /\ line = << >>
    /\ typed = 0 /\ breaks = 0
    /\ started = [t \in Tasks |-> 0]
    /\ failed = [t \in Tasks |-> 0]

Init == ControlInit /\ ChatInit

Job(kind, task, at) ==
    [kind |-> kind, task |-> task, there |-> TRUE, at |-> at, slot |-> None]

Now(at) == tab' = [tab EXCEPT !.at = at]

\* Nobody waits for the answer to these any more.
Gone(job) == IF job.kind = "other" THEN job ELSE [job EXCEPT !.there = FALSE]
Deserted ==
    /\ preflight' = {Gone(job) : job \in preflight}
    /\ line' = [i \in DOMAIN line |-> Gone(line[i])]

\* The state of a run: the client that waits for it is the tab.
Starts(task) ==
    started' = IF task = None THEN started ELSE [started EXCEPT ![task] = @ + 1]

\* Requests are named for what the tab does: "request" makes up for a stream that
\* ended without a result, "retry" for a sending that raised.
Retried  == {"request", "retry"}
Requests == {"direct"} \cup Retried

\* What the tab does raises: all that is sent for a task but the last request is in
\* one try block, whose handler sends that request.
Raises ==
    IF tab.at \in {"connecting", "stream", "request"}
    THEN Now("second") /\ failed' = [failed EXCEPT ![tab.task] = @ + 1]
    ELSE tab' = Ready /\ UNCHANGED failed

-----------------------------------------------------------------------------
(* The tab *)

Types ==
    /\ tab.at = "ready"
    /\ requests < MaxRequests
    /\ requests' = requests + 1
    /\ UNCHANGED <<decisions, settings, presets, agents, spawned, crashes>>

\* The input stays disabled until the message is dealt with.
SendTask ==
    /\ Types
    /\ typed < MaxTasks
    /\ typed' = typed + 1
    /\ tab' = [at |-> "connecting", task |-> typed + 1, result |-> FALSE]
    /\ UNCHANGED <<call, wire, breaks, failed, preflight, line, started>>

SendDirect ==
    /\ Types
    /\ Now("direct")
    /\ preflight' = preflight \cup {Job("direct", None, "waiting")}
    /\ UNCHANGED <<call, wire, typed, breaks, failed, line, started>>

\* /restart is no task, and handled before anything else.
SendRestart ==
    /\ tab.at = "ready"
    /\ RestartServer(Chat)
    /\ Now("command")
    /\ UNCHANGED <<wire, typed, breaks, failed, preflight, line, started>>

Restarted ==
    /\ tab.at = "command"
    /\ Waiting(Chat, "idle")
    /\ tab' = Ready
    /\ UNCHANGED <<control, wire, typed, breaks, failed, preflight, line, started>>

Read(message) ==
    /\ tab.at = "stream" /\ wire # << >>
    /\ Head(wire) = message
    /\ wire' = Tail(wire)
    /\ UNCHANGED <<control, typed, breaks, preflight, line, started>>

ReadResult ==
    /\ Read("result")
    /\ tab' = [tab EXCEPT !.result = TRUE]
    /\ UNCHANGED failed

\* A stream that ends without a result is made up for by a request.
\* A slip: so is one that ends with a result.
SlipReadClose ==
    /\ Read("close")
    /\ Now("fallback")
    /\ UNCHANGED failed
ReadClose ==
    /\ Read("close")
    /\ IF tab.result THEN tab' = Ready /\ UNCHANGED failed
       ELSE Now("fallback") /\ failed' = [failed EXCEPT ![tab.task] = @ + 1]

ReadError == Read("error") /\ Raises

\* The connection cannot be made or is lost, even between result and close.
StreamBreaks ==
    /\ tab.at \in {"connecting", "stream"}
    /\ breaks < MaxBreaks
    /\ breaks' = breaks + 1
    /\ wire' = << >>
    /\ Raises
    /\ Deserted
    /\ UNCHANGED <<control, typed, started>>

Fallback ==
    /\ tab.at \in {"fallback", "second"}
    /\ LET kind == IF tab.at = "fallback" THEN "request" ELSE "retry" IN
       /\ Now(kind)
       /\ preflight' = preflight \cup {Job(kind, tab.task, "waiting")}
    /\ UNCHANGED <<control, wire, typed, breaks, failed, line, started>>

\* The request times out, or its connection is lost.
RequestBreaks ==
    /\ tab.at \in Requests
    /\ breaks < MaxBreaks
    /\ breaks' = breaks + 1
    /\ Raises
    /\ Deserted
    /\ UNCHANGED <<control, wire, typed, started>>

-----------------------------------------------------------------------------
(* The endpoints *)

\* ws_agent_progress does not wait for the lock.
StreamIsBusy ==
    /\ tab.at = "connecting"
    /\ line # << >>
    /\ Now("stream")
    /\ wire' = <<"error", "close">>
    /\ UNCHANGED <<control, typed, breaks, failed, preflight, line, started>>

StreamStarts ==
    /\ tab.at = "connecting"
    /\ line = << >>
    /\ Now("stream")
    /\ line' = <<Job("socket", tab.task, "running")>>
    /\ Starts(tab.task)
    /\ UNCHANGED <<control, wire, typed, breaks, failed, preflight>>

\* The answer to a request, if the tab still waits for it: a result, or a status
\* that raises.
Answered(job) == (IF job.there THEN tab' = Ready ELSE UNCHANGED tab) /\ UNCHANGED failed
Refused(job)  == IF job.there THEN Raises ELSE UNCHANGED <<tab, failed>>

\* _ensure_llama_available, and then the lock.
PreflightFails(job) ==
    /\ preflight' = preflight \ {job}
    /\ Refused(job)
    /\ UNCHANGED <<control, wire, typed, breaks, line, started>>

PreflightOk(job) ==
    /\ preflight' = preflight \ {job}
    /\ line' = Append(line, job)
    /\ UNCHANGED <<control, tui, started>>

\* A run for somebody else: the scheduler, Discord, another client.
OtherRun ==
    /\ requests < MaxRequests
    /\ requests' = requests + 1
    /\ line' = Append(line, Job("other", None, "waiting"))
    /\ UNCHANGED <<decisions, settings, presets, agents, call, spawned, crashes, tui,
                   preflight, started>>

Holder == IF line = << >> THEN NoJob ELSE Head(line)
HolderNow(job) == line' = [line EXCEPT ![1] = job]

\* The lock is handed on.
Begin ==
    /\ Holder.at = "waiting"
    /\ HolderNow([Holder EXCEPT !.at = "running"])
    /\ Starts(Holder.task)
    /\ UNCHANGED <<control, tui, preflight>>

\* A run ends with a result or with an error.  The socket sends and closes, and
\* does not notice what is not received; a result that cannot be sent is
\* swallowed.
End ==
    /\ Holder.at \in {"running", "resumed"}
    /\ line' = Tail(line)
    /\ CASE Holder.kind = "socket" /\ Holder.there ->
              /\ wire' \in {<<"result", "close">>, <<"error", "close">>, <<"close">>}
              /\ UNCHANGED <<tab, failed>>
         [] Holder.kind \in Requests ->
              (Answered(Holder) \/ Refused(Holder)) /\ UNCHANGED wire
         [] OTHER -> UNCHANGED <<tab, wire, failed>>
    /\ UNCHANGED <<control, typed, breaks, preflight, started>>

\* _run_agentic_with_cancel sees that the client has gone, wherever the run is.
\* A slip: the lock is kept.
SlipCancel ==
    /\ Holder.kind \in Retried /\ ~Holder.there
    /\ Holder.at \notin {"waiting", "over"}
    /\ HolderNow([Holder EXCEPT !.at = "over"])
    /\ UNCHANGED <<control, tui, preflight, started>>
Cancel ==
    /\ Holder.kind \in Retried /\ ~Holder.there
    /\ Holder.at # "waiting"
    /\ line' = Tail(line)
    /\ UNCHANGED <<control, tui, preflight, started>>

-----------------------------------------------------------------------------
(* The tool sub_agent, called by the run that holds the lock *)

Runs == Retried \cup {"socket", "other"}

\* It asks for the slots, whatever the number of agents is.  Bound: once a run.
Delegate ==
    /\ Holder.kind \in Runs /\ Holder.at = "running"
    /\ HolderNow([Holder EXCEPT !.at = "asking"])
    /\ UNCHANGED <<control, tui, preflight, started>>

DelegatedTo == IF Holder.at = "delegating" THEN {Holder.slot} ELSE {}
Busy        == Generating \cup DelegatedTo

DelegateSpawns ==
    /\ Holder.at = "asking"
    /\ IdleSlots(Busy) # {}
    /\ \E p \in Presets : presets[p] = "there"
    /\ Register("tool", IdleSlots(Busy))
    /\ \E agent \in agents' :
         /\ agent.id = spawned + 1
         /\ HolderNow([Holder EXCEPT !.at = "delegating", !.slot = agent.slot])
    /\ UNCHANGED <<decisions, settings, presets, call, requests, crashes, tui, preflight,
                   started>>

\* The agent has answered, or the tool failed; the agent stays in the registry.
DelegateEnds ==
    /\ Holder.at \in {"asking", "delegating"}
    /\ HolderNow([Holder EXCEPT !.at = "resumed", !.slot = None])
    /\ UNCHANGED <<control, tui, preflight, started>>

-----------------------------------------------------------------------------
(* The other tabs of the TUI, and other clients that ask for the same.  What a  *)
(* table or a form shows was loaded at some time, and may have changed since.   *)

\* _save sends the whole form, others single fields.
Save(c) == \E data \in Updates : UpdateSettings(c, data)

Restart(c) == QueueAction(c, "server_restart") \/ RestartServer(c)

ActionEmergencyStop(c) == QueueAction(c, "emergency_stop") \/ EmergencyStop(c)

\* The approvals that were pending when a table was loaded.
ShownApprovals == 1..submitted

ApproveSelected(c) == \E id \in ShownApprovals : ApproveAction(c, id)

RejectSelected(c) == \E id \in ShownApprovals : RejectAction(c, id)

\* The presets that were there when a table was loaded.
ShownPresets == {p \in Presets : presets[p] # "new"}

OnPresetCreated(c) == \E p \in Presets : CreatePreset(c, p)

DeleteSelectedPreset(c) == \E p \in ShownPresets : DeletePreset(c, p)

SpawnSelected(c) == \E p \in ShownPresets : SpawnAgent(c, p)

\* The table of agents reads a field that agents do not have, so that the TUI asks
\* for an agent nobody knows.
KillSelected(c) ==
    /\ Asks(c)
    /\ agents # {}
    /\ UNCHANGED <<decisions, settings, presets, agents, call, spawned, crashes>>

\* These two are not offered by the TUI.
ByApi(c) == \E agent \in agents : DestroyAgent(c, agent) \/ ChatWithAgent(c, agent)

Request(c) ==
    \/ Save(c) \/ Restart(c) \/ ActionEmergencyStop(c)
    \/ ApproveSelected(c) \/ RejectSelected(c)
    \/ OnPresetCreated(c) \/ DeleteSelectedPreset(c) \/ SpawnSelected(c)
    \/ KillSelected(c) \/ ByApi(c)

-----------------------------------------------------------------------------

BackendDies ==
    /\ Crash
    /\ line' = << >> /\ preflight' = {} /\ wire' = << >>
    /\ IF tab.at \in {"fallback", "second"} THEN UNCHANGED <<tab, failed>> ELSE Raises
    /\ UNCHANGED <<typed, breaks, started>>

TabActs ==
    \/ Restarted
    \/ ReadResult \/ ReadClose \/ ReadError
    \/ Fallback
    \/ StreamIsBusy \/ StreamStarts

JobActs ==
    \/ Begin
    \/ End
    \/ Cancel
    \/ DelegateSpawns \/ DelegateEnds

Preflight(job) == PreflightFails(job) \/ PreflightOk(job)
\* One idle client is as good as another: a request comes from the first.
Operates(c) ==
    /\ c = CHOOSE d \in Clients \ {Chat} :
             Waiting(d, "idle") \/ \A e \in Clients \ {Chat} : ~Waiting(e, "idle")
    /\ Request(c)
    /\ UNCHANGED chat
IsAnswered(c) == Answer(c, Busy) /\ UNCHANGED chat

Next ==
    \/ SendTask \/ SendDirect \/ SendRestart \/ OtherRun
    \/ TabActs
    \/ StreamBreaks \/ RequestBreaks
    \/ \E job \in preflight : Preflight(job)
    \/ JobActs \/ Delegate
    \/ \E c \in Clients \ {Chat} : Operates(c)
    \/ \E c \in Clients : IsAnswered(c)
    \/ BackendDies

Spec == Init /\ [][Next]_vars

\* Awaits end: llama.cpp answers or its client times out, the loop ends a run,
\* the lock serves those waiting in order, and the tab reads what it is sent.
\* Nobody has to ask for anything.
FairSpec ==
    /\ Spec
    /\ WF_vars(TabActs)
    /\ WF_vars(JobActs)
    /\ WF_vars(\E job \in preflight : Preflight(job))
    /\ \A c \in Clients : WF_vars(IsAnswered(c))

-----------------------------------------------------------------------------
(* Properties *)

Ops == {"idle", "restart", "stop", "spawn", "recall", "generate"}

\* TYPE INVARIANT.  Among others, the queue of approvals never exceeds its cap,
\* identifiers are used once and in order, and only the holder of the lock runs.
TypeOK ==
    /\ Len(queue) <= MaxEntries
    /\ \A i \in DOMAIN queue :
         /\ queue[i].id \in 1..submitted
         /\ i > 1 => queue[i - 1].id < queue[i].id
         /\ queue[i].status = "pending" <=> verdicts[queue[i].id] = "none"
    /\ DOMAIN settings = DOMAIN InitialSettings /\ settings.guarded \subseteq CriticalActions
    /\ presets \in [Presets -> {"new", "there", "gone"}]
    /\ \A a, b \in agents : a.id \in 1..spawned /\ (a.id = b.id => a = b)
    /\ \A c \in Clients : call[c].op \in Ops
    /\ verdicts \in [Approvals -> {"none", "approved", "rejected"}]
    /\ carried \in [Approvals -> Nat]
    /\ tab.at \in Requests \cup {"ready", "connecting", "stream", "fallback", "second", "command"}
    /\ tab.task \in Tasks \cup {None} /\ tab.result \in BOOLEAN
    /\ started \in [Tasks -> Nat] /\ failed \in [Tasks -> Nat]
    /\ \A i \in 2..Len(line) : line[i].at = "waiting"
    /\ \A job \in preflight : job.kind \in Requests

\* A human decides once: whatever the lists that clients still show, and
\* whichever of them decide at the same time, the action of an approval is begun
\* at most once, if it was approved, and never if it was rejected or was dropped
\* from the full queue.
DecidedOnce ==
    \A a \in Approvals : carried[a] = IF verdicts[a] = "approved" THEN 1 ELSE 0

\* This step approves an entry of the queue that asks for just this.
ApprovedNow(action, payload) ==
    \E a \in Pending(queue) :
        a.action = action /\ a.payload = payload /\ verdicts'[a.id] = "approved"

Begun(c, op) == call'[c].op = op /\ call[c].op # op

KvByApproval ==
    Guarded("kv_cache_change") /\ settings'.kv # settings.kv
        => ApprovedNow("kv_cache_change", [kv |-> settings'.kv])

ContextByApproval ==
    Guarded("large_context_increase") /\ settings'.context > 2 * settings.context
        => ApprovedNow("large_context_increase", [context |-> settings'.context])

RestartByApproval ==
    Guarded("server_restart") /\ (\E c \in Clients \ {Chat} : Begun(c, "restart"))
        => ApprovedNow("server_restart", << >>)

StopByApproval ==
    Guarded("emergency_stop") /\ (\E c \in Clients : Begun(c, "stop"))
        => ApprovedNow("emergency_stop", << >>)

\* What the settings guard changes only with an approval of this very change,
\* except for two ways around: the command /restart of the chat, and a backend
\* that starts again with its initial settings.
GuardedOnlyByApproval ==
    [][crashes' = crashes =>
         KvByApproval /\ ContextByApproval /\ RestartByApproval /\ StopByApproval]_vars

\* Of the agents spawned by clients there are never more than max_slots, but for
\* those whose spawning was under way when the last of these was entered: fewer
\* than there are clients.
LimitExceededOnlyByOverlap ==
    Cardinality({a \in agents : a.by = "api"}) < MaxSlots + Cardinality(Clients \ {Chat})

\* A task is run again only for a sending that failed, once for each, and never
\* more than three times: a result that the tab has read and seen the end of is
\* never computed again (tui/app.py:320-402).
RunAgainOnlyAfterFailure ==
    \A t \in Tasks : started[t] <= 1 + failed[t] /\ started[t] <= 3

\* LIVENESS.  Again and again the input of the chat tab is enabled, and every
\* client has got its answer, whatever fails.
EveryoneIsAnswered ==
    /\ []<>(tab.at = "ready")
    /\ \A c \in Clients : []<>Waiting(c, "idle")
=============================================================================
