----------------------------- MODULE DiscordBridge -----------------------------
(***************************************************************************)
(* The Discord bridge (DiscordDMBridge in backend/main.py): a listener     *)
(* that polls the history of a channel and handles its new messages, the   *)
(* background tasks it starts, and the runs these record.  The API, the    *)
(* scheduler and the websocket run agentic tasks beside it.  The process   *)
(* may die and come back with the state it saved.                          *)
(*                                                                         *)
(* Messages are numbered as they are posted; the bot's own, which every    *)
(* poll leaves out, are not modelled.  All come from the owner of the DM.  *)
(***************************************************************************)
EXTENDS DiagnosticRecorder, FiniteSets, Sequences

CONSTANTS
    MaxMessages,         \* bound: messages posted
    History,             \* messages a poll fetches
    MaxBacklog,          \* _DISCORD_DM_MAX_BACKLOG_PER_POLL
    Concurrency,         \* inference_concurrency
    MaxEvents,           \* bound: events recorded of a run
    MaxOthers,           \* bound: other agentic runs at a time
    Followed,            \* bound: messages whose runs are followed on disk
    MaxCrashes           \* bound: restarts of the process

ASSUME BridgeAssumption ==
    /\ MaxMessages \in Nat /\ History \in Nat \ {0} /\ MaxBacklog \in Nat \ {0}
    /\ Concurrency \in Nat \ {0} /\ MaxEvents \in Nat /\ MaxCrashes \in Nat
    /\ MaxOthers \in Nat /\ MaxRefused \in Nat /\ Followed \subseteq 1..MaxMessages

Messages == 1..MaxMessages
None     == 0

\* "chat" is answered by a direct task, "task" by an agentic one, both in the
\* background; "command" by the listener itself.
Kinds == {"chat", "task", "command"}

VARIABLES
    posted,              \* number of messages posted
    kind,                \* what each message asks for, once it is read
    listener,            \* pc of the listener, its queue, max_seen_this_poll
    mem,                 \* last_seen_message_id, processed ids, history primed
    disk,                \* the state file
    task,                \* per message: its background task
    active,              \* _active_tasks of the user
    permits,             \* value of _inference_lock
    others,              \* agentic runs under way that are not the bridge's
    mainRecords,         \* the main agent has the recorder
    sees,                \* per message: the main agent had it when it looked last
    run,                 \* per message: the run its task records
    handled,             \* history: messages handed to _handle_message
    excused,             \* history: messages the bridge passes over
    muted, missed,       \* history: runs into which fell the end of another,
                         \* or the start of one that has no recorder; runs
                         \* with an event that was not recorded
    crashes

bridge  == <<listener, mem, disk>>
tasks   == <<task, active, permits, others, mainRecords, sees, run, muted, missed>>
history == <<handled, excused>>
channel == <<posted, kind>>
vars    == <<channel, bridge, tasks, history, crashes>>

MaxOf(S, low) == CHOOSE n \in S \cup {low} : \A m \in S \cup {low} : m <= n
Posted        == 1..posted
Handled(m)    == \E i \in 1..Len(handled) : handled[i] = m

Sleeping == [pc |-> "sleeping", queue |-> << >>, maxSeen |-> None]
Fresh    == [seen |-> None, processed |-> {}]

Init ==
    /\ posted = 0 /\ kind = [m \in Messages |-> "unread"]
    /\ listener = Sleeping
    /\ mem = [seen |-> None, processed |-> {}, primed |-> FALSE]
    /\ disk = Fresh
    /\ task = [m \in Messages |-> "none"]
    /\ active = None
    /\ permits = Concurrency /\ others = 0
    /\ mainRecords = FALSE
    /\ sees = [m \in Messages |-> FALSE]
    /\ run = [m \in Messages |-> NoRun]
    /\ handled = << >> /\ excused = {} /\ muted = {} /\ missed = {}
    /\ crashes = 0

-----------------------------------------------------------------------------
(* The listener *)

\* _save_state, which may fail without a word.
Save == disk' \in {disk, [seen |-> mem'.seen, processed |-> mem'.processed]}

Post ==
    /\ posted < MaxMessages
    /\ posted' = posted + 1
    /\ UNCHANGED <<kind, bridge, tasks, history, crashes>>

Window == {m \in Posted : m + History > posted}

\* The first poll that finds messages only marks them as processed.
\* A slip: not after a restart that finds a state file.
SlipPrime ==
    /\ listener.pc = "sleeping" /\ ~mem.primed
    /\ Window # {}
    /\ IF disk.seen # None
       THEN /\ mem' = [mem EXCEPT !.primed = TRUE]
            /\ UNCHANGED <<disk, excused>>
       ELSE /\ mem' = [seen |-> MaxOf(Window, mem.seen),
                       processed |-> mem.processed \cup Window, primed |-> TRUE]
            /\ Save
            /\ excused' = excused \cup Posted
    /\ UNCHANGED <<channel, listener, tasks, handled, crashes>>

Prime ==
    /\ listener.pc = "sleeping" /\ ~mem.primed
    /\ Window # {}
    /\ mem' = [seen |-> MaxOf(Window, mem.seen),
               processed |-> mem.processed \cup Window, primed |-> TRUE]
    /\ Save
    /\ excused' = excused \cup Posted
    /\ UNCHANGED <<channel, listener, tasks, handled, crashes>>

\* The messages of the window that are new, oldest first.
InOrder(S) == [i \in 1..Cardinality(S) |->
                 CHOOSE m \in S : Cardinality({n \in S : n <= m}) = i]

New == {m \in Window \ mem.processed : m > mem.seen}

\* The messages below the watermark are marked as processed, a backlog is cut
\* to its newest.
Poll ==
    /\ listener.pc = "sleeping" /\ mem.primed
    /\ Window # {}
    /\ LET newest == {m \in New : Cardinality({n \in New : n > m}) < MaxBacklog} IN
       /\ listener' = [pc |-> "next", queue |-> InOrder(newest),
                       maxSeen |-> MaxOf(Window, mem.seen)]
       /\ excused' = excused \cup (New \ newest)
                             \cup {m \in Posted \ Window : ~Handled(m)}
    /\ mem' = [mem EXCEPT !.processed = @ \cup (Window \ New)]
    /\ UNCHANGED <<channel, disk, tasks, handled, crashes>>

Current == Head(listener.queue)
Pop     == listener' = [listener EXCEPT !.pc = "next", !.queue = Tail(@)]

\* _handle_message up to its first await.  A task is created on the way, which
\* starts at once: a direct one opens its run before it waits for inference.
Handle ==
    /\ listener.pc = "next" /\ listener.queue # << >>
    /\ listener' = [listener EXCEPT !.pc = "handling"]
    /\ handled' = Append(handled, Current)
    /\ \E k \in Kinds :
         /\ kind' = [kind EXCEPT ![Current] = k]
         /\ IF k = "command"
            THEN UNCHANGED <<task, active>>
            ELSE /\ task' = [task EXCEPT ![Current] = "waiting"]
                 /\ active' = Current
         /\ IF k = "chat" /\ Current \in Followed
            THEN \E started \in Started : run' = [run EXCEPT ![Current] = started]
            ELSE UNCHANGED run
    /\ UNCHANGED <<posted, mem, disk, permits, others, mainRecords, sees, muted, missed, excused, crashes>>

Processed ==
    /\ listener.pc = "handling"
    /\ mem' = [mem EXCEPT !.processed = @ \cup {Current},
                          !.seen = MaxOf({Current}, @)]
    /\ Save
    /\ Pop
    /\ UNCHANGED <<channel, tasks, history, crashes>>

\* What can take long is a command, or the note that a task was started: the
\* message is marked in memory only, and an apology is sent.
TimesOut ==
    /\ listener.pc = "handling"
    /\ kind[Current] # "chat"
    /\ mem' = [mem EXCEPT !.processed = @ \cup {Current}]
    /\ Pop
    /\ UNCHANGED <<channel, disk, tasks, history, crashes>>

\* Only a command is outside of the handler's own try block.
HandlerFails ==
    /\ listener.pc = "handling"
    /\ kind[Current] = "command"
    /\ mem' = [mem EXCEPT !.processed = @ \cup {Current}]
    /\ Save
    /\ Pop
    /\ UNCHANGED <<channel, tasks, history, crashes>>

\* The watermark of the poll is the newest message it has fetched.
\* A slip: the newest there is by now.
SlipPollEnds ==
    /\ listener.pc = "next" /\ listener.queue = << >>
    /\ listener' = Sleeping
    /\ mem' = [mem EXCEPT !.seen = MaxOf(Window, @)]
    /\ Save
    /\ UNCHANGED <<channel, tasks, history, crashes>>

PollEnds ==
    /\ listener.pc = "next" /\ listener.queue = << >>
    /\ listener' = Sleeping
    /\ mem' = [mem EXCEPT !.seen = MaxOf({listener.maxSeen}, @)]
    /\ IF listener.maxSeen > mem.seen THEN Save ELSE UNCHANGED disk
    /\ UNCHANGED <<channel, tasks, history, crashes>>

-----------------------------------------------------------------------------
(* Background tasks *)

\* An agentic task opens its run once it has the permit, and hands the recorder
\* to the main agent, which all runs share.
Begin(m) ==
    /\ task[m] = "waiting"
    /\ permits > 0
    /\ permits' = permits - 1
    /\ task' = [task EXCEPT ![m] = "running"]
    /\ IF kind[m] = "task"
       THEN /\ IF m \in Followed
               THEN \E started \in Started : run' = [run EXCEPT ![m] = started]
               ELSE UNCHANGED run
            /\ mainRecords' = TRUE
            /\ sees' = [sees EXCEPT ![m] = TRUE]
       ELSE UNCHANGED <<run, mainRecords, sees>>
    /\ UNCHANGED <<channel, bridge, active, others, muted, missed, history, crashes>>

Recording == {m \in Followed : task[m] = "running"}

\* Another agentic run begins: one of the API or of the scheduler, with the
\* recorder, or one of the websocket, which has none and so takes it away from
\* the main agent.  The websocket is refused while anyone waits for a permit.
OtherBegins ==
    /\ permits > 0 /\ others < MaxOthers
    /\ permits' = permits - 1
    /\ others' = others + 1
    /\ \/ /\ mainRecords' = TRUE
          /\ UNCHANGED muted
       \/ /\ \A m \in Messages : task[m] # "waiting"
          /\ mainRecords' = FALSE
          /\ muted' = muted \cup Recording
    /\ UNCHANGED <<channel, bridge, task, active, sees, run, missed, history, crashes>>

\* It ends, and leaves the main agent without the recorder.
OtherEnds ==
    /\ others > 0
    /\ permits' = permits + 1
    /\ others' = others - 1
    /\ mainRecords' = FALSE
    /\ muted' = muted \cup Recording
    /\ UNCHANGED <<channel, bridge, task, active, sees, run, missed, history, crashes>>

\* An event of the loop itself.
LoopEvent(m) ==
    /\ m \in Recording /\ kind[m] = "task"
    /\ run[m].did < MaxEvents
    /\ \E more \in Recorded(run[m]) : run' = [run EXCEPT ![m] = more]
    /\ UNCHANGED <<channel, bridge, task, active, permits, others, mainRecords, sees, muted, missed, history, crashes>>

\* plan_task looks at the main agent's recorder for each of its events, and
\* execute_step once, for all of the step.
LooksUp(m) ==
    /\ m \in Recording /\ kind[m] = "task"
    /\ sees[m] # mainRecords
    /\ sees' = [sees EXCEPT ![m] = mainRecords]
    /\ UNCHANGED <<channel, bridge, task, active, permits, others, mainRecords, run, muted, missed, history, crashes>>

MainAgentEvent(m) ==
    /\ m \in Recording /\ kind[m] = "task"
    /\ run[m].did < MaxEvents
    /\ IF sees[m]
       THEN /\ \E more \in Recorded(run[m]) : run' = [run EXCEPT ![m] = more]
            /\ UNCHANGED missed
       ELSE missed' = missed \cup {m} /\ UNCHANGED run
    /\ UNCHANGED <<channel, bridge, task, active, permits, others, mainRecords, sees, muted, history, crashes>>

\* The chat or the loop returns, or raises, which is an event of its own.
Finish(m) ==
    /\ task[m] = "running"
    /\ permits' = permits + 1
    /\ task' = [task EXCEPT ![m] = "replying"]
    /\ \E last \in {run[m]} \cup Recorded(run[m]) :
         \E finished \in Finishes(last) : run' = [run EXCEPT ![m] = finished]
    /\ sees' = [sees EXCEPT ![m] = FALSE]

\* A slip: the end of a direct run detaches the recorder as well.
SlipFinishDirect(m) ==
    /\ Finish(m)
    /\ kind[m] = "chat"
    /\ mainRecords' = FALSE
    /\ UNCHANGED <<channel, bridge, active, others, muted, missed, history, crashes>>

FinishDirect(m) ==
    /\ Finish(m)
    /\ kind[m] = "chat"
    /\ UNCHANGED <<channel, bridge, active, others, mainRecords, muted, missed, history, crashes>>

FinishAgentic(m) ==
    /\ Finish(m)
    /\ kind[m] = "task"
    /\ mainRecords' = FALSE
    /\ muted' = muted \cup (Recording \ {m})
    /\ UNCHANGED <<channel, bridge, active, others, missed, history, crashes>>

\* The reply is sent, or not, and _on_done forgets the user's task, whichever
\* it is by now.  Nothing writes to the run's files any more: they are left out
\* from here on.
Replied(m) ==
    /\ task[m] = "replying"
    /\ task' = [task EXCEPT ![m] = "over"]
    /\ run' = [run EXCEPT ![m] = NoRun]
    /\ muted' = muted \ {m} /\ missed' = missed \ {m}
    /\ UNCHANGED <<channel, bridge, permits, others, mainRecords, sees, history, crashes>>

\* A slip: it does not.
SlipReply(m) == Replied(m) /\ UNCHANGED active

Reply(m) == Replied(m) /\ active' = None

-----------------------------------------------------------------------------
(* The process dies, or is stopped, and comes back *)

\* The state file may be torn, which counts as none.  A run may be in finish_run.
Crash ==
    /\ crashes < MaxCrashes
    /\ crashes' = crashes + 1
    /\ disk' \in {disk, Fresh}
    /\ mem' = [seen |-> disk'.seen, processed |-> disk'.processed, primed |-> FALSE]
    /\ listener' = Sleeping
    /\ \/ run' = [m \in Messages |-> Crashed(run[m])]
       \/ \E m \in Recording : \E left \in Finishes(run[m]) :
            run' = [n \in Messages |-> IF n = m THEN left ELSE Crashed(run[n])]
    /\ task' = [m \in Messages |-> IF task[m] = "none" THEN "none" ELSE "over"]
    /\ active' = None /\ permits' = Concurrency /\ others' = 0 /\ mainRecords' = FALSE
    /\ sees' = [m \in Messages |-> FALSE]
    /\ excused' = excused \cup Posted
    /\ UNCHANGED <<channel, handled, muted, missed>>

Listen  == Prime \/ Poll \/ Handle \/ Processed \/ TimesOut \/ HandlerFails \/ PollEnds
Ends(m) == FinishDirect(m) \/ FinishAgentic(m) \/ Reply(m)
Work(m) == Begin(m) \/ Ends(m)

Next ==
    \/ Post
    \/ Listen
    \/ \E m \in Messages : Work(m) \/ LoopEvent(m) \/ LooksUp(m) \/ MainAgentEvent(m)
    \/ OtherBegins \/ OtherEnds
    \/ Crash

Spec == Init /\ [][Next]_vars

\* The event loop runs the listener and the tasks, polls succeed now and then,
\* chats and loops end, and the semaphore of asyncio is first come, first served.
FairSpec ==
    /\ Spec
    /\ WF_vars(Listen)
    /\ SF_vars(\E m \in Messages : Begin(m))
    /\ WF_vars(\E m \in Messages : Ends(m))
    /\ WF_vars(OtherEnds)

-----------------------------------------------------------------------------
(* Properties *)

\* The state has its types; a task holds a permit exactly while it runs, and a
\* task /status tells of has not ended (main.py:690-704, 734, 775).
TypeOK ==
    /\ posted \in 0..MaxMessages
    /\ \A m \in Messages : kind[m] \in Kinds \cup {"unread"}
    /\ listener.pc \in {"sleeping", "next", "handling"}
    /\ mem.seen \in 0..MaxMessages /\ mem.processed \subseteq Messages
    /\ disk.seen \in 0..MaxMessages /\ disk.processed \subseteq Messages
    /\ \A m \in Messages : task[m] \in {"none", "waiting", "running", "replying", "over"}
    /\ permits = Concurrency - others - Cardinality({m \in Messages : task[m] = "running"})
    /\ active # None => task[active] \in {"waiting", "running", "replying"}
    /\ mainRecords \in BOOLEAN

\* Over polls, timeouts, errors and restarts, with a state file that may be
\* behind or torn, no message is handled twice or after a later one: the ids of
\* the messages handled only grow (main.py:454-600).
HandledOnceInOrder ==
    \A i, j \in 1..Len(handled) : i < j => handled[i] < handled[j]

\* Again and again there is no message left to answer: one that is posted while
\* the bridge is primed is handled, unless the backlog or the history of a poll
\* leaves it out or the process dies, and a task that was started for it ends
\* (main.py:482-600).
Answered(m) ==
    m \in excused \/ (Handled(m) /\ task[m] \in {"none", "over"})
PostedAreAnswered == []<>(\A m \in Posted : Answered(m))

\* The process may die at any time, also while the bundle or the analysis is
\* written, and any write may fail.  What events.jsonl lacks is owed to appends
\* that failed: each costs its own event and, where it left a part of a line, the
\* next one.  A bundle has all events, also those, and a run without a bundle is
\* listed by its lines, never with more than it had; an analysis comes only with
\* a complete listing (diagnostic_recorder.py:8-22, 216-226, 380-428, 434-505).
NoEventLost ==
    \A m \in Messages :
       LET r == run[m] IN
       /\ r.dir => r.did - r.jsonl <= 2 * r.refused
       /\ r.bundle = "whole" =>
            \E l \in Listed(r) : l.status = "complete" /\ l.events = r.did
       /\ r.dir /\ r.bundle = "none" =>
            \E l \in Listed(r) : Shown(r) <= l.events /\ l.events <= r.did
       /\ r.analysis # "none" => \E l \in Listed(r) : l.status = "complete"

\* An event of the main agent is missing in a run only if, since the run began,
\* another agentic run has ended or one without a recorder has begun: the main
\* agent's recorder is shared, either takes it away, and a step that began without
\* it goes on without it (agentic_loop.py:212, 261, main.py:2432-2438,
\* main_agent.py:1625).
MissedOnlyByOverlap == missed \subseteq muted
=============================================================================
