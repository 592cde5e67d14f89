# SlothBrain in TLA+

SlothBrain is an asyncio backend that drives a local llama.cpp server: an
agentic loop plans a task and executes it step by step with tools, a supervisor
rolls it back when it gets stuck, a scheduler triggers tasks, a bridge takes
them from Discord, a terminal UI operates it all, and a server manager keeps
llama.cpp running.  This directory holds TLA+ models of its parts, the TLC runs
that check them on small instances, and TLAPS proofs for every value of the
constants.  Paths below are relative to `src/backend/` unless they say
otherwise.

How to run: `tlc -config AgenticLoop.cfg MCAgenticLoop.tla` (and likewise the
runs of the table below), `tlapm AgenticLoopProofs.tla`.

Contents: [the system](#the-system), [the modules](#modules), what each models
([1](#1-agenticloop) to [9](#9-the-modules-without-a-run)), [the
runs](#runs) with their bounds and fairness, [where documentation and code
part](#where-documentation-and-code-part), [the proofs](#proofs), [what is
not modelled](#not-modelled), [the plan](#plan).

## The system

Everything runs on one asyncio event loop in one process; the terminal UI is a
process of its own.  There are no data races; what can interleave are the tasks,
and only where one of them awaits.  State is in memory except for the
scheduler's jobs, the bridge's watermark, the settings, the presets, the audit
log, the vector tables and the diagnostic bundles.

| component | state | operations | talks to |
|---|---|---|---|
| agentic loop (`agents/agentic_loop.py`) | locals of one run: plan, step index, attempt, reported steps, context lines | run: plan, execute, retry, apply an intervention, report, finalize, clean up | main agent (awaits), checkpoint manager, its LoopHandle, recorder, `emit` to a client |
| checkpoint manager (`core/checkpoint_manager.py`) | snapshots by run and step | save with eviction, restore_last, clear | called by the loop |
| safety supervisor (`core/safety_supervisor.py`) | a LoopHandle per run: heartbeat, detector counters, intervention slot; breaches of the slowdown monitor | register, heartbeat, observe, pop; stall poll; slowdown monitor | writes the slot the loop pops; restarts the server |
| main agent (`agents/main_agent.py`) | locals of a step or turn, one recorder, registries | plan_task, execute_step and process_direct with their tool loops | llama client, tools, rolling context, recorder |
| slots (`core/slot_manager.py`, `core/llama_client.py`) | lock per slot, cached slot info | completion under the lock, with retries and recovery | llama.cpp |
| rolling context (`memory/rolling_context.py`) | messages, summary state | add a message, summarise | llama.cpp, past the slot's lock |
| scheduler tool (`tools/impl/scheduler_tool.py`) | `_jobs`, the JSON file | add, cancel, list, poll loop, load and save | awaits `on_trigger`, which starts an agentic run |
| server manager (`core/server_manager.py`) | child process, status, times of restarts | start, stop, restart, watchdog | API, supervisor and watchdog call restart |
| approvals and settings (`core/approval_queue.py`, `main.py`) | queue of pending and decided approvals, live settings | submit, prune, approve, reject, update | handlers apply the payload later |
| sub-agents (`agents/registry.py`, `agents/presets.py`, `tools/impl/sub_agent_tool.py`, `main.py`) | registry of agents and their slots, preset files | spawn by API or tool, chat, destroy | slots of llama.cpp |
| chat endpoints (`main.py`) | `_inference_lock`, websockets | direct chat, agentic run over HTTP and WebSocket, cancellation | loop, main agent |
| terminal UI (`tui/app.py`) | what the tab waits for, tables shown | chat with stream and fallback; tabs that ask the API | the endpoints |
| Discord bridge (`main.py`) | processed ids, watermark, background task per user, state file | poll, handle with timeout, follow, background run | Discord, agentic loop |
| diagnostics recorder (`core/diagnostic_recorder.py`) | events per run, files per run | start, record, finish | written by loop and main agent |
| diagnostics analyzer (`core/diagnostic_analyzer.py`) | none | failure modes of a bundle | reads the recorder's events |
| tools and router (`tools/registry.py`, `tools/plugin_loader.py`, `core/semantic_router.py`) | tools by name, vectors by name | register, choose tools for a context, resolve the name a call bears | main agent |
| memory and index (`memory/`) | vector tables, directories being indexed | index a project, store, search | LanceDB |
| single tools, vision, benchmarks | little or none | one request each | the outside |

What makes each of them correct, and what is hard about it:

- *Agentic loop with store and supervisor*: the reported steps are the plan's,
  each once and in order, whatever rollbacks do; context and reports agree;
  errors use up their retries; the verdict fits the reports; nothing of a run
  remains afterwards; every run ends.  Hard: a rollback swaps two lists and an
  index under the loop's feet, the intervention slot is overwritten at any
  await, and a cancellation ends the run inside one.
- *Tool loop with detectors*: a model that repeats itself, fails or gives up is
  stopped in time, and every step ends.  Hard: counters that live longer than
  the step, a detection that is raised only once per key, a slot that another
  task overwrites before it is read.
- *Direct chat*: every turn ends and gives back what it holds; no message of the
  conversation is lost without reason.  Hard: nested retries, a server that
  comes and goes, a summary that replaces messages after an await.
- *Scheduler*: a one-shot job fires once, a cancelled one no more, a due one
  eventually, also over restarts and failing saves.  Hard: saves around an
  awaited trigger, tool calls during it, a crash between them.
- *Server manager*: one process at a time, no more restarts than the limit, an
  emergency stop stays stopped, the watchdog lives.  Hard: restarts that
  interleave at three awaits.
- *Approvals and settings*: an approval is decided once and acted on once, and
  what is guarded changes in no other way.  Hard: pruning, tables that are stale
  when a human decides, settings that changed since the submission.
- *Sub-agents*: at most the allowed number of agents.  Hard: check, await, act.
- *Terminal UI and chat endpoints*: a task is run again only for a sending that
  failed, the input comes back.  Hard: a stream that fails after its result, a
  fallback that runs it again, and whose failure does so once more.
- *Discord bridge and recorder*: every message is handled once and in order and
  is answered; events end up in their own run's bundle.  Hard: watermark and ids
  after timeouts, backlogs and restarts; one recorder shared by concurrent runs;
  crashes between two files.
- *Index, tool routing, analyzer*: no file is indexed twice; a step is offered
  what it may use; findings do not depend on events that were not recorded.
  Hard: threads of several runs on one table; rules that override each other.

`PROJECT.json` lists each hazard at its line, with the properties that cover it.

## Modules

| module | models | remarks |
|---|---|---|
| `CheckpointManager` | the store of one run | a function from step numbers to snapshots, as operators |
| `AgenticLoop` | one run with its store, handle and supervisor | `EXTENDS CheckpointManager` |
| `TaskRun` | what a run promises its caller | abstract; implemented by `AgenticLoop` |
| `LoopHandle` | the detectors and counters of a run | operators |
| `StepExecution` | the steps of a run: `execute_step` under the detectors | `EXTENDS LoopHandle` |
| `RollingContext` | messages and summaries | operators |
| `DirectChat` | turns of `process_direct` with slot, client and context | `EXTENDS RollingContext` |
| `Scheduler` | the tool, its file, its poll loop, restarts | |
| `ServerManager` | the server process and the tasks that start, stop and restart it | |
| `DiagnosticRecorder` | one run's events and files | operators |
| `DiscordBridge` | listener, background tasks, the runs they record, crashes | `EXTENDS DiagnosticRecorder` |
| `ApprovalQueue` | the queue | operators |
| `ControlPlane` | settings, approvals, presets, agents | `EXTENDS ApprovalQueue`; its actions are composed by `Console` |
| `Console` | the control plane with the terminal UI and the chat endpoints | `EXTENDS ControlPlane` |
| `WorkspaceIndex` | the index of one directory and the runs that build it | proved about, no run |
| `ToolRouting` | registry, router, choice of tools, resolution of names | proved about, no run |
| `DiagnosticAnalyzer`, `Planning` | the detectors of the report; the plan and its events | operators, proved about, no run |
| `MCAgenticLoop`, `MCStepExecution`, `MCConsole` | constants for TLC | |
| `AgenticLoopProofs`, `StepExecutionProofs`, `DirectChatProofs`, `SchedulerProofs`, `ServerManagerProofs`, `DiscordBridgeProofs`, `ConsoleProofs` | theorems about the module of that name, with those it extends | |
| `MainAgentProofs` | theorems about `ToolRouting`, `Planning`, `DiagnosticAnalyzer`, `WorkspaceIndex` | |

Components are composed where they share state: a run with its store and
supervisor, a step with its detectors, turns with the slot and the context they
share, the bridge with the recorder its tasks share, the clients with the
control plane.  What connects these groups is one call or one awaited callback,
and they are checked apart: `AgenticLoop` leaves open what a step does and which
detector fires, `StepExecution` has both and leaves out plan and reports;
`Scheduler` and `DiscordBridge` await runs that end, which `RunEnds` shows;
`Console` sees a stop or a restart as a call that takes a while, and
`ServerManager` sees what it does.

A definition named `Slip...` stands before the one it is a faulty variant of.
It belongs to no specification; each property has one that it must catch.

### 1. AgenticLoop

The statements of `run` and `_execute` are cut into actions at the awaits.
`pc` says where the run is; `idx`, `stepNum`, `attempt`, `step`, `hadError`,
`finalAction`, `executed` and `context` are the locals of the same or nearly
the same name.  `plan_task` and `execute_step` always suspend the run.  `emit`
does so only for a run that streams its events (`opts.streaming`), and
`Suspended` says where the other tasks may therefore act.

| code | actions |
|---|---|
| `run`: register, plan or not, fall back to the task itself | `Start`, `SkipPlanning`, `AskForPlan`, `PlanReturns`, `PlanFails` |
| head of a step: checkpoint, heartbeat, fresh AgenticStep | `BeginStep` |
| `pop_intervention`, `_apply_intervention` | `NothingToApply`, `ResetContext`, `Nudge`, `GiveUp` |
| `execute_step` and `_on_step_event` | `ToolSucceeds`, `StepPaused`, `StepReturns`, `StepRaises`, `ContextOverflow` |
| `observe_step_result` and the retry decision | `RetryStep`, `LeaveAttempts` |
| status, append to the reports and the context | `ReportStep`, `NextStep`, `StopTask` |
| verdict, `finally` | `Finalize`, `Return` |
| `_run_agentic_with_cancel` (`main.py`) | `Cancel` |
| `SafetySupervisor._poll`, `set_intervention` | `Poll`, `Inject` |

Data is reduced to what the properties tell apart: a result is one of six
kinds, a context line says what it is and in which step it was appended, and a
snapshot holds the two lists.  Step descriptions, previews, timings, tokens and
events are left out, and so are the descriptions a checkpoint restores, which
are the plan's own.  The age of a heartbeat is not kept: a call may last longer
than any timeout, so the supervisor may find the handle stalled at any await.
Which detector fires on which event is open, except for the deduplication by
`_last_detected_key`, which decides how often a step is reset.  `Inject` stands
for callers of `set_intervention` with the documented actions that the
supervisor itself does not choose; the loop's branches for them exist and are
checked.  Two branches cannot be reached in the code and have no action: a
`final_action` of "retry", which nothing sets, and the screenshot function,
which no caller passes.

### 2. StepExecution

The other half of a run: the attempts of its steps, the tool loop inside each,
and the callback that shows its events to the run's `LoopHandle`, whose counters
are those of the code.  Checkpoints are on, so a reset always finds its step's,
and leaves the step (see the finding below).

| code | actions |
|---|---|
| `_execute`: head of a step, pending reset, call of `execute_step` | `BeginStep`, `Reset`, `Enter` |
| `execute_step`: fast path, choice of tools, request | `FastPath`, `ChooseTools`, `Ask` |
| the model fails, answers, or calls tools | `ModelRaises`, `ModelAnswers`, `ModelCallsTools` |
| the loop is paused by a detection | `Paused`, `Unpaused` |
| one tool call: start, arguments that are no object, result | `CallTool`, `BadArguments`, `ToolSucceeds`, `ToolFails`, `GoOn` |
| an exception leaves `execute_step` | `Abort` |
| `observe_step_result`, retry decision | `AfterAttempt` |
| `SafetySupervisor._poll` | `Stall` |

A tool call is a name with a fingerprint of its arguments, and what a tool puts
out is a value; both matter to the detectors only by equality.

### 3. DirectChat

Turns that overlap as far as `inference_concurrency` lets them, and share the
lock of the main slot and one rolling context.

| code | actions |
|---|---|
| `direct_chat` (`main.py`) with the semaphore | `Arrive`, `Begin` |
| `process_direct` before its loop | `DescribeCapabilities`, `FastPath`, `BuildPrompt` |
| `SlotManager.send_to_main` | `AcquireSlot`, `CleanedAway` |
| `LlamaClient.complete`, `_post_completion`, `_wait_for_server_recovery` | `EmptyAnswer`, `TransientError`, `Recovered` |
| the tool loop, arguments that are no object, a context shift, the repair of an answer | `Answered`, `ToolsEnd`, `ToolsFail`, `ContextShift`, `RepairEnds` |
| failure of the turn; both sides go to the context | `TurnFails`, `Remember` |
| `RollingContext.add_message`, `_summarize` | `StartSummary`, `ModelSummarizes`, `SummaryIsEmpty`, `FallBack` |
| llama.cpp (external) | `ServerToggles` |

A message of the context is the set of things said in it, and a summary with any
text in it tells all that its prompt held; so "lost" means lost by the code, not
by the model's wording.  A summary may also be empty: the client asks once more
for an empty answer and returns what comes then, and the context puts it in the
place of all messages (`SummaryIsEmpty`).  `OnlyExcusedForgotten` excuses what is
lost that way, what was said while a summary was under way, and what the fallback
cuts.

### 4. Scheduler

`jobs` is `_jobs`, `file` the jobs a restart would load, `todo` the jobs the
poll's `for` has still to visit, the smallest first (`At`), `pc` the poll loop's
place or `"down"`.  A job is known by its position.  Times are reduced to `due`: `TimePasses` makes a job
due, firing a recurring job makes it not due.  The kind `"naive"` is a job whose
`run_at` has no timezone.  `over` and `forgot` are history, read by no action.

| code | actions |
|---|---|
| `_poll_loop`, `_fire_due` up to the first await | `PollStarts`, `SkipJob`, `PollBreaks`, `DailyFails`, `FireJob` |
| return or exception of `on_trigger` | `TriggerEnds` |
| end of the scan, back to sleep | `PollEnds` |
| the tool's `add` and `cancel` | `Add`, `Cancel` |
| clock; process stops or crashes; process starts and loads | `TimePasses`; `GoDown`; `ComeUp` |

`_save` swallows its exceptions: after it the file holds the jobs, or what it
held before (`"refused"`), or nothing that loads (`"torn"`).  The runs use
`"refused"`; `"torn"` loses every job at a restart and would only excuse the
properties.  A trigger may fail; the callback the backend installs
(`_trigger_scheduled_task`) catches every exception, so with it none does.

### 5. ServerManager

`current` is `_process`, `alive` the children that run, `times` is
`_restart_times` as ages.  `pc` says where each task is: the watchdog, the
slowdown monitor, auto-start (`_auto_start_llama_if_missing`), tasks that call
`restart` (the API, an approval, Discord's command: `Callers`) and emergency
stops (`Stoppers`).

| code | actions |
|---|---|
| `restart` up to its first await, or refused by the rate limit | `BeginRestart`, `RefuseRestart` |
| `emergency_stop` | `Stop` |
| `stop`: exit awaited, ten seconds over, SIGKILL | `Exit`, `Timeout` |
| `start`: already running, creation of the process, errors | `StartIsDone`, `StartProcess`, `StartFails`, `Spawned` |
| `_monitor_throughput_slowdown` (`core/safety_supervisor.py`) | `NotSlow`, `Slow`, `SlowRestart`, `CoolDown` |
| clock | `Tick` |

`create_subprocess_exec` forks the process before it suspends and `_process` is
assigned after, so the two are actions of their own.  The exit of a child wakes
its waiters in the same pass of the event loop, before anybody who sleeps a
second can go on, and is therefore one action.  The monitor is assumed to be
switched on (`slowdown_restart_enabled`); a sample is slow or not as it likes,
and the breaches are counted no further than the limit.  Where the server gives
no metrics the monitor just does not sample.  `overlapped` and `recent` are
history: two processes were being created at the same time, and the restarts of
the last hour.  The displayed status, backups and the audit log are left out.

### 6. Console

`ControlPlane` has the endpoints that operate the backend, on the queue of
approvals, the settings, the presets and the registry of agents.  A handler that
awaits nothing is one action.  The others occupy their client (`call`) from
their first action to their last, and anything may happen in between.

| code (`main.py`) | actions of `ControlPlane` |
|---|---|
| `update_settings`: queue, or apply | `QueueKvChange`, `QueueLargeContext`, `ApplyUpdate` |
| `restart_server`, `emergency_stop`, with and without approval | `QueueAction`, `RestartServer`, `EmergencyStop`, `ServerAnswers` |
| `approve_action`, `reject_action`, with the prune of `ApprovalQueue` in `Submit` | `ApproveAction`, `RejectAction` |
| presets | `CreatePreset`, `DeletePreset` |
| `spawn_agent` before and after it asks for the slots, `destroy_agent`, `chat_with_agent` | `SpawnAgent`, `Spawn`, `SpawnFails`, `DestroyAgent`, `ChatWithAgent`, `Generate`, `Generated` |
| the process dies and starts again | `Crash` (in `BackendDies`) |

`Console` adds the chat tab, the chat endpoints and the runs these start.  `tab`
is what the tab waits for, `wire` what the websocket sent and the tab has not
read, `line` the holder of `_inference_lock` and those who wait, in order.  A
task can be sent three times: by the stream, by the request that makes up for a
stream without a result (`"request"`), and, as this one is sent inside the same
`try`, by the request of the handler when either of them fails (`"retry"`);
`failed` counts the sendings that led to another.

| code | actions of `Console` |
|---|---|
| `ChatTab._send_async` (`tui/app.py`): send, read the stream, fall back, give up | `SendTask`, `SendDirect`, `SendRestart`, `Restarted`; `ReadResult`, `ReadClose`, `ReadError`; `StreamBreaks`, `Fallback`, `RequestBreaks` |
| `ws_agent_progress`: busy, or run | `StreamIsBusy`, `StreamStarts` |
| `_ensure_llama_available`, `async with _inference_lock` | `PreflightFails`, `PreflightOk`, `Begin` |
| end of a run; `_run_agentic_with_cancel`; runs of others | `End`, `Cancel`, `OtherRun` |
| `SubAgentTool.execute` in a run | `Delegate`, `DelegateSpawns`, `DelegateEnds` |
| the other tabs | `Save`, `Restart`, `ActionEmergencyStop`, `ApproveSelected`, `RejectSelected`, `OnPresetCreated`, `DeleteSelectedPreset`, `SpawnSelected`, `KillSelected` |
| what the TUI does not offer | `ByApi` |

A table of the TUI is loaded at some time and may be stale when a row of it is
selected, so an id or a preset is any that ever was there.  Clients other than
the tab are alike, and a request always comes from the first idle one.  The sets
of settings are those an approval guards: the cache type, the size of the
context, and the switches of the gates themselves.  A size is a natural number:
a negative one, which the request would let through, is not looked at.

### 7. DiscordBridge

Messages are numbers in the order of posting; `mem` is what the bridge knows,
`disk` its state file.  A task's run is recorded by `DiagnosticRecorder`'s
operators: `sees` tells whether the main agent had the shared recorder when it
looked last, which `plan_task` does for each event and `execute_step` once.
`others` counts the agentic runs of the API, the scheduler and the websocket; the
first two hand the recorder to the main agent, the last takes it away, and each
leaves the main agent without it when it ends.

| code | actions |
|---|---|
| `_check_new_messages`: priming, a poll with its backlog, its end | `Prime`, `Poll`, `PollEnds` |
| `_handle_message` up to its first await; its end, timeout, error | `Handle`; `Processed`, `TimesOut`, `HandlerFails` |
| `_run_direct_task`, `_run_agentic_task` with the semaphore | `Begin`, `FinishDirect`, `FinishAgentic` |
| `_run_bg_task`, `_on_done` | `Reply` |
| agentic runs that are not the bridge's (`main.py`) | `OtherBegins`, `OtherEnds` |
| the recorder: events of the loop and of the main agent | `LoopEvent`, `LooksUp`, `MainAgentEvent` |
| process dies, or is stopped, and loads its state | `Crash` |
| the channel (external) | `Post` |

An event is kept in memory and appended to `events.jsonl`; an append that fails,
which is only logged, writes nothing or a part of a line, and then spoils the
next line as well (`Appended`).  `jsonl` counts the lines that can be read, `lines`
all of them, as `list_runs` does.

The bot's own messages are left out, as every poll does.  Once a task has
replied, its run is left out too: nothing writes to it any more, and what was to
be said of its files has been checked in each state before.

### 8. Fault models

Where the code handles a fault, it is an action: a process that dies
(`GoDown`, `Crash`, `BackendDies`) between any two steps, with a file that was
written, not written or torn; an event that cannot be appended (`Appended`); a request that fails, times out or comes back
empty (`TransientError`, `TimesOut`, `RequestBreaks`, `PreflightFails`); a
stream that breaks between its result and its end (`StreamBreaks`); a server
that comes and goes (`ServerToggles`, `Exit`); a save that fails; a client that
goes away (`Cancel`); a tool or a model that raises.

### 9. The modules without a run

Four modules describe functions of their input or a state of little control,
where a theorem for all inputs says more than a small instance.

- `WorkspaceIndex`: `index_directory`, called by the tool (`Index`) and in the
  background (`AutoIndex`).  `ReadIndexed`, `Scan`, `Chunk`, `Skip`, `Delete`,
  `Embed`, `Add`, `Done` are its steps, each awaited in a thread; `Fails`,
  `Cancel` and `End` its ends, and `Land` is a thread that finishes after its
  run was cancelled.  The table is the number of times the chunks of each file
  are in it.
- `ToolRouting`: the registry and the vectors of the router as state (`Register`
  by `_register_tools` and `load_plugins`, `Unregister`); the router
  (`Relevant`), the choice of tools for a context (`GetTools`), for a step
  (`Offered`) and for a direct message (`OfferedDirectly`), and what a call runs
  (`Runs`) as sets of possible results.  A similarity is any number and an
  intent a flag of the context.
- `DiagnosticAnalyzer`: eleven detectors as predicates on a set of events, and
  the events as recorder and loop make them.
- `Planning`: `plan_task` and `_parse_plan`, with the events they record.

## Runs

| run | shows |
|---|---|
| `agentic_loop` (`MCAgenticLoop`, `AgenticLoop.cfg`) | types and at most 1 + MaxRetries attempts (`TypeOK`); reports in order (`ReportedInOrder`); context in agreement with them (`ContextTellsReports`) and clean after a rollback (`RollbackIsClean`); retries used up (`RetriesBeforeGivingUp`); eviction harmless (`NewestIsCurrent`, `CheckpointsCapped`); clean-up (`NothingLeftBehind`); verdict (`VerdictIsEarned`); implements `TaskRun` (`KeepsPromise`); ends (`RunEnds`) |
| `reset_retries_step` (`AgenticLoopReset.cfg`) | *violated*: a reset step is retried (`ResetStepsAreRetried`) |
| `step_execution` (`MCStepExecution`, `StepExecution.cfg`) | types and the limit of iterations (`TypeOK`); the same call is never executed as often in a row as the limit says, over steps and resets (`NoRunaway`); failing tools end a step (`FailuresStop`); a model that gave up runs no tool in any later step (`GivenUpRunsNoTools`); steps end (`StepEnds`) |
| `direct_chat` (`DirectChat`, `DirectChat.cfg`) | permits and lock are held exactly while needed (`TypeOK`); what the conversation forgets (`OnlyExcusedForgotten`); every turn ends (`TurnsEnd`) |
| `direct_chat_slot` (`DirectChatSlot.cfg`) | *violated*: completions on a slot do not overlap (`SlotUsedByOne`) |
| `scheduler` (`Scheduler`, `Scheduler.cfg`) | types and the failure limit (`TypeOK`); no second trigger (`OverIsOver`); no job left running (`FreeAfterPoll`); due jobs fire (`DueJobsFire`) |
| `scheduler_restart` (`SchedulerRestart.cfg`) | *violated*: jobs survive restarts (`JobsSurviveRestarts`) |
| `scheduler_naive` (`SchedulerNaive.cfg`) | *violated*: due jobs are triggered (`DueJobsAreTriggered`) |
| `server` (`ServerManager`, `ServerManager.cfg`) | types, and waiters wait for a live process (`TypeOK`); the limit per hour, the monitor's restarts included (`RestartsLimited`); one server unless two creations overlap (`OneAtATime`); stops signal the right process (`StopsWhatItFound`) and leave none (`StopLeavesNone`); the server comes back (`ServerComesBack`) |
| `server_twice` (`ServerTwice.cfg`) | *violated*: there is one server (`OneServer`) |
| `discord` (`DiscordBridge`, `DiscordBridge.cfg`) | types and permits (`TypeOK`); no message twice or out of order (`HandledOnceInOrder`); messages are answered (`PostedAreAnswered`); the bundle of a run has all its events, and what a crash loses is owed to appends that failed, one or two events each (`NoEventLost`); events of the main agent go missing only where another run ended or one without a recorder began (`MissedOnlyByOverlap`) |
| `console` (`MCConsole`, `Console.cfg`) | types, the queue's cap and the lock (`TypeOK`); an approval is carried out once, if approved (`DecidedOnce`); guarded settings and actions need theirs (`GuardedOnlyByApproval`); the limit of agents gives way only to overlapping spawns (`LimitExceededOnlyByOverlap`); a task is run again only for a sending of it that failed, and three times at most (`RunAgainOnlyAfterFailure`); everyone is answered (`EveryoneIsAnswered`) |

### Bounds

- `agentic_loop`: a plan of 4 steps cut to `MaxSteps = 3`, or an empty one; one
  retry; a cap of 2 snapshots, so that the third step evicts one; one detection
  category besides `stalled_progress`, as categories differ only in their
  deduplication key; one injected intervention that adds a line and one that
  ends the run; the default request over HTTP and over the WebSocket and the
  latter with each switch off.  Three steps let a rollback happen before, at and
  after the eviction.
- `step_execution`: three steps, two retries, two iterations, the default
  thresholds; the deques keep 3 entries where the code keeps more, and only the
  last of them are looked at; two calls, one or two per response, two outputs
  and one answer, so that a call can repeat, alternate and be repeated over the
  end of a step.
- `direct_chat`: two turns and two permits, two iterations, two retries, a
  summary from three messages on with the last two as the fallback: turns
  overlap in every pair of places, and a summary is summarised.
- `scheduler`: two jobs of every kind, so that one can be starved, hidden or
  overtaken by another; one restart; two failures in a row instead of three, so
  that both sides of the limit occur.
- `server`: the watchdog, the monitor with a limit of two slow samples,
  auto-start and one emergency stop, three process identities, which are used
  again once free, two restarts in an hour of two ticks.  `server_twice` adds
  the API's restart.
- `discord`: three messages, a window of three with a backlog of two, so that a
  poll can cut one off; two permits, and one agentic run beside the bridge's;
  the files of the second message's run are followed, as the first message is
  always passed over by the priming, with two events beside the first and last
  and one failing append; one crash.
- `console`: the chat tab and two more clients, with four requests among them
  (the shortest sequences that could act on one approval twice or spawn past the
  limit take three or four), one task, one broken connection (runs
  that end with an error and checks that fail are not bounded, and let a task be
  sent three times), one crash; a queue
  of two and a limit of one agent, so that both are reached; two parallel slots;
  one preset that has to be created first.

Nothing else bounds the state: stalls, interventions, polls, triggers and
restarts of llama.cpp repeat for ever.  `CHECK_DEADLOCK FALSE` stands where the
system stops in the end: all steps or turns are over, or the bounds on requests,
messages and crashes are used up and nothing is left to do.

### Fairness

`AgenticLoop` and `StepExecution` assume weak fairness of the run's own steps
(`LoopStep`, `Running`): the event loop resumes a task whose await is over, and
each model call ends, because every request to llama.cpp carries a timeout.  The
supervisor, the client and the tools are not fair: they may act or not.
`DirectChat` assumes it of each turn's steps for the same reason, and strong
fairness of taking the lock and the permit, as the locks of asyncio are first
come, first served; the server's going down and coming back is not fair, so the
turns end with it down as well as up.
`Scheduler` assumes weak fairness of the poll task (`Polling`; a trigger is an
agentic run, which ends by `RunEnds`) and of a process that is down being
started again (`ComeUp`), without which nothing could be said of restarts.
Time is not fair: a job may never become due.
`ServerManager` assumes weak fairness of each task that awaits a timer or the
creation of a process, of the exit of a killed process (not of a terminated
one), of time, and of the watchdog once the server is gone, as it polls every
30 s.  Callers, monitor and emergency stops are not fair.
`DiscordBridge` assumes weak fairness of the listener, of the ends of the
background tasks and of the other agentic runs, and strong fairness of taking a
permit, for the reason `DirectChat` does; nobody has to post.  `Console` assumes it of the
tab's own steps, of the holder of the lock, of the checks before it, and of each
answer to a client; nobody has to ask, nothing has to fail.

## Where documentation and code part

- `reset_context` is documented to retry the step
  (`agents/agentic_loop.py:24`, `IMPLEMENTATION.md:70`); the `break` at
  `agents/agentic_loop.py:420` leaves the attempt loop, and the step is
  reported complete without having been executed again.  The properties above
  still hold: order, context and clean-up are right, only the step is skipped.
- Scheduled jobs are documented to survive restarts; a job saved as running is
  loaded as running, and no poll fires it again.
- The scheduler is documented to trigger due jobs; one `run_at` without a
  timezone breaks every poll before the jobs added later are looked at.
  `DueJobsFire` is what does hold: the same for jobs with no such job before
  them.
- `start` is meant to leave a running server alone; two tasks that reach it
  together create a server each.  `OneAtATime` is what does hold.
- Completions on one slot must not overlap (`core/slot_manager.py:56`); the
  summary of the rolling context is posted past the slot's lock, while another
  turn may hold it.

Other things met while modelling, which the properties state as they are or
which lie outside of them:

- *Settings.*  `/restart` in the chat and Discord's restart ask for no approval
  (`main.py:1634`, `main.py:380`); `allow_auto_recovery_restart_without_approval`
  is never read.  `GuardedOnlyByApproval` names the former as an exception.  A
  request that changes the cache and other fields loses the other fields.
- *Terminal UI.*  The table of agents reads `id` where the field is `agent_id`
  (`tui/app.py:466`), so Kill never reaches an agent.  What was only queued for
  approval is reported as done (`tui/app.py:731`, `843`, `1050`).  A task is run
  again when its result had been received but the connection then failed
  (`tui/app.py:389`), or when the result could not be sent and was swallowed; and
  a third time when the request that makes up for it fails as well
  (`tui/app.py:379`, `392`).
- *Direct chat.*  An empty summary replaces the whole conversation
  (`memory/rolling_context.py:103`), where an error would have left its last
  messages.  Arguments of a call that are no object raise outside the loop's
  `try` here as well, and fail the turn (`agents/main_agent.py:1248`).
- *Recorder.*  It is documented to append every event at once so that nothing is
  lost by a crash (`core/diagnostic_recorder.py:10`, `15`, `201`); an append that
  fails is only logged, and the event is in memory alone until the bundle is
  written.  `list_runs` counts the lines of such a file, also those that
  `get_bundle` cannot read.  A run over the websocket has no recorder, and its
  start takes the main agent's away from the run that has one
  (`agents/agentic_loop.py:212`, `main.py:2432`).
- *Detectors.*  The count of give-up phrases is never reset and is compared at
  every output, so that once it is reached no later step of the run executes a
  tool, whatever the model puts out (`GivenUpRunsNoTools`).  Arguments of a call that are no object raise
  outside the loop's `try`, and the whole step is executed again.
- *Supervisor.*  The monitor runs before the stall scan in the same task, so a
  restart delays the detection of stalls, and its restarts use up the
  watchdog's hourly limit.
- *Index.*  The code that removes a file's old chunks is never reached
  (`NothingRemoved`): a forced index adds them a second time, an unforced one
  passes over files that have changed.
- *Tools.*  A step that speaks of local files gets the file and shell tools
  whatever its allow list (`LocalFilesOverrideAllowList`), a call by exact name
  runs a tool that was not offered (`OnlyByNameOutside`), and a tool that could
  not be embedded is offered only by a fallback (`UnembeddedIsLost`).
- *Reports.*  A step that calls tools and then answers is reported as one that
  did not call a required tool (`SuccessIsReported`), and a run whose planning
  call raised as one with an empty plan (`FailureLooksEmpty`).  The attempts of a
  step number their iterations alike, so that a call parsed in one of them hides
  that another made none (`NoCallIsReported`, `RetryHidesNoCall`).  A run stays open
  in the recorder after an exception other than the three that `main.py:1818`
  foresees.

## Proofs

All for arbitrary values of the constants, under the assumptions of the modules
that declare them.  These say what the constants are and little else: numbers
are natural numbers, and limits that the settings keep above zero are
(`CapAssumption`, `LoopAssumption`, `StepAssumption`, `ChatAssumption`,
`SchedulerAssumption`, `ServerAssumption`, `BridgeAssumption`,
`ControlAssumption`, `ConsoleAssumption`); a deque is as long as the limit it
is compared with (`HandleAssumption`); the settings have the fields that gates
look at, and a size is a natural number (`SettingsAssumption`); clients and
server processes are finitely many, turns and models' answers need not be.

Every safety invariant and every action property of the passing runs is a
theorem, and so is the refinement of `TaskRun`.

| module | theorems |
|---|---|
| `AgenticLoopProofs` | `TypeCorrect`, `Inductive`, `ReportsStayInOrder`, `ResetFindsCurrentStep`, `StoreStaysCapped`, `ErrorsAreRetried`, `RunsCleanUp`, `VerdictsAreEarned`, `ContextAgrees`, `ResetCutsClean`; `LoopKeepsPromise`, the refinement; about the store, `SaveKeepsNewest` |
| `StepExecutionProofs` | `TypeCorrect`, `RunawayNever`, `FailuresAlwaysStop`, `GivenUpForGood` |
| `DirectChatProofs` | `TypeCorrect`, `NothingElseForgotten`, `ConcurrencyIsLimited` |
| `SchedulerProofs` | `TypeCorrect`, `FreeAfterEveryPoll`, `OverForGood` |
| `ServerManagerProofs` | `TypeCorrect`, `RestartsAreLimited`, `OnlyOneAtATime`, `StopsOnlyWhatItFound`, `StopIsFinal` |
| `DiscordBridgeProofs` | `TypeCorrect`, `NeverTwice`, `EventsAreKept`, `OnlyOverlapMisses` |
| `ConsoleProofs` | `TypeCorrect`, `ApprovalsCountOnce`, `GuardedTakesApproval`, `OnlyOverlapExceeds`, `OnlyFailureRepeats` |
| `MainAgentProofs`, tools | registry: `RegistryTypeCorrect`, `NamesAreKept`, `OnlyOptedIn`; router, for `TopK` at least 1 and finitely many candidates where it counts them: `RoutingKeepsSome`, `RoutingIsBounded`, `UnembeddedIsLost`, `CriticalAreOffered`; choice of tools: `OffersFit`, `LocalFilesOverrideAllowList`, `DirectOffersFit`; names: `OnlyByNameOutside`, `NameIsEnough`, `PlaceholderRuns` |
| `MainAgentProofs`, plan and report | `PlanIsShort`, `BlankStepsComeUnnumbered`, `FailureLooksEmpty`, `AnswerIsNotAccused`; `MissedEventsRaiseNoAlarm`, `OnlyDroppedIsUncertain`, `NoCallIsReported`, `RetryHidesNoCall`, `SuccessIsReported` |
| `MainAgentProofs`, index | `TypeCorrect`, `NothingRemoved`, `NoDuplicates`, and `OneAutomaticRun`, which assumes that no caller is named as the background task |

Each of the first seven modules has an inductive invariant (`IInv`) with named
parts, a lemma for each action or kind of action that says it keeps them, and
the theorems as consequences.  Each `IInv` also holds as an invariant on the
instance of its run, where TLC checked it.

*The loop.*  The invariants are not inductive one by one.  That the reports stay
in order after a reset depends on which checkpoint is restored; which one that is
depends on the store being the interval of the last steps up to the current one,
the newest of them holding the current reports; and this depends on what eviction
leaves behind, and on the index the reset jumps back to.  `IInv` adds what is
needed: the shape of the store, that `step` and `stepNum` belong to `idx`,
what each place of the run implies for `finalAction`, the step's retries and
the outcome, and that only the last report of a stopped run has failed.  The proof
has one lemma per action (`Keeps...`), each with one step per part the action
can disturb, and `ResetRestoresCurrent` for the heart of the matter: a reset
gives back exactly the reports the loop already has.  The refinement rests on
the same fact: in the eyes of the caller a reset is a stutter.  A by-product:
`IInv` excludes the outcome `"unverified"`.  A run that reaches the end of its
plan is always verified, because a failed step stops the run before, and a step
that only produced an error text counts as complete.

The context takes an invariant of its own on top (`ContextInv`).  A line carries
the number of the step it was appended in; the lines of the step being run come
last, after those that the checkpoint of this step holds, which are all of
earlier steps.  So what a reset cuts off is what the step appended, and what is
left tells the reports.

*The tool loop.*  `NoRunaway` speaks of the calls that were executed, the detector
of those it observed; `CallsTell` connects them.  The deque ends with as many
copies of the last call as were executed in a row: a call that is observed and
then not executed, because the step is paused by it, only adds to these copies.  The
detector raises a key once, so one must also know that nothing was detected yet
in the step that goes on (`NothingDetected`), which holds because every detection
leads out of the step and the deduplication starts anew with the next.
`GivenUpRunsNoTools` is a step's matter: the counter never falls, and a run that
is past the limit does not get from an answer to its calls.

*Direct chat.*  `PermitsOK` counts: the semaphore is short of exactly the active
turns.  For the conversation, `SummariesOK` looks ahead: what a summary that is
being awaited will put in the place of all messages, should it have a text, is
everything said but what is excused, and it was said; a summary that is empty, or
the fallback, excuses the rest in the step in which it lands.  A message that is added during the await becomes
excused at that moment, not when the summary lands, which is what makes the
invariant hold for summaries that overlap.

*The scheduler.*  `OverOK` is about the list a restart would go on with (`Kept`),
not the one in memory: while no save is lost, what is over is cancelled there, in
memory as long as the process is up, in the file once it is down.  The poll holds
on to a job over the await, while `add` and `cancel` change the list, so
`PollOK` says that the job it is at is still there, and `MarksOK` that no other
is marked as running; the latter is lost by a restart, and so is the property.

*The server.*  `_restart_times` is pruned only when somebody restarts, so it may
hold times that are too old; `TimesTell` says that it is the restarts of the
last hour behind some such times, in order, which is why the length after the
pruning is the number that is limited.  `OneProcess` says how tasks share
the one process while creations do not overlap: only one task creates, only while
none runs, and who stops a process stops the current one.  The last theorem also
needs that an emergency stop does nothing but stop, and is answered only by the exit of
the process it waits for.

*The bridge.*  Order rests on `ListenerOK`: what is still in the queue of a poll
comes after everything handled, what is handled is at most the watermark the
poll will set, and between polls at most the one that is set, once the bridge is
primed.  The set of processed
ids is not needed for it, nor is what the state file holds: a process that comes
up primes itself with the newest message of the channel.  `RunOK` relates the
files of a run to its events and its failed appends in every state a crash may
leave, where a line that has no end yet costs one event more, and `MutedOK` names
the witness of an overlap: a task that runs, while no other run ended and none
without a recorder began, still has the recorder.

*The console.*  Ids only grow and the queue is sorted by them, so that pruning
takes the oldest; an entry has no verdict yet exactly while it is pending
(`Undecided`), and `DecidedOnce` follows as an approval is carried out in the step
that decides it.  `LimitOK` counts the agents together with the spawns under way:
one that found room is counted at once.  For `RunAgainOnlyAfterFailure` a task must be
followed through its websocket, the checks before the lock and the line at it:
it has at most two requests, which their names tell apart (`OneWaits`), and `Fits`
says, for each place of the tab, that its runs and the requests that still wait are
no more than one and the sendings that failed, which are two at most.  `GuardedOnlyByApproval` is proved step by step:
every action is either harmless (no guarded field changes, no guarded call
begins) or is the approval.

*The index.*  `NothingRemoved` follows from `UnknownAhead`: what a run has still
to index is not among the paths it read at its start, and those paths are all
the deletion looks at.  `NoDuplicates` needs that runs that exclude each other
leave behind a table that agrees with what the next one reads: `Orderly` says
that while nothing is excused there is one run at most and a file that it has
still to index, or has at hand, is not in the table yet.

*The analyzer.*  Detectors that look for events that are present find fewer in
fewer events; three also ask for events that are absent, and for these the proof
uses that the main agent looks its recorder up once for a step, so that what goes
missing are all its events of a step, with all its attempts, or none (`LeftOf`).
This is the other side of `MissedOnlyByOverlap`.  It does not speak of a step of
which one attempt was recorded and another was not, nor of a single event that a
failed append and a crash have lost.

*Only model-checked.*  Liveness (`RunEnds`, `StepEnds`, `TurnsEnd`, `DueJobsFire`,
`ServerComesBack`, `PostedAreAnswered`, `EveryoneIsAnswered`): its fairness
conditions contain `ENABLED`, which is out of the prover's reach.  And the runs
that expect a violation, whose counterexamples are of their instances.

## Not modelled

Text: prompts, the parsing of tool calls, the patterns of give-up phrases and of
intents, rendering, wording of events and reports, token estimates.  Plain reads
of the API, the cached slot information, the audit log and the settings file.
Devices and services: vision, web, Discord's and llama.cpp's own behaviour, the
search of the vector tables.  The process tool, whose entries are independent of
each other, and the stateless tools, each one request.  The widgets of the
terminal UI.  The benchmarks and validation scripts.  `PROJECT.json` gives the
reason for each component.

## Plan

Built, in this order: `CheckpointManager` with `AgenticLoop` and `TaskRun`;
`Scheduler`; `ServerManager`; `LoopHandle` with `StepExecution`;
`RollingContext` with `DirectChat`; `DiagnosticRecorder` with `DiscordBridge`;
`ApprovalQueue` with `ControlPlane` and `Console`; `WorkspaceIndex`,
`ToolRouting`, `DiagnosticAnalyzer` and `Planning` with their theorems.

Then the theorems: the loop first, the modules without a run, and the invariants
and action properties of all the others.

Left are abstract specifications of further components, with theorems that the
detailed ones implement them, as `TaskRun` is for the loop: of an approval (it is
pending, then decided, then carried out at most once), of the job list over
restarts, and of the channel that the bridge serves.
