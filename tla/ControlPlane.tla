----------------------------- MODULE ControlPlane -----------------------------
(***************************************************************************)
(* The operations endpoints of backend/main.py: settings, approvals,       *)
(* emergency stop, presets and sub-agents, on the state of approval_queue, *)
(* preset_manager and registry.                                            *)
(*                                                                         *)
(* A handler runs without interruption up to its next await.  Those that   *)
(* await nothing are one action; the others occupy their client from their *)
(* first action to their last, while any other handler may act.  How the   *)
(* server manager carries out a stop or a restart is the subject of module *)
(* ServerManager: here each is a call that takes a while.                  *)
(***************************************************************************)
EXTENDS ApprovalQueue, FiniteSets

CONSTANTS
    Clients,             \* callers that wait for an answer before they ask again
    Chat,                \* the one behind the chat tab of the TUI
    Presets,             \* presets that may come to exist
    InitialPresets,
    MaxSlots,            \* max_slots
    ParallelSlots,       \* the slots of llama.cpp but the main one
    InitialSettings,     \* the settings an update may change
    Updates,             \* what clients send to /api/settings
    MaxRequests,         \* bound: requests
    MaxSpawns,           \* bound: agents spawned
    MaxCrashes           \* bound: restarts of the backend

ASSUME ControlAssumption ==
    /\ Chat \in Clients /\ IsFiniteSet(Clients)
    /\ InitialPresets \subseteq Presets
    /\ ParallelSlots \subseteq Nat \ {0}
    /\ {MaxEntries, MaxSlots} \subseteq Nat \ {0}
    /\ {MaxRequests, MaxSpawns, MaxCrashes} \subseteq Nat

\* The fields of the settings that matter here.  A size is a natural number: a
\* negative one, which the request would let through, is not looked at.
ASSUME SettingsAssumption ==
    /\ {"kv", "context", "guarded"} \subseteq DOMAIN InitialSettings
    /\ \A data \in Updates \cup {InitialSettings} :
         /\ "context" \in DOMAIN data => data.context \in Nat
         /\ "guarded" \in DOMAIN data => data.guarded \subseteq CriticalActions

VARIABLES
    queue,               \* ApprovalQueue
    settings,
    presets,             \* the preset files: not yet created, there, deleted
    agents,              \* AgentRegistry
    call,                \* per client: the handler it waits for
    requests, submitted, spawned, crashes,
    \* history, read by no action
    verdicts,            \* what a human decided, per approval
    carried              \* how often the action of an approval was begun

decisions == <<queue, submitted, verdicts, carried>>
control   == <<decisions, settings, presets, agents, call, requests, spawned, crashes>>

None      == 0
Idle      == [op |-> "idle", on |-> None]
Waiting(c, op) == call[c].op = op
Nobody    == [c \in Clients |-> Idle]
Approvals == 1..MaxRequests

\* What lifespan builds: everything in memory but the presets.
ControlInit ==
    /\ queue = << >>
    /\ settings = InitialSettings
    /\ presets = [p \in Presets |-> IF p \in InitialPresets THEN "there" ELSE "new"]
    /\ agents = {}
    /\ call = Nobody
    /\ requests = 0 /\ submitted = 0 /\ spawned = 0 /\ crashes = 0
    /\ verdicts = [a \in Approvals |-> "none"]
    /\ carried = [a \in Approvals |-> 0]

Asks(c) ==
    /\ Waiting(c, "idle")
    /\ requests < MaxRequests
    /\ requests' = requests + 1

Begins(c, op, on) == call' = [call EXCEPT ![c] = [op |-> op, on |-> on]]
Answers(c)        == call' = [call EXCEPT ![c] = Idle]

Submit(action, payload) ==
    /\ queue' = Submitted(queue, NewApproval(submitted + 1, action, payload))
    /\ submitted' = submitted + 1
    /\ UNCHANGED <<verdicts, carried>>

-----------------------------------------------------------------------------
(* Settings *)

Guarded(action) == action \in settings.guarded

ChangesKv(data) == "kv" \in DOMAIN data

\* A slip: the new size is compared with the size at start-up.
SlipGrowsALot(data) ==
    "context" \in DOMAIN data /\ data.context > InitialSettings.context * 2
GrowsALot(data) == "context" \in DOMAIN data /\ data.context > settings.context * 2

\* The fields of the cache alone go into the approval: others of the same
\* request are dropped, and answered as if they were pending too.
QueueKvChange(c, data) ==
    /\ Asks(c)
    /\ ChangesKv(data) /\ Guarded("kv_cache_change")
    /\ Submit("kv_cache_change", [kv |-> data.kv])
    /\ UNCHANGED <<settings, presets, agents, call, spawned, crashes>>

\* As above, for the size of the context.
QueueLargeContext(c, data) ==
    /\ Asks(c)
    /\ ~(ChangesKv(data) /\ Guarded("kv_cache_change"))
    /\ GrowsALot(data) /\ Guarded("large_context_increase")
    /\ Submit("large_context_increase", [context |-> data.context])
    /\ UNCHANGED <<settings, presets, agents, call, spawned, crashes>>

\* Field by field; a field that the settings do not have is passed over.
Changed(data) ==
    [field \in DOMAIN settings |->
        IF field \in DOMAIN data THEN data[field] ELSE settings[field]]

\* Any other update is applied, the switches of the approval gates included.
ApplyUpdate(c, data) ==
    /\ Asks(c)
    /\ ~(ChangesKv(data) /\ Guarded("kv_cache_change"))
    /\ ~(GrowsALot(data) /\ Guarded("large_context_increase"))
    /\ settings' = Changed(data)
    /\ UNCHANGED <<decisions, presets, agents, call, spawned, crashes>>

UpdateSettings(c, data) ==
    QueueKvChange(c, data) \/ QueueLargeContext(c, data) \/ ApplyUpdate(c, data)

-----------------------------------------------------------------------------
(* Restart and emergency stop, with and without approval *)

QueueAction(c, action) ==
    /\ Asks(c)
    /\ Guarded(action)
    /\ Submit(action, << >>)
    /\ UNCHANGED <<settings, presets, agents, call, spawned, crashes>>

\* restart of the server manager.  The command /restart of the chat calls it
\* whatever the settings say.
RestartServer(c) ==
    /\ Asks(c)
    /\ c = Chat \/ ~Guarded("server_restart")
    /\ Begins(c, "restart", None)
    /\ UNCHANGED <<decisions, settings, presets, agents, spawned, crashes>>

\* All agents go before the server is stopped.
EmergencyStop(c) ==
    /\ Asks(c)
    /\ ~Guarded("emergency_stop")
    /\ agents' = {}
    /\ Begins(c, "stop", None)
    /\ UNCHANGED <<decisions, settings, presets, spawned, crashes>>

\* restart or stop has ended, or was refused.
ServerAnswers(c) ==
    /\ call[c].op \in {"restart", "stop"}
    /\ Answers(c)
    /\ UNCHANGED <<decisions, settings, presets, agents, requests, spawned, crashes>>

-----------------------------------------------------------------------------
(* Decisions.  A client may show approvals that are decided or dropped by now. *)

Decide(a, verdict) ==
    /\ queue' = Decided(queue, a.id, verdict)
    /\ verdicts' = [verdicts EXCEPT ![a.id] = verdict]
    /\ UNCHANGED submitted

\* The action is carried out at once, on the settings as they are by now.
CarryOut(c, a) ==
    /\ settings' = Changed(a.payload)
    /\ agents' = IF a.action = "emergency_stop" THEN {} ELSE agents
    /\ CASE a.action = "server_restart" -> Begins(c, "restart", None)
         [] a.action = "emergency_stop" -> Begins(c, "stop", None)
         [] OTHER -> UNCHANGED call

ApproveAction(c, id) ==
    /\ Asks(c)
    /\ \E a \in Open(queue, id) :
         /\ Decide(a, "approved")
         /\ carried' = [carried EXCEPT ![id] = @ + 1]
         /\ CarryOut(c, a)
    /\ UNCHANGED <<presets, spawned, crashes>>

RejectAction(c, id) ==
    /\ Asks(c)
    /\ \E a \in Open(queue, id) : Decide(a, "rejected")
    /\ UNCHANGED <<carried, settings, presets, agents, call, spawned, crashes>>

-----------------------------------------------------------------------------
(* Presets and agents *)

\* The file of a preset is written or unlinked in one go.
CreatePreset(c, p) ==
    /\ Asks(c)
    /\ presets[p] = "new"
    /\ presets' = [presets EXCEPT ![p] = "there"]
    /\ UNCHANGED <<decisions, settings, agents, call, spawned, crashes>>

DeletePreset(c, p) ==
    /\ Asks(c)
    /\ presets[p] = "there"
    /\ presets' = [presets EXCEPT ![p] = "gone"]
    /\ UNCHANGED <<decisions, settings, agents, call, spawned, crashes>>

\* The slots that llama.cpp reports as idle: those nothing is generated on, with
\* or without an agent.
Generating == {call[c].on : c \in {d \in Clients : Waiting(d, "generate")}}
IdleSlots(busy) == ParallelSlots \ busy

\* SubAgent is entered in the registry with the smallest idle slot.
Register(by, slots) ==
    /\ spawned < MaxSpawns
    /\ spawned' = spawned + 1
    /\ agents' = agents \cup {[id |-> spawned + 1, by |-> by,
                               slot |-> CHOOSE s \in slots : \A t \in slots : s <= t]}

\* spawn_agent counts the agents, and then asks for the slots.
\* A slip: one too many.
SlipRoom == Cardinality(agents) <= MaxSlots
Room == Cardinality(agents) < MaxSlots

SpawnAgent(c, p) ==
    /\ Asks(c)
    /\ Room
    /\ Begins(c, "spawn", p)
    /\ UNCHANGED <<decisions, settings, presets, agents, spawned, crashes>>

Spawn(c, busy) ==
    /\ Waiting(c, "spawn")
    /\ IdleSlots(busy) # {} /\ presets[call[c].on] = "there"
    /\ Register("api", IdleSlots(busy))
    /\ Answers(c)
    /\ UNCHANGED <<decisions, settings, presets, requests, crashes>>

\* There is no idle slot, llama.cpp does not answer, or the preset is gone.
SpawnFails(c) ==
    /\ Waiting(c, "spawn")
    /\ Answers(c)
    /\ UNCHANGED <<decisions, settings, presets, agents, requests, spawned, crashes>>

DestroyAgent(c, agent) ==
    /\ Asks(c)
    /\ agents' = agents \ {agent}
    /\ UNCHANGED <<decisions, settings, presets, call, spawned, crashes>>

\* process searches the memory, completes on the slot of the agent and stores
\* the turn; the agent may be destroyed meanwhile.
ChatWithAgent(c, agent) ==
    /\ Asks(c)
    /\ Begins(c, "recall", agent.slot)
    /\ UNCHANGED <<decisions, settings, presets, agents, spawned, crashes>>

Generate(c) ==
    /\ Waiting(c, "recall")
    /\ Begins(c, "generate", call[c].on)
    /\ UNCHANGED <<decisions, settings, presets, agents, requests, spawned, crashes>>

Generated(c) ==
    /\ Waiting(c, "generate")
    /\ Answers(c)
    /\ UNCHANGED <<decisions, settings, presets, agents, requests, spawned, crashes>>

-----------------------------------------------------------------------------

Answer(c, busy) ==
    \/ ServerAnswers(c)
    \/ Spawn(c, busy)
    \/ SpawnFails(c)
    \/ Generate(c)
    \/ Generated(c)

\* The backend dies and is started again: only the presets are on disk.
Crash ==
    /\ crashes < MaxCrashes
    /\ crashes' = crashes + 1
    /\ queue' = << >> /\ settings' = InitialSettings /\ agents' = {} /\ call' = Nobody
    /\ UNCHANGED <<presets, requests, submitted, spawned, verdicts, carried>>
=============================================================================
