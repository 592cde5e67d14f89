----------------------------- MODULE DirectChat -----------------------------
(***************************************************************************)
(* Direct chat: turns that share the inference semaphore of the API        *)
(* (backend/main.py), the main slot of llama.cpp and one rolling context.  *)
(*                                                                         *)
(*   MainAgent.process_direct       backend/agents/main_agent.py           *)
(*   SlotManager.send_to_main       backend/core/slot_manager.py           *)
(*   LlamaClient.complete           backend/core/llama_client.py           *)
(*   RollingContext                 backend/memory/rolling_context.py      *)
(*                                                                         *)
(* An action ends where a turn awaits.  Prompts, memory and the cleaning   *)
(* of texts are left out: which kind of response a text is, is left open.  *)
(***************************************************************************)
EXTENDS RollingContext, FiniteSets

CONSTANTS
    Turns,
    Concurrency,         \* inference_concurrency
    MaxIterations,       \* _MAX_TOOL_ITERATIONS
    MaxTries,            \* _MAX_COMPLETION_RETRIES
    NoTurn

ASSUME ChatAssumption ==
    /\ Concurrency \in Nat \ {0} /\ MaxIterations \in Nat \ {0}
    /\ MaxTries \in Nat
    /\ MinMessages \in Nat /\ MinMessages > 2 /\ Kept \in Nat \ {0}
    /\ NoTurn \notin Turns

VARIABLES
    turn,                \* per turn: where it is and its locals
    permits,             \* value of the semaphore
    lock,                \* holder of the slot's lock, or NoTurn
    up,                  \* llama.cpp answers
    context,             \* the rolling context of direct chat
    said,                \* history: what was added to the context
    excused              \* history: what may be missing from it by now

vars == <<turn, permits, lock, up, context, said, excused>>
memory == <<context, said, excused>>

Places == {"new", "waiting", "routing", "asking", "posting", "recovering", "tools",
           "remembering", "summarising", "done", "failed"}
Roles  == {"system", "user", "assistant"}
Said   == Turns \X Roles

\* "stage" says what the completion is for: the answer, the answer again after
\* the tool context was trimmed, or the repair of an answer.
NewTurn ==
    [pc |-> "new", stage |-> "answer", offered |-> FALSE, iteration |-> 0,
     used |-> FALSE, call |-> 0, try |-> 0,
     toAdd |-> << >>, snapshot |-> {}]

Init ==
    /\ turn = [t \in Turns |-> NewTurn]
    /\ permits = Concurrency
    /\ lock = NoTurn
    /\ up = TRUE
    /\ context = NewContext
    /\ said = {} /\ excused = {}

Active(t) == turn[t].pc \notin {"new", "waiting", "done", "failed"}

-----------------------------------------------------------------------------
(* Routing *)

\* The endpoint asks for llama.cpp's health before it waits for its turn.
Arrive(t) ==
    /\ turn[t].pc = "new"
    /\ turn' = [turn EXCEPT ![t].pc = IF up THEN "waiting" ELSE "failed"]
    /\ UNCHANGED <<permits, lock, up, memory>>

\* async with _inference_lock
Begin(t) ==
    /\ turn[t].pc = "waiting"
    /\ permits > 0
    /\ permits' = permits - 1
    /\ turn' = [turn EXCEPT ![t].pc = "routing"]
    /\ UNCHANGED <<lock, up, memory>>

Leave(t, how) ==
    /\ permits' = permits + 1
    /\ turn' = [turn EXCEPT ![t] = [NewTurn EXCEPT !.pc = how]]

\* A question for the tools is answered from the registry.
DescribeCapabilities(t) ==
    /\ turn[t].pc = "routing"
    /\ Leave(t, "done")
    /\ UNCHANGED <<lock, up, memory>>

\* What is added at the end: the note on the tools used, the user's text and
\* the answer, unless cleaning has left nothing of it.
Transcripts(t, used) ==
    LET note == IF used THEN <<<<t, "system">>>> ELSE << >>
    IN  {note \o <<<<t, "user">>, <<t, "assistant">>>>, note \o <<<<t, "user">>>>}

\* The local fast path answers by itself, once its tools return.
FastPath(t) ==
    /\ turn[t].pc = "routing"
    /\ turn' = [turn EXCEPT ![t].pc = "remembering",
                            ![t].toAdd = <<<<t, "user">>, <<t, "assistant">>>>]
    /\ UNCHANGED <<permits, lock, up, memory>>

\* The memory is searched, tools are routed and the prompt is built.
BuildPrompt(t) ==
    /\ turn[t].pc = "routing"
    /\ \E offered \in BOOLEAN :
         turn' = [turn EXCEPT ![t].pc = "asking", ![t].iteration = 1,
                              ![t].offered = offered]
    /\ UNCHANGED <<permits, lock, up, memory>>

-----------------------------------------------------------------------------
(* send_to_main: up to two completions of up to two requests each *)

\* async with slot_lock
AcquireSlot(t) ==
    /\ turn[t].pc = "asking"
    /\ lock = NoTurn
    /\ lock' = t
    /\ turn' = [turn EXCEPT ![t].pc = "posting", ![t].call = 1, ![t].try = 0]
    /\ UNCHANGED <<permits, up, memory>>

\* The request after this one: the same completion without the thinking flag,
\* or the second completion.
PostAgain(t, call) ==
    /\ turn' = [turn EXCEPT ![t].call = call, ![t].try = 0]
    /\ UNCHANGED <<permits, lock, up, memory>>

\* An empty answer is asked for again without the flag; a completion that is
\* empty, or whose answer is empty once it is cleaned, is repeated once.
EmptyAnswer(t) ==
    /\ turn[t].pc = "posting" /\ up
    /\ turn[t].call < 4
    /\ PostAgain(t, turn[t].call + 1)

CleanedAway(t) ==
    /\ turn[t].pc = "posting" /\ up
    /\ turn[t].call < 3
    /\ PostAgain(t, 3)

\* A transient error: wait for /health for a while, then try again.
TriesLeft(t) == turn[t].try < MaxTries

TransientError(t) ==
    /\ turn[t].pc = "posting"
    /\ TriesLeft(t)
    /\ turn' = [turn EXCEPT ![t].pc = "recovering"]
    /\ UNCHANGED <<permits, lock, up, memory>>

Recovered(t) ==
    /\ turn[t].pc = "recovering"
    /\ turn' = [turn EXCEPT ![t].pc = "posting",
                            ![t].try = @ + 1]
    /\ UNCHANGED <<permits, lock, up, memory>>

-----------------------------------------------------------------------------
(* The tool loop of process_direct *)

\* send_to_main returns or raises: the slot is free again.
SlotReleased == lock' = NoTurn

Again(t) ==
    [turn[t] EXCEPT !.pc = "asking", !.stage = "answer", !.iteration = @ + 1,
                    !.call = 0, !.try = 0]

\* The loop is left: a response that looks raw is repaired by the model, once.
LeaveLoop(t, used) ==
    \/ turn' = [turn EXCEPT ![t] = [NewTurn EXCEPT !.pc = "asking", !.stage = "repair",
                                                   !.used = used]]
    \/ \E texts \in Transcripts(t, used) :
         turn' = [turn EXCEPT ![t] = [NewTurn EXCEPT !.pc = "remembering", !.toAdd = texts]]

\* A response with tool calls, with a malformed one, or the final answer.
Answered(t) ==
    /\ turn[t].pc = "posting" /\ up
    /\ turn[t].stage # "repair"
    /\ SlotReleased
    /\ \/ /\ turn[t].offered
          /\ turn' = [turn EXCEPT ![t].pc = "tools"]
       \/ /\ turn[t].offered
          /\ turn[t].iteration < MaxIterations
          /\ turn' = [turn EXCEPT ![t] = Again(t)]
       \/ LeaveLoop(t, turn[t].used)
    /\ UNCHANGED <<permits, up, memory>>

\* The tools of one response have been executed, well or not.
ToolsEnd(t) ==
    /\ turn[t].pc = "tools"
    /\ IF turn[t].iteration < MaxIterations
       THEN turn' = [turn EXCEPT ![t] = [Again(t) EXCEPT !.used = TRUE]]
       ELSE LeaveLoop(t, TRUE)
    /\ UNCHANGED <<permits, lock, up, memory>>

\* Arguments that are no object raise before their tool is called, outside of
\* what catches the failure of a tool.
ToolsFail(t) ==
    /\ turn[t].pc = "tools"
    /\ Leave(t, "failed")
    /\ UNCHANGED <<lock, up, memory>>

\* The repair answers or fails; either way the turn goes on.
RepairEnds(t) ==
    /\ turn[t].pc = "posting"
    /\ turn[t].stage = "repair"
    /\ SlotReleased
    /\ \E texts \in Transcripts(t, turn[t].used) :
         turn' = [turn EXCEPT ![t] = [NewTurn EXCEPT !.pc = "remembering", !.toAdd = texts]]
    /\ UNCHANGED <<permits, up, memory>>

\* "context shift is disabled": once more with a shorter tool context.
\* A slip: as often as the server says so.
SlipContextShift(t) ==
    /\ turn[t].pc = "posting" /\ up
    /\ turn[t].stage # "repair"
    /\ turn[t].iteration > 1
    /\ SlotReleased
    /\ turn' = [turn EXCEPT ![t].pc = "asking", ![t].stage = "shifted",
                            ![t].call = 0, ![t].try = 0]
    /\ UNCHANGED <<permits, up, memory>>

ContextShift(t) ==
    /\ turn[t].pc = "posting" /\ up
    /\ turn[t].stage = "answer"
    /\ turn[t].iteration > 1
    /\ SlotReleased
    /\ turn' = [turn EXCEPT ![t].pc = "asking", ![t].stage = "shifted",
                            ![t].call = 0, ![t].try = 0]
    /\ UNCHANGED <<permits, up, memory>>

\* Any other error, or the last transient one, ends the turn.
\* A slip: the slot's lock is kept.
SlipTurnFails(t) ==
    /\ turn[t].pc = "posting"
    /\ turn[t].stage # "repair"
    /\ Leave(t, "failed")
    /\ UNCHANGED <<lock, up, memory>>

TurnFails(t) ==
    /\ turn[t].pc = "posting"
    /\ turn[t].stage # "repair"
    /\ SlotReleased
    /\ Leave(t, "failed")
    /\ UNCHANGED <<up, memory>>

-----------------------------------------------------------------------------
(* The end of a turn: messages are added, any of them may want a summary *)

\* A message added while another turn awaits a summary of the messages before
\* it is lost when that summary replaces them: the history excuses it.
Add(t, texts) ==
    LET new == {texts[i] : i \in 1..Len(texts)} IN
    /\ context' = Added(context, texts)
    /\ said' = said \cup new
    /\ excused' = IF \E u \in Turns : turn[u].pc = "summarising"
                  THEN excused \cup new ELSE excused

Remember(t) ==
    /\ turn[t].pc = "remembering"
    /\ Add(t, turn[t].toAdd)
    /\ Leave(t, "done")
    /\ UNCHANGED <<lock, up>>

\* add_message of the n-th of them awaits _summarize, past the slot's lock.
StartSummary(t) ==
    /\ turn[t].pc = "remembering"
    /\ \E n \in 1..Len(turn[t].toAdd) :
         /\ Add(t, SubSeq(turn[t].toAdd, 1, n))
         /\ MaySummarize(context')
         /\ turn' = [turn EXCEPT ![t].pc = "summarising",
                       ![t].toAdd = SubSeq(@, n + 1, Len(@)),
                       ![t].snapshot = Conversation(context'.messages)]
    /\ UNCHANGED <<permits, lock, up>>

\* The turn's other messages follow at once; they are too few for a summary of
\* their own.
SummaryDone(t, summary, missing) ==
    LET rest == turn[t].toAdd IN
    /\ context' = Added(Summarized(summary), rest)
    /\ said' = said \cup {rest[i] : i \in 1..Len(rest)}
    /\ excused' = missing \cup
         IF \E u \in Turns \ {t} : turn[u].pc = "summarising"
         THEN excused \cup {rest[i] : i \in 1..Len(rest)} ELSE excused
    /\ Leave(t, "done")
    /\ UNCHANGED <<lock, up>>

\* A text that the model returns tells all that its prompt held.
ModelSummarizes(t) ==
    /\ turn[t].pc = "summarising" /\ up
    /\ SummaryDone(t, turn[t].snapshot, {})

\* complete asks once more for an answer that is empty and returns what comes
\* then: an empty text replaces the messages like any other.
SummaryIsEmpty(t) ==
    /\ turn[t].pc = "summarising" /\ up
    /\ SummaryDone(t, {}, Known(context.messages))

\* summary_timeout_seconds are over, or the request failed.
FallBack(t) ==
    /\ turn[t].pc = "summarising"
    /\ \E n \in 0..Len(LastOf(context.messages)) :
         LET summary == ByFallback(context.messages, n) IN
         SummaryDone(t, summary, Known(context.messages) \ summary)

\* llama.cpp goes down and comes back.
ServerToggles ==
    /\ up' = ~up
    /\ UNCHANGED <<turn, permits, lock, memory>>

Sends(t) == EmptyAnswer(t) \/ CleanedAway(t) \/ TransientError(t)
            \/ Answered(t) \/ RepairEnds(t) \/ ContextShift(t) \/ TurnFails(t)
Step(t)  == Arrive(t) \/ DescribeCapabilities(t) \/ FastPath(t) \/ BuildPrompt(t)
            \/ Recovered(t) \/ ToolsEnd(t) \/ ToolsFail(t) \/ Sends(t)
            \/ Remember(t) \/ StartSummary(t)
            \/ ModelSummarizes(t) \/ SummaryIsEmpty(t) \/ FallBack(t)

Next == ServerToggles \/ \E t \in Turns : Begin(t) \/ AcquireSlot(t) \/ Step(t)

Spec == Init /\ [][Next]_vars

\* The event loop runs every task that can run, a request to llama.cpp has a
\* read timeout, and the lock and the semaphore of asyncio are first come, first
\* served.
FairSpec ==
    /\ Spec
    /\ \A t \in Turns :
         WF_vars(Step(t)) /\ SF_vars(AcquireSlot(t)) /\ SF_vars(Begin(t))

-----------------------------------------------------------------------------
(* Properties *)

\* The state has its types; a turn holds one permit from its first step to its
\* last, whichever way it ends, and the lock of the slot while it completes
\* and while it waits for the server to recover (slot_manager.py:128-157).
TypeOK ==
    /\ \A t \in Turns :
         /\ turn[t].pc \in Places
         /\ turn[t].stage \in {"answer", "shifted", "repair"}
         /\ turn[t].iteration \in 0..MaxIterations
         /\ turn[t].call \in 0..4 /\ turn[t].try \in 0..MaxTries
         /\ turn[t].toAdd \in Seq(Said) /\ turn[t].snapshot \subseteq Said
         /\ lock = t <=> turn[t].pc \in {"posting", "recovering"}
    /\ permits = Concurrency - Cardinality({t \in Turns : Active(t)})
    /\ lock \in Turns \cup {NoTurn}
    /\ up \in BOOLEAN
    /\ excused \subseteq said /\ said \subseteq Said

\* Of all that was added to the conversation, over summaries of summaries by
\* turns that overlap, what is missing was added during the await of a summary,
\* was left out by a fallback, or was there when a summary came back empty: a
\* text by the model forgets only what was added behind its prompt
\* (rolling_context.py:58-105, llama_client.py:146-151).
OnlyExcusedForgotten == said \ excused \subseteq Known(context.messages)

\* Every turn ends, answered or failed, although llama.cpp may go down and come
\* back for ever: the retries of a request, of a completion, of a turn and the
\* iterations of the tool loop are each bounded, and no turn keeps another from
\* the slot for ever (main_agent.py:1201, llama_client.py:71-92).
TurnsEnd == \A t \in Turns : <>(turn[t].pc \in {"done", "failed"})

\* "concurrent completions targeting the same slot must not overlap"
\* (slot_manager.py:56-58); a summary of the rolling context is a completion
\* that targets the main slot as well.
SlotUsedByOne ==
    \A t, u \in Turns :
       turn[t].pc = "posting" /\ turn[u].pc = "summarising" => t = u
=============================================================================
