---------------------------- MODULE MainAgentProofs ----------------------------
(***************************************************************************)
(* Proofs about what the main agent is built from: the tools it offers and *)
(* runs (ToolRouting, for any tools, contexts and settings), the plans it  *)
(* makes (Planning), what the analyzer makes of the events of a run        *)
(* (DiagnosticAnalyzer, for any set of events) and the index of the        *)
(* workspace it searches (WorkspaceIndex, for any files and agents).       *)
(***************************************************************************)
EXTENDS Planning, ToolRouting, WorkspaceIndex, FiniteSetTheorems, SequenceTheorems, TLAPS

-----------------------------------------------------------------------------
(* The registry *)

LEMMA RegisterTypes ==
    ASSUME RegistryTypeOK, NEW t \in Builtins \cup Plugins, Register(t)
    PROVE  RegistryTypeOK'
BY DEF RegistryTypeOK, Register, Others, Builtins

\* TYPE INVARIANT of the registry.
THEOREM RegistryTypeCorrect == RegistrySpec => []RegistryTypeOK
<1>1. RegistryInit => RegistryTypeOK
    BY DEF RegistryInit, RegistryTypeOK
<1>2. RegistryTypeOK /\ [RegistryNext]_RegistryVars => RegistryTypeOK'
  <2> SUFFICES ASSUME RegistryTypeOK, [RegistryNext]_RegistryVars PROVE RegistryTypeOK'
      OBVIOUS
  <2>1. CASE RegisterBuiltin
      BY <2>1, RegisterTypes DEF RegisterBuiltin
  <2>2. CASE LoadPlugin
      BY <2>2, RegisterTypes DEF LoadPlugin
  <2>3. ASSUME NEW name \in Registered, Unregister(name) PROVE RegistryTypeOK'
      BY <2>3 DEF RegistryTypeOK, Unregister, Others, Builtins
  <2>4. CASE UNCHANGED RegistryVars
      BY <2>4 DEF RegistryTypeOK, RegistryVars, Builtins
  <2> QED BY <2>1, <2>2, <2>3, <2>4 DEF RegistryNext
<1> QED BY <1>1, <1>2, PTL DEF RegistrySpec

LEMMA RegisterKeepsNames ==
    ASSUME OneToolPerName, NEW t, Register(t)
    PROVE  OneToolPerName'
<1>1. \A u, w \in tools' : u.name = w.name => u = w
    BY DEF OneToolPerName, Register, Others
<1>2. \A u, w \in vectors' : u.name = w.name => u = w
    BY DEF OneToolPerName, Register, Others
<1>3. Registered' = Registered \cup {t.name}
    BY DEF Register, Others, Registered, NamesOf
<1>4. Embedded' \subseteq Embedded \cup {t.name}
    BY DEF Register, Others, Embedded, NamesOf
<1> QED BY <1>1, <1>2, <1>3, <1>4 DEF OneToolPerName

\* A name stands for one tool and has at most one vector, and none when no tool
\* of that name is registered.
THEOREM NamesAreKept == RegistrySpec => []OneToolPerName
<1>1. RegistryInit => OneToolPerName
    BY DEF RegistryInit, OneToolPerName, Embedded, NamesOf
<1>2. OneToolPerName /\ [RegistryNext]_RegistryVars => OneToolPerName'
  <2> SUFFICES ASSUME OneToolPerName, [RegistryNext]_RegistryVars PROVE OneToolPerName'
      OBVIOUS
  <2>1. CASE RegisterBuiltin
      BY <2>1, RegisterKeepsNames DEF RegisterBuiltin
  <2>2. CASE LoadPlugin
      BY <2>2, RegisterKeepsNames DEF LoadPlugin
  <2>3. ASSUME NEW name \in Registered, Unregister(name) PROVE OneToolPerName'
      BY <2>3 DEF OneToolPerName, Unregister, Others, Embedded, Registered, NamesOf
  <2>4. CASE UNCHANGED RegistryVars
      BY <2>4 DEF OneToolPerName, RegistryVars, Embedded, Registered, NamesOf
  <2> QED BY <2>1, <2>2, <2>3, <2>4 DEF RegistryNext
<1> QED BY <1>1, <1>2, PTL DEF RegistrySpec

\* Code is executed only where that was opted into, or a plug-in took the name
\* (main.py:1079-1085).
OptedIn ==
    "code_exec" \in Registered => CodeExec \/ \E t \in Plugins : t.name = "code_exec"

THEOREM OnlyOptedIn == RegistrySpec => []OptedIn
<1>1. ASSUME ~CodeExec PROVE "code_exec" \notin BuiltinNames
  <2> DEFINE Optional(flag, set) == IF flag THEN set ELSE {}
  <2>1. /\ Optional(Desktop, {"ui", "screenshot"}) \subseteq {"ui", "screenshot"}
        /\ Optional(Indexing, {"workspace_index"}) \subseteq {"workspace_index"}
        /\ Optional(Discord, {"discord"}) \subseteq {"discord"}
        /\ Optional(CodeExec, {"code_exec"}) = {}
      BY <1>1, Zenon
  <2> QED BY <2>1 DEF BuiltinNames
<1>2. ASSUME RegistryTypeOK, "code_exec" \in Registered
      PROVE  "code_exec" \in BuiltinNames \/ \E t \in Plugins : t.name = "code_exec"
  <2>1. PICK t \in tools : t.name = "code_exec"
      BY <1>2 DEF Registered, NamesOf
  <2>2. CASE t \in Builtins
    <3>1. PICK n \in BuiltinNames : t = [name |-> n, class |-> "built in"]
        BY <2>2, Zenon DEF Builtins
    <3>2. t.name = n
        BY <3>1
    <3> QED BY <2>1, <3>2
  <2> QED BY <1>2, <2>1, <2>2 DEF RegistryTypeOK
<1>3. RegistryTypeOK => OptedIn
    BY <1>1, <1>2, Zenon DEF OptedIn
<1> QED BY <1>3, RegistryTypeCorrect, PTL DEF RegistrySpec

-----------------------------------------------------------------------------
(* Routing *)

\* What the router answers are candidates, and it never leaves none when there
\* are some: a step that could use tools is offered some (semantic_router.py:88-123).
THEOREM RoutingKeepsSome ==
    ASSUME TopK \in Nat \ {0}, NEW c, NEW candidates, NEW bypass,
           NEW R \in Relevant(c, candidates, bypass)
    PROVE  R \subseteq candidates /\ (candidates # {} => R # {})
<1>1. CASE R = candidates
    BY <1>1
<1>2. ASSUME ~Fallback(c, candidates),
             NEW S \in Best(c, Near(c, candidates)), R = S \cup (bypass \cap candidates)
      PROVE  R \subseteq candidates /\ R # {}
  <2>1. S \subseteq candidates
      BY DEF Best, Near
  <2>2. S # {}
    <3>1. CASE Cardinality(S) = TopK
        BY <3>1, FS_EmptySet
    <3>2. CASE S = Near(c, candidates)
        BY <1>2, <3>2 DEF Fallback
    <3> QED BY <3>1, <3>2 DEF Best
  <2> QED BY <1>2, <2>1, <2>2
<1> QED BY <1>1, <1>2 DEF Relevant

\* Unless it falls back on all candidates, the router offers no more than the
\* setting says and the tools that bypass the ranking.
THEOREM RoutingIsBounded ==
    ASSUME TopK \in Nat \ {0}, NEW c, NEW candidates, IsFiniteSet(candidates),
           NEW bypass, NEW R \in Relevant(c, candidates, bypass), R # candidates
    PROVE  Cardinality(R) <= TopK + Cardinality(bypass \cap candidates)
<1>1. PICK S \in Best(c, Near(c, candidates)) : R = S \cup (bypass \cap candidates)
    BY DEF Relevant
<1>2. IsFiniteSet(S) /\ IsFiniteSet(bypass \cap candidates)
    BY FS_Subset DEF Best, Near
<1>3. Cardinality(S) <= TopK
  <2>1. CASE Cardinality(S) = TopK
      BY <2>1
  <2>2. CASE S = Near(c, candidates) /\ Cardinality(Near(c, candidates)) < TopK
      BY <1>2, <2>2, FS_CardinalityType
  <2> QED BY <2>1, <2>2 DEF Best
<1>4. /\ Cardinality(S) \in Nat /\ Cardinality(bypass \cap candidates) \in Nat
      /\ Cardinality(S \cap (bypass \cap candidates)) \in Nat
    BY <1>2, FS_CardinalityType, FS_Intersection
<1>5. Cardinality(R) = Cardinality(S) + Cardinality(bypass \cap candidates)
                         - Cardinality(S \cap (bypass \cap candidates))
    BY <1>1, <1>2, FS_Union
<1> QED BY <1>3, <1>4, <1>5

\* A tool that could not be embedded is lost to the model, however well it fits,
\* as soon as any other tool does: only a bypass or a fallback brings it back
\* (semantic_router.py:68-70, 100-102).
THEOREM UnembeddedIsLost ==
    ASSUME NEW c, NEW candidates, NEW bypass,
           NEW R \in Relevant(c, candidates, bypass), R # candidates,
           NEW n \in R \ bypass
    PROVE  n \in Embedded
BY DEF Relevant, Best, Near

\* A context about the desktop, and not about the web, always gets the critical
\* tools that are registered and allowed (registry.py:180-195).
THEOREM CriticalAreOffered ==
    ASSUME NEW c, c.desktop, ~c.web, NEW allowed, NEW semantic,
           NEW R \in GetTools(c, semantic, allowed)
    PROVE  Critical \cap Registered \cap allowed \subseteq R
BY DEF GetTools, Relevant, Bypass

-----------------------------------------------------------------------------
(* What a step is offered, and what it runs *)

LEMMA GetToolsAllowed ==
    ASSUME NEW c, NEW semantic, NEW allowed, NEW R \in GetTools(c, semantic, allowed)
    PROVE  R \subseteq Registered \cap allowed
BY DEF GetTools, Relevant, Best, Near

\* A step is offered nothing but registered tools, and within its allow list
\* except for local files; when it is about fetching, no desktop tools; and agents
\* to hand work to only when it speaks of that.
THEOREM OffersFit ==
    ASSUME NEW c, NEW semantic, NEW allowed, NEW R \in Offered(c, semantic, allowed)
    PROVE  /\ R \subseteq Registered
           /\ c.fetch \/ ~c.local => R \subseteq allowed
           /\ c.fetch => R \cap DesktopVision = {}
           /\ ~c.delegate => R \cap Handoff = {}
<1>1. PICK selected \in GetTools(c, semantic, allowed) :
        R = ForStep(c, WithoutHandoff(c, selected))
    BY DEF Offered
<1>2. selected \subseteq Registered \cap allowed
    BY GetToolsAllowed
<1> QED BY <1>1, <1>2 DEF ForStep, WithoutHandoff, CoreFiles, Handoff

\* As soon as a step speaks of files, folders, projects and the like, it is
\* offered the tools for files and commands, all that are registered of them and
\* no other, whatever the allow list says (main_agent.py:1579-1590).
THEOREM LocalFilesOverrideAllowList ==
    ASSUME NEW c, c.local, ~c.fetch, NEW semantic, NEW allowed,
           NEW R \in Offered(c, semantic, allowed)
    PROVE  R = CoreFiles \cap Registered
<1>1. PICK selected \in GetTools(c, semantic, allowed) :
        R = ForStep(c, WithoutHandoff(c, selected))
    BY DEF Offered
<1>2. selected \subseteq Registered
    BY GetToolsAllowed
<1> QED BY <1>1, <1>2 DEF ForStep, WithoutHandoff

\* A direct message is offered registered tools, those it is sure to need among
\* them, but web tools not when it also speaks of files (main_agent.py:1126-1149).
THEOREM DirectOffersFit ==
    ASSUME NEW c, NEW R \in OfferedDirectly(c)
    PROVE  /\ R \subseteq Registered
           /\ c.local => CoreFiles \cap Registered \subseteq R
           /\ c.fetch /\ ~c.local => {"web_fetch", "web_search"} \cap Registered \subseteq R
           /\ c.schedule => {"scheduler"} \cap Registered \subseteq R
           /\ c.fetch \/ c.local => R \cap DesktopVision = {}
<1>1. PICK selected \in GetTools(c, TRUE, Registered) :
        R = ForSchedule(c, ForLocal(c, ForWeb(c, WithoutHandoff(c, selected))))
    BY DEF OfferedDirectly
<1>2. selected \subseteq Registered
    BY GetToolsAllowed
<1> QED BY <1>1, <1>2
        DEF ForSchedule, ForLocal, ForWeb, WithoutHandoff, CoreFiles, DesktopVision

\* A call runs at most one kind of thing that was not offered: the registered tool
\* whose very name it bears.  So neither an allow list nor an intent keeps a model
\* from a tool whose name it knows (main_agent.py:1725-1730, 1763).
THEOREM OnlyByNameOutside ==
    ASSUME NEW call, call.kind \in CallKinds, NEW active, NEW n \in Runs(call, active) \ active
    PROVE  call.kind = "exact" /\ n = call.name
BY DEF Runs, Resolve, CallKinds

THEOREM NameIsEnough ==
    ASSUME NEW call, call.kind = "exact", call.name \in Registered, NEW active
    PROVE  Runs(call, active) = {call.name}
BY DEF Runs, Resolve

\* A placeholder runs some tool as long as one is offered.
THEOREM PlaceholderRuns ==
    ASSUME NEW call, call.kind = "placeholder", NEW active, active # {}, active \subseteq Registered
    PROVE  Runs(call, active) # {}
BY DEF Runs, Resolve

-----------------------------------------------------------------------------
(* What the analysis of a run tells when events of the run are missing,    *)
(* which another run can bring about (MissedOnlyByOverlap of               *)
(* DiscordBridge), which responses it passes over, and what it makes of    *)
(* the plan.                                                               *)

\* E is what is left of the events F when the main agent had no recorder for
\* some.  It is looked up once for a step, so a tool call goes missing along with
\* the response it was in (main_agent.py:1625); and the plan goes missing along
\* with the planning response, as nothing is awaited between the two
\* (main_agent.py:1487-1498).  A step of which one attempt was recorded and another
\* was not is left out, and so is an event that a failed append lost alone.
LeftOf(E, F) ==
    /\ E \subseteq F
    /\ \A call \in OfType(F \ E, "tool_call_parsed") :
         \A response \in OfType(E, "model_response_raw") : Key(call) # Key(response)
    /\ OfType(E, "planning_response") # {} => OfType(F \ E, "plan_parsed") = {}

-----------------------------------------------------------------------------
\* Of a type there are no more events in a part than in the whole.
LEMMA OfTypeGrows ==
    ASSUME NEW E, NEW F, E \subseteq F, NEW type
    PROVE  OfType(E, type) \subseteq OfType(F, type)
BY DEF OfType

\* The keys of parsed calls that a part lacks are keys of no response in it.
LEMMA NoNewCalls ==
    ASSUME NEW E, NEW F, LeftOf(E, F),
           NEW r \in OfType(E, "model_response_raw"), Key(r) \notin ParsedKeys(E)
    PROVE  Key(r) \notin ParsedKeys(F)
<1> SUFFICES ASSUME NEW c \in OfType(F, "tool_call_parsed"), Key(c) = Key(r)
             PROVE  FALSE
    BY DEF ParsedKeys
<1>1. CASE c \in E
    BY <1>1 DEF OfType, ParsedKeys
<1>2. CASE c \notin E
    BY <1>2 DEF OfType, LeftOf
<1> QED BY <1>1, <1>2

\* A detector that counts finds no less in the whole.
LEMMA CountGrows ==
    ASSUME NEW S, NEW T, S \subseteq T, IsFiniteSet(T), Cardinality(S) >= 3
    PROVE  Cardinality(T) >= 3
<1>1. IsFiniteSet(S) /\ Cardinality(S) <= Cardinality(T)
    BY FS_Subset
<1>2. Cardinality(S) \in Nat /\ Cardinality(T) \in Nat
    BY <1>1, FS_CardinalityType
<1> QED BY <1>1, <1>2

\* The three detectors whose condition also asks for something to be absent.
LEMMA AbsenceIsNoArtefact ==
    ASSUME NEW E, NEW F, LeftOf(E, F)
    PROVE  /\ NoStepsGenerated(E) => NoStepsGenerated(F)
           /\ ModelDidNotCallTool(E) => ModelDidNotCallTool(F)
           /\ ToolCallParseFailure(E) => ToolCallParseFailure(F)
<1>1. ASSUME NoStepsGenerated(E) PROVE NoStepsGenerated(F)
  <2>1. CASE \E e \in OfType(E, "plan_parsed") : ~e.steps
    BY <2>1 DEF NoStepsGenerated, OfType, LeftOf
  <2>2. CASE OfType(E, "planning_response") # {} /\ OfType(E, "plan_parsed") = {}
    <3>1. OfType(F, "plan_parsed") = {}
      BY <2>2 DEF LeftOf, OfType
    <3>2. OfType(F, "planning_response") # {}
      BY <2>2 DEF LeftOf, OfType
    <3> QED BY <3>1, <3>2 DEF NoStepsGenerated
  <2> QED BY <1>1, <2>1, <2>2 DEF NoStepsGenerated
<1>2. ASSUME ModelDidNotCallTool(E) PROVE ModelDidNotCallTool(F)
  <2>1. PICK r \in TextResponses(E) :
          ~r.call /\ Key(r) \in OfferedKeys(E) /\ Key(r) \notin ParsedKeys(E)
    BY <1>2 DEF ModelDidNotCallTool
  <2>2. r \in OfType(E, "model_response_raw") /\ ~r.empty
    BY DEF TextResponses
  <2>3. Key(r) \notin ParsedKeys(F)
    BY <2>1, <2>2, NoNewCalls
  <2>4. Key(r) \in OfferedKeys(F)
    BY <2>1 DEF OfferedKeys, OfType, LeftOf
  <2>5. r \in TextResponses(F)
    BY <2>2 DEF TextResponses, OfType, LeftOf
  <2> QED BY <2>1, <2>3, <2>4, <2>5 DEF ModelDidNotCallTool
<1>3. ASSUME ToolCallParseFailure(E) PROVE ToolCallParseFailure(F)
  <2>1. PICK r \in OfType(E, "model_response_raw") : r.call /\ Key(r) \notin ParsedKeys(E)
    BY <1>3 DEF ToolCallParseFailure, CallKeys
  <2>2. Key(r) \notin ParsedKeys(F)
    BY <2>1, NoNewCalls
  <2>3. Key(r) \in CallKeys(F)
    BY <2>1 DEF CallKeys, OfType, LeftOf
  <2> QED BY <2>2, <2>3 DEF ToolCallParseFailure
<1> QED BY <1>1, <1>2, <1>3

\* The detectors that ask for events only.
LEMMA PresenceGrows ==
    ASSUME NEW E, NEW F, E \subseteq F, IsFiniteSet(F)
    PROVE  /\ PlanningEmptyResponse(E) => PlanningEmptyResponse(F)
           /\ LlmEmptyResponse(E) => LlmEmptyResponse(F)
           /\ ToolExecutionFailed(E) => ToolExecutionFailed(F)
           /\ ToolResultNotUsed(E) => ToolResultNotUsed(F)
           /\ StepEmptyResult(E) => StepEmptyResult(F)
           /\ CheckpointRestoreLoop(E) => CheckpointRestoreLoop(F)
           /\ SupervisorRetryLoop(E) => SupervisorRetryLoop(F)
<1>1. PlanningEmptyResponse(E) => PlanningEmptyResponse(F)
    BY OfTypeGrows DEF PlanningEmptyResponse
<1>2. LlmEmptyResponse(E) => LlmEmptyResponse(F)
    BY OfTypeGrows DEF LlmEmptyResponse, EmptyResponses
<1>3. ToolExecutionFailed(E) => ToolExecutionFailed(F)
    BY OfTypeGrows DEF ToolExecutionFailed
<1>4. ToolResultNotUsed(E) => ToolResultNotUsed(F)
    BY OfTypeGrows DEF ToolResultNotUsed, SuccessfulExecs
<1>5. StepEmptyResult(E) => StepEmptyResult(F)
    BY OfTypeGrows DEF StepEmptyResult, EmptySteps
<1>6. CheckpointRestoreLoop(E) => CheckpointRestoreLoop(F)
  <2>1. OfType(F, "checkpoint_restored") \subseteq F
    BY DEF OfType
  <2>2. IsFiniteSet(OfType(F, "checkpoint_restored"))
    BY <2>1, FS_Subset
  <2> QED BY <2>2, OfTypeGrows, CountGrows DEF CheckpointRestoreLoop
<1>7. SupervisorRetryLoop(E) => SupervisorRetryLoop(F)
  <2>1. Retries(F) \subseteq F /\ Retries(E) \subseteq Retries(F)
    BY DEF Retries, OfType
  <2>2. IsFiniteSet(Retries(F))
    BY <2>1, FS_Subset
  <2> QED BY <2>1, <2>2, CountGrows DEF SupervisorRetryLoop
<1> QED BY <1>1, <1>2, <1>3, <1>4, <1>5, <1>6, <1>7

\* Missing events raise no false alarm: what the analysis finds in the events
\* that were recorded, it would have found in all of them.  Three detectors also
\* ask for events that are absent, so this needs that the main agent's events
\* go missing a step, or a plan, at a time.
THEOREM MissedEventsRaiseNoAlarm ==
    ASSUME NEW E, NEW F, IsFiniteSet(F), LeftOf(E, F)
    PROVE  FindingsOfEvents(E) \subseteq FindingsOfEvents(F)
<1>1. E \subseteq F
    BY DEF LeftOf
<1> QED BY <1>1, AbsenceIsNoArtefact, PresenceGrows DEF FindingsOfEvents, Found

\* The one finding that missing events can bring about is that the finalizer
\* dropped results: it depends on no response having been empty.
THEOREM OnlyDroppedIsUncertain ==
    ASSUME NEW E, NEW F, NEW verdict, IsFiniteSet(F), LeftOf(E, F)
    PROVE  Findings(E, verdict) \ Findings(F, verdict) \subseteq {"FINALIZER_DROPPED_RESULTS"}
BY MissedEventsRaiseNoAlarm DEF Findings, Found

\* What the three findings about model calls are worth: there is none of them just
\* when no response was empty, and for each that holds a call, or whose request
\* offered tools, a call was parsed in the same iteration of the step: of any of
\* its attempts, not of this one (diagnostic_analyzer.py:433-512).
NoCallIds ==
    {"LLM_EMPTY_RESPONSE", "MODEL_DID_NOT_CALL_REQUIRED_TOOL", "TOOL_CALL_PARSE_FAILURE"}

THEOREM NoCallIsReported ==
    ASSUME NEW E, NEW verdict
    PROVE  Findings(E, verdict) \cap NoCallIds = {}
             <=> \A r \in OfType(E, "model_response_raw") :
                   /\ ~ r.empty
                   /\ r.call \/ Key(r) \in OfferedKeys(E) => Key(r) \in ParsedKeys(E)
<1>1. Findings(E, verdict) \cap NoCallIds = {}
        <=> ~ LlmEmptyResponse(E) /\ ~ ModelDidNotCallTool(E) /\ ~ ToolCallParseFailure(E)
    BY DEF Findings, FindingsOfEvents, Found, NoCallIds
<1>2. LlmEmptyResponse(E) <=> \E r \in OfType(E, "model_response_raw") : r.empty
    BY DEF LlmEmptyResponse, EmptyResponses
<1>3. ModelDidNotCallTool(E)
        <=> \E r \in OfType(E, "model_response_raw") :
              ~ r.empty /\ ~ r.call /\ Key(r) \in OfferedKeys(E) /\ Key(r) \notin ParsedKeys(E)
    BY DEF ModelDidNotCallTool, TextResponses
<1>4. ToolCallParseFailure(E)
        <=> \E r \in OfType(E, "model_response_raw") : r.call /\ Key(r) \notin ParsedKeys(E)
    BY DEF ToolCallParseFailure, CallKeys
<1> QED BY <1>1, <1>2, <1>3, <1>4

\* So a retry hides a model that no longer calls: once a call was parsed in an
\* iteration of a step, another attempt that only answers there leaves no trace in
\* the findings (execute_step counts iterations anew in each attempt,
\* main_agent.py:1627-1649; diagnostic_analyzer.py:451-490).
THEOREM RetryHidesNoCall ==
    ASSUME NEW E, NEW step, NEW iteration, NEW offered, NEW t1, NEW t2,
           <<step, iteration>> \in ParsedKeys(E)
    PROVE  FindingsOfEvents(E \cup {ModelRequest(t1, step, iteration, offered),
                                    ModelResponse(t2, step, iteration, "text")})
             = FindingsOfEvents(E)
<1> DEFINE request  == ModelRequest(t1, step, iteration, offered)
           response == ModelResponse(t2, step, iteration, "text")
           F        == E \cup {request, response}
<1>1. /\ request.type = "model_request" /\ Key(request) = <<step, iteration>>
      /\ response.type = "model_response_raw" /\ Key(response) = <<step, iteration>>
      /\ ~ response.empty /\ ~ response.call
    BY DEF ModelRequest, ModelResponse, Key
<1> HIDE DEF request, response
<1>2. \A type : type \notin {"model_request", "model_response_raw"}
                  => OfType(F, type) = OfType(E, type)
    BY <1>1 DEF OfType
<1>3. /\ OfType(F, "model_request") = OfType(E, "model_request") \cup {request}
      /\ OfType(F, "model_response_raw") = OfType(E, "model_response_raw") \cup {response}
    BY <1>1 DEF OfType
<1> HIDE DEF F
<1>4. ParsedKeys(F) = ParsedKeys(E)
    BY <1>2 DEF ParsedKeys
<1>5. LlmEmptyResponse(F) <=> LlmEmptyResponse(E)
    BY <1>1, <1>3 DEF LlmEmptyResponse, EmptyResponses
<1>6. ModelDidNotCallTool(F) <=> ModelDidNotCallTool(E)
  <2>1. OfferedKeys(F) \subseteq OfferedKeys(E) \cup {<<step, iteration>>}
      BY <1>1, <1>3 DEF OfferedKeys
  <2>2. OfferedKeys(E) \subseteq OfferedKeys(F)
      BY <1>3 DEF OfferedKeys
  <2>3. OfferedKeys(F) \ ParsedKeys(F) = OfferedKeys(E) \ ParsedKeys(E)
      BY <1>4, <2>1, <2>2
  <2>4. TextResponses(F) = TextResponses(E) \cup {response}
      BY <1>1, <1>3 DEF TextResponses
  <2> QED BY <1>1, <2>3, <2>4 DEF ModelDidNotCallTool
<1>7. ToolCallParseFailure(F) <=> ToolCallParseFailure(E)
  <2>1. CallKeys(F) = CallKeys(E)
      BY <1>1, <1>3 DEF CallKeys
  <2> QED BY <1>4, <2>1 DEF ToolCallParseFailure
<1>8. /\ PlanningEmptyResponse(F) <=> PlanningEmptyResponse(E)
      /\ NoStepsGenerated(F) <=> NoStepsGenerated(E)
      /\ ToolExecutionFailed(F) <=> ToolExecutionFailed(E)
      /\ ToolResultNotUsed(F) <=> ToolResultNotUsed(E)
      /\ StepEmptyResult(F) <=> StepEmptyResult(E)
      /\ CheckpointRestoreLoop(F) <=> CheckpointRestoreLoop(E)
      /\ SupervisorRetryLoop(F) <=> SupervisorRetryLoop(E)
    BY <1>2 DEF PlanningEmptyResponse, NoStepsGenerated, ToolExecutionFailed,
                ToolResultNotUsed, SuccessfulExecs, StepEmptyResult, EmptySteps,
                CheckpointRestoreLoop, SupervisorRetryLoop, Retries
<1>9. FindingsOfEvents(F) = FindingsOfEvents(E)
    BY <1>5, <1>6, <1>7, <1>8 DEF FindingsOfEvents, Found
<1> QED BY <1>9 DEF F, request, response

\* Not every finding is a failure: a step that calls a tool, gets its output and
\* answers is reported as one whose model did not call a required tool, as the
\* tools are still offered along with the output (diagnostic_analyzer.py:451-490,
\* main_agent.py:1641).
THEOREM SuccessIsReported ==
    ASSUME NEW E, NEW verdict, NEW step, NEW first, NEW last, NEW tool,
           NEW offered, tool \in offered,
           NEW t1, NEW t2, NEW t3, NEW t4, NEW t5, NEW t6,
           {ModelRequest(t1, step, first, offered), ModelResponse(t2, step, first, "call"),
            ToolCallParsed(t3, step, first, tool), ToolExecuted(t4, step, tool, TRUE),
            ModelRequest(t5, step, last, offered), ModelResponse(t6, step, last, "text")}
             \subseteq E,
           <<step, last>> \notin ParsedKeys(E)
    PROVE  "MODEL_DID_NOT_CALL_REQUIRED_TOOL" \in Findings(E, verdict)
<1> DEFINE request  == ModelRequest(t5, step, last, offered)
           response == ModelResponse(t6, step, last, "text")
<1>1. request \in OfType(E, "model_request") /\ request.tools /\ Key(request) = <<step, last>>
    BY DEF ModelRequest, OfType, Key
<1>2. <<step, last>> \in OfferedKeys(E)
    BY <1>1 DEF OfferedKeys
<1>3. response \in TextResponses(E) /\ ~response.call /\ Key(response) = <<step, last>>
    BY DEF ModelResponse, TextResponses, OfType, Key
<1>4. ModelDidNotCallTool(E)
    BY <1>2, <1>3 DEF ModelDidNotCallTool
<1> QED BY <1>4 DEF Findings, FindingsOfEvents, Found

-----------------------------------------------------------------------------
(* Plans, for any task and any answer of the model *)

LEMMA CutSteps ==
    ASSUME NEW S, NEW steps \in Seq(S), steps # << >>
    PROVE  /\ Cut(steps) \in Seq(S)
           /\ Len(Cut(steps)) \in 1..MaxPlan
           /\ \A i \in 1..Len(Cut(steps)) : Cut(steps)[i] = steps[i] /\ i \in 1..Len(steps)
<1> DEFINE l == Len(steps)
           n == IF l > MaxPlan THEN MaxPlan ELSE l
<1>1. l \in Nat \ {0}
    BY EmptySeq
<1> HIDE DEF l
<1>2. n \in 1..MaxPlan /\ n <= l
    BY <1>1 DEF MaxPlan
<1>3. Cut(steps) = SubSeq(steps, 1, n)
    BY DEF Cut, l
<1> HIDE DEF n
<1>4. \A i \in 1..n : steps[i] \in S /\ i \in 1..Len(steps)
    BY <1>1, <1>2 DEF l
<1> QED BY <1>2, <1>3, <1>4, SubSeqProperties DEF MaxPlan

LEMMA StepsInReply ==
    ASSUME NEW reply \in Answers
    PROVE  StepsIn(reply) \in Seq(STRING) /\ StepsIn(reply) # << >>
<1>1. /\ reply.listed \in Seq(STRING) /\ reply.numbered \in Seq(STRING)
      /\ reply.headed \in Seq(STRING) /\ reply.text \in STRING
    BY DEF Answers
<1>2. <<reply.text>> \in Seq(STRING) /\ <<reply.text>> # << >>
    BY <1>1
<1> QED BY <1>1, <1>2 DEF StepsIn

\* A task always has a plan, of ten steps at most, whatever the model answers or
\* whether it answers at all (main_agent.py:788, 804-826, 1484).
THEOREM PlanIsShort ==
    ASSUME NEW task, NEW answer \in Answers \cup {Failure}
    PROVE  Len(PlanTask(task, answer)) \in 1..MaxPlan
<1>1. CASE FastPath(task)
    BY <1>1 DEF PlanTask, MaxPlan
<1>2. CASE ~FastPath(task) /\ answer = Failure
    BY <1>2 DEF PlanTask, MaxPlan, Failure
<1>3. CASE ~FastPath(task) /\ answer \in Answers
  <2>1. ~answer.raised
      BY <1>3 DEF Answers
  <2>2. Len(ParsePlan(answer)) \in 1..MaxPlan
      BY <1>3, StepsInReply, CutSteps DEF ParsePlan
  <2> QED BY <1>3, <2>1, <2>2 DEF PlanTask
<1> QED BY <1>1, <1>2, <1>3

\* A blank step comes only from a reply in which neither a JSON list nor a
\* numbered line was found: it is a bare bullet, or the reply itself is blank.
THEOREM BlankStepsComeUnnumbered ==
    ASSUME NEW task, ~FastPath(task), NEW reply \in Answers,
           NEW i \in 1..Len(PlanTask(task, reply)), PlanTask(task, reply)[i] = Blank
    PROVE  /\ reply.listed = << >> /\ reply.numbered = << >>
           /\ \/ reply.headed # << >> /\ reply.headed[i] = Blank
              \/ reply.headed = << >> /\ reply.text = Blank
<1>1. PlanTask(task, reply) = Cut(StepsIn(reply))
    BY DEF PlanTask, ParsePlan, Answers
<1>2. StepsIn(reply)[i] = Blank /\ i \in 1..Len(StepsIn(reply))
    BY <1>1, StepsInReply, CutSteps
<1>3. /\ reply.listed \in Seq(STRING \ {Blank}) /\ reply.numbered \in Seq(STRING \ {Blank})
      /\ reply.headed \in Seq(STRING) /\ reply.text \in STRING
    BY DEF Answers
<1>4. reply.listed = << >>
    BY <1>2, <1>3 DEF StepsIn
<1>5. reply.numbered = << >>
    BY <1>2, <1>3, <1>4 DEF StepsIn
<1>6. CASE reply.headed # << >>
    BY <1>2, <1>4, <1>5, <1>6 DEF StepsIn
<1>7. CASE reply.headed = << >>
    BY <1>2, <1>4, <1>5, <1>7 DEF StepsIn
<1> QED BY <1>4, <1>5, <1>6, <1>7

LEMMA EventTypes ==
    ASSUME NEW at, NEW n, NEW text
    PROVE  /\ PlanParsed(at, n).type = "plan_parsed"
           /\ n > 0 => PlanParsed(at, n).steps
           /\ PlanningResponse(at, text).type = "planning_response"
           /\ text # "empty" => ~PlanningResponse(at, text).empty
<1>1. /\ PlanParsed(at, n).type = "plan_parsed"
      /\ PlanningResponse(at, text).type = "planning_response"
    BY DEF PlanParsed, PlanningResponse
<1>2. PlanParsed(at, n).steps <=> n > 0
    BY DEF PlanParsed
<1>3. PlanningResponse(at, text).empty <=> text = "empty"
    BY DEF PlanningResponse
<1> QED BY <1>1, <1>2, <1>3

LEMMA FoundIn ==
    ASSUME NEW E
    PROVE  /\ PlanningEmptyResponse(E) => "PLANNING_EMPTY_RESPONSE" \in FindingsOfEvents(E)
           /\ NoStepsGenerated(E) => "NO_STEPS_GENERATED" \in FindingsOfEvents(E)
BY DEF FindingsOfEvents, Found

\* When the call for a plan raises, the run is reported as one whose model gave an
\* empty plan and no steps, although it goes on with the task as its only step:
\* the events of a failure are those of an empty answer (main_agent.py:1478-1484,
\* diagnostic_analyzer.py:401-431).
THEOREM FailureLooksEmpty ==
    ASSUME NEW task, ~FastPath(task), NEW later, OfType(later, "plan_parsed") = {}
    PROVE  LET E == PlanEvents(task, Failure) \cup later IN
             /\ PlanTask(task, Failure) = <<task.text>>
             /\ {"PLANNING_EMPTY_RESPONSE", "NO_STEPS_GENERATED"} \subseteq FindingsOfEvents(E)
<1> DEFINE e == PlanningResponse(1, "empty")
           E == PlanEvents(task, Failure) \cup later
<1>1. PlanEvents(task, Failure) = {e} /\ PlanTask(task, Failure) = <<task.text>>
    BY DEF PlanEvents, PlanTask, Failure
<1>2. e.type = "planning_response" /\ e.empty
    BY DEF PlanningResponse
<1>3. e \in OfType(E, "planning_response") /\ OfType(E, "plan_parsed") = {}
    BY <1>1, <1>2 DEF OfType
<1> HIDE DEF e, E
<1>4. PlanningEmptyResponse(E) /\ NoStepsGenerated(E)
    BY <1>2, <1>3 DEF PlanningEmptyResponse, NoStepsGenerated
<1> QED BY <1>1, <1>4, FoundIn DEF E

\* A plan the model did answer is reported for nothing of the kind, unless the
\* answer was blank, and a task with a fixed plan never is.
THEOREM AnswerIsNotAccused ==
    ASSUME NEW task, NEW answer \in Answers, FastPath(task) \/ answer.text # Blank
    PROVE  LET E == PlanEvents(task, answer) IN
             ~PlanningEmptyResponse(E) /\ ~NoStepsGenerated(E)
<1> DEFINE n == Len(PlanTask(task, answer))
           E == PlanEvents(task, answer)
<1>1. n \in 1..MaxPlan
    BY PlanIsShort
<1>2. CASE FastPath(task)
  <2>1. E = {PlanParsed(1, 1)}
      BY <1>2 DEF PlanEvents
  <2>2. OfType(E, "planning_response") = {} /\ OfType(E, "plan_parsed") = {PlanParsed(1, 1)}
      BY <2>1, EventTypes DEF OfType
  <2>3. PlanParsed(1, 1).steps
      BY EventTypes
  <2> QED BY <2>2, <2>3 DEF PlanningEmptyResponse, NoStepsGenerated
<1>3. CASE ~FastPath(task)
  <2>1. E = {PlanningResponse(1, "text"), PlanParsed(2, n)}
      BY <1>3 DEF PlanEvents, Answers
  <2>2. PlanParsed(2, n).steps /\ ~PlanningResponse(1, "text").empty
      BY <1>1, EventTypes
  <2>3. /\ OfType(E, "planning_response") = {PlanningResponse(1, "text")}
        /\ OfType(E, "plan_parsed") = {PlanParsed(2, n)}
      BY <2>1, EventTypes DEF OfType
  <2> QED BY <2>2, <2>3 DEF PlanningEmptyResponse, NoStepsGenerated
<1> QED BY <1>2, <1>3

-----------------------------------------------------------------------------
(* The index of the workspace *)

LEMMA InitTypes == Init => TypeOK
<1> SUFFICES ASSUME Init PROVE TypeOK
    OBVIOUS
<1>1. pc \in [Indexers -> {"idle", "reading", "read", "next", "chunked", "adding", "detached"}]
    BY DEF Init
<1>2. /\ force \in [Indexers -> BOOLEAN]
      /\ known \in [Indexers -> SUBSET Files]
      /\ todo \in [Indexers -> SUBSET Files]
      /\ file \in [Indexers -> Files \cup {NoFile}]
    BY DEF Init
<1>3. \A i \in Indexers : pc[i] \in {"chunked", "adding", "detached"} => file[i] \in Files
    BY DEF Init
<1>4. copies \in [Files -> Nat]
    BY DEF Init
<1>5. progress \in BOOLEAN /\ excused \in BOOLEAN
    BY DEF Init
<1> QED BY <1>1, <1>2, <1>3, <1>4, <1>5 DEF TypeOK

LEMMA NextTypes ==
    ASSUME TypeOK, [Next]_vars
    PROVE  TypeOK'
<1> USE DEF TypeOK, Indexers
<1>1. ASSUME NEW c \in Callers, Index(c) PROVE TypeOK'
    BY <1>1 DEF Index, Begin
<1>2. CASE AutoIndex
    BY <1>2 DEF AutoIndex, Begin
<1>3. ASSUME NEW i \in Indexers, ReadIndexed(i) PROVE TypeOK'
  <2>1. known' \in [Indexers -> SUBSET Files]
    BY <1>3 DEF ReadIndexed
  <2>2. excused' \in BOOLEAN
    BY <1>3, Zenon DEF ReadIndexed
  <2>3. pc' = [pc EXCEPT ![i] = "read"] /\ UNCHANGED <<force, todo, file, progress, copies>>
    BY <1>3 DEF ReadIndexed
  <2> QED BY <2>1, <2>2, <2>3
<1>4. ASSUME NEW i \in Indexers, Scan(i) PROVE TypeOK'
    BY <1>4 DEF Scan
<1>5. ASSUME NEW i \in Indexers, Chunk(i) PROVE TypeOK'
    BY <1>5 DEF Chunk
<1>6. ASSUME NEW i \in Indexers, Skip(i) PROVE TypeOK'
    BY <1>6 DEF Skip
<1>7. ASSUME NEW i \in Indexers, Delete(i) PROVE TypeOK'
    BY <1>7 DEF Delete
<1>8. ASSUME NEW i \in Indexers, Embed(i) PROVE TypeOK'
    BY <1>8 DEF Embed
<1>9. ASSUME NEW i \in Indexers, Add(i) PROVE TypeOK'
    BY <1>9 DEF Add
<1>10. ASSUME NEW i \in Indexers, Done(i) \/ Fails(i) PROVE TypeOK'
    BY <1>10 DEF Done, Fails, End
<1>11. ASSUME NEW c \in Callers, Cancel(c) PROVE TypeOK'
    BY <1>11 DEF Cancel
<1>12. ASSUME NEW c \in Callers, Land(c) PROVE TypeOK'
    BY <1>12 DEF Land
<1>13. CASE UNCHANGED vars
    BY <1>13 DEF vars, runs
<1> QED BY <1>1, <1>2, <1>3, <1>4, <1>5, <1>6, <1>7, <1>8, <1>9, <1>10, <1>11, <1>12, <1>13
        DEF Next, Work

\* TYPE INVARIANT of the index.
THEOREM TypeCorrect == Spec => []TypeOK
BY InitTypes, NextTypes, PTL DEF Spec

-----------------------------------------------------------------------------
(* Old chunks are never removed *)

\* No file a run has still to index is known to it.
UnknownAhead ==
    \A i \in Indexers :
      /\ pc[i] = "read" /\ force[i] => known[i] = {}
      /\ pc[i] \in {"next", "chunked", "adding"} => todo[i] \cap known[i] = {}
      /\ pc[i] = "chunked" => file[i] \notin known[i]

LEMMA UnknownAheadStep ==
    ASSUME TypeOK, UnknownAhead, [Next]_vars
    PROVE  UnknownAhead'
<1> USE DEF UnknownAhead, TypeOK, Indexers
<1>1. ASSUME NEW c \in Callers, Index(c) PROVE UnknownAhead'
    BY <1>1 DEF Index, Begin
<1>2. CASE AutoIndex
    BY <1>2 DEF AutoIndex, Begin
<1>3. ASSUME NEW i \in Indexers, ReadIndexed(i) PROVE UnknownAhead'
    BY <1>3 DEF ReadIndexed
<1>4. ASSUME NEW i \in Indexers, Scan(i) PROVE UnknownAhead'
  <2>1. PICK there \in SUBSET Files :
          todo' = [todo EXCEPT ![i] = {f \in there : force[i] \/ f \notin known[i]}]
    BY <1>4 DEF Scan
  <2>2. todo'[i] \cap known[i] = {}
    BY <1>4, <2>1 DEF Scan
  <2> QED BY <1>4, <2>1, <2>2 DEF Scan
<1>5. ASSUME NEW i \in Indexers, Chunk(i) PROVE UnknownAhead'
    BY <1>5 DEF Chunk
<1>6. ASSUME NEW i \in Indexers, Skip(i) PROVE UnknownAhead'
    BY <1>6 DEF Skip
<1>7. ASSUME NEW i \in Indexers, Delete(i) PROVE UnknownAhead'
    BY <1>7 DEF Delete
<1>8. ASSUME NEW i \in Indexers, Embed(i) \/ Add(i) PROVE UnknownAhead'
  <2>1. CASE Embed(i)
    BY <2>1 DEF Embed
  <2>2. CASE Add(i)
    BY <2>2 DEF Add
  <2> QED BY <1>8, <2>1, <2>2
<1>9. ASSUME NEW i \in Indexers, Done(i) \/ Fails(i) PROVE UnknownAhead'
    BY <1>9 DEF Done, Fails, End
<1>10. ASSUME NEW c \in Callers, Cancel(c) \/ Land(c) PROVE UnknownAhead'
    BY <1>10 DEF Cancel, Land
<1>11. CASE UNCHANGED vars
    BY <1>11 DEF vars, runs
<1> QED BY <1>1, <1>2, <1>3, <1>4, <1>5, <1>6, <1>7, <1>8, <1>9, <1>10, <1>11 DEF Next, Work

LEMMA InitUnknownAhead == Init => UnknownAhead
BY DEF Init, UnknownAhead

\* The branch that removes a file's old chunks is never taken: a file that is
\* indexed again gets its new chunks beside the old ones.
THEOREM NothingRemoved == Spec => []NothingIsRemoved
<1>1. UnknownAhead => NothingIsRemoved
    BY DEF UnknownAhead, NothingIsRemoved
<1> QED BY <1>1, TypeCorrect, InitUnknownAhead, UnknownAheadStep, PTL DEF Spec

-----------------------------------------------------------------------------
(* No file is indexed twice *)

\* As long as no run was forced, overlapped another or failed to read the table:
\* one run at a time, and what it is going to add is not there.
OneRun == \A i, j \in Indexers : i # j => pc[i] = "idle" \/ pc[j] = "idle"

Once == \A f \in Files : copies[f] <= 1

Unforced == \A i \in Indexers : pc[i] # "idle" => ~force[i]

KnownIsThere ==
    \A i \in Indexers : pc[i] = "read" => \A f \in Files : copies[f] > 0 => f \in known[i]

NewAhead ==
    \A i \in Indexers : pc[i] \in {"next", "chunked", "adding", "detached"}
                          => \A f \in todo[i] : copies[f] = 0

NewAtHand ==
    \A i \in Indexers : pc[i] \in {"chunked", "adding", "detached"}
                          => copies[file[i]] = 0 /\ file[i] \notin todo[i]

Orderly == ~excused => OneRun /\ Once /\ Unforced /\ KnownIsThere /\ NewAhead /\ NewAtHand

LEMMA InitOrderly == Init => Orderly
BY DEF Init, Orderly, OneRun, Once, Unforced, KnownIsThere, NewAhead, NewAtHand

LEMMA OrderlyStep ==
    ASSUME TypeOK, Orderly, [Next]_vars
    PROVE  Orderly'
<1> USE DEF TypeOK, Orderly, OneRun, Once, Unforced, KnownIsThere, NewAhead, NewAtHand
<1>1. ASSUME NEW i \in Indexers, NEW forced \in BOOLEAN, Begin(i, forced),
             UNCHANGED <<known, todo, file, copies>>
      PROVE  Orderly'
  <2> SUFFICES ASSUME ~excused' PROVE Orderly'
      OBVIOUS
  <2>1. ~excused /\ ~forced /\ \A j \in Indexers : pc[j] = "idle"
      BY <1>1 DEF Begin, Busy
  <2>2. \A j \in Indexers : pc'[j] = IF j = i THEN "reading" ELSE "idle"
      BY <1>1, <2>1 DEF Begin
  <2>3. ~force'[i]
      BY <1>1, <2>1 DEF Begin
  <2> QED BY <1>1, <2>1, <2>2, <2>3
<1>2. ASSUME NEW i \in Indexers, ReadIndexed(i) PROVE Orderly'
  <2> SUFFICES ASSUME ~excused' PROVE Orderly'
      OBVIOUS
  <2>1. /\ ~excused /\ pc[i] = "reading" /\ ~force[i]
        /\ known' = [known EXCEPT ![i] = {f \in Files : copies[f] > 0}]
      BY <1>2 DEF ReadIndexed
  <2> QED BY <1>2, <2>1 DEF ReadIndexed
<1>3. ASSUME NEW i \in Indexers, Scan(i) PROVE Orderly'
  <2> SUFFICES ASSUME ~excused' PROVE Orderly'
      OBVIOUS
  <2>1. PICK there \in SUBSET Files :
          todo' = [todo EXCEPT ![i] = {f \in there : force[i] \/ f \notin known[i]}]
      BY <1>3 DEF Scan
  <2>2. ~excused /\ ~force[i] /\ \A f \in Files : copies[f] > 0 => f \in known[i]
      BY <1>3 DEF Scan
  <2>3. \A f \in todo'[i] : copies[f] = 0
      BY <2>1, <2>2
  <2> QED BY <1>3, <2>1, <2>2, <2>3 DEF Scan
<1>4. ASSUME NEW i \in Indexers, Chunk(i) PROVE Orderly'
    BY <1>4 DEF Chunk
<1>5. ASSUME NEW i \in Indexers, Skip(i) PROVE Orderly'
    BY <1>5 DEF Skip
<1>6. ASSUME NEW i \in Indexers, Delete(i) PROVE Orderly'
    BY <1>6 DEF Delete
<1>7. ASSUME NEW i \in Indexers, Embed(i) PROVE Orderly'
    BY <1>7 DEF Embed
<1>8. ASSUME NEW i \in Indexers, Add(i) PROVE Orderly'
    BY <1>8 DEF Add
<1>9. ASSUME NEW i \in Indexers, Done(i) \/ Fails(i) PROVE Orderly'
    BY <1>9 DEF Done, Fails, End
<1>10. ASSUME NEW c \in Callers, Cancel(c) PROVE Orderly'
    BY <1>10 DEF Cancel, Indexers
<1>11. ASSUME NEW c \in Callers, Land(c) PROVE Orderly'
    BY <1>11 DEF Land, Indexers
<1>12. CASE UNCHANGED vars
    BY <1>12 DEF vars, runs
<1>13. ASSUME NEW c \in Callers, Index(c) PROVE Orderly'
    BY <1>1, <1>13 DEF Index, Indexers
<1>14. CASE AutoIndex
    BY <1>1, <1>14 DEF AutoIndex, Indexers
<1> QED BY <1>2, <1>3, <1>4, <1>5, <1>6, <1>7, <1>8, <1>9, <1>10, <1>11, <1>12, <1>13, <1>14
        DEF Next, Work

\* Unless a run is forced, runs into another or cannot read the table, no file's
\* chunks are added twice, whatever fails or is cancelled in between.
THEOREM NoDuplicates == Spec => []TwiceOnlyExcused
<1>1. Orderly => TwiceOnlyExcused
    BY DEF Orderly, Once, TwiceOnlyExcused
<1> QED BY <1>1, TypeCorrect, InitOrderly, OrderlyStep, PTL DEF Spec

-----------------------------------------------------------------------------
(* The mark of the directory *)

LEMMA MarkStep ==
    ASSUME Background \notin Callers, TypeOK, MarkedWhileAuto, [Next]_vars
    PROVE  MarkedWhileAuto'
<1> USE DEF TypeOK, MarkedWhileAuto, Indexers
<1>1. ASSUME NEW c \in Callers, Index(c) PROVE MarkedWhileAuto'
    BY <1>1 DEF Index, Begin
<1>2. CASE AutoIndex
    BY <1>2 DEF AutoIndex, Begin
<1>3. ASSUME NEW i \in Indexers, Done(i) \/ Fails(i) PROVE MarkedWhileAuto'
  <2>1. CASE i = Background
    BY <1>3, <2>1 DEF Done, Fails, End
  <2>2. CASE i # Background
    BY <1>3, <2>2 DEF Done, Fails, End
  <2> QED BY <2>1, <2>2
<1>4. ASSUME NEW i \in Indexers,
             ReadIndexed(i) \/ Scan(i) \/ Chunk(i) \/ Skip(i) \/ Delete(i) \/ Embed(i) \/ Add(i)
      PROVE  MarkedWhileAuto'
    BY <1>4 DEF ReadIndexed, Scan, Chunk, Skip, Delete, Embed, Add
<1>5. ASSUME NEW c \in Callers, Cancel(c) \/ Land(c) PROVE MarkedWhileAuto'
    BY <1>5 DEF Cancel, Land
<1>6. CASE UNCHANGED vars
    BY <1>6 DEF vars, runs
<1> QED BY <1>1, <1>2, <1>3, <1>4, <1>5, <1>6 DEF Next, Work

\* The directory is marked just while its automatic run is under way, so that no
\* second one is begun, and a run that fails does not block the next one.
THEOREM OneAutomaticRun ==
    ASSUME Background \notin Callers
    PROVE  Spec => []MarkedWhileAuto
<1>1. Init => MarkedWhileAuto
    BY DEF Init, MarkedWhileAuto, Indexers
<1>2. TypeOK /\ MarkedWhileAuto /\ [Next]_vars => MarkedWhileAuto'
    BY MarkStep
<1> QED BY <1>1, <1>2, TypeCorrect, PTL DEF Spec
=============================================================================
