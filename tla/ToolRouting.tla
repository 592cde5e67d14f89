------------------------------ MODULE ToolRouting ------------------------------
(***************************************************************************)
(* Which tools there are, which of them the model is offered, and which    *)
(* one a call of the model runs: ToolRegistry (backend/tools/registry.py), *)
(* SemanticRouter (backend/core/semantic_router.py), the plug-in loader    *)
(* (backend/tools/plugin_loader.py), _register_tools (backend/main.py) and *)
(* the choice of tools in MainAgent (backend/agents/main_agent.py).        *)
(*                                                                         *)
(* An embedding is the text it was made from (the implementation of the    *)
(* tool), a similarity a number the context gives each tool, and the       *)
(* regular expressions that read an intent out of a context are flags of   *)
(* the context.                                                            *)
(***************************************************************************)
EXTENDS Integers, FiniteSets

CONSTANTS
    Desktop, CodeExec,   \* desktop_tools_enabled, code_exec_enabled
    Indexing, Discord,   \* workspace_index_enabled; a webhook or a bot is set up
    Plugins,             \* the tool classes of plugins/, each a record with a name
    Attached,            \* a semantic router is attached and enabled
    TopK,                \* semantic_tool_routing_top_k
    MinSimilarity,       \* semantic_tool_routing_min_similarity
    Critical             \* semantic_tool_routing_critical_tools

VARIABLES
    tools,               \* ToolRegistry._tools, a set of tools
    vectors              \* SemanticRouter._tool_vectors: the tools embedded

RegistryVars == <<tools, vectors>>

NamesOf(set) == {t.name : t \in set}
Others(set, name) == {t \in set : t.name # name}

Registered == NamesOf(tools)
Embedded   == NamesOf(vectors)

-----------------------------------------------------------------------------
(* Registration *)

BuiltinNames ==
    {"image_analysis", "web_fetch", "web_search", "shell", "process", "file", "patch", "diff",
     "memory_search", "session_graph", "sub_agent", "agent_list", "session", "scheduler"}
    \cup (IF Desktop THEN {"ui", "screenshot"} ELSE {})
    \cup (IF CodeExec THEN {"code_exec"} ELSE {})
    \cup (IF Indexing THEN {"workspace_index"} ELSE {})
    \cup (IF Discord THEN {"discord"} ELSE {})

Builtins == {[name |-> n, class |-> "built in"] : n \in BuiltinNames}

RegistryInit == tools = {} /\ vectors = {}

\* A later tool of a name takes the place of an earlier one.  A router that is
\* off, or cannot embed the tool, keeps the vector it has of that name, if any.
Register(t) ==
    /\ tools' = Others(tools, t.name) \cup {t}
    /\ \/ Attached /\ vectors' = Others(vectors, t.name) \cup {t}
       \/ UNCHANGED vectors

\* _register_tools; the desktop tools may turn out to be unavailable.
RegisterBuiltin == \E t \in Builtins : Register(t)

\* load_plugins skips a file that cannot be loaded and a class that cannot be
\* instantiated.
LoadPlugin == \E t \in Plugins : Register(t)

Unregister(name) ==
    /\ tools' = Others(tools, name)
    /\ vectors' = Others(vectors, name)

RegistryNext == RegisterBuiltin \/ LoadPlugin \/ \E name \in Registered : Unregister(name)

RegistrySpec == RegistryInit /\ [][RegistryNext]_RegistryVars

-----------------------------------------------------------------------------
(* SemanticRouter.get_relevant_tools *)

\* A context is a record: whether it is blank, the score of each tool's name, and
\* what it seems to be about (desktop, web, fetch, local, schedule, delegate).

\* The candidates with a vector that reach the threshold.
Near(c, candidates) ==
    {n \in candidates \cap Embedded : c.score[n] >= MinSimilarity}

\* The first of them when they are ranked; which ones of equal rank is left open.
Best(c, near) ==
    {S \in SUBSET near :
       /\ \A n \in S, m \in near \ S : c.score[n] >= c.score[m]
       /\ Cardinality(S) = TopK \/ (S = near /\ Cardinality(near) < TopK)}

Fallback(c, candidates) ==
    \/ ~Attached
    \/ c.blank
    \/ Near(c, candidates) = {}

\* What the router may answer: all candidates in a fallback, which an error of
\* the embedding is as well, else the best and those that bypass the ranking.
Relevant(c, candidates, bypass) ==
    {candidates} \cup
      (IF Fallback(c, candidates)
       THEN {}
       ELSE {S \cup (bypass \cap candidates) : S \in Best(c, Near(c, candidates))})

\* ToolRegistry.get_tools, given the names its allow list leaves.
Bypass(c) == IF c.desktop /\ ~c.web THEN Critical ELSE {}

GetTools(c, semantic, allowed) ==
    IF semantic
    THEN Relevant(c, Registered \cap allowed, Bypass(c))
    ELSE {Registered \cap allowed}

-----------------------------------------------------------------------------
(* MainAgent *)

Handoff       == {"sub_agent", "agent_list", "session"}
DesktopVision == {"screenshot", "ui", "image_analysis"}
CoreFiles     == {"file", "shell", "patch", "diff", "process"}

\* _filter_agent_handoff_tools
WithoutHandoff(c, selected) == IF c.delegate THEN selected ELSE selected \ Handoff

\* execute_step: a request to fetch gets no desktop tools, one about local files
\* the tools for these and no other.
ForStep(c, selected) ==
    IF c.fetch THEN selected \ DesktopVision
    ELSE IF c.local THEN (selected \cap CoreFiles) \cup (CoreFiles \cap Registered)
    ELSE selected

\* The sets of tools a step may be offered.
Offered(c, semantic, allowed) ==
    {ForStep(c, WithoutHandoff(c, selected)) : selected \in GetTools(c, semantic, allowed)}

\* process does much the same for a message in direct mode, and adds what the
\* message is sure to need.
ForWeb(c, selected) ==
    IF c.fetch THEN (selected \ DesktopVision) \cup ({"web_fetch", "web_search"} \cap Registered)
    ELSE selected

ForLocal(c, selected) ==
    IF c.local THEN (selected \cap CoreFiles) \cup (CoreFiles \cap Registered)
    ELSE selected

ForSchedule(c, selected) ==
    IF c.schedule THEN selected \cup ({"scheduler"} \cap Registered) ELSE selected

OfferedDirectly(c) ==
    {ForSchedule(c, ForLocal(c, ForWeb(c, WithoutHandoff(c, selected)))) :
        selected \in GetTools(c, TRUE, Registered)}

\* _resolve_tool_name: the names a call may be taken for.  It bears the name of a
\* tool, such a name in another case, an alias of the tools for files and
\* commands, a placeholder such as "<name>", or some other name.
CallKinds == {"exact", "other case", "search alias", "file alias", "shell alias",
              "placeholder", "other"}

Resolve(call, active) ==
    CASE call.kind = "exact" -> {call.name}
      [] call.kind = "other case" -> {call.name} \cap active
      [] call.kind = "search alias" /\ "shell" \in active -> {"shell"}
      [] call.kind \in {"search alias", "file alias"} /\ "file" \in active -> {"file"}
      [] call.kind = "shell alias" -> {"shell"} \cap active
      [] call.kind = "placeholder" -> active
      [] OTHER -> {}

\* The tool a call may run is looked up among all that are registered; without
\* one the call fails as unknown.
Runs(call, active) == Resolve(call, active) \cap Registered

-----------------------------------------------------------------------------
(* Properties *)

\* TYPE INVARIANT.
RegistryTypeOK == tools \subseteq Builtins \cup Plugins /\ vectors \subseteq Builtins \cup Plugins

\* Whatever was registered over what, unregistered, or failed to be embedded: a
\* name stands for one tool and has at most one vector, and has none unless a
\* tool of that name is registered (registry.py:132-149).
OneToolPerName ==
    /\ \A t, u \in tools : t.name = u.name => t = u
    /\ \A t, u \in vectors : t.name = u.name => t = u
    /\ Embedded \subseteq Registered
=============================================================================
