------------------------------ MODULE ToolState ------------------------------
(***************************************************************************)
(* Which tools a run may use (src/internal/agent/runtime.go, tool_search.go, *)
(* skills_runtime.go): every execution of a run builds a runtime whose       *)
(* catalog depends on the run's kind and on the MCP servers that answer, and *)
(* resolves in it what is enabled, pinned and revealed from the defaults,    *)
(* the state stored with the run's trace, the request's selection and the    *)
(* mode.  A tool is offered to the model when it is enabled and either       *)
(* pinned or revealed; the others wait to be found with search_tools.  A     *)
(* child run starts from the state its parent had when it spawned it.        *)
(***************************************************************************)
EXTENDS Integers, FiniteSets

CONSTANTS
    Internal,       \* the built-in tools; among them
    SearchTool,     \*   search_tools,
    SpawnTool,      \*   spawn_agent,
    SkillTool,      \*   skill,
    OutputTools,    \*   view_tool_output and grep_tool_output,
    PlanTools,      \*   what planning needs, and
    Restricted,     \*   those a child run never has
    McpTools,       \* the tools of an MCP server
    CommandTools,   \* the commands of the one skill
    AutorevealTools,  \* the tools the skill reveals
    DefaultEnabled, DefaultPinned,
    Selections,     \* what the requests ask for
    NoSet,          \* stands for the set a selection or a trace does not have
    MaxExecutions   \* bound: executions of the two runs

RootRun == "root"
ChildRun == "child"
AgentRunIds == {RootRun, ChildRun}
AllTools == Internal \cup McpTools \cup CommandTools

ASSUME ToolStateAssumption ==
    /\ SearchTool \in Internal /\ SpawnTool \in Restricted /\ SkillTool \in Internal
    /\ PlanTools \cup Restricted \cup OutputTools \subseteq Internal
    /\ SearchTool \notin Restricted
    /\ AutorevealTools \subseteq AllTools
    /\ DefaultEnabled \cup DefaultPinned \subseteq AllTools
    /\ NoSet \notin SUBSET AllTools
    /\ MaxExecutions \in Nat
    /\ \A sel \in Selections :
          /\ {sel.enabled, sel.pinned} \subseteq (SUBSET AllTools) \cup {NoSet}
          /\ {sel.enable, sel.disable, sel.pin, sel.unpin} \subseteq SUBSET AllTools

VARIABLES
    runtime,     \* [AgentRunIds -> the agentRuntime of the execution in progress]
    saved,       \* [AgentRunIds -> Metadata.Tools of the stored trace]
    savedSkill,  \* [AgentRunIds -> Metadata.Skills names the skill]
    planning,    \* [AgentRunIds -> the session's mode is plan]
    spawned,     \* the parent's tool state and the selection the child was given
    executions   \* [AgentRunIds -> Nat]: counted

toolVars == <<runtime, saved, savedSkill, planning, spawned, executions>>

ToolSets == [enabled : SUBSET AllTools, pinned : SUBSET AllTools,
             revealed : SUBSET AllTools]
Unset == [enabled |-> NoSet, pinned |-> NoSet, revealed |-> NoSet]
NoSelection == [enabled |-> NoSet, pinned |-> NoSet, enable |-> {}, disable |-> {},
                pin |-> {}, unpin |-> {}]
Idle == [on |-> FALSE, catalog |-> {}, skill |-> FALSE,
         enabled |-> {}, pinned |-> {}, revealed |-> {}]

ToolStateInit ==
    /\ runtime = [r \in AgentRunIds |-> Idle]
    /\ saved = [r \in AgentRunIds |-> Unset]
    /\ savedSkill = [r \in AgentRunIds |-> FALSE]
    /\ planning = [r \in AgentRunIds |-> FALSE]
    /\ spawned = [parent |-> Unset, selection |-> NoSelection]
    /\ executions = [r \in AgentRunIds |-> 0]

----------------------------------------------------------------------------
\* The catalog: a server that does not answer is a warning, a child run loses
\* the restricted tools.
Catalog(r, serverUp) ==
    (Internal \cup CommandTools \cup (IF serverUp THEN McpTools ELSE {}))
        \ (IF r = ChildRun THEN Restricted ELSE {})

\* The last set that is not nil: of the selection, of the trace, the default.
Latest(asked, kept, default) ==
    IF asked # NoSet THEN asked ELSE IF kept # NoSet THEN kept ELSE default

\* What is enabled before search_tools is considered.
EnabledIn(catalog, kept, sel, plan) ==
    ((((Latest(sel.enabled, kept.enabled, DefaultEnabled) \cup sel.enable) \ sel.disable)
        \cup (IF plan THEN PlanTools ELSE {})) \cap catalog)

PinnedIn(catalog, kept, sel, plan) ==
    (((Latest(sel.pinned, kept.pinned, DefaultPinned) \cup sel.pin) \ sel.unpin)
        \cup (IF plan THEN PlanTools ELSE {})) \cap EnabledIn(catalog, kept, sel, plan)

RevealedIn(catalog, kept, sel, plan) ==
    (Latest(NoSet, kept.revealed, {}) \cap EnabledIn(catalog, kept, sel, plan))
        \ PinnedIn(catalog, kept, sel, plan)

\* Mutant: search_tools is pinned but not enabled.
ResolvePinnedOnly(catalog, kept, sel, plan) ==
    LET on == EnabledIn(catalog, kept, sel, plan)
        pins == PinnedIn(catalog, kept, sel, plan)
        shown == RevealedIn(catalog, kept, sel, plan)
        search == IF on \subseteq pins \cup shown \cup {SearchTool} THEN {}
                  ELSE {SearchTool} \cap catalog
    IN  [enabled |-> on, pinned |-> (pins \cup search) \cap on, revealed |-> shown]

\* resolveToolState
ResolveToolState(catalog, kept, sel, plan) ==
    LET on == EnabledIn(catalog, kept, sel, plan)
        pins == PinnedIn(catalog, kept, sel, plan)
        shown == RevealedIn(catalog, kept, sel, plan)
        search == IF on \subseteq pins \cup shown \cup {SearchTool} THEN {}
                  ELSE {SearchTool} \cap catalog
    IN  [enabled |-> on \cup search, pinned |-> pins \cup search, revealed |-> shown]

Visible(state) == state.enabled \cap (state.pinned \cup state.revealed)

\* revealTools: enabled, not pinned and in the catalog.
Revealed(state, ids) ==
    [state EXCEPT !.revealed = @ \cup ((ids \cap state.enabled \cap state.catalog)
                                           \ state.pinned)]

ToolsOf(state) ==
    [enabled |-> state.enabled, pinned |-> state.pinned, revealed |-> state.revealed]

----------------------------------------------------------------------------
\* Mutant: the metadata is overwritten and the stored tool state with it.
KeptNothing(r) == Unset

\* run.go: the tool state is saved across the overwrite of the metadata.
Kept(r) == saved[r]

\* run: the runtime is built and the trace written before the first step.  The
\* stored skills are gone by then.  applyActiveSkillAutoreveals asks for the
\* skill's commands only if the skill has no tools of its own to reveal.
BeginExecution(r, sel, plan, serverUp, requested) ==
    LET catalog == Catalog(r, serverUp)
        tools == ResolveToolState(catalog, Kept(r), sel, plan)
        built == [on |-> TRUE, catalog |-> catalog, skill |-> requested,
                  enabled |-> tools.enabled, pinned |-> tools.pinned,
                  revealed |-> tools.revealed]
        wanted == IF AutorevealTools = {} THEN CommandTools ELSE AutorevealTools
        begun == IF requested THEN Revealed(built, wanted) ELSE built
    IN  /\ ~ runtime[r].on /\ executions[RootRun] + executions[ChildRun] < MaxExecutions
        /\ executions' = [executions EXCEPT ![r] = @ + 1]
        /\ planning' = [planning EXCEPT ![r] = plan]
        /\ runtime' = [runtime EXCEPT ![r] = begun]
        /\ saved' = [saved EXCEPT ![r] = ToolsOf(begun)]
        /\ savedSkill' = [savedSkill EXCEPT ![r] = requested]
        /\ UNCHANGED spawned

\* A request may change the root run's mode; the child keeps its parent's, and
\* its handle passes the same selection with every message.
BeginRoot(sel, plan, serverUp, requested) ==
    BeginExecution(RootRun, sel, plan, serverUp, requested)

BeginChild(serverUp) ==
    /\ saved[ChildRun] # Unset
    /\ BeginExecution(ChildRun, spawned.selection, planning[ChildRun], serverUp, FALSE)

\* The model calls a tool it is offered, which changes the runtime ...
Calls(r, tool) == runtime[r].on /\ tool \in Visible(runtime[r])

\* ... search_tools: it matches some of the enabled tools that are hidden ...
SearchTools(r) ==
    /\ Calls(r, SearchTool)
    /\ \E ids \in SUBSET (runtime[r].enabled \ Visible(runtime[r])) :
          /\ ids # {}
          /\ runtime' = [runtime EXCEPT ![r] = Revealed(@, ids)]
    /\ UNCHANGED <<saved, savedSkill, planning, spawned, executions>>

\* ... skill, with activate ...
SkillActivate(r) ==
    /\ Calls(r, SkillTool) /\ ~ runtime[r].skill
    /\ runtime' = [runtime EXCEPT
          ![r] = Revealed([@ EXCEPT !.skill = TRUE], AutorevealTools \cup CommandTools)]
    /\ UNCHANGED <<saved, savedSkill, planning, spawned, executions>>

\* ... and with deactivate: what was revealed stays revealed ...
SkillDeactivate(r) ==
    /\ Calls(r, SkillTool) /\ runtime[r].skill
    /\ runtime' = [runtime EXCEPT ![r].skill = FALSE]
    /\ UNCHANGED <<saved, savedSkill, planning, spawned, executions>>

\* ... a tool whose output is too large for the context ...
SpillOutput(r) ==
    /\ runtime[r].on /\ Visible(runtime[r]) # {}
    /\ ~ OutputTools \subseteq runtime[r].pinned \cup runtime[r].revealed
    /\ runtime' = [runtime EXCEPT ![r] = Revealed(@, OutputTools)]
    /\ UNCHANGED <<saved, savedSkill, planning, spawned, executions>>

\* ... and spawn_agent, which stores the child's trace with this state.
SpawnAgent(sel) ==
    LET tools == ToolsOf(runtime[RootRun])
    IN  /\ Calls(RootRun, SpawnTool) /\ spawned.parent = Unset
        /\ spawned' = [parent |-> tools, selection |-> sel]
        /\ saved' = [saved EXCEPT ![ChildRun] = tools]
        /\ planning' = [planning EXCEPT ![ChildRun] = planning[RootRun]]
        /\ UNCHANGED <<runtime, savedSkill, executions>>

\* The result of a call is stored, and the state with it (persistProgress).
PersistProgress(r) ==
    /\ runtime[r].on
    /\ saved' = [saved EXCEPT ![r] = ToolsOf(runtime[r])]
    /\ savedSkill' = [savedSkill EXCEPT ![r] = runtime[r].skill]
    /\ UNCHANGED <<runtime, planning, spawned, executions>>

\* The execution ends, or its process does, whatever is stored by then.
EndExecution(r) ==
    /\ runtime[r].on
    /\ runtime' = [runtime EXCEPT ![r] = Idle]
    /\ UNCHANGED <<saved, savedSkill, planning, spawned, executions>>

ToolStateNext ==
    \/ \E sel \in Selections, plan, serverUp, requested \in BOOLEAN :
          BeginRoot(sel, plan, serverUp, requested)
    \/ \E serverUp \in BOOLEAN : BeginChild(serverUp)
    \/ \E sel \in Selections : SpawnAgent(sel)
    \/ \E r \in AgentRunIds :
          \/ SearchTools(r) \/ SkillActivate(r) \/ SkillDeactivate(r)
          \/ SpillOutput(r) \/ PersistProgress(r) \/ EndExecution(r)

ToolStateSpec == ToolStateInit /\ [][ToolStateNext]_toolVars

----------------------------------------------------------------------------
\* The types of the runtimes and of the stored states.
ToolStateTypeOK ==
    /\ \A r \in AgentRunIds :
          /\ ToolsOf(runtime[r]) \in ToolSets
          /\ runtime[r].enabled \subseteq runtime[r].catalog
          /\ saved[r] \in ToolSets \cup {Unset}
    /\ savedSkill \in [AgentRunIds -> BOOLEAN]
    /\ planning \in [AgentRunIds -> BOOLEAN]
    /\ executions \in [AgentRunIds -> 0 .. MaxExecutions]

\* No enabled tool is out of the model's reach: as long as one is hidden,
\* search_tools is offered, whatever the selections, the stored state, the mode
\* and the catalog of this execution have done to it (runtime.go:386-420).  Only
\* search_tools itself may be enabled and hidden, with nothing left to find.
HiddenToolsCanBeFound ==
    \A r \in AgentRunIds :
        runtime[r].on /\ ~ runtime[r].enabled \subseteq Visible(runtime[r]) \cup {SearchTool} =>
            SearchTool \in Visible(runtime[r])

\* A child run is never offered what its parent had disabled when it spawned
\* it, unless the spawn or the mode asks for it: "propagated parent tool
\* policies" outlive the overwrite of the metadata at each of the child's
\* executions (run.go:285-290).  And it can never spawn.
ParentPolicyBindsChild ==
    runtime[ChildRun].on =>
        /\ Restricted \cap Visible(runtime[ChildRun]) = {}
        /\ Visible(runtime[ChildRun]) \subseteq
              spawned.parent.enabled \cup spawned.selection.enable
                  \cup (IF spawned.selection.enabled = NoSet THEN {}
                        ELSE spawned.selection.enabled)
                  \cup (IF planning[ChildRun] THEN PlanTools ELSE {}) \cup {SearchTool}
==============================================================================
