-------------------------------- MODULE MCStores -------------------------------
(***************************************************************************)
(* What is kept of a run and beside the runs, on one instance each.  These *)
(* parts share no state, so a behaviour is one of one part, and the others *)
(* stay in an initial state.                                               *)
(***************************************************************************)
EXTENDS Compaction, ToolOutputs, SkillLibrary, TraceCuration, Configuration, GitRepos,
        KnowledgeGraph, LiveTrace, TLC

CONSTANT Parts  \* the parts of the run

VARIABLE part

storesVars == <<part, compactionVars, outputVars, libraryVars, curationVars, configVars,
                gitVars, graphVars, traceVars>>

MCGraph == (11 :> [source |-> 1, target |-> 2]) @@ (12 :> [source |-> 2, target |-> 3])
             @@ (13 :> [source |-> 1, target |-> 4]) @@ (14 :> [source |-> 4, target |-> 4])
MCCycle == (11 :> [source |-> 1, target |-> 2]) @@ (12 :> [source |-> 3, target |-> 2])
             @@ (13 :> [source |-> 1, target |-> 4]) @@ (14 :> [source |-> 5, target |-> 4])
             @@ (15 :> [source |-> 5, target |-> 3])
MCGraphs == {MCGraph, MCCycle}

StoresInit ==
  /\ part \in Parts
  /\ CompactionInit /\ OutputsInit /\ LibraryInit /\ TraceCurationInit /\ ConfigurationInit
  /\ GitInit /\ TraceInit
  /\ KnowledgeInit /\ (part # "graph" => edges = MCGraph)

\* The graph is traversed before it is edited.
MCKnowledgeNext == KnowledgeNext /\ (edits' > 0 => query' = NoQuery)

-----------------------------------------------------------------------------
(* Calls in two instances: "words", where people speak one after the other *)
(* or at once and the call ends when nothing is under way, and "closing",  *)
(* where it ends at any moment.                                            *)

Calm == \A w \in Writers : recording[w] = NoRecord
Shut == \E c \in Closers : closing[c].at # "idle"
Asked == {recording'[w].event : w \in {v \in Writers : recording[v] = NoRecord /\ recording'[v] # NoRecord}}
Told == {events[i].who : i \in DOMAIN events}

MCTraceNext ==
  /\ TraceNext
  /\ clock' # clock => Calm /\ ~Shut
  /\ \A e \in Asked : e.who = "bob" => "ann" \in Told
  /\ closing["leave"].at = "idle" => closing'["decoder"].at = "idle"
  /\ \/ /\ part = "words"
        /\ records' # records => Calm /\ ~Shut
        /\ closing' # closing => Calm
        /\ \A e \in Asked : e.t = clock /\ e.kind \in {"frame", "sent", "final", "interrupted"}
        /\ closing'["decoder"].at = "idle"
     \/ /\ part = "closing"
        /\ records' = records \/ (records < 2 /\ ~closed)
        /\ clock' < 2

-----------------------------------------------------------------------------
StoresNext ==
  /\ UNCHANGED part
  /\ \/ part = "compaction" /\ CompactionNext
        /\ UNCHANGED <<outputVars, libraryVars, curationVars, configVars, gitVars, graphVars, traceVars>>
     \/ part = "outputs" /\ OutputsNext
        /\ UNCHANGED <<compactionVars, libraryVars, curationVars, configVars, gitVars, graphVars, traceVars>>
     \/ part = "library" /\ LibraryNext
        /\ UNCHANGED <<compactionVars, outputVars, curationVars, configVars, gitVars, graphVars, traceVars>>
     \/ part = "curation" /\ CurationNext
        /\ UNCHANGED <<compactionVars, outputVars, libraryVars, configVars, gitVars, graphVars, traceVars>>
     \/ part = "config" /\ ConfigurationNext
        /\ UNCHANGED <<compactionVars, outputVars, libraryVars, curationVars, gitVars, graphVars, traceVars>>
     \/ part = "git" /\ GitNext
        /\ UNCHANGED <<compactionVars, outputVars, libraryVars, curationVars, configVars, graphVars, traceVars>>
     \/ part = "graph" /\ MCKnowledgeNext
        /\ UNCHANGED <<compactionVars, outputVars, libraryVars, curationVars, configVars, gitVars, traceVars>>
     \/ part \in {"words", "closing"} /\ MCTraceNext
        /\ UNCHANGED <<compactionVars, outputVars, libraryVars, curationVars, configVars, gitVars, graphVars>>

StoresSpec == StoresInit /\ [][StoresNext]_storesVars

\* The type invariant of the part that runs.
StoresTypeOK ==
  /\ part = "compaction" => CompactionTypeOK
  /\ part = "outputs" => OutputsTypeOK
  /\ part = "library" => LibraryTypeOK
  /\ part = "curation" => CurationTypeOK
  /\ part = "config" => ConfigurationTypeOK
  /\ part = "git" => GitTypeOK
  /\ part = "graph" => KnowledgeTypeOK
  /\ part \in {"words", "closing"} => TraceTypeOK

\* What the model saw and did not see any more is in the summary, and the tail it
\* sees is well formed (Compaction).
ContextIsKept == TailIsWellFormed /\ SeenOrSummarized

\* A message reference means one message unless an editor doubled its id, a curation
\* of which the review has nothing to say makes a sound record, the trace of a call
\* is the call, what was cut from a tool's output can be read page by page, and a
\* traversal of the graph answers what the graph says (TraceCuration, LiveTrace,
\* ToolOutputs, KnowledgeGraph).
AnswersAreRight ==
  /\ MessageRefsAreUnambiguous /\ CleanReviewExports /\ TraceTellsTheCall
  /\ OutputsCanBeRead /\ TraversalsAreRight

\* What a command reported as saved, installed, pushed or updated is there whatever
\* the other commands do, and nothing is half there that no crash or running command
\* explains (SkillLibrary, Configuration, GitRepos, KnowledgeGraph).
StoresAreKept ==
  /\ OnlyUnfinishedIsBroken
  /\ SavesSurvive /\ SavedProvidersAreReady /\ WorkspacesAreWhole /\ KeyPairMatches
  /\ AcceptedCommitsStay /\ EmptyMeansEmpty /\ KnownHostsAreThere
  /\ EdgesHaveTheirEnds /\ UpdatesStay

-----------------------------------------------------------------------------
MCSlug == [n \in SkillNames |-> IF n = "My a" THEN "a" ELSE n]
MCSlugOrder == [d \in Slugs |-> IF d = "a" THEN 1 ELSE 2]
MCSources ==
  {<<[name |-> "a", below |-> ""], [name |-> "My a", below |-> "a"]>>,
   <<[name |-> "b", below |-> "a"]>>}

Recorded(n, role, made, answers, text) ==
  [id |-> <<"run", n>>, role |-> role, calls |-> made, answers |-> answers, text |-> text]
CallOf(id, function) == {[id |-> id, function |-> function]}
MCRawTraces ==
  {<<Recorded(1, "user", {}, NoToolCall, FALSE),
     Recorded(2, "assistant", CallOf("k", "named"), NoToolCall, FALSE),
     Recorded(3, "tool", {}, "k", TRUE)>>}

\* Edited: a result before its call; a function without a name; one that is missing,
\* beside a role that is not known and an id given twice; an id of white space.
MCEditedTraces ==
  {<<Recorded(3, "tool", {}, "k", TRUE),
     Recorded(2, "assistant", CallOf("k", "named"), NoToolCall, TRUE)>>,
   <<Recorded(2, "assistant", CallOf("k", "nameless"), NoToolCall, TRUE),
     Recorded(3, "tool", {}, "k", TRUE)>>,
   <<Recorded(2, "assistant", CallOf("k", "none"), NoToolCall, TRUE),
     Recorded(3, "other", {}, NoToolCall, TRUE), Recorded(3, "tool", {}, "k", TRUE)>>,
   <<Recorded(2, "assistant", CallOf(" ", "named"), NoToolCall, TRUE),
     Recorded(3, "tool", {}, " ", TRUE)>>}

Provider(type, base, secret, model, project, location, effort) ==
  [type |-> type, base |-> base, key |-> secret, model |-> model, project |-> project,
   location |-> location, effort |-> effort]
MCProviderInputs ==
  {Provider("unset", "", "k", "go m", "", "", ""),
   Provider("vertex", "", "k", "m", "p", "l", "low"),
   Provider("openai", "", "k", "m", "", "", "max")}
MCEfforts ==
  [t \in {"openai", "openai_compat", "anthropic", "vertex"} |->
    IF t = "anthropic" THEN {"low", "max"} ELSE {"low", "none"}]
MCGoBackend == [m \in {"go m"} |-> "anthropic"]

MCNested == {<<"a.git/b", "a">>}
MCBranches == <<"dev", "main", "master">>

MCBeginsWith == {<<100, 2>>, <<100, 3>>}
MCNodeInputs == {[name |-> 2, content |-> 0], [name |-> 0, content |-> 2]}
MCEdgeInputs == {[source |-> 2, target |-> 0], [source |-> 0, target |-> 4]}

Symmetric == Permutations(Commands)
===============================================================================
