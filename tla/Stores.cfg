SPECIFICATION StoresSpec
CONSTANTS
  Parts = {"compaction", "outputs", "library", "curation", "config", "git", "graph", "words", "closing"}
  KeepRecent = 3
  AggressiveKeepRecent = 2
  MaxCompactions = 2
  MaxNudges = 1
  MaxMessages = 7
  MaxTurns = 2
  MaxDeletes = 1
  Letters = {"a", "b"}
  WideLetters = {"w"}
  WideBytes = 3
  TokenLimit = 1
  MaxStoredBytes = 2
  MaxPreview = 9
  PreviewBudget = 2
  MaxUnits = 4
  MaxLine = 14
  Limits = {1, 2}
  Clients = {"c1", "c2"}
  SkillNames = {"a", "My a", "b"}
  Slugs = {"a", "b"}
  Slug <- MCSlug
  SlugOrder <- MCSlugOrder
  SkillSources <- MCSources
  MaxLibraryOps = 3
  MaxLibraryFaults = 1
  NoSkill = "none"
  Reviewers = {"x", "y"}
  ToolCalls = {"k", " "}
  BlankIds = {" "}
  RawTraces <- MCRawTraces
  EditedTraces <- MCEditedTraces
  MaxCurations = 1
  MaxReviews = 4
  MaxTraceLength = 4
  NoToolCall = "none"
  Commands = {c1, c2}
  Workspaces = {"default", "w"}
  Providers = {"p"}
  Servers = {"s"}
  ProviderInputs <- MCProviderInputs
  DefaultServers = {"s"}
  GoBackend <- MCGoBackend
  GoModels = {"go m", "go x"}
  Efforts <- MCEfforts
  None = None
  Garbage = Garbage
  MaxJobs = 3
  MaxCrashes = 1
  Callers = {g1, g2}
  Repos = {"a", "a.git/b"}
  NestedIn <- MCNested
  Clones = {"v", "w"}
  Occupied = {"v"}
  Branches <- MCBranches
  InitialHead = "master"
  MaxCommits = 2
  MaxGitCalls = 5
  MaxGitCrashes = 1
  NodeIds = {1, 2, 3, 4, 5}
  EdgeIds = {11, 12, 13, 14, 15}
  ShortIds = {100}
  NodeInputs <- MCNodeInputs
  EdgeInputs <- MCEdgeInputs
  BeginsWith <- MCBeginsWith
  Graphs <- MCGraphs
  Values = {1, 2}
  Editors = {e1, e2}
  EdgeLimit = 3
  MaxDepth = 2
  MaxWrites = 1
  MaxUpdates = 2
  Users = {"ann", "bob"}
  FrameTicks = 1
  MergeGap = 1
  TranscriptWindow = 1
  AssistantWindow = 2
  MaxTime = 4
  MaxRecords = 4
INVARIANTS
  StoresTypeOK ContextIsKept AnswersAreRight StoresAreKept
SYMMETRY Symmetric
CHECK_DEADLOCK FALSE
