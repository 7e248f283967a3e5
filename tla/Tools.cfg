SPECIFICATION ToolsSpec
CONSTANTS
  Parts = {"containers", "tools", "shell", "builtins", "files", "docker"}
  Runtimes = {r1, r2}
  ShellRuntimes = {r1}
  Skills = {a, b}
  MaxFaults = 1
  NoRuntime = NoRuntime
  Files = Files
  Internal = {"search_tools", "spawn_agent", "skill", "output"}
  SearchTool = "search_tools"
  SpawnTool = "spawn_agent"
  SkillTool = "skill"
  OutputTools = {"output"}
  PlanTools = {"output"}
  Restricted = {"spawn_agent"}
  McpTools = {"mcp"}
  CommandTools = {"cmd"}
  AutorevealTools = {"cmd"}
  DefaultEnabled = {"search_tools", "spawn_agent", "skill", "output", "cmd"}
  DefaultPinned = {"search_tools", "spawn_agent", "skill"}
  Selections <- MCSelections
  NoSet = {"none"}
  MaxExecutions = 2
  Shells = {s1}
  Paths = {p, q}
  Stages = {g1}
  MaxWrites = 2
  MaxRefusals = 1
  NoStage = NoStage
  Words = {1, 2}
  Value <- MCValue
  NaN = 99
  MaxLines = 3
  MaxWords = 1
  FileNames = {"a", "b"}
  MaxCommands = 2
  Callers = {c1, c2}
  TreePaths <- MCTreePaths
  PathOrder <- MCPathOrder
  Letters = {"a", "n"}
  NewLine = "n"
  EditLists <- MCEditLists
  HostTree <- MCHostTree
  SearchText = "a"
  MaxLength = 4
  MaxCalls = 2
  FirstTree <- MCFirstTree
  MaxCopies = 1
  PageLimits = {2}
  Tokens = {"-f", "-v", "-q", "--", "-t", "-m", "a", "./d", "../b"}
  ListedOptions = {"-t"}
  UnlistedOptions = {"-m"}
  HostPaths = {"./d", "../b"}
  EscapingPaths = {"../b"}
  Launchers = {l1, l2}
  ProcessIds = {i1, i2}
  Pids = {1, 2, 3}
  MaxTokens = 4
  MaxLaunches = 3
  MaxRestarts = 1
INVARIANTS
  ToolsTypeOK  ToolsDoAsTold TextsKeepTheirMeaning

  
SYMMETRY Symmetric
CHECK_DEADLOCK FALSE
ACTION_CONSTRAINT QuietScripts
