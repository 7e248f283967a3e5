SPECIFICATION ShellSpec
CONSTANTS
  Shells = {s1}
  Paths = {p, q}
  Stages = {g1}
  MaxWrites = 2
  MaxRefusals = 1
  NoStage = NoStage
PROPERTIES
  FailedScriptsChangeNothing
CHECK_DEADLOCK FALSE
