-------------------------------- MODULE MCTools --------------------------------
(***************************************************************************)
(* The tools of an execution on one instance each.  These parts share no   *)
(* state, so a behaviour is one of one part, and the others stay in an     *)
(* initial state.                                                          *)
(***************************************************************************)
EXTENDS SkillContainers, ToolState, RestrictedShell, ShellBuiltins, FileTools, DockerRunner

CONSTANT Parts  \* the parts of the run

VARIABLE part

toolsVars == <<part, containerVars, toolVars, shellVars, builtinVars, fileVars, dockerVars>>

ToolsInit ==
  /\ part \in Parts
  /\ ContainersInit /\ ToolStateInit /\ FileToolsInit /\ DockerInit
  /\ ShellInit /\ (part # "shell" => workspace = [p \in Paths |-> Absent])
  /\ BuiltinsInit /\ (part # "builtins" => text = <<>>)

ToolsNext ==
  /\ UNCHANGED part
  /\ \/ part = "containers" /\ ContainersNext
        /\ UNCHANGED <<toolVars, shellVars, builtinVars, fileVars, dockerVars>>
     \/ part = "tools" /\ ToolStateNext
        /\ UNCHANGED <<containerVars, shellVars, builtinVars, fileVars, dockerVars>>
     \/ part = "shell" /\ ShellNext
        /\ UNCHANGED <<containerVars, toolVars, builtinVars, fileVars, dockerVars>>
     \/ part = "builtins" /\ BuiltinsNext
        /\ UNCHANGED <<containerVars, toolVars, shellVars, fileVars, dockerVars>>
     \/ part = "files" /\ FileToolsNext
        /\ UNCHANGED <<containerVars, toolVars, shellVars, builtinVars, dockerVars>>
     \/ part = "docker" /\ DockerNext
        /\ UNCHANGED <<containerVars, toolVars, shellVars, builtinVars, fileVars>>

ToolsSpec == ToolsInit /\ [][ToolsNext]_toolsVars

\* The type invariant of the part that runs.
ToolsTypeOK ==
  /\ part = "containers" => ContainersTypeOK
  /\ part = "tools" => ToolStateTypeOK
  /\ part = "shell" => ShellTypeOK
  /\ part = "builtins" => BuiltinsTypeOK
  /\ part = "files" => FileToolsTypeOK
  /\ part = "docker" => DockerTypeOK

\* Whatever is enabled and hidden can be found, and a child is bound by what its
\* parent had (ToolState).
ToolPolicyHolds == HiddenToolsCanBeFound /\ ParentPolicyBindsChild

\* What a tool reports is what it did: to the tools of a child, to the workspace
\* after a script, to files that nobody else works on, and to the process of an id
\* (ToolState, RestrictedShell, FileTools, DockerRunner).
ToolsDoAsTold ==
  ToolPolicyHolds /\ ScriptChangesArrive /\ FilesAreExact /\ ProcessIdNamesItsProcess

\* A text means the same on every way through the filters, and arguments mean to
\* docker what was written (ShellBuiltins, DockerRunner).
TextsKeepTheirMeaning == FiltersAgree /\ ArgumentsKeepTheirMeaning

Selection(enabled, enable, disable, pin, unpin) ==
  [enabled |-> enabled, pinned |-> NoSet, enable |-> enable, disable |-> disable,
   pin |-> pin, unpin |-> unpin]
MCSelections ==
  {NoSelection, Selection(NoSet, {"mcp"}, {"search_tools", "output"}, {"mcp"}, {"skill"})}

\* Of two words one is no number, and 9 is before 10 but "10" before "9".
MCValue == [w \in Words |-> IF w = 2 THEN 0 - 1 ELSE IF w = 1 THEN 10 ELSE 9]

\* Edits of a text of one letter: all of it, one place, two letters of it, and two
\* edits where the first makes the file.
Replacement(old, new, all) == [old |-> old, new |-> new, all |-> all]
MCTreePaths == {<<"d", "x">>, <<"f">>}
MCPathOrder == [p \in MCTreePaths \cup {<<"f", "x">>} |-> IF p[1] = "f" THEN 2 ELSE 1]
MCEditLists ==
  {<<Replacement(<<"a">>, <<"n", "a">>, TRUE)>>, <<Replacement(<<"a">>, <<"n">>, FALSE)>>,
   <<Replacement(<<"a", "a">>, <<"n">>, FALSE)>>,
   <<Replacement(<<>>, <<"n", "a">>, FALSE), Replacement(<<"a">>, <<>>, FALSE)>>}
MCHostTree == <<"x">> :> <<"a">>
MCFirstTree == <<"d", "x">> :> <<"a", "a", "n">>

\* Scripts call skill commands only where nothing fails and no skill is active.
QuietScripts ==
  \/ \A r \in ShellRuntimes :
       run'[r].dir # r /\ run'[r].hint # r /\ \A n \in Names : leases'[r][n] = {}
  \/ faults' = 0 /\ \A r \in Runtimes : run'[r].active = {}

Symmetric == Permutations(Skills)
===============================================================================
