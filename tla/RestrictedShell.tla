-------------------------- MODULE RestrictedShell --------------------------
(***************************************************************************)
(* The shell tool (src/internal/agent/tools_shell.go and                   *)
(* shell_docker_fallback.go): a script runs on a copy of the workspace, and *)
(* when it has ended, whatever its status, the workspace is made equal to  *)
(* the copy, path by path.  Other runs and the user write to the workspace *)
(* meanwhile.  A command that is neither a builtin nor a tool is executed  *)
(* in a container of the invocation, created when the first such command   *)
(* comes; the stages of a pipeline are executed at the same time.          *)
(***************************************************************************)
EXTENDS Integers, FiniteSets

CONSTANTS
    Shells,       \* the invocations
    Paths,        \* the paths of the workspace
    Stages,       \* the commands of a script that need the container
    MaxWrites,    \* bound: what the scripts and the others write
    MaxRefusals,  \* bound: how often docker cannot be called, or ends badly
    NoStage

ASSUME RestrictedShellAssumption ==
    MaxWrites \in Nat /\ MaxRefusals \in Nat /\ NoStage \notin Stages \cup Shells

VARIABLES
    workspace,  \* [Paths -> Contents]
    shell,      \* [Shells -> the invocation]
    sandboxes,  \* [Shells \X Stages -> the container the stage has created]
    writes, refusals

shellVars == <<workspace, shell, sandboxes, writes, refusals>>

\* Nothing, a directory, or a file written at some point (0: in the beginning).
Absent == -2
Dir == -1
Contents == {Absent, Dir} \cup (0 .. MaxWrites)

Invocation ==
    [pc : {"idle", "snapshot", "running", "copy", "list", "remove",
           "stop", "done"},
     snap : [Paths -> Contents],     \* the temporary directory
     todo : SUBSET Paths,            \* paths the copy or the removal has not reached
     container : Stages \cup {NoStage},   \* fallback.container
     started : BOOLEAN,              \* fallback.started
     stage : [Stages -> {"new", "create", "start", "exec", "end"}],
     overwritten : SUBSET Paths,     \* written by others since the sync began
     failed : BOOLEAN,               \* the sync gave up
     status : {0, 1},                \* the script's exit status: 0, or another
     refused : BOOLEAN]              \* docker did not remove the container

NewInvocation ==
    [pc |-> "idle", snap |-> [p \in Paths |-> Absent], todo |-> {},
     container |-> NoStage, started |-> FALSE, stage |-> [g \in Stages |-> "new"],
     overwritten |-> {}, failed |-> FALSE, status |-> 0, refused |-> FALSE]

ShellInit ==
    /\ workspace \in [Paths -> {Absent, Dir, 0}]
    /\ shell = [s \in Shells |-> NewInvocation]
    /\ sandboxes = [c \in Shells \X Stages |-> "absent"]
    /\ writes = 0 /\ refusals = 0

----------------------------------------------------------------------------
Syncing(s) == shell[s].pc \in {"copy", "list", "remove", "stop", "done"}

\* The workspace gets c at p: the other syncs have it from someone else.
Put(p, c) == workspace' = [workspace EXCEPT ![p] = c]
OverwrittenBy(writer, p) ==
    [s \in Shells |->
        IF s # writer /\ Syncing(s) THEN [shell[s] EXCEPT !.overwritten = @ \cup {p}]
        ELSE shell[s]]

\* Another run, or the user, writes or removes a file.
OtherWrites(p, c) ==
    /\ writes < MaxWrites /\ writes' = writes + 1
    /\ c \in {Absent, Dir, writes'} /\ c # workspace[p]
    /\ Put(p, c) /\ shell' = OverwrittenBy(NoStage, p)
    /\ UNCHANGED <<sandboxes, refusals>>

Refused == refusals < MaxRefusals /\ refusals' = refusals + 1

\* snapshotWorkspace copies the tree path by path.
BeginShell(s) ==
    /\ shell[s].pc = "idle"
    /\ shell' = [shell EXCEPT ![s].pc = "snapshot", ![s].todo = Paths]
    /\ UNCHANGED <<workspace, sandboxes, writes, refusals>>

SnapshotPath(s, p) ==
    /\ shell[s].pc = "snapshot" /\ p \in shell[s].todo
    /\ shell' = [shell EXCEPT ![s].snap[p] = workspace[p], ![s].todo = @ \ {p},
                     ![s].pc = IF shell[s].todo = {p} THEN "running" ELSE @]
    /\ UNCHANGED <<workspace, sandboxes, writes, refusals>>

\* A tool, a builtin or a redirection of the script.
ScriptWrites(s, p, c) ==
    /\ shell[s].pc = "running" /\ writes < MaxWrites /\ writes' = writes + 1
    /\ c \in {Absent, Dir, writes'} /\ c # shell[s].snap[p]
    /\ shell' = [shell EXCEPT ![s].snap[p] = c]
    /\ UNCHANGED <<workspace, sandboxes, refusals>>

----------------------------------------------------------------------------
\* ensure: the container is created by whoever finds none.
EnsureSandbox(s, g) ==
    /\ shell[s].pc = "running" /\ shell[s].stage[g] = "new"
    /\ shell' = [shell EXCEPT
          ![s].stage[g] = IF shell[s].container = NoStage THEN "create" ELSE "exec"]
    /\ UNCHANGED <<workspace, sandboxes, writes, refusals>>

\* A create that ends with another status than 0 is not noticed.
CreateSandbox(s, g) ==
    /\ shell[s].stage[g] = "create"
    /\ \/ /\ sandboxes' = [sandboxes EXCEPT ![<<s, g>>] = "created"]
          /\ shell' = [shell EXCEPT ![s].stage[g] = "start", ![s].container = g]
          /\ UNCHANGED refusals
       \/ /\ Refused
          /\ shell' = [shell EXCEPT ![s].stage[g] = "start", ![s].container = g]
          /\ UNCHANGED sandboxes
       \/ /\ Refused
          /\ shell' = [shell EXCEPT ![s].stage[g] = "end"]
          /\ UNCHANGED sandboxes
    /\ UNCHANGED <<workspace, writes>>

\* The container started, or removed when docker could not be called, is the
\* one fallback.container names by now.
StartSandbox(s, g) ==
    LET named == shell[s].container
        c == <<s, named>>
    IN  /\ shell[s].stage[g] = "start"
        /\ \/ /\ sandboxes' = IF named = NoStage \/ sandboxes[c] = "absent" THEN sandboxes
                              ELSE [sandboxes EXCEPT ![c] = "running"]
              /\ shell' = [shell EXCEPT ![s].stage[g] = "exec", ![s].started = TRUE]
              /\ UNCHANGED refusals
           \/ /\ Refused
              /\ sandboxes' = IF named = NoStage THEN sandboxes
                              ELSE [sandboxes EXCEPT ![c] = "absent"]
              /\ shell' = [shell EXCEPT ![s].stage[g] = "end", ![s].container = NoStage]
        /\ UNCHANGED <<workspace, writes>>

\* The command has run, or its exec has failed: the script goes on.
ExecSandbox(s, g) ==
    /\ shell[s].stage[g] = "exec"
    /\ shell' = [shell EXCEPT ![s].stage[g] = "end"]
    /\ UNCHANGED <<workspace, sandboxes, writes, refusals>>

----------------------------------------------------------------------------
\* Mutant: a script that fails changes nothing.
ScriptEndsCommitting(s, status) ==
    /\ shell[s].pc = "running"
    /\ \A g \in Stages : shell[s].stage[g] \in {"new", "end"}
    /\ shell' = [shell EXCEPT ![s].pc = IF status = 0 THEN "copy" ELSE "stop",
                              ![s].status = status, ![s].todo = Paths]
    /\ UNCHANGED <<workspace, sandboxes, writes, refusals>>

\* The script has ended, with any status, by itself or by its timeout; the
\* sync begins and goes by the paths that are in the copy now.
ScriptEnds(s, status) ==
    /\ shell[s].pc = "running"
    /\ \A g \in Stages : shell[s].stage[g] \in {"new", "end"}
    /\ shell' = [shell EXCEPT ![s].pc = "copy", ![s].status = status, ![s].todo = Paths]
    /\ UNCHANGED <<workspace, sandboxes, writes, refusals>>

\* The first path in the way of its new kind, or that cannot be written, ends
\* the sync, and only the debug log tells.
InTheWay(c, there) == \/ c = Dir /\ there \notin {Dir, Absent}
                      \/ c \notin {Dir, Absent} /\ there = Dir

CopyBack(s, p) ==
    LET c == shell[s].snap[p]
        rest == shell[s].todo \ {p}
        go == [shell[s] EXCEPT !.todo = rest, !.pc = IF rest = {} THEN "list" ELSE @]
    IN  /\ shell[s].pc = "copy" /\ p \in shell[s].todo
        /\ IF InTheWay(c, workspace[p])
           THEN /\ shell' = [shell EXCEPT ![s].pc = "stop", ![s].failed = TRUE]
                /\ UNCHANGED workspace
           ELSE IF c \in {Absent, workspace[p]}
           THEN shell' = [shell EXCEPT ![s] = go] /\ UNCHANGED workspace
           ELSE Put(p, c) /\ shell' = [OverwrittenBy(s, p) EXCEPT ![s] = go]
        /\ UNCHANGED <<sandboxes, writes, refusals>>

\* Mutant: what the script has deleted is not looked for.
ListNothing(s) ==
    /\ shell[s].pc = "list"
    /\ shell' = [shell EXCEPT ![s].todo = {}, ![s].pc = "remove"]
    /\ UNCHANGED <<workspace, sandboxes, writes, refusals>>

\* What is in the workspace and was not in the copy ...
ListRemoved(s) ==
    /\ shell[s].pc = "list"
    /\ shell' = [shell EXCEPT ![s].pc = "remove",
          ![s].todo = {p \in Paths : workspace[p] # Absent
                                       /\ shell[s].snap[p] = Absent}]
    /\ UNCHANGED <<workspace, sandboxes, writes, refusals>>

\* ... is removed.
RemoveSynced(s, p) ==
    /\ shell[s].pc = "remove" /\ p \in shell[s].todo
    /\ Put(p, Absent)
    /\ shell' = [OverwrittenBy(s, p) EXCEPT ![s].todo = @ \ {p}]
    /\ UNCHANGED <<sandboxes, writes, refusals>>

Synced(s) ==
    /\ shell[s].pc = "remove" /\ shell[s].todo = {}
    /\ shell' = [shell EXCEPT ![s].pc = "stop"]
    /\ UNCHANGED <<workspace, sandboxes, writes, refusals>>

----------------------------------------------------------------------------
\* cleanup stops and removes the container that fallback.container names, if
\* docker does as it is told: nobody looks.
CleanupSandbox(s) ==
    LET c == shell[s].container
    IN  /\ shell[s].pc = "stop"
        /\ \/ /\ sandboxes' = IF c = NoStage THEN sandboxes
                              ELSE [sandboxes EXCEPT ![<<s, c>>] = "absent"]
              /\ UNCHANGED refusals
              /\ shell' = [shell EXCEPT ![s].pc = "done"]
           \/ /\ c # NoStage /\ Refused
              /\ shell' = [shell EXCEPT ![s].pc = "done", ![s].refused = TRUE]
              /\ UNCHANGED sandboxes
        /\ UNCHANGED <<workspace, writes>>

ShellNext ==
    \/ \E p \in Paths, c \in Contents : OtherWrites(p, c)
    \/ \E s \in Shells :
          \/ BeginShell(s) \/ ListRemoved(s) \/ Synced(s) \/ CleanupSandbox(s)
          \/ \E status \in {0, 1} : ScriptEnds(s, status)
          \/ \E p \in Paths :
                \/ SnapshotPath(s, p) \/ CopyBack(s, p) \/ RemoveSynced(s, p)
                \/ \E c \in Contents : ScriptWrites(s, p, c)
          \/ \E g \in Stages :
                \/ EnsureSandbox(s, g) \/ CreateSandbox(s, g)
                \/ StartSandbox(s, g) \/ ExecSandbox(s, g)

ShellSpec == ShellInit /\ [][ShellNext]_shellVars

----------------------------------------------------------------------------
\* The types of the workspace, the invocations and the containers.
ShellTypeOK ==
    /\ workspace \in [Paths -> Contents]
    /\ shell \in [Shells -> Invocation]
    /\ sandboxes \in [Shells \X Stages -> {"absent", "created", "running"}]
    /\ writes \in 0 .. MaxWrites /\ refusals \in 0 .. MaxRefusals

\* "Always sync workspace changes back to the real workspace, regardless of
\* exit status" (tools_shell.go:232): once the invocation is over, every path is
\* as the script left it, written, made or deleted, except where someone else
\* has written since, or the sync had to give up.
ScriptChangesArrive ==
    \A s \in Shells : shell[s].pc = "done" /\ ~ shell[s].failed =>
        \A p \in Paths \ shell[s].overwritten : workspace[p] = shell[s].snap[p]

\* What the model is told of the tool: "changes are committed to the workspace
\* only if the script exits successfully" (tools_shell.go:31; :110 says the
\* same, and so do the skill shell-composition.md and the names of two tests).
\* No step of the sync of a script that failed writes to the workspace.
FailedScriptsChangeNothing ==
    [][\A s \in Shells :
          shell[s].status # 0 /\ shell'[s].todo # shell[s].todo => UNCHANGED workspace]_shellVars
==============================================================================
