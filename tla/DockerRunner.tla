------------------------------ MODULE DockerRunner ------------------------------
(***************************************************************************)
(* The Docker runner: internal/docker/runner.go and helpers.go, with the   *)
(* tools and commands that call it (internal/agent/tools_docker.go,        *)
(* cmd/docker.go).  Two sides of it: what becomes of the arguments that a  *)
(* caller writes, and the background processes of a container, which are   *)
(* known only by the files that a shell script leaves inside it.  Docker   *)
(* itself, the shell and the process table are external.                   *)
(***************************************************************************)
EXTENDS Naturals, Sequences, FiniteSets

CONSTANTS
  Tokens,           \* words that the raw arguments are made of
  ListedOptions,    \* options whose value the validators know of
  UnlistedOptions,  \* options with a value that are missing in their tables
  HostPaths,        \* words that look like paths of the host
  EscapingPaths,    \* paths outside the workspace
  Launchers,        \* calls of docker_exec_background that may overlap
  ProcessIds, Pids,
  MaxTokens, MaxLaunches, MaxRestarts  \* bounds

\* The options that the validators treat on their own, and one flag.
FileOption == "-f"
VolumeOption == "-v"
Flag == "-q"
Dashes == "--"
Options == ListedOptions \cup UnlistedOptions \cup {FileOption, VolumeOption, Flag, Dashes}

ASSUME DockerAssumption ==
  /\ EscapingPaths \subseteq HostPaths /\ HostPaths \cap Options = {}
  /\ Pids \subseteq Nat \ {0} /\ IsFiniteSet(Pids)

VARIABLES
  raw,       \* the last raw call: what was written and what is run
  box,       \* the container
  procs,     \* its process table: the launch that each pid runs, 0 for none
  lastPid,   \* pids are given in order since the container started
  files,     \* the files of each process id: the launch named in .cmd and in
             \* .log, the pid in .pid, 0 for a file that is not there
  launcher,  \* what each call is doing
  launches,  \* the process id of each launch so far
  doubtful,  \* process ids launched twice at once, or before a restart
  restarts

dockerVars == <<raw, box, procs, lastPid, files, launcher, launches, doubtful, restarts>>

NoRaw == [sub |-> "ps", given |-> <<>>, run |-> <<>>, ok |-> FALSE]
NoBox == [state |-> "absent", mounts |-> {}]
NoFiles == [cmd |-> 0, log |-> 0, pid |-> 0]
IdleLauncher == [at |-> "idle", launch |-> 0, pid |-> 0]

DockerInit ==
  /\ raw = NoRaw /\ box = NoBox
  /\ procs = [p \in Pids |-> 0] /\ lastPid = 0
  /\ files = [i \in ProcessIds |-> NoFiles]
  /\ launcher = [l \in Launchers |-> IdleLauncher]
  /\ launches = <<>> /\ doubtful = {} /\ restarts = 0

-----------------------------------------------------------------------------
(* The arguments of the docker tool.                                       *)

Given(word) == [word |-> word, resolved |-> FALSE]
Resolved(word) == [word |-> word, resolved |-> TRUE]

\* Mutant: the path of the host is not resolved.
VolumeValueAsGiven(word) == Given(word)

\* normalizeVolumeArg: a name of a volume stays as it is.
VolumeValue(word) == IF word \in HostPaths THEN Resolved(word) ELSE Given(word)

Nothing == [ok |-> TRUE, run |-> <<>>, operands |-> 0]
RefusedArgs == [ok |-> FALSE, run |-> <<>>, operands |-> 0]

\* validateBuildArgs: the loop from its last argument back.
ValidateBuild(args) ==
  LET n == Len(args)
      from[i \in 1..(n + 2)] ==
        LET keep(k, kept, operands) ==
              [from[i + k] EXCEPT !.run = kept \o @, !.operands = @ + operands]
            next == IF i < n THEN args[i + 1] ELSE ""
        IN IF i > n THEN Nothing
           ELSE IF args[i] = FileOption
           THEN IF i = n \/ next \in EscapingPaths THEN RefusedArgs
                ELSE keep(2, <<Given(args[i]), Resolved(next)>>, 0)
           ELSE IF args[i] = Dashes
           THEN IF i = n \/ next \in EscapingPaths THEN RefusedArgs
                ELSE [ok |-> TRUE, run |-> <<Resolved(next)>>, operands |-> 1]
           ELSE IF args[i] \in ListedOptions /\ i < n
           THEN keep(2, <<Given(args[i]), Given(next)>>, 0)
           ELSE IF args[i] \in Options THEN keep(1, <<Given(args[i])>>, 0)
           ELSE IF args[i] \in EscapingPaths THEN RefusedArgs
           ELSE keep(1, <<Resolved(args[i])>>, 1)
  IN from[1]

\* validateCreateArgs: it does not stop at the image, so the arguments of the
\* container's own command are treated like options of docker.
ValidateCreate(args) ==
  LET n == Len(args)
      from[i \in 1..(n + 2)] ==
        LET keep(k, kept, operands) ==
              [from[i + k] EXCEPT !.run = kept \o @, !.operands = @ + operands]
            next == IF i < n THEN args[i + 1] ELSE ""
        IN IF i > n THEN Nothing
           ELSE IF args[i] = VolumeOption
           THEN IF i = n \/ next \in EscapingPaths THEN RefusedArgs
                ELSE keep(2, <<Given(args[i]), VolumeValue(next)>>, 0)
           ELSE IF args[i] = Dashes
           THEN [Nothing EXCEPT !.run = [k \in 1..(n - i + 1) |-> Given(args[i + k - 1])]]
           ELSE IF args[i] \in ListedOptions /\ i < n
           THEN keep(2, <<Given(args[i]), Given(next)>>, 0)
           ELSE keep(1, <<Given(args[i])>>, IF args[i] \in Options THEN 0 ELSE 1)
  IN from[1]

\* validateExecArgs: the first argument that is no option nor the value of one
\* has to have one after it; "--" only has to have one after it.
ExecIsWhole(args) ==
  LET n == Len(args)
      from[i \in 1..(n + 2)] ==
        IF i > n THEN FALSE
        ELSE IF args[i] = Dashes THEN i < n
        ELSE IF args[i] \in ListedOptions /\ i < n THEN from[i + 2]
        ELSE IF args[i] \in Options THEN from[i + 1]
        ELSE i < n
  IN from[1]

\* validateContainerRefArgs, validatePullArgs: one argument that is no option.
HasOperand(args) == \E i \in DOMAIN args : args[i] \notin Options

ValidateDockerArgs(sub, args) ==
  LET same == [i \in DOMAIN args |-> Given(args[i])]
      checked == IF sub = "build" THEN ValidateBuild(args) ELSE ValidateCreate(args)
  IN CASE sub \in {"build", "create"} ->
            [ok |-> checked.ok /\ checked.operands > 0, run |-> checked.run]
       [] sub = "exec" -> [ok |-> ExecIsWhole(args), run |-> same]
       [] sub \in {"start", "pull"} -> [ok |-> HasOperand(args), run |-> same]
       [] OTHER -> [ok |-> TRUE, run |-> same]

RunDockerTool(sub, args) ==
  /\ LET checked == ValidateDockerArgs(sub, args)
     IN raw' = [sub |-> sub, given |-> args, ok |-> checked.ok, run |-> checked.run]
  /\ UNCHANGED <<box, procs, lastPid, files, launcher, launches, doubtful, restarts>>

-----------------------------------------------------------------------------
(* Containers.                                                             *)

\* The mounts of a new container by target: those of the git client, of the
\* image of this project with the sign-ins of its coding tools, and the
\* workspace or a repository in it.
GitMounts(o) == IF o.skipGit THEN {} ELSE {"git key", "known hosts"}
DevMounts(o) == IF o.dev /\ ~o.skipGit THEN {"authorized keys", "claude", "codex"} ELSE {}
CreateMounts(o) ==
  GitMounts(o) \cup DevMounts(o) \cup (IF o.workspace \/ o.repo THEN {"/workspace"} ELSE {})

CreateBox(o) ==
  /\ raw = NoRaw
  /\ box.state = "absent" /\ ~(o.workspace /\ o.repo)
  /\ box' = [state |-> "created", mounts |-> CreateMounts(o)]
  /\ files' = [i \in ProcessIds |-> NoFiles]
  /\ UNCHANGED <<raw, procs, lastPid, launcher, launches, doubtful, restarts>>

StartBox ==
  /\ box.state \in {"created", "exited"}
  /\ box' = [box EXCEPT !.state = "running"]
  /\ lastPid' = 0
  /\ doubtful' = doubtful \cup {i \in ProcessIds : files[i].pid # 0}
  /\ UNCHANGED <<raw, procs, files, launcher, launches, restarts>>

\* What runs inside dies with it, the scripts of the calls too; its files stay.
StopBox ==
  /\ box.state = "running" /\ restarts < MaxRestarts
  /\ box' = [box EXCEPT !.state = "exited"]
  /\ procs' = [p \in Pids |-> 0]
  /\ launcher' = [l \in Launchers |-> IdleLauncher]
  /\ doubtful' = doubtful \cup
       {launches[launcher[l].launch] : l \in {k \in Launchers : launcher[k].at # "idle"}}
  /\ restarts' = restarts + 1
  /\ UNCHANGED <<raw, lastPid, files, launches>>

\* "docker rm" refuses a container that runs.
RemoveBox ==
  /\ box.state \in {"created", "exited"}
  /\ box' = NoBox
  /\ files' = [i \in ProcessIds |-> NoFiles]
  /\ doubtful' = {}
  /\ UNCHANGED <<raw, procs, lastPid, launcher, launches, restarts>>

-----------------------------------------------------------------------------
(* Background processes.  The last launch of a process id:                 *)

LatestLaunch(i) ==
  LET mine == {k \in DOMAIN launches : launches[k] = i}
  IN IF mine = {} THEN 0 ELSE CHOOSE k \in mine : \A j \in mine : j <= k

Alive(launch) == launch # 0 /\ \E p \in Pids : procs[p] = launch
Launching(i) == \E l \in Launchers : launcher[l].at # "idle" /\ launches[launcher[l].launch] = i

\* Nothing keeps the id a caller gives a process from being used again while that
\* process runs.
ExecBackground(l, i) ==
  /\ launcher[l].at = "idle" /\ box.state = "running" /\ Len(launches) < MaxLaunches
  /\ launches' = Append(launches, i)
  /\ launcher' = [launcher EXCEPT ![l] = [at |-> "fork", launch |-> Len(launches) + 1, pid |-> 0]]
  /\ files' = [files EXCEPT ![i].cmd = Len(launches) + 1]
  /\ doubtful' = IF Launching(i) THEN doubtful \cup {i} ELSE doubtful \ {i}
  /\ UNCHANGED <<raw, box, procs, lastPid, restarts>>

\* The shell forks, and the child opens the log, which empties it: one step here,
\* so the moment between the two, when the log is still that of the launch before,
\* is left out.  The pid is new since the container started.
Fork(l) ==
  /\ launcher[l].at = "fork" /\ lastPid + 1 \in Pids
  /\ lastPid' = lastPid + 1
  /\ procs' = [procs EXCEPT ![lastPid + 1] = launcher[l].launch]
  /\ files' = [files EXCEPT ![launches[launcher[l].launch]].log = launcher[l].launch]
  /\ launcher' = [launcher EXCEPT ![l].at = "record", ![l].pid = lastPid + 1]
  /\ UNCHANGED <<raw, box, launches, doubtful, restarts>>

\* Mutant: the pid file of an earlier launch is kept.
RecordFirstPid(l) ==
  /\ launcher[l].at = "record"
  /\ LET i == launches[launcher[l].launch]
     IN files' = [files EXCEPT ![i].pid = IF @ = 0 THEN launcher[l].pid ELSE @]
  /\ launcher' = [launcher EXCEPT ![l] = IdleLauncher]
  /\ UNCHANGED <<raw, box, procs, lastPid, launches, doubtful, restarts>>

RecordPid(l) ==
  /\ launcher[l].at = "record"
  /\ files' = [files EXCEPT ![launches[launcher[l].launch]].pid = launcher[l].pid]
  /\ launcher' = [launcher EXCEPT ![l] = IdleLauncher]
  /\ UNCHANGED <<raw, box, procs, lastPid, launches, doubtful, restarts>>

ProcessEnds(p) ==
  /\ procs[p] # 0
  /\ procs' = [procs EXCEPT ![p] = 0]
  /\ UNCHANGED <<raw, box, lastPid, files, launcher, launches, doubtful, restarts>>

\* "kill -0" of the pid in the file.
SeenRunning(i) == files[i].pid # 0 /\ procs[files[i].pid] # 0

\* What docker_exec_tail answers: the launch whose output it shows, and whether
\* it says that this is still running.
ExecTail(i) == [output |-> files[i].log, running |-> SeenRunning(i)]

\* The signal goes to whatever has the pid of the file now.
ExecSignal(i) ==
  /\ box.state = "running" /\ SeenRunning(i)
  /\ procs' = [procs EXCEPT ![files[i].pid] = 0]
  /\ UNCHANGED <<raw, box, lastPid, files, launcher, launches, doubtful, restarts>>

CreateInputs ==
  {[workspace |-> w, repo |-> r, dev |-> d, skipGit |-> s] : w, r, d, s \in BOOLEAN}

ArgumentLists == UNION {[1..n -> Tokens] : n \in 0..MaxTokens}

DockerNext ==
  \/ /\ raw = NoRaw /\ box = NoBox /\ launches = <<>> /\ restarts = 0
     /\ \E sub \in {"build", "create", "exec", "start", "ps"}, args \in ArgumentLists :
          RunDockerTool(sub, args)
  \/ \E o \in CreateInputs : CreateBox(o)
  \/ StartBox \/ StopBox \/ RemoveBox
  \/ \E l \in Launchers, i \in ProcessIds : ExecBackground(l, i)
  \/ \E l \in Launchers : Fork(l) \/ RecordPid(l)
  \/ \E p \in Pids : ProcessEnds(p)
  \/ \E i \in ProcessIds : ExecSignal(i)

DockerSpec == DockerInit /\ [][DockerNext]_dockerVars

-----------------------------------------------------------------------------
(* Properties.                                                             *)

DockerTypeOK ==
  /\ raw.ok \in BOOLEAN /\ raw.run \in Seq([word : Tokens, resolved : BOOLEAN])
  /\ box.state \in {"absent", "created", "running", "exited"}
  /\ procs \in [Pids -> 0..MaxLaunches] /\ lastPid \in Pids \cup {0}
  /\ files \in [ProcessIds -> [cmd : 0..MaxLaunches, log : 0..MaxLaunches, pid : Pids \cup {0}]]
  /\ launcher \in [Launchers -> [at : {"idle", "fork", "record"}, launch : 0..MaxLaunches,
                                 pid : Pids \cup {0}]]
  /\ launches \in Seq(ProcessIds) /\ doubtful \subseteq ProcessIds

OwnOptions(sub) ==
  CASE sub = "build" -> {FileOption} [] sub = "create" -> {VolumeOption} [] OTHER -> {}

\* How docker reads arguments.  "build" takes options anywhere, "create" none
\* after its image, and an option that takes a value takes the next word.
DockerReads(sub, tokens) ==
  LET n == Len(tokens)
      valued == ListedOptions \cup OwnOptions(sub)
      none == [options |-> <<>>, operands |-> <<>>]
      from[i \in 1..(n + 2)] ==
        IF i > n THEN none
        ELSE IF tokens[i].word \in valued /\ i < n
        THEN [from[i + 2] EXCEPT !.options = <<<<tokens[i], tokens[i + 1]>>>> \o @]
        ELSE IF tokens[i].word \in Options
        THEN [from[i + 1] EXCEPT !.options = <<<<tokens[i]>>>> \o @]
        ELSE IF sub = "build" THEN [from[i + 1] EXCEPT !.operands = <<tokens[i]>> \o @]
        ELSE [none EXCEPT !.operands = SubSeq(tokens, i, n)]
  IN from[1]

\* Arguments that the validators read the way docker does: options of the
\* subcommand that are in their tables, no "--", and no volume option in the
\* command of a container.
PlainArguments ==
  /\ \A i \in DOMAIN raw.given :
       raw.given[i] \in Options => raw.given[i] \in ListedOptions \cup OwnOptions(raw.sub) \cup {Flag}
  /\ raw.sub = "create" =>
       \A i, j \in DOMAIN raw.given :
         i < j /\ raw.given[j] = VolumeOption =>
           raw.given[i] \in Options \/ (i > 1 /\ raw.given[i - 1] \in Options \ {Flag})

\* A docker command that is accepted means to docker what was written: the
\* same options with their values, the same image or context and the same
\* command, with every path of the host inside the workspace resolved and
\* nothing else changed (validateBuildArgs, validateCreateArgs, validateExecArgs).
ArgumentsKeepTheirMeaning ==
  LET written == DockerReads(raw.sub, [i \in DOMAIN raw.given |-> Given(raw.given[i])])
      ran == DockerReads(raw.sub, raw.run)
      built(o) == IF o[1].word = FileOption /\ Len(o) = 2 THEN <<o[1], Resolved(o[2].word)>> ELSE o
      created(o) == IF o[1].word = VolumeOption /\ Len(o) = 2 /\ o[2].word \in HostPaths
                    THEN <<o[1], Resolved(o[2].word)>> ELSE o
  IN raw.ok /\ PlainArguments =>
       CASE raw.sub = "build" ->
              /\ ran.options = [k \in DOMAIN written.options |-> built(written.options[k])]
              /\ ran.operands = [k \in DOMAIN written.operands |->
                                   Resolved(written.operands[k].word)]
              /\ ran.operands # <<>>
         [] raw.sub = "create" ->
              /\ ran.options = [k \in DOMAIN written.options |-> created(written.options[k])]
              /\ ran.operands = written.operands /\ ran.operands # <<>>
         [] raw.sub = "exec" -> Len(ran.operands) > 1
         [] OTHER -> ran = written

\* What docker_exec_tail says of a process id is true of the process last
\* started under it, and docker_exec_signal reaches that process: unless two
\* calls started the id at the same time or the container was restarted, the pid
\* file leads to it while it runs, and to nothing once it ended; the log is its
\* own (ExecBackground, ExecTail, ExecSignal).
ProcessIdNamesItsProcess ==
  \A i \in ProcessIds :
    LatestLaunch(i) # 0 /\ i \notin doubtful /\ ~Launching(i) /\ files[i].pid # 0 =>
      /\ ExecTail(i) = [output |-> LatestLaunch(i), running |-> Alive(LatestLaunch(i))]
      /\ ExecTail(i).running => procs[files[i].pid] = LatestLaunch(i)
===============================================================================
