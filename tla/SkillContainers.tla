--------------------------- MODULE SkillContainers ---------------------------
(***************************************************************************)
(* The containers skill commands run in (src/internal/agent/skill_exec.go, *)
(* skill_runner.go, and the docker CLI wrapper of src/internal/docker).    *)
(* Every run of a workspace has a runtime of its own; the runtimes, which  *)
(* may be of several processes, share the docker daemon and the files      *)
(* under <workspace>/.nalvin-skill-runner: one lock for commands, and for  *)
(* every container a lock file and the leases of the runs that use it.     *)
(* A container is named for the set of skills mounted into it.  The last   *)
(* run to give its lease back removes the container, and the lock file.    *)
(* A command called from a shell script works on the script's snapshot of  *)
(* the workspace, which has locks and leases of its own.                   *)
(***************************************************************************)
EXTENDS Integers, FiniteSets

CONSTANTS
    Runtimes,     \* the runs of the workspace, each with its runtime
    ShellRuntimes,  \* those that call skill commands from shell scripts too
    Skills,       \* the skills that declare commands
    MaxFaults,    \* how often docker refuses or cannot be called, a run is
                  \* killed, or the operator runs cleanup-containers
    NoRuntime, Files  \* the workspace itself, as against a script's snapshot

ASSUME SkillContainersAssumption ==
    /\ MaxFaults \in Nat
    /\ ShellRuntimes \subseteq Runtimes
    /\ NoRuntime \notin Runtimes \cup Skills /\ Files \notin Runtimes

VARIABLES
    run,            \* [Runtimes -> Runtime]: where the run's command is
    containers,     \* [Names -> status of the container in docker]
    leases,         \* [Dirs -> [Names -> SUBSET Runtimes]]: the lease files
    lockFile,       \* [Dirs -> [Names -> Nat]]: the incarnation of the lock file
    commandHolder,  \* [Dirs -> who holds commands.lock]
    faults

containerVars == <<run, containers, leases, lockFile, commandHolder, faults>>

\* skillCommandsContainerName: a digest of the mounts.
Names == (SUBSET Skills) \ {{}}

\* Where .nalvin-skill-runner may be: runtime r's snapshot is r.
Dirs == {Files} \cup ShellRuntimes

\* The lease lock is held from the step after flock returns to the last of these.
Critical == {"list", "create", "start", "register", "check", "remove", "unlink"}

Steps == Critical \cup {"idle", "ensure", "lease", "setup", "exec",
                        "release", "unlease", "ended", "crashed"}

Runtime == [pc : Steps,
            skill : Skills \cup {NoRuntime},   \* whose command is executed
            name : SUBSET Skills,              \* the container at hand
            dir : Dirs,                        \* where its locks and leases are
            hint : Dirs,                       \* exec.workspaceHint
            opened : Nat,                      \* the lock file it opened
            cached : SUBSET Skills,            \* exec.container
            done : SUBSET Skills,              \* exec.setupCompleted
            held : SUBSET Names,               \* exec.containers
            active : SUBSET Skills]            \* active skills with commands

NewRuntime ==
    [pc |-> "idle", skill |-> NoRuntime, name |-> {}, dir |-> Files, hint |-> Files,
     opened |-> 0, cached |-> {}, done |-> {}, held |-> {}, active |-> {}]

ContainersInit ==
    /\ run = [r \in Runtimes |-> NewRuntime]
    /\ containers = [n \in Names |-> "absent"]
    /\ leases = [d \in Dirs |-> [n \in Names |-> {}]]
    /\ lockFile = [d \in Dirs |-> [n \in Names |-> 0]]
    /\ commandHolder = [d \in Dirs |-> NoRuntime]
    /\ faults = 0

----------------------------------------------------------------------------
Goto(r, pc) == run' = [run EXCEPT ![r].pc = pc]

\* runSkillCommand returns: its deferred unlocks run.
Return(r) ==
    /\ run' = [run EXCEPT ![r].pc = "idle", ![r].skill = NoRuntime, ![r].name = {},
                          ![r].dir = Files, ![r].opened = 0]
    /\ commandHolder' = [commandHolder EXCEPT ![run[r].dir] = NoRuntime]

\* The docker binary cannot be run, or the context has ended: err # nil.
\* An exit status other than 0 is a result with OK = FALSE and no error.
Fault == faults < MaxFaults /\ faults' = faults + 1

\* Mutant: the lease lock is not taken.
LockFreeAlways(r) == TRUE

\* flock excludes the holders of the same file, not of the same path.
LockFree(r) ==
    \A q \in Runtimes \ {r} :
        ~ /\ run[q].pc \in Critical
          /\ run[q].dir = run[r].dir /\ run[q].name = run[r].name
          /\ run[q].opened = run[r].opened

----------------------------------------------------------------------------
\* activate_skill: a skill with commands joins the run's mounts.
ActivateSkill(r, s) ==
    /\ run[r].pc = "idle" /\ s \notin run[r].active
    /\ run' = [run EXCEPT ![r].active = @ \cup {s}]
    /\ UNCHANGED <<containers, leases, lockFile, commandHolder, faults>>

\* A command tool of skill s: acquireSkillCommandLock, of the workspace or of
\* the snapshot.
RunSkillCommand(r, s) ==
    \E d \in Dirs \cap {Files, r} :
    /\ run[r].pc = "idle" /\ commandHolder[d] = NoRuntime
    /\ commandHolder' = [commandHolder EXCEPT ![d] = r]
    /\ run' = [run EXCEPT ![r].pc = "ensure", ![r].skill = s, ![r].dir = d]
    /\ UNCHANGED <<containers, leases, lockFile, faults>>

Needed(r) == run[r].active \cup {run[r].skill}

\* Mutant: a container that was made for an earlier command is good enough.
EnsureCached(r) ==
    /\ run[r].pc = "ensure"
    /\ IF run[r].cached # {}
       THEN run' = [run EXCEPT ![r].pc = "setup", ![r].name = run[r].cached]
       ELSE run' = [run EXCEPT ![r].pc = "lease", ![r].name = Needed(r),
                                ![r].opened = lockFile[run[r].dir][Needed(r)]]
    /\ UNCHANGED <<containers, leases, lockFile, commandHolder, faults>>

EnsureContainer(r) ==
    /\ run[r].pc = "ensure"
    /\ IF run[r].cached = Needed(r)
       THEN run' = [run EXCEPT ![r].pc = "setup", ![r].name = Needed(r)]
       ELSE run' = [run EXCEPT ![r].pc = "lease", ![r].name = Needed(r),
                                ![r].opened = lockFile[run[r].dir][Needed(r)]]
    /\ UNCHANGED <<containers, leases, lockFile, commandHolder, faults>>

LockLease(r) ==
    /\ run[r].pc = "lease" /\ LockFree(r)
    /\ Goto(r, "list")
    /\ UNCHANGED <<containers, leases, lockFile, commandHolder, faults>>

\* A refused listing is read as an empty one.
ListContainers(r) ==
    /\ run[r].pc = "list"
    /\ \/ Goto(r, CASE containers[run[r].name] = "running" -> "register"
                    [] containers[run[r].name] = "created" -> "start"
                    [] OTHER -> "create")
          /\ UNCHANGED <<faults, commandHolder>>
       \/ Fault /\ Goto(r, "create") /\ UNCHANGED commandHolder
       \/ Fault /\ Return(r)
    /\ UNCHANGED <<containers, leases, lockFile>>

\* Nobody looks at the exit status of create, start, stop and rm.
CreateContainer(r) ==
    LET n == run[r].name
    IN  /\ run[r].pc = "create"
        /\ \/ /\ containers' = [containers EXCEPT ![n] = IF @ = "absent" THEN "created" ELSE @]
              /\ Goto(r, "start") /\ UNCHANGED <<faults, commandHolder>>
           \/ Fault /\ Goto(r, "start") /\ UNCHANGED <<containers, commandHolder>>
           \/ Fault /\ Return(r) /\ UNCHANGED containers
        /\ UNCHANGED <<leases, lockFile>>

StartContainer(r) ==
    LET n == run[r].name
    IN  /\ run[r].pc = "start"
        /\ \/ /\ containers' = [containers EXCEPT ![n] = IF @ = "absent" THEN @ ELSE "running"]
              /\ Goto(r, "register") /\ UNCHANGED <<faults, commandHolder>>
           \/ Fault /\ Goto(r, "register") /\ UNCHANGED <<containers, commandHolder>>
           \/ Fault /\ Return(r) /\ UNCHANGED containers
        /\ UNCHANGED <<leases, lockFile>>

\* registerSkillContainerLeaseLocked, and the lease lock is released.
RegisterLease(r) ==
    LET n == run[r].name
    IN  /\ run[r].pc = "register"
        /\ leases' = [leases EXCEPT ![run[r].dir][n] = @ \cup {r}]
        /\ run' = [run EXCEPT ![r].pc = "setup", ![r].cached = n, ![r].held = @ \cup {n},
                              ![r].hint = run[r].dir]
        /\ UNCHANGED <<containers, lockFile, commandHolder, faults>>

\* runSkillSetupLocked, once for each skill and run: a step that exits with
\* another status than 0 fails the command, and the next command tries again.
RunSkillSetup(r) ==
    LET s == run[r].skill
    IN  /\ run[r].pc = "setup"
        /\ \/ /\ s \in run[r].done \/ containers[run[r].name] = "running"
              /\ run' = [run EXCEPT ![r].pc = "exec", ![r].done = @ \cup {s}]
              /\ UNCHANGED <<faults, commandHolder>>
           \/ s \notin run[r].done /\ Fault /\ Return(r)
           \/ /\ s \notin run[r].done /\ containers[run[r].name] # "running"
              /\ Return(r) /\ UNCHANGED faults
        /\ UNCHANGED <<containers, leases, lockFile>>

\* runner.Exec has returned, whatever it found.
ExecReturns(r) ==
    /\ run[r].pc = "exec" /\ Return(r)
    /\ UNCHANGED <<containers, leases, lockFile, faults>>

----------------------------------------------------------------------------
\* Mutant: only the container of the last command is given back.
TeardownLast(r) ==
    /\ run[r].pc = "idle"
    /\ run' = [run EXCEPT ![r].pc = IF run[r].cached = {} THEN "ended" ELSE "release",
                          ![r].held = @ \cap {run[r].cached}, ![r].cached = {}]
    /\ UNCHANGED <<containers, leases, lockFile, commandHolder, faults>>

\* teardownSkillContainers, when the run ends (agentRuntime.close).  It looks
\* for every lease where the last one was registered.
Teardown(r) ==
    /\ run[r].pc = "idle"
    /\ run' = [run EXCEPT ![r].pc = IF run[r].held = {} THEN "ended" ELSE "release",
                          ![r].cached = {}, ![r].active = {}, ![r].done = {}]
    /\ UNCHANGED <<containers, leases, lockFile, commandHolder, faults>>

\* releaseSkillContainerLease opens the lock file ...
OpenLease(r) ==
    /\ run[r].pc = "release"
    /\ \E n \in run[r].held :
          run' = [run EXCEPT ![r].pc = "unlease", ![r].name = n,
                                ![r].dir = run[r].hint, ![r].opened = lockFile[run[r].hint][n]]
    /\ UNCHANGED <<containers, leases, lockFile, commandHolder, faults>>

\* ... waits for the lock and removes the run's lease ...
RemoveLease(r) ==
    /\ run[r].pc = "unlease" /\ LockFree(r)
    /\ leases' = [leases EXCEPT ![run[r].dir][run[r].name] = @ \ {r}]
    /\ Goto(r, "check")
    /\ UNCHANGED <<containers, lockFile, commandHolder, faults>>

\* The next container of teardown's loop, or its end.
NextLease(r) ==
    LET left == run[r].held \ {run[r].name}
    IN  run' = [run EXCEPT ![r] = IF left = {}
                                  THEN [NewRuntime EXCEPT !.pc = "ended", !.hint = run[r].hint]
                                  ELSE [@ EXCEPT !.held = left, !.pc = "release"]]

\* ... reads the remaining ones ...
ReadLeases(r) ==
    /\ run[r].pc = "check"
    /\ IF leases[run[r].dir][run[r].name] = {} THEN Goto(r, "remove") ELSE NextLease(r)
    /\ UNCHANGED <<containers, leases, lockFile, commandHolder, faults>>

\* ... stops and removes the container, if docker does not refuse ...
RemoveContainer(r) ==
    /\ run[r].pc = "remove"
    /\ \/ /\ containers' = [containers EXCEPT ![run[r].name] = "absent"]
          /\ Goto(r, "unlink") /\ UNCHANGED faults
       \/ Fault /\ Goto(r, "unlink") /\ UNCHANGED containers
       \/ Fault /\ NextLease(r) /\ UNCHANGED containers
    /\ UNCHANGED <<leases, lockFile, commandHolder>>

\* ... and unlinks the lock file it holds: who opens the path next has another.
UnlinkLock(r) ==
    /\ run[r].pc = "unlink"
    /\ lockFile' = [lockFile EXCEPT ![run[r].dir][run[r].name] = @ + 1]
    /\ NextLease(r)
    /\ UNCHANGED <<containers, leases, commandHolder, faults>>

\* The process of the run is killed: its locks are released, its leases stay.
Crash(r) ==
    /\ run[r].pc \notin {"ended", "crashed"} /\ Fault
    /\ run' = [run EXCEPT ![r] = [NewRuntime EXCEPT !.pc = "crashed", !.hint = run[r].hint]]
    /\ commandHolder' = [d \in Dirs |-> IF commandHolder[d] = r THEN NoRuntime
                                        ELSE commandHolder[d]]
    /\ UNCHANGED <<containers, leases, lockFile>>

\* CleanupSkillContainers takes no lock and reads no lease.
Cleanup(n) ==
    /\ containers[n] # "absent" /\ Fault
    /\ containers' = [containers EXCEPT ![n] = "absent"]
    /\ UNCHANGED <<run, leases, lockFile, commandHolder>>

ContainersNext ==
    \/ \E r \in Runtimes :
          \/ \E s \in Skills : ActivateSkill(r, s) \/ RunSkillCommand(r, s)
          \/ EnsureContainer(r) \/ LockLease(r) \/ ListContainers(r)
          \/ CreateContainer(r) \/ StartContainer(r) \/ RegisterLease(r)
          \/ RunSkillSetup(r) \/ ExecReturns(r)
          \/ Teardown(r) \/ OpenLease(r) \/ RemoveLease(r) \/ ReadLeases(r)
          \/ RemoveContainer(r) \/ UnlinkLock(r) \/ Crash(r)
    \/ \E n \in Names : Cleanup(n)

ContainersSpec == ContainersInit /\ [][ContainersNext]_containerVars

----------------------------------------------------------------------------
\* The types of the runtimes' and the shared state.
ContainersTypeOK ==
    /\ run \in [Runtimes -> Runtime]
    /\ containers \in [Names -> {"absent", "created", "running"}]
    /\ leases \in [Dirs -> [Names -> SUBSET Runtimes]]
    /\ lockFile \in [Dirs -> [Names -> Nat]]
    /\ commandHolder \in [Dirs -> Runtimes \cup {NoRuntime}]
    /\ faults \in 0 .. MaxFaults

\* A command is executed in a container its skill and every active skill are
\* mounted into, although the container of an earlier command is cached and
\* the mounts change between commands; and one command of a directory is
\* executed at a time, whatever run it is of (skill_exec.go:82-110).
CommandRunsInItsMounts ==
    \A r \in Runtimes : run[r].pc \in {"setup", "exec"} =>
        /\ Needed(r) \subseteq run[r].name
        /\ \A q \in Runtimes \ {r} :
              run[q].dir = run[r].dir => run[q].pc \notin {"setup", "exec"}

\* A run that has ended has given back every lease it took, also those of the
\* containers its mounts have left behind, and also when docker failed
\* (skill_exec.go:308-335).  Only a run whose scripts call skill commands may
\* leave some: it looks for all of them where the last was registered, in the
\* workspace or in the script's snapshot.
EndedRunHoldsNoLease ==
    \A r \in Runtimes, d \in Dirs, n \in Names :
        run[r].pc = "ended" /\ r \in leases[d][n] => r \in ShellRuntimes /\ d # run[r].hint

\* Containers are used and left as the leases say.
ContainersAreOwned == CommandRunsInItsMounts /\ EndedRunHoldsNoLease

\* A run with a lease in its script's snapshot that will not look for it there:
\* it is going to give it back where it has none.
Astray(r) == r \in ShellRuntimes /\ run[r].hint # r /\ \E n \in Names : r \in leases[r][n]

\* The end of a run "removes containers only when this runtime is the last
\* lease holder" (skill_exec.go:308-310): at the step that removes it nobody
\* has a lease on the container in the directory where the run had its own,
\* though the lock file may have been replaced in between.  It says no more:
\* a script's snapshot keeps leases of the workspace's containers apart, and
\* who gives back a lease where it has none may hold a lock file that is gone.
LastHolderRemoves ==
    [][\A r \in Runtimes :
          /\ run[r].pc = "remove" /\ run'[r].pc = "unlink"
          /\ \A q \in Runtimes : ~Astray(q)
          => leases[run[r].dir][run[r].name] = {}]_containerVars
==============================================================================
