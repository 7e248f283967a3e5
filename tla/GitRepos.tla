------------------------------- MODULE GitRepos -------------------------------
(***************************************************************************)
(* The git server and the git tools: internal/git, with                    *)
(* internal/agent/tools_git.go and cmd/git.go.  Bare repositories below    *)
(* one root are created, deleted and inspected directly on disk, and       *)
(* cloned and pushed to over ssh; every call of the git tool and every     *)
(* container first rewrites one shared known_hosts file.  What git itself  *)
(* does with a repository (an update of a branch is atomic and has to be a *)
(* fast forward) is external.  A commit is a number, a branch the sequence *)
(* of its commits.                                                         *)
(***************************************************************************)
EXTENDS Naturals, Sequences, FiniteSets, SequencesExt

CONSTANTS
  Callers,       \* tool calls and commands that may run at the same time
  Repos,         \* names of managed repositories
  NestedIn,      \* pairs of names <<inner, outer>>: "outer.git/inner"
  Clones,        \* directories of the workspace that repositories are cloned to
  Occupied,      \* the ones that have other files at the start
  Branches,      \* in the order of their names
  InitialHead,   \* the branch that HEAD of a new repository names
  MaxCommits, MaxGitCalls, MaxGitCrashes  \* bounds

ASSUME GitAssumption ==
  /\ Branches \in Seq(STRING) /\ InitialHead \in Range(Branches)
  /\ NestedIn \subseteq Repos \X Repos
  /\ MaxCommits \in Nat /\ MaxGitCalls \in Nat /\ MaxGitCrashes \in Nat

VARIABLES
  hosted,      \* the repositories on disk, and their branches
  copies,      \* the clones
  job,         \* what each call is doing
  knownHosts,  \* the file: "absent", "empty" or "whole"
  accepted,    \* commits of each branch that a push was told were stored
  commits, gitCalls, gitCrashes

gitVars == <<hosted, copies, job, knownHosts, accepted, commits, gitCalls, gitCrashes>>

BranchNames == Range(Branches)
NoBranches == [b \in BranchNames |-> <<>>]
NoRepo == [dir |-> "absent", branches |-> NoBranches]
NoClone == [state |-> "absent", of |-> "", branches |-> NoBranches, files |-> FALSE]
NoJob == [at |-> "idle", repo |-> "", clone |-> "", branch |-> "", seen |-> <<>>, steady |-> TRUE]
NoAccepted == [b \in BranchNames |-> {}]

GitInit ==
  /\ hosted = [r \in Repos |-> NoRepo]
  /\ copies = [w \in Clones |-> IF w \in Occupied
                               THEN [NoClone EXCEPT !.state = "files", !.files = TRUE] ELSE NoClone]
  /\ job = [c \in Callers |-> NoJob]
  /\ knownHosts = "absent"
  /\ accepted = [r \in Repos |-> NoAccepted]
  /\ commits = 0 /\ gitCalls = 0 /\ gitCrashes = 0

JobBegins(c, j) ==
  /\ job[c] = NoJob /\ gitCalls < MaxGitCalls
  /\ job' = [job EXCEPT ![c] = j]
  /\ gitCalls' = gitCalls + 1

JobGoes(c, at) == job' = [job EXCEPT ![c].at = at]
JobEnds(c) == job' = [job EXCEPT ![c] = NoJob]

\* Calls that read a repository see that it changed under them.
Disturbed(jobs, r) ==
  [c \in Callers |-> IF jobs[c] # NoJob /\ jobs[c].repo = r
                     THEN [jobs[c] EXCEPT !.steady = FALSE] ELSE jobs[c]]

-----------------------------------------------------------------------------
(* Managed repositories.                                                   *)

\* PlainInit refuses a directory that has a HEAD and writes HEAD first.
CreateBareRepo(c, r) ==
  /\ hosted[r].dir = "absent"
  /\ JobBegins(c, [NoJob EXCEPT !.at = "create", !.repo = r])
  /\ hosted' = [hosted EXCEPT ![r].dir = "partial"]
  /\ UNCHANGED <<copies, knownHosts, accepted, commits, gitCrashes>>

FinishRepo(c) ==
  /\ job[c].at = "create"
  /\ hosted' = [hosted EXCEPT ![job[c].repo].dir = IF @ = "partial" THEN "whole" ELSE @]
  /\ JobEnds(c)
  /\ UNCHANGED <<copies, knownHosts, accepted, commits, gitCalls, gitCrashes>>

\* isBareRepoDir: what is half created or half deleted is "not found".
DeleteBareRepo(c, r) ==
  /\ hosted[r].dir = "whole" /\ job[c] = NoJob /\ gitCalls < MaxGitCalls
  /\ job' = [Disturbed(job, r) EXCEPT ![c] = [NoJob EXCEPT !.at = "delete", !.repo = r]]
  /\ gitCalls' = gitCalls + 1
  /\ hosted' = [hosted EXCEPT ![r] = [dir |-> "partial", branches |-> NoBranches]]
  /\ accepted' = [accepted EXCEPT ![r] = NoAccepted]
  /\ UNCHANGED <<copies, knownHosts, commits, gitCrashes>>

\* A repository whose name begins with that of another one lies inside it.
FinishDelete(c) ==
  /\ job[c].at = "delete"
  /\ LET gone == {job[c].repo} \cup {r \in Repos : <<r, job[c].repo>> \in NestedIn}
     IN /\ hosted' = [r \in Repos |-> IF r \in gone THEN NoRepo ELSE hosted[r]]
        /\ accepted' = [r \in Repos |-> IF r \in gone THEN NoAccepted ELSE accepted[r]]
        /\ job' = [k \in Callers |->
             IF k = c THEN NoJob
             ELSE IF job[k].repo \in gone THEN [job[k] EXCEPT !.steady = FALSE] ELSE job[k]]
  /\ UNCHANGED <<copies, knownHosts, commits, gitCalls, gitCrashes>>

\* What ListRepos shows: it does not look inside a repository.
ShownRepos ==
  {r \in Repos : hosted[r].dir = "whole" /\
     \A outer \in Repos : <<r, outer>> \in NestedIn => hosted[outer].dir # "whole"}

Existing(branches) == {b \in BranchNames : branches[b] # <<>>}

\* Mutant: the branch that HEAD names, whether it is there or not.
HeadBranch(branches) == InitialHead

\* resolveRepoBranchName without a name: HEAD if its branch is there, else the
\* only branch, "main", "master", or the first by name.
ResolveRepoBranchName(branches) ==
  LET there == Existing(branches)
      places == {i \in DOMAIN Branches : Branches[i] \in there}
  IN IF InitialHead \in there \/ there = {} THEN InitialHead
     ELSE IF Cardinality(there) = 1 THEN CHOOSE b \in there : TRUE
     ELSE IF "main" \in there THEN "main"
     ELSE IF "master" \in there THEN "master"
     ELSE Branches[CHOOSE i \in places : \A j \in places : i <= j]

\* InspectRepoTree and ListRepoCommits: the branch is chosen, then its commit is
\* read; both are read from disk while others push and delete.
BeginInspect(c, r) ==
  /\ hosted[r].dir # "absent"
  /\ JobBegins(c, [NoJob EXCEPT !.at = "inspect", !.repo = r,
                                !.branch = ResolveRepoBranchName(hosted[r].branches)])
  /\ UNCHANGED <<hosted, copies, knownHosts, accepted, commits, gitCrashes>>

\* An answer without commits is the error "git repo has no commits".
ReadCommit(c) ==
  /\ job[c].at = "inspect"
  /\ job' = [job EXCEPT ![c].at = "answer", ![c].seen = hosted[job[c].repo].branches[job[c].branch]]
  /\ UNCHANGED <<hosted, copies, knownHosts, accepted, commits, gitCalls, gitCrashes>>

Answer(c) ==
  /\ job[c].at = "answer" /\ JobEnds(c)
  /\ UNCHANGED <<hosted, copies, knownHosts, accepted, commits, gitCalls, gitCrashes>>

-----------------------------------------------------------------------------
(* Clones.                                                                 *)

\* The server only looks whether the directory is there, then runs git on it.
Served(r) == hosted[r].dir = "whole"

\* CheckoutRepo: PlainClone refuses a directory that is a repository, but not
\* one that has files; the branches come over in one step.
CheckoutRepo(c, r, w) ==
  /\ Served(r) /\ copies[w].state # "repo"
  /\ LET empty == Existing(hosted[r].branches) = {}
     IN /\ JobBegins(c, [NoJob EXCEPT !.at = IF empty THEN "wipe" ELSE "cloned",
                                      !.repo = r, !.clone = w])
        /\ copies' = IF empty THEN copies
                     ELSE [copies EXCEPT ![w].state = "repo", ![w].of = r,
                                         ![w].branches = hosted[r].branches]
  /\ UNCHANGED <<hosted, knownHosts, accepted, commits, gitCrashes>>

\* initCheckoutForEmptyRemote: whatever is in the destination goes.
InitCheckoutForEmptyRemote(c) ==
  /\ job[c].at = "wipe"
  /\ copies' = [copies EXCEPT ![job[c].clone] =
                 [NoClone EXCEPT !.state = "repo", !.of = job[c].repo]]
  /\ JobEnds(c)
  /\ UNCHANGED <<hosted, knownHosts, accepted, commits, gitCalls, gitCrashes>>

CheckoutEnds(c) ==
  /\ job[c].at = "cloned" /\ JobEnds(c)
  /\ UNCHANGED <<hosted, copies, knownHosts, accepted, commits, gitCalls, gitCrashes>>

CommitRepo(w, b) ==
  /\ copies[w].state = "repo" /\ commits < MaxCommits
  /\ commits' = commits + 1
  /\ copies' = [copies EXCEPT ![w].branches[b] = Append(@, commits + 1)]
  /\ UNCHANGED <<hosted, job, knownHosts, accepted, gitCalls, gitCrashes>>

\* PushRepo: the branch is read, then sent.
PushRepo(c, w, b) ==
  /\ copies[w].state = "repo" /\ copies[w].branches[b] # <<>>
  /\ JobBegins(c, [NoJob EXCEPT !.at = "push", !.repo = copies[w].of, !.clone = w,
                                !.branch = b, !.seen = copies[w].branches[b]])
  /\ UNCHANGED <<hosted, copies, knownHosts, accepted, commits, gitCrashes>>

Stored(c) ==
  LET r == job[c].repo  b == job[c].branch
  IN /\ hosted' = [hosted EXCEPT ![r].branches[b] = job[c].seen]
     /\ accepted' = [accepted EXCEPT ![r][b] = @ \cup Range(job[c].seen)]
     /\ job' = [Disturbed(job, r) EXCEPT ![c] = NoJob]
     /\ UNCHANGED <<copies, knownHosts, commits, gitCalls, gitCrashes>>

\* Mutant: the refspec begins with "+".
ReceivePackForced(c) == job[c].at = "push" /\ Served(job[c].repo) /\ Stored(c)

\* The refspec of PushRepo has no "+": git takes a fast forward only.
ReceivePack(c) ==
  /\ job[c].at = "push" /\ Served(job[c].repo)
  /\ IsPrefix(hosted[job[c].repo].branches[job[c].branch], job[c].seen)
  /\ Stored(c)

PushFails(c) ==
  /\ job[c].at = "push"
  /\ ~Served(job[c].repo) \/ ~IsPrefix(hosted[job[c].repo].branches[job[c].branch], job[c].seen)
  /\ JobEnds(c)
  /\ UNCHANGED <<hosted, copies, knownHosts, accepted, commits, gitCalls, gitCrashes>>

-----------------------------------------------------------------------------
(* The git tool: git runs with GIT_SSH_COMMAND and the known_hosts file.   *)

\* Mutant: a file that is there is not written again.
EnsureKnownHostsOnce(c) ==
  /\ JobBegins(c, [NoJob EXCEPT !.at = IF knownHosts = "absent" THEN "hosts" ELSE "run"])
  /\ knownHosts' = IF knownHosts = "absent" THEN "empty" ELSE knownHosts
  /\ UNCHANGED <<hosted, copies, accepted, commits, gitCrashes>>

\* os.WriteFile empties the file and then writes it, for every call.
EnsureKnownHostsFile(c) ==
  /\ job[c] = NoJob /\ gitCalls < MaxGitCalls /\ gitCalls' = gitCalls + 1
  /\ job' = [k \in Callers |->
       IF k = c THEN [NoJob EXCEPT !.at = "hosts"]
       ELSE IF job[k].at = "run" THEN [job[k] EXCEPT !.steady = FALSE] ELSE job[k]]
  /\ knownHosts' = "empty"
  /\ UNCHANGED <<hosted, copies, accepted, commits, gitCrashes>>

WriteKnownHosts(c) ==
  /\ job[c].at = "hosts"
  /\ knownHosts' = "whole"
  /\ JobGoes(c, "run")
  /\ UNCHANGED <<hosted, copies, accepted, commits, gitCalls, gitCrashes>>

RunGit(c) ==
  /\ job[c].at = "run" /\ JobEnds(c)
  /\ UNCHANGED <<hosted, copies, knownHosts, accepted, commits, gitCalls, gitCrashes>>

\* The process ends between two steps of a call.
GitCrash(c) ==
  /\ job[c] # NoJob /\ gitCrashes < MaxGitCrashes
  /\ gitCrashes' = gitCrashes + 1
  /\ JobEnds(c)
  /\ UNCHANGED <<hosted, copies, knownHosts, accepted, commits, gitCalls>>

GitNext ==
  \E c \in Callers :
    \/ \E r \in Repos :
         \/ CreateBareRepo(c, r) \/ DeleteBareRepo(c, r) \/ BeginInspect(c, r)
         \/ \E w \in Clones : CheckoutRepo(c, r, w)
    \/ FinishRepo(c) \/ FinishDelete(c) \/ ReadCommit(c) \/ Answer(c)
    \/ InitCheckoutForEmptyRemote(c) \/ CheckoutEnds(c)
    \/ \E w \in Clones, b \in BranchNames : CommitRepo(w, b) \/ PushRepo(c, w, b)
    \/ ReceivePack(c) \/ PushFails(c)
    \/ EnsureKnownHostsFile(c) \/ WriteKnownHosts(c) \/ RunGit(c) \/ GitCrash(c)

GitSpec == GitInit /\ [][GitNext]_gitVars

-----------------------------------------------------------------------------
(* Properties.                                                             *)

GitTypeOK ==
  /\ \A r \in Repos : hosted[r].dir \in {"absent", "partial", "whole"}
  /\ \A w \in Clones : copies[w].state \in {"absent", "files", "repo"}
  /\ \A c \in Callers : job[c].at \in {"idle", "create", "delete", "inspect", "answer", "wipe",
                                        "cloned", "push", "hosts", "run"}
  /\ knownHosts \in {"absent", "empty", "whole"}
  /\ commits \in 0..MaxCommits /\ gitCalls \in 0..MaxGitCalls /\ gitCrashes \in 0..MaxGitCrashes

\* What a push was told is stored stays in the branch until somebody deletes
\* the repository, whoever pushes to it (PushRepo, handleSession).
AcceptedCommitsStay ==
  \A r \in Repos, b \in BranchNames : accepted[r][b] \subseteq Range(hosted[r].branches[b])

\* "git repo has no commits" is said of a repository only when it has none, or
\* when it changed under the call (resolveRepoBranchCommit).
EmptyMeansEmpty ==
  \A c \in Callers :
    job[c].at = "answer" /\ job[c].seen = <<>> /\ job[c].steady =>
      Existing(hosted[job[c].repo].branches) = {}

\* When git starts it finds the key of the server in known_hosts, unless some
\* call began to write the file after its own call had: a call that died while
\* it wrote before does not matter (EnsureKnownHostsFile).
KnownHostsAreThere ==
  \A c \in Callers : job[c].at = "run" /\ job[c].steady => knownHosts = "whole"
===============================================================================
