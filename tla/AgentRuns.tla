----------------------------- MODULE AgentRuns -----------------------------
(***************************************************************************)
(* The life of an agent run, from the request that submits a message to    *)
(* the status event that closes its turn.                                  *)
(*                                                                         *)
(* A run is a conversation: a row of agent_runs, with one row of           *)
(* agent_run_turns per user message and a log of agent_run_events.  Four   *)
(* kinds of program step on those rows, with nothing between them but the  *)
(* database:                                                               *)
(*   - clients prepare a turn and either queue it (the web handlers, the   *)
(*     CLI with --queue) or execute it themselves (attached: CLI, REPL);   *)
(*   - workers fetch the queued jobs and execute their turns;              *)
(*   - aborters ask a run to stop;                                         *)
(*   - a starting server aborts the runs it takes for stale.               *)
(*                                                                         *)
(* The database serialises statements, not operations, so an action is ONE *)
(* statement of an operation, with the computation around it.  An operation*)
(* keeps the rows it has read in local variables, and most of its writes   *)
(* put back every column of the row it read: the hazards all come from     *)
(* there.                                                                  *)
(*                                                                         *)
(* A turn is identified by its request (run id, client_request_id), which  *)
(* the UNIQUE index of agent_run_turns makes sound.  Event ids are counted *)
(* per run; the code compares them only within a run.                      *)
(***************************************************************************)
EXTENDS Naturals, Sequences, FiniteSets

CONSTANTS
  Clients,    \* handlers and CLI processes that submit messages
  Attached,   \* the clients that execute the turn they prepare
  Workers,    \* the queue's agent workers
  Aborters,   \* handlers of the abort endpoint
  Runs,       \* run ids
  Requests,   \* client_request_ids
  RunOf,      \* the run a request is addressed to
  Submits,    \* the requests each client may submit
  Impatient,  \* actors whose context may be cancelled: timeout, disconnect
  Mortal,     \* actors of the process that may crash and be restarted
  MaxStream,  \* bound: progress writes and chunks of one execution
  MaxCrashes, \* bound: crashes of the mortal process
  MaxBoots,   \* bound: starts of a server beside the one already running
  MaxAborts,  \* bound: calls of the abort endpoint
  None        \* an empty active_turn_id, and nobody

Actors == Clients \union Workers \union Aborters

\* A CLI client draws a fresh uuid as its request id: nobody shares it.
ASSUME ActorsAssumption ==
  /\ Clients \intersect Workers = {}
  /\ Clients \intersect Aborters = {}
  /\ Workers \intersect Aborters = {}
  /\ Attached \subseteq Clients
  /\ Impatient \subseteq Actors
  /\ Mortal \subseteq Actors

ASSUME RequestsAssumption ==
  /\ Runs # {}
  /\ RunOf \in [Requests -> Runs]
  /\ Submits \in [Clients -> SUBSET Requests]
  /\ \A c \in Attached, d \in Clients : c # d => Submits[c] \intersect Submits[d] = {}
  /\ None \notin Requests
  /\ None \notin Actors

ASSUME BoundsAssumption ==
  /\ MaxStream \in Nat
  /\ MaxCrashes \in Nat
  /\ MaxBoots \in Nat
  /\ MaxAborts \in Nat

VARIABLES
  runs,      \* the rows of agent_runs
  turns,     \* the rows of agent_run_turns
  events,    \* the rows of agent_run_events, per run
  jobs,      \* the queue's jobs, one per turn
  pc,        \* the next statement of each actor
  at,        \* the local variables of each actor
  answer,    \* what each client was told of each of its requests
  cleaning,  \* a starting server has yet to abort the stale runs
  crashes, boots, aborts

db == <<runs, turns, events, jobs>>
vars == <<runs, turns, events, jobs, pc, at, answer, cleaning,
          crashes, boots, aborts>>

-----------------------------------------------------------------------------
(* Rows and local variables.                                               *)

Terminal == {"completed", "failed", "aborted"}
Live == {"queued", "running"}
Statuses == Live \union Terminal

\* trace abstracts the stored conversation to the requests whose user
\* message is in it; last is last_event_id, cancel is cancel_requested_at.
RunRow == [status : Statuses \union {"absent"}, active : Requests \union {None},
           cancel : BOOLEAN, last : Nat, trace : SUBSET Requests]

NoRun == [status |-> "absent", active |-> None, cancel |-> FALSE,
          last |-> 0, trace |-> {}]

\* job says whether queue_job_id is set.
TurnRow == [status : Statuses \union {"absent"}, job : BOOLEAN]

NoTurn == [status |-> "absent", job |-> FALSE]

EventRow == [req : Requests,
             kind : {"queued", "started", "trace_chunk", "status"}]

JobStates == {"none", "available", "running", "completed", "discarded"}
Answers == {"none", "accepted", "duplicate", "busy", "error", "ran", "lost"}

Local == [req : Requests \union {None}, run : Runs, row : RunRow, turn : TurnRow,
          known : BOOLEAN, skipped : BOOLEAN, want : Statuses,
          mem : SUBSET Requests, left : 0..MaxStream,
          err : BOOLEAN, cancelled : BOOLEAN]

NewLocal(q, r) ==
  [req |-> q, run |-> r, row |-> NoRun, turn |-> NoTurn,
   known |-> FALSE, skipped |-> FALSE, want |-> "running",
   mem |-> {}, left |-> MaxStream, err |-> FALSE, cancelled |-> FALSE]

Blank == NewLocal(None, CHOOSE r \in Runs : TRUE)

PreparePCs == {"load", "lookup", "create", "reload", "insert", "activate", "prepared"}
QueuePCs == {"enqueue", "markturn", "markrun", "emitqueued"}
\* ExecuteTurn before the executor is called and after it has returned
StartPCs == {"getturn", "getrun", "setturn", "setrun", "started"}
AgentPCs == {"exec", "readmeta", "writemeta", "initial", "stream", "finish"}
FinishPCs == {"execdone", "finalrun", "finalreload", "finalturn", "finalrow", "emitstatus"}
AbortTurnPCs == {"abturn", "abrow", "abemit"}
AbortRunPCs == {"abget", "abreq", "abcheck", "abdirect", "abgetturn"}
PCs == {"idle", "dead"} \union PreparePCs \union QueuePCs \union StartPCs
         \union AgentPCs \union FinishPCs \union AbortTurnPCs \union AbortRunPCs

ExecutePCs == StartPCs \union AgentPCs \union FinishPCs \union AbortTurnPCs

\* a executes the turn of request q
Executes(a, q) == a \notin Aborters /\ pc[a] \in ExecutePCs /\ at[a].req = q

Init ==
  /\ runs = [r \in Runs |-> NoRun]
  /\ turns = [q \in Requests |-> NoTurn]
  /\ events = [r \in Runs |-> <<>>]
  /\ jobs = [q \in Requests |-> "none"]
  /\ pc = [a \in Actors |-> "idle"]
  /\ at = [a \in Actors |-> Blank]
  /\ answer = [c \in Clients |-> [q \in Requests |-> "none"]]
  /\ cleaning = FALSE
  /\ crashes = 0
  /\ boots = 0
  /\ aborts = 0

-----------------------------------------------------------------------------
(* Steps that several operations share.                                    *)

Go(a, from, to) == pc[a] = from /\ pc' = [pc EXCEPT ![a] = to]

Begin(a, first, q, r) ==
  /\ Go(a, "idle", first)
  /\ at' = [at EXCEPT ![a] = NewLocal(q, r)]

\* The operation of a returns: a client learns the result, a worker's job
\* takes its final state.  MaxAttempts is 1, so an error discards the job.
Return(a, result, outcome) ==
  /\ pc' = [pc EXCEPT ![a] = "idle"]
  /\ at' = [at EXCEPT ![a] = Blank]
  /\ answer' = IF a \in Clients THEN [answer EXCEPT ![a][at[a].req] = result]
                                ELSE answer
  /\ jobs' = IF a \in Workers THEN [jobs EXCEPT ![at[a].req] = outcome] ELSE jobs

Run(a) == runs[at[a].run]

\* store.GetAgentRun into the local copy of the row
ReadRun(a) == at' = [at EXCEPT ![a].row = Run(a)]

\* store.UpdateAgentRun with every other column taken from the local copy
WriteRun(a, status, active) ==
  runs' = [runs EXCEPT ![at[a].run] =
             [at[a].row EXCEPT !.status = status, !.active = active, !.cancel = FALSE]]

\* store.UpdateAgentRunTurn: queue_job_id comes from the local copy too
WriteTurn(a, status) ==
  turns' = [turns EXCEPT ![at[a].req] = [status |-> status, job |-> at[a].turn.job]]

\* Mutant: only the event is inserted.
EmitAlone(a, kind) ==
  LET r == RunOf[at[a].req] IN
    /\ events' = [events EXCEPT ![r] = Append(@, [req |-> at[a].req, kind |-> kind])]
    /\ runs' = runs

\* Service.emit: the event and the run's last_event_id, in one transaction
Emit(a, kind) ==
  LET r == RunOf[at[a].req] IN
    /\ events' = [events EXCEPT ![r] = Append(@, [req |-> at[a].req, kind |-> kind])]
    /\ runs' = [runs EXCEPT ![r].last = Len(events[r]) + 1]

environment == <<cleaning, crashes, boots, aborts>>

-----------------------------------------------------------------------------
(* Service.prepareTurn                                                     *)

\* A client whose request got no answer may send it again; an attached one
\* would draw a new id.
Submit(c, q) ==
  /\ q \in Submits[c]
  /\ answer[c][q] = "none" \/ (answer[c][q] = "lost" /\ c \notin Attached)
  /\ Begin(c, "load", q, RunOf[q])
  /\ UNCHANGED <<db, answer, environment>>

LoadRun(c) ==
  /\ Go(c, "load", IF Run(c).status = "absent" THEN "create" ELSE "lookup")
  /\ ReadRun(c)
  /\ UNCHANGED <<db, answer, environment>>

\* Mutant: the mode itself is stored as the status.
StoredMode(c) == IF c \in Attached THEN "attached" ELSE "queued"

ModeStatus(c) == IF c \in Attached THEN "running" ELSE "queued"

\* The turn exists already: the prepared turn is the row found and the run
\* as it was loaded.  With a job it is answered as a duplicate at once.
FoundTurn(c) ==
  /\ pc[c] = "lookup"
  /\ turns[at[c].req].status # "absent"
  /\ IF turns[at[c].req].job
       THEN Return(c, "duplicate", "none")
       ELSE /\ pc' = [pc EXCEPT ![c] = IF c \in Attached THEN "getturn" ELSE "enqueue"]
            /\ at' = [at EXCEPT ![c].turn = turns[at[c].req], ![c].known = TRUE]
            /\ UNCHANGED <<jobs, answer>>
  /\ UNCHANGED <<runs, turns, events, environment>>

IsBusy(row) == row.status \in Live \/ row.active # None

RefuseBusy(c) ==
  /\ pc[c] = "lookup"
  /\ turns[at[c].req].status = "absent"
  /\ IsBusy(at[c].row)
  /\ Return(c, "busy", "none")
  /\ UNCHANGED <<runs, turns, events, environment>>

NoTurnYet(c) ==
  /\ Go(c, "lookup", "insert")
  /\ turns[at[c].req].status = "absent"
  /\ ~IsBusy(at[c].row)
  /\ UNCHANGED <<db, at, answer, environment>>

\* Two creators of the same run: the primary key refuses the second.
CreateRun(c) ==
  \/ /\ Go(c, "create", "reload")
     /\ Run(c).status = "absent"
     /\ runs' = [runs EXCEPT ![at[c].run] = [NoRun EXCEPT !.status = ModeStatus(c)]]
     /\ UNCHANGED <<turns, events, jobs, at, answer, environment>>
  \/ /\ pc[c] = "create"
     /\ Run(c).status # "absent"
     /\ Return(c, "error", "none")
     /\ UNCHANGED <<runs, turns, events, environment>>

ReloadRun(c) ==
  /\ Go(c, "reload", "insert")
  /\ ReadRun(c)
  /\ UNCHANGED <<db, answer, environment>>

\* Two creators of the same turn: the UNIQUE index refuses the second.
CreateTurn(c) ==
  LET row == [status |-> ModeStatus(c), job |-> FALSE] IN
  \/ /\ Go(c, "insert", "activate")
     /\ turns[at[c].req].status = "absent"
     /\ turns' = [turns EXCEPT ![at[c].req] = row]
     /\ at' = [at EXCEPT ![c].turn = row]
     /\ UNCHANGED <<runs, events, jobs, answer, environment>>
  \/ /\ pc[c] = "insert"
     /\ turns[at[c].req].status # "absent"
     /\ Return(c, "error", "none")
     /\ UNCHANGED <<runs, turns, events, environment>>

ActivateTurn(c) ==
  /\ Go(c, "activate", "prepared")
  /\ WriteRun(c, ModeStatus(c), at[c].req)
  /\ UNCHANGED <<turns, events, jobs, at, answer, environment>>

Prepared(c) ==
  /\ Go(c, "prepared", IF c \in Attached THEN "getturn" ELSE "enqueue")
  /\ ReadRun(c)
  /\ UNCHANGED <<db, answer, environment>>

-----------------------------------------------------------------------------
(* EnqueueAgentRun and Service.MarkTurnQueued                              *)

\* Mutant: the job has no UniqueOpts.
EnqueueAgain(c) ==
  /\ Go(c, "enqueue", "markturn")
  /\ jobs' = [jobs EXCEPT ![at[c].req] = "available"]
  /\ UNCHANGED <<runs, turns, events, at, answer, environment>>

\* The job is unique by its turn id in every state but discarded.
EnqueueAgentRun(c) ==
  LET fresh == jobs[at[c].req] \in {"none", "discarded"} IN
    /\ Go(c, "enqueue", "markturn")
    /\ jobs' = IF fresh THEN [jobs EXCEPT ![at[c].req] = "available"] ELSE jobs
    /\ at' = [at EXCEPT ![c].skipped = ~fresh]
    /\ UNCHANGED <<runs, turns, events, answer, environment>>

MarkTurn(c) ==
  /\ Go(c, "markturn", "markrun")
  /\ turns' = [turns EXCEPT ![at[c].req] = [status |-> "queued", job |-> TRUE]]
  /\ UNCHANGED <<runs, events, jobs, at, answer, environment>>

MarkRun(c) ==
  /\ Go(c, "markrun", "emitqueued")
  /\ WriteRun(c, "queued", at[c].req)
  /\ UNCHANGED <<turns, events, jobs, at, answer, environment>>

\* Mutant: duplicates are not told apart.
AcceptAlways(c) ==
  /\ pc[c] = "emitqueued"
  /\ Emit(c, "queued")
  /\ Return(c, "accepted", "none")
  /\ UNCHANGED <<turns, environment>>

EmitQueued(c) ==
  /\ pc[c] = "emitqueued"
  /\ Emit(c, "queued")
  /\ Return(c, IF at[c].known \/ at[c].skipped THEN "duplicate" ELSE "accepted", "none")
  /\ UNCHANGED <<turns, environment>>

-----------------------------------------------------------------------------
(* AgentRunWorker.Work and Service.ExecuteTurn                             *)

\* The queue hands a job to one worker.
Fetch(w, q) ==
  /\ jobs[q] = "available"
  /\ Begin(w, "getturn", q, RunOf[q])
  /\ jobs' = [jobs EXCEPT ![q] = "running"]
  /\ UNCHANGED <<runs, turns, events, answer, environment>>

GetTurn(a) ==
  /\ Go(a, "getturn", "getrun")
  /\ at' = [at EXCEPT ![a].turn = turns[at[a].req]]
  /\ UNCHANGED <<db, answer, environment>>

\* Mutant: only a completed turn counts as finished.
GetRunOfAborted(a) ==
  /\ pc[a] = "getrun"
  /\ IF at[a].turn.status = "completed"
       THEN Return(a, "ran", "completed")
       ELSE /\ pc' = [pc EXCEPT ![a] = IF Run(a).cancel THEN "abturn" ELSE "setturn"]
            /\ ReadRun(a)
            /\ UNCHANGED <<jobs, answer>>
  /\ UNCHANGED <<runs, turns, events, environment>>

\* A finished turn is not executed again; a cancelled run aborts its turn.
GetRun(a) ==
  /\ pc[a] = "getrun"
  /\ IF at[a].turn.status \in {"completed", "aborted"}
       THEN Return(a, "ran", "completed")
       ELSE /\ pc' = [pc EXCEPT ![a] = IF Run(a).cancel THEN "abturn" ELSE "setturn"]
            /\ ReadRun(a)
            /\ UNCHANGED <<jobs, answer>>
  /\ UNCHANGED <<runs, turns, events, environment>>

SetTurn(a) ==
  /\ Go(a, "setturn", "setrun")
  /\ WriteTurn(a, "running")
  /\ UNCHANGED <<runs, events, jobs, at, answer, environment>>

SetRun(a) ==
  /\ Go(a, "setrun", "started")
  /\ WriteRun(a, "running", at[a].req)
  /\ UNCHANGED <<turns, events, jobs, at, answer, environment>>

EmitStarted(a) ==
  /\ Go(a, "started", "exec")
  /\ Emit(a, "started")
  /\ UNCHANGED <<turns, jobs, at, answer, environment>>

\* watchForAbort polls the row until ExecuteTurn returns; nothing looks at
\* the context any more once the run is finalized.
WatchedPCs == AgentPCs \union {"execdone", "finalrun"}

WatchForAbort(a) ==
  /\ pc[a] \in WatchedPCs
  /\ Run(a).cancel
  /\ ~at[a].cancelled
  /\ at' = [at EXCEPT ![a].cancelled = TRUE]
  /\ UNCHANGED <<db, pc, answer, environment>>

-----------------------------------------------------------------------------
(* agent.Run                                                               *)

\* Mutant: the stored conversation is not read back.
StartConversation(a) ==
  /\ pc[a] = "exec"
  /\ pc' = [pc EXCEPT ![a] = "readmeta"]
  /\ at' = [at EXCEPT ![a].mem = {at[a].req}]
  /\ UNCHANGED <<db, answer, environment>>

\* Load the conversation and add the turn's message to it, or fail (no such
\* provider, an unreadable skill) before anything is written.
LoadConversation(a) ==
  /\ pc[a] = "exec"
  /\ \E ok \in {TRUE, FALSE} :
       /\ at[a].cancelled => ~ok
       /\ pc' = [pc EXCEPT ![a] = IF ok THEN "readmeta" ELSE "execdone"]
       /\ at' = [at EXCEPT ![a].mem = IF ok THEN Run(a).trace \union {at[a].req} ELSE @,
                           ![a].err = ~ok]
  /\ UNCHANGED <<db, answer, environment>>

\* UpdateAgentRun with PreserveRuntimeMeta is a read and then a write.
ReadMeta(a) ==
  /\ Go(a, "readmeta", "writemeta")
  /\ ReadRun(a)
  /\ UNCHANGED <<db, answer, environment>>

\* The first write and the completed one use the turn's context; the writes
\* in between, and those of a failed or aborted run, do not.
WriteMeta(a) ==
  LET first == at[a].want = "running" /\ at[a].left = MaxStream
      refused == at[a].cancelled /\ (first \/ at[a].want = "completed") IN
  /\ pc[a] = "writemeta"
  /\ IF refused
       THEN /\ pc' = [pc EXCEPT ![a] = "execdone"]
            /\ at' = [at EXCEPT ![a].err = TRUE]
            /\ runs' = runs
       ELSE /\ pc' = [pc EXCEPT ![a] = IF first THEN "initial"
                                      ELSE IF at[a].want = "running" THEN "stream"
                                      ELSE "finish"]
            /\ at' = at
            /\ runs' = [runs EXCEPT ![at[a].run] =
                          [at[a].row EXCEPT !.status = at[a].want, !.trace = at[a].mem]]
  /\ UNCHANGED <<turns, events, jobs, answer, environment>>

\* initialChunk: its error returns without a further write of the run.
InitialChunk(a) ==
  /\ Go(a, "initial", IF at[a].cancelled THEN "execdone" ELSE "stream")
  /\ at' = [at EXCEPT ![a].err = at[a].cancelled]
  /\ IF at[a].cancelled THEN UNCHANGED <<runs, events>> ELSE Emit(a, "trace_chunk")
  /\ UNCHANGED <<turns, jobs, answer, environment>>

StreamChunk(a) ==
  /\ pc[a] = "stream"
  /\ at[a].left > 0
  /\ ~at[a].cancelled
  /\ at' = [at EXCEPT ![a].left = @ - 1]
  /\ Emit(a, "trace_chunk")
  /\ UNCHANGED <<turns, jobs, pc, answer, environment>>

PersistProgress(a) ==
  /\ at[a].left > 0
  /\ Go(a, "stream", "readmeta")
  /\ at' = [at EXCEPT ![a].left = @ - 1]
  /\ UNCHANGED <<db, answer, environment>>

\* The model stops, or the stream fails: an error under a cancelled context
\* is an abort.
EndStream(a) ==
  /\ Go(a, "stream", "readmeta")
  /\ \E want \in {"completed", IF at[a].cancelled THEN "aborted" ELSE "failed"} :
       at' = [at EXCEPT ![a].want = want]
  /\ UNCHANGED <<db, answer, environment>>

\* finishChunk: an error of emit fails a completed run, and only that.
FinishChunk(a) ==
  /\ Go(a, "finish", "execdone")
  /\ at' = [at EXCEPT ![a].err = at[a].want # "completed" \/ at[a].cancelled]
  /\ IF at[a].cancelled THEN UNCHANGED <<runs, events>> ELSE Emit(a, "trace_chunk")
  /\ UNCHANGED <<turns, jobs, answer, environment>>

-----------------------------------------------------------------------------
(* Service.ExecuteTurn, after the executor has returned: this part uses a  *)
(* background context.                                                     *)

\* Mutant: an error of the executor is returned at once.
ReturnError(a) ==
  /\ pc[a] = "execdone"
  /\ IF at[a].err
       THEN Return(a, "lost", "discarded")
       ELSE /\ pc' = [pc EXCEPT ![a] = "finalturn"]
            /\ ReadRun(a)
            /\ UNCHANGED <<jobs, answer>>
  /\ UNCHANGED <<runs, turns, events, environment>>

GetFinished(a) ==
  /\ Go(a, "execdone", IF at[a].err /\ Run(a).status \in Live THEN "finalrun" ELSE "finalturn")
  /\ ReadRun(a)
  /\ UNCHANGED <<db, answer, environment>>

FinalizeRun(a) ==
  /\ Go(a, "finalrun", "finalreload")
  /\ WriteRun(a, IF at[a].cancelled THEN "aborted" ELSE "failed", None)
  /\ UNCHANGED <<turns, events, jobs, at, answer, environment>>

ReloadFinal(a) ==
  /\ Go(a, "finalreload", "finalturn")
  /\ ReadRun(a)
  /\ UNCHANGED <<db, answer, environment>>

\* finalizeTurn: the turn takes the run's status, failed unless terminal.
FinalizeTurn(a) ==
  /\ Go(a, "finalturn", "finalrow")
  /\ WriteTurn(a, IF at[a].row.status \in Terminal THEN at[a].row.status ELSE "failed")
  /\ UNCHANGED <<runs, events, jobs, at, answer, environment>>

\* Mutant: the turn stays the run's active one.
KeepActive(a) ==
  /\ Go(a, "finalrow", "emitstatus")
  /\ WriteRun(a, at[a].row.status, at[a].req)
  /\ UNCHANGED <<turns, events, jobs, at, answer, environment>>

FinalizeRow(a) ==
  /\ Go(a, "finalrow", "emitstatus")
  /\ WriteRun(a, at[a].row.status, None)
  /\ UNCHANGED <<turns, events, jobs, at, answer, environment>>

\* Mutant: a status is announced only if the run has ended.
EmitTerminal(a) ==
  /\ pc[a] = "emitstatus"
  /\ IF Run(a).status \in Terminal THEN Emit(a, "status") ELSE UNCHANGED <<runs, events>>
  /\ Return(a, "ran", "completed")
  /\ UNCHANGED <<turns, environment>>

EmitStatus(a) ==
  /\ pc[a] = "emitstatus"
  /\ Emit(a, "status")
  /\ Return(a, "ran", "completed")
  /\ UNCHANGED <<turns, environment>>

-----------------------------------------------------------------------------
(* Service.abortTurn and Service.AbortRun                                  *)

AbortTurn(a) ==
  /\ Go(a, "abturn", "abrow")
  /\ WriteTurn(a, "aborted")
  /\ UNCHANGED <<runs, events, jobs, at, answer, environment>>

AbortRow(a) ==
  /\ Go(a, "abrow", "abemit")
  /\ WriteRun(a, "aborted", None)
  /\ UNCHANGED <<turns, events, jobs, at, answer, environment>>

EmitAborted(a) ==
  /\ pc[a] = "abemit"
  /\ Emit(a, "status")
  /\ Return(a, "ran", "completed")
  /\ UNCHANGED <<turns, environment>>

AbortRun(a, r) ==
  /\ aborts < MaxAborts
  /\ aborts' = aborts + 1
  /\ runs[r].status # "absent"
  /\ Begin(a, "abget", None, r)
  /\ UNCHANGED <<db, answer, cleaning, crashes, boots>>

\* A run that has ended is returned as it is.
CheckRun(a) ==
  /\ pc[a] = "abget"
  /\ IF Run(a).status \in Terminal
       THEN Return(a, "ran", "completed")
       ELSE /\ pc' = [pc EXCEPT ![a] = "abreq"]
            /\ UNCHANGED <<jobs, at, answer>>
  /\ UNCHANGED <<runs, turns, events, environment>>

RequestAbort(a) ==
  /\ Go(a, "abreq", "abcheck")
  /\ runs' = [runs EXCEPT ![at[a].run].cancel = TRUE]
  /\ UNCHANGED <<turns, events, jobs, at, answer, environment>>

\* Only a queued run is aborted here; a running one is left to its watcher.
RecheckRun(a) ==
  /\ pc[a] = "abcheck"
  /\ IF Run(a).status # "queued"
       THEN Return(a, "ran", "completed")
       ELSE /\ pc' = [pc EXCEPT ![a] = IF Run(a).active = None THEN "abdirect"
                                                               ELSE "abgetturn"]
            /\ at' = [at EXCEPT ![a].row = Run(a), ![a].req = Run(a).active]
            /\ UNCHANGED <<jobs, answer>>
  /\ UNCHANGED <<runs, turns, events, environment>>

AbortIdleRun(a) ==
  /\ pc[a] = "abdirect"
  /\ WriteRun(a, "aborted", None)
  /\ Return(a, "ran", "completed")
  /\ UNCHANGED <<turns, events, environment>>

GetActiveTurn(a) ==
  /\ Go(a, "abgetturn", "abturn")
  /\ at' = [at EXCEPT ![a].turn = turns[at[a].req]]
  /\ UNCHANGED <<db, answer, environment>>

-----------------------------------------------------------------------------
(* Cancelled contexts, crashes, and the cleanup of a starting server.      *)

\* A handler's client disconnects, a job times out, a CLI is interrupted:
\* the next statement of the operation fails and the operation with it.
GiveUp(a) ==
  /\ a \in Impatient
  /\ pc[a] \in PreparePCs \union QueuePCs \union StartPCs
                \union AbortTurnPCs \union AbortRunPCs
  /\ Return(a, "lost", "discarded")
  /\ UNCHANGED <<runs, turns, events, environment>>

ContextDone(a) ==
  /\ a \in Impatient
  /\ pc[a] \in WatchedPCs
  /\ ~at[a].cancelled
  /\ at' = [at EXCEPT ![a].cancelled = TRUE]
  /\ UNCHANGED <<db, pc, answer, environment>>

Crash ==
  /\ crashes < MaxCrashes
  /\ \E a \in Mortal : pc[a] \notin {"idle", "dead"}
  /\ crashes' = crashes + 1
  /\ pc' = [a \in Actors |-> IF a \in Mortal THEN "dead" ELSE pc[a]]
  /\ at' = [a \in Actors |-> IF a \in Mortal THEN Blank ELSE at[a]]
  /\ answer' = [c \in Clients |-> [q \in Requests |->
                  IF c \in Mortal /\ pc[c] # "idle" /\ at[c].req = q THEN "lost"
                  ELSE answer[c][q]]]
  /\ UNCHANGED <<db, cleaning, boots, aborts>>

\* Mutant: a restart leaves the running runs as they are.
RestartOnly ==
  /\ \E a \in Mortal : pc[a] = "dead"
  /\ pc' = [a \in Actors |-> IF a \in Mortal THEN "idle" ELSE pc[a]]
  /\ UNCHANGED <<db, at, answer, environment>>

\* Workers start before the stale runs are aborted.
Restart ==
  /\ \E a \in Mortal : pc[a] = "dead"
  /\ pc' = [a \in Actors |-> IF a \in Mortal THEN "idle" ELSE pc[a]]
  /\ cleaning' = (cleaning \/ Mortal \intersect Workers # {})
  /\ UNCHANGED <<db, at, answer, crashes, boots, aborts>>

\* A second server of the workspace starts beside the first.
StartServer ==
  /\ boots < MaxBoots
  /\ boots' = boots + 1
  /\ cleaning' = TRUE
  /\ UNCHANGED <<db, pc, at, answer, crashes, aborts>>

\* The turn a stale run's event names: its active turn, or its latest one,
\* here any of them; none if it has no turn, and then there is no event.
EventTurn(r, q) ==
  \/ q = runs[r].active /\ q # None
  \/ /\ runs[r].active = None
     /\ \/ q \in Requests /\ RunOf[q] = r /\ turns[q].status # "absent"
        \/ /\ q = None
           /\ \A p \in Requests : RunOf[p] = r => turns[p].status = "absent"

\* store.MarkStaleRunningAgentRunsAborted, one transaction.  It ends early
\* when no run is running: a turn left running beside such a run stays.
MarkStaleAborted ==
  LET Stale == {r \in Runs : runs[r].status = "running"} IN
  /\ cleaning
  /\ \A a \in Mortal : pc[a] # "dead"
  /\ cleaning' = FALSE
  /\ \E named \in [Runs -> Requests \union {None}] :
       /\ \A r \in Runs : IF r \in Stale THEN EventTurn(r, named[r]) ELSE named[r] = None
       /\ events' = [r \in Runs |->
                       IF named[r] = None THEN events[r]
                       ELSE Append(events[r], [req |-> named[r], kind |-> "status"])]
       /\ runs' = [r \in Runs |->
                     IF r \notin Stale THEN runs[r]
                     ELSE [runs[r] EXCEPT !.status = "aborted", !.active = None,
                             !.last = IF named[r] = None THEN @ ELSE Len(events[r]) + 1]]
  /\ turns' = [q \in Requests |-> IF Stale # {} /\ turns[q].status = "running"
                                     THEN [turns[q] EXCEPT !.status = "aborted"]
                                     ELSE turns[q]]
  /\ UNCHANGED <<jobs, pc, at, answer, crashes, boots, aborts>>

\* The queue discards a running job whose worker is gone.
Rescue(q) ==
  /\ jobs[q] = "running"
  /\ \A w \in Workers : pc[w] # "dead" /\ ~Executes(w, q)
  /\ jobs' = [jobs EXCEPT ![q] = "discarded"]
  /\ UNCHANGED <<runs, turns, events, pc, at, answer, environment>>

-----------------------------------------------------------------------------
(* The specification.                                                      *)

PrepareStep(c) ==
  \/ LoadRun(c) \/ FoundTurn(c) \/ RefuseBusy(c) \/ NoTurnYet(c) \/ CreateRun(c)
  \/ ReloadRun(c) \/ CreateTurn(c) \/ ActivateTurn(c) \/ Prepared(c)

QueueStep(c) ==
  \/ EnqueueAgentRun(c) \/ MarkTurn(c) \/ MarkRun(c) \/ EmitQueued(c)

ExecuteStep(a) ==
  \/ GetTurn(a) \/ GetRun(a) \/ SetTurn(a) \/ SetRun(a) \/ EmitStarted(a)
  \/ GetFinished(a) \/ FinalizeRun(a) \/ ReloadFinal(a) \/ FinalizeTurn(a)
  \/ FinalizeRow(a) \/ EmitStatus(a)

AgentStep(a) ==
  \/ LoadConversation(a) \/ ReadMeta(a) \/ WriteMeta(a) \/ InitialChunk(a)
  \/ StreamChunk(a) \/ PersistProgress(a) \/ EndStream(a) \/ FinishChunk(a)

AbortTurnStep(a) == AbortTurn(a) \/ AbortRow(a) \/ EmitAborted(a)

AbortRunStep(a) ==
  \/ CheckRun(a) \/ RequestAbort(a) \/ RecheckRun(a) \/ AbortIdleRun(a)
  \/ GetActiveTurn(a)

\* The statements of an operation that has begun
Step(a) ==
  \/ a \in Clients /\ (PrepareStep(a) \/ QueueStep(a))
  \/ a \in Clients \union Workers /\ (ExecuteStep(a) \/ AgentStep(a) \/ WatchForAbort(a))
  \/ AbortTurnStep(a)
  \/ a \in Aborters /\ AbortRunStep(a)

Next ==
  \/ \E a \in Actors : Step(a) \/ GiveUp(a) \/ ContextDone(a)
  \/ \E c \in Clients, q \in Requests : Submit(c, q)
  \/ \E w \in Workers, q \in Requests : Fetch(w, q)
  \/ \E a \in Aborters, r \in Runs : AbortRun(a, r)
  \/ \E q \in Requests : Rescue(q)
  \/ Crash \/ Restart \/ StartServer \/ MarkStaleAborted

Spec == Init /\ [][Next]_vars

\* Every operation that has begun goes on (the Go scheduler), a worker that
\* is idle fetches an available job and discards the lost ones (the queue).
\* Nothing makes a client submit, an aborter abort or a process crash.
FairSpec ==
  /\ Spec
  /\ \A a \in Actors : WF_vars(Step(a))
  /\ \A q \in Requests : WF_vars(\E w \in Workers : Fetch(w, q)) /\ WF_vars(Rescue(q))
  /\ WF_vars(MarkStaleAborted)

-----------------------------------------------------------------------------
(* Properties.                                                             *)

TypeOK ==
  /\ runs \in [Runs -> RunRow]
  /\ turns \in [Requests -> TurnRow]
  /\ events \in [Runs -> Seq(EventRow)]
  /\ jobs \in [Requests -> JobStates]
  /\ pc \in [Actors -> PCs]
  /\ at \in [Actors -> Local]
  /\ answer \in [Clients -> [Requests -> Answers]]
  /\ cleaning \in BOOLEAN
  /\ crashes \in 0..MaxCrashes
  /\ boots \in 0..MaxBoots
  /\ aborts \in 0..MaxAborts

\* ExecuteTurn never runs twice at the same time for one turn.  There is no
\* lock around it: the job's uniqueness, its single fetch and the private
\* request ids of attached clients have to add up to one.
ExclusiveExecution ==
  \A q \in Requests : \A a, b \in Clients \union Workers :
    Executes(a, q) /\ Executes(b, q) => a = b

\* One submission of a message is answered 202 Accepted; its retries and
\* concurrent copies are answered as duplicates, busy or errors.
AcceptedOnce ==
  \A c, d \in Clients, q \in Requests :
    answer[c][q] = "accepted" /\ answer[d][q] = "accepted" => c = d

\* A turn starts once, whatever MarkTurnQueued writes back over its row.
StartedOnce ==
  \A r \in Runs : \A i, j \in DOMAIN events[r] :
    /\ events[r][i].kind = "started"
    /\ events[r][j] = events[r][i]
    => i = j

\* No operation on run r is under way and no job of it is left.
Quiet(r) ==
  /\ \A a \in Actors : pc[a] \notin {"idle", "dead"} => at[a].run # r
  /\ \A q \in Requests : RunOf[q] = r => jobs[q] \notin {"available", "running"}
  /\ ~cleaning

\* No submission to run r was cut short between two of its statements.
Undisturbed(r) ==
  \A c \in Clients, q \in Requests : RunOf[q] = r => answer[c][q] # "lost"

\* ErrRunBusy says "agent run already has an active turn" (service.go:31):
\* a run that refuses new turns has one that is prepared, queued or executed.
BusyMeansActive ==
  \A r \in Runs : Quiet(r) /\ Undisturbed(r) => ~IsBusy(runs[r])

\* The message of a completed turn stays in the stored conversation, through
\* the turns that follow and every write that puts a whole row back.
TranscriptKept ==
  \A q \in Requests :
    Quiet(RunOf[q]) /\ turns[q].status = "completed" => q \in runs[RunOf[q]].trace

\* last_event_id, which decides when an event stream may close, is the id
\* of the run's last event once the writers of stale rows are through.
LastEventCurrent ==
  \A r \in Runs : Quiet(r) /\ Undisturbed(r) => runs[r].last = Len(events[r])

\* The executor is inside agent.Run for at most one turn of a run.
OneTurnAtATime ==
  \A a, b \in Clients \union Workers :
    /\ pc[a] \in AgentPCs
    /\ pc[b] \in AgentPCs
    /\ at[a].run = at[b].run
    => a = b

\* A turn that was started ends with a status event: the web UI and the CLI
\* wait for it.
Announced(q, kind) == \E i \in DOMAIN events[RunOf[q]] :
                         events[RunOf[q]][i] = [req |-> q, kind |-> kind]

StartedSettles ==
  \A q \in Requests : Announced(q, "started") ~> Announced(q, "status")

\* Aborting a turn that was queued for a worker is final: its job is still
\* fetched, and its message may be submitted again, but the turn is not
\* executed.  (A turn without a job was prepared and never queued: the
\* message sent again queues it.)
Untouched(q) == \A a \in Actors : pc[a] \notin {"idle", "dead"} => at[a].req # q

AbortIsFinal ==
  \A q \in Requests :
    [](turns[q].status = "aborted" /\ turns[q].job /\ Untouched(q)
         => [](turns[q].status = "aborted"))

\* A message that was accepted is settled: executed to its end, or aborted.
AcceptedSettles ==
  \A q \in Requests :
    (\E c \in Clients : answer[c][q] = "accepted") ~> Announced(q, "status")

\* A run marked running is tended by somebody, once a restarted server has
\* aborted the runs of the one that crashed.
RunningIsTended ==
  \A r \in Runs :
    /\ runs[r].status = "running"
    /\ ~cleaning
    /\ \A a \in Actors : pc[a] # "dead"
    => \E a \in Actors : pc[a] # "idle" /\ at[a].run = r

-----------------------------------------------------------------------------
(* The rows, the jobs and the program counters implement TurnLifecycle.    *)

IsExecuted(q) == \E a \in Clients \union Workers : Executes(a, q)

\* The attached client of q has returned.
Returned(q) == \E c \in Attached : q \in Submits[c] /\ answer[c][q] # "none"

StageOf(q) ==
  CASE turns[q].status = "absent" -> "new"
    [] turns[q].status # "absent" /\ IsExecuted(q) -> "executing"
    [] OTHER -> CASE jobs[q] = "none" -> IF Returned(q) THEN "done" ELSE "prepared"
                  [] jobs[q] = "available" -> "pending"
                  [] jobs[q] \in {"running", "discarded"} -> "lost"
                  [] jobs[q] = "completed" -> "done"

HolderOf(q) ==
  IF IsExecuted(q) THEN CHOOSE a \in Clients \union Workers : Executes(a, q) ELSE None

Lifecycle == INSTANCE TurnLifecycle WITH
               stage <- [q \in Requests |-> StageOf(q)],
               holder <- [q \in Requests |-> HolderOf(q)],
               Executors <- Clients \union Workers,
               Nobody <- None

\* Every message becomes at most one turn, and a turn is executed by one
\* executor at a time and never again once it was executed to its end.
ExecutedLikeLifecycle == Lifecycle!LifecycleSpec
=============================================================================
