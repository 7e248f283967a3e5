-------------------------- MODULE AgentRunsProofs --------------------------
(***************************************************************************)
(* Proofs about AgentRuns, for any number of clients, workers, aborters,   *)
(* runs and requests, and for any bounds.                                  *)
(*                                                                         *)
(* TypeOK is not inductive by itself: the row an operation writes or the   *)
(* job it finishes is named by its local variables, so one has to know     *)
(* which statements an actor is ever at and that its request is known      *)
(* there.  PlacesOK says that.                                             *)
(***************************************************************************)
EXTENDS AgentRuns, TLAPS

ClientPCs == {"idle", "dead"} \union PreparePCs \union QueuePCs \union ExecutePCs
WorkerPCs == {"idle", "dead"} \union ExecutePCs
AborterPCs == {"idle", "dead"} \union AbortRunPCs \union AbortTurnPCs

\* The statements at which an actor need not know a request.
Unaware == {"idle", "dead", "abget", "abreq", "abcheck", "abdirect"}

\* Actor a may be at statement p.
May(a, p) ==
  /\ p \in PCs
  /\ a \in Clients => p \in ClientPCs
  /\ a \in Workers => p \in WorkerPCs
  /\ a \in Aborters => p \in AborterPCs

PlacesOK ==
  \A a \in Actors : May(a, pc[a]) /\ (pc[a] \notin Unaware => at[a].req \in Requests)

Typed == TypeOK /\ PlacesOK

LocalsTyped == pc \in [Actors -> PCs] /\ at \in [Actors -> Local] /\ PlacesOK

-----------------------------------------------------------------------------
(* Statements an actor may be at.                                          *)

LEMMA ClientMay ==
  ASSUME NEW c \in Clients
  PROVE  c \in Actors /\ \A p \in ClientPCs : May(c, p)
BY ActorsAssumption
   DEF Actors, May, PCs, ClientPCs, PreparePCs, QueuePCs, ExecutePCs, StartPCs, AgentPCs,
       FinishPCs, AbortTurnPCs, AbortRunPCs

LEMMA ExecutorMay ==
  ASSUME NEW a \in Clients \union Workers
  PROVE  a \in Actors /\ \A p \in WorkerPCs : May(a, p)
BY ActorsAssumption
   DEF Actors, May, PCs, ClientPCs, WorkerPCs, PreparePCs, QueuePCs, ExecutePCs, StartPCs,
       AgentPCs, FinishPCs, AbortTurnPCs, AbortRunPCs

LEMMA AborterMay ==
  ASSUME NEW b \in Aborters
  PROVE  b \in Actors /\ \A p \in AborterPCs : May(b, p)
BY ActorsAssumption
   DEF Actors, May, PCs, AborterPCs, PreparePCs, QueuePCs, ExecutePCs, StartPCs, AgentPCs,
       FinishPCs, AbortTurnPCs, AbortRunPCs

LEMMA AnyoneMay ==
  ASSUME NEW a \in Actors
  PROVE  May(a, "idle") /\ May(a, "dead") /\ May(a, "abrow") /\ May(a, "abemit")
BY ClientMay, ExecutorMay, AborterMay
   DEF Actors, ClientPCs, WorkerPCs, AborterPCs, ExecutePCs, AbortTurnPCs

-----------------------------------------------------------------------------
(* Assignments to local variables.                                         *)

LEMMA LocalFields ==
  ASSUME NEW l \in Local
  PROVE  /\ l.req \in Requests \union {None}
         /\ l.run \in Runs
         /\ l.row \in RunRow
         /\ l.turn \in TurnRow
         /\ l.want \in Statuses
         /\ l.mem \in SUBSET Requests
         /\ l.left \in 0..MaxStream
         /\ l.cancelled \in BOOLEAN
         /\ l.err \in BOOLEAN
BY DEF Local

LEMMA SetRow ==
  ASSUME NEW l \in Local, NEW row \in RunRow
  PROVE  [l EXCEPT !.row = row] \in Local /\ [l EXCEPT !.row = row].req = l.req
BY DEF Local

LEMMA SetTurn1 ==
  ASSUME NEW l \in Local, NEW turn \in TurnRow
  PROVE  [l EXCEPT !.turn = turn] \in Local /\ [l EXCEPT !.turn = turn].req = l.req
BY DEF Local

LEMMA SetTurnKnown ==
  ASSUME NEW l \in Local, NEW turn \in TurnRow, NEW b \in BOOLEAN
  PROVE  /\ [l EXCEPT !.turn = turn, !.known = b] \in Local
         /\ [l EXCEPT !.turn = turn, !.known = b].req = l.req
BY DEF Local

LEMMA SetSkipped ==
  ASSUME NEW l \in Local, NEW b \in BOOLEAN
  PROVE  [l EXCEPT !.skipped = b] \in Local /\ [l EXCEPT !.skipped = b].req = l.req
BY DEF Local

LEMMA SetErr ==
  ASSUME NEW l \in Local, NEW b \in BOOLEAN
  PROVE  [l EXCEPT !.err = b] \in Local /\ [l EXCEPT !.err = b].req = l.req
BY DEF Local

LEMMA SetCancelled ==
  ASSUME NEW l \in Local
  PROVE  [l EXCEPT !.cancelled = TRUE] \in Local /\ [l EXCEPT !.cancelled = TRUE].req = l.req
BY DEF Local

LEMMA SetWant ==
  ASSUME NEW l \in Local, NEW s \in Statuses
  PROVE  [l EXCEPT !.want = s] \in Local /\ [l EXCEPT !.want = s].req = l.req
BY DEF Local

LEMMA SetMemErr ==
  ASSUME NEW l \in Local, NEW m \in SUBSET Requests, NEW b \in BOOLEAN
  PROVE  /\ [l EXCEPT !.mem = m, !.err = b] \in Local
         /\ [l EXCEPT !.mem = m, !.err = b].req = l.req
BY DEF Local

LEMMA Decrement ==
  ASSUME NEW l \in Local, l.left > 0
  PROVE  [l EXCEPT !.left = @ - 1] \in Local /\ [l EXCEPT !.left = @ - 1].req = l.req
BY BoundsAssumption DEF Local

LEMMA NewLocalTyped ==
  ASSUME NEW q \in Requests \union {None}, NEW r \in Runs
  PROVE  /\ NewLocal(q, r) \in Local /\ NewLocal(q, r).req = q
         /\ Blank \in Local
         /\ NoRun \in RunRow /\ NoTurn \in TurnRow
<1>1. NoRun \in RunRow /\ NoTurn \in TurnRow
  BY DEF NoRun, RunRow, NoTurn, TurnRow
<1>2. \A p \in Requests \union {None}, s \in Runs :
        NewLocal(p, s) \in Local /\ NewLocal(p, s).req = p
  BY <1>1, BoundsAssumption DEF NewLocal, Local, Statuses, Live, Terminal
<1> QED
  BY <1>1, <1>2 DEF Blank

-----------------------------------------------------------------------------
(* Steps that several operations share.                                    *)

LEMMA Moves ==
  ASSUME LocalsTyped, NEW a \in Actors,
         NEW to, May(a, to),
         NEW l \in Local, l.req \in Requests \/ to \in Unaware,
         pc' = [pc EXCEPT ![a] = to], at' = [at EXCEPT ![a] = l]
  PROVE  LocalsTyped'
BY DEF LocalsTyped, PlacesOK, May

LEMMA GoingWith ==
  ASSUME LocalsTyped, NEW a \in Actors,
         NEW from, NEW to, Go(a, from, to), May(a, to),
         from \notin Unaware \/ to \in Unaware,
         NEW l \in Local, l.req = at[a].req, at' = [at EXCEPT ![a] = l]
  PROVE  LocalsTyped'
<1>1. l.req \in Requests \/ to \in Unaware
  BY DEF LocalsTyped, PlacesOK, Go
<1> QED
  BY <1>1, Moves DEF Go

LEMMA Going ==
  ASSUME LocalsTyped, NEW a \in Actors,
         NEW from, NEW to, Go(a, from, to), May(a, to),
         from \notin Unaware \/ to \in Unaware,
         at' = at
  PROVE  LocalsTyped'
<1>1. at[a] \in Local /\ at' = [at EXCEPT ![a] = at[a]]
  BY DEF LocalsTyped
<1> QED
  BY <1>1, GoingWith

LEMMA GoingRead ==
  ASSUME Typed, NEW a \in Actors,
         NEW from, NEW to, Go(a, from, to), May(a, to),
         from \notin Unaware \/ to \in Unaware,
         ReadRun(a)
  PROVE  LocalsTyped'
<1> DEFINE l == [at[a] EXCEPT !.row = Run(a)]
<1>1. at[a] \in Local /\ Run(a) \in RunRow
  BY LocalFields DEF Typed, TypeOK, Run
<1>2. l \in Local /\ l.req = at[a].req
  BY <1>1, SetRow
<1>3. at' = [at EXCEPT ![a] = l]
  BY DEF ReadRun
<1> HIDE DEF l
<1> QED
  BY <1>2, <1>3, GoingWith DEF Typed, TypeOK, LocalsTyped

\* What is typed of an actor that is past its first reads.
LEMMA AwareTyped ==
  ASSUME Typed, NEW a \in Actors
  PROVE  /\ LocalsTyped
         /\ at[a] \in Local
         /\ at[a].run \in Runs
         /\ at[a].row \in RunRow
         /\ at[a].turn \in TurnRow
         /\ Run(a) \in RunRow
         /\ May(a, pc[a])
         /\ pc[a] \notin Unaware => at[a].req \in Requests
BY LocalFields DEF Typed, TypeOK, LocalsTyped, PlacesOK, Run

LEMMA WriteRunTyped ==
  ASSUME Typed, NEW a \in Actors, NEW s \in Statuses \union {"absent"},
         NEW q \in Requests \union {None}, WriteRun(a, s, q)
  PROVE  runs' \in [Runs -> RunRow]
<1>1. at[a].row \in RunRow
  BY AwareTyped
<1>2. [at[a].row EXCEPT !.status = s, !.active = q, !.cancel = FALSE] \in RunRow
  BY <1>1 DEF RunRow
<1> QED
  BY <1>2 DEF WriteRun, Typed, TypeOK

LEMMA WriteTurnTyped ==
  ASSUME Typed, NEW a \in Actors, NEW s \in Statuses \union {"absent"}, WriteTurn(a, s)
  PROVE  turns' \in [Requests -> TurnRow]
<1>1. at[a].turn \in TurnRow
  BY AwareTyped
<1>2. [status |-> s, job |-> at[a].turn.job] \in TurnRow
  BY <1>1 DEF TurnRow
<1> QED
  BY <1>2 DEF WriteTurn, Typed, TypeOK

LEMMA EmitTyped ==
  ASSUME Typed, NEW a \in Actors, pc[a] \notin Unaware,
         NEW kind \in {"queued", "started", "trace_chunk", "status"}, Emit(a, kind)
  PROVE  runs' \in [Runs -> RunRow] /\ events' \in [Runs -> Seq(EventRow)]
<1> DEFINE r == RunOf[at[a].req]
           evt == [req |-> at[a].req, kind |-> kind]
<1>1. at[a].req \in Requests /\ r \in Runs
  BY AwareTyped, RequestsAssumption
<1>2. evt \in EventRow /\ events[r] \in Seq(EventRow) /\ runs[r] \in RunRow
  BY <1>1 DEF EventRow, Typed, TypeOK
<1>3. Append(events[r], evt) \in Seq(EventRow) /\ Len(events[r]) + 1 \in Nat
  BY <1>2
<1>4. [runs[r] EXCEPT !.last = Len(events[r]) + 1] \in RunRow
  BY <1>2, <1>3 DEF RunRow
<1>5. /\ events' = [events EXCEPT ![r] = Append(events[r], evt)]
      /\ runs' = [runs EXCEPT ![r] = [runs[r] EXCEPT !.last = Len(events[r]) + 1]]
  BY DEF Emit
<1> HIDE DEF r, evt
<1> QED
  BY <1>1, <1>3, <1>4, <1>5 DEF Typed, TypeOK

LEMMA ReturnTyped ==
  ASSUME Typed, NEW a \in Actors, NEW result \in Answers, NEW outcome \in JobStates,
         Return(a, result, outcome)
  PROVE  /\ LocalsTyped'
         /\ answer' \in [Clients -> [Requests -> Answers]]
         /\ jobs' \in [Requests -> JobStates]
<1>1. Blank \in Local /\ May(a, "idle") /\ "idle" \in Unaware
  BY NewLocalTyped, AnyoneMay, AwareTyped DEF Unaware
<1>2. pc' = [pc EXCEPT ![a] = "idle"] /\ at' = [at EXCEPT ![a] = Blank]
  BY DEF Return
<1>3. LocalsTyped'
  BY <1>1, <1>2, Moves, AwareTyped
<1>4. answer' \in [Clients -> [Requests -> Answers]]
  BY DEF Return, Typed, TypeOK
<1>5. jobs' \in [Requests -> JobStates]
  BY DEF Return, Typed, TypeOK
<1> QED
  BY <1>3, <1>4, <1>5

LEMMA RowsTyped ==
  ASSUME Typed
  PROVE  /\ LocalsTyped
         /\ runs \in [Runs -> RunRow]
         /\ turns \in [Requests -> TurnRow]
         /\ events \in [Runs -> Seq(EventRow)]
         /\ jobs \in [Requests -> JobStates]
         /\ answer \in [Clients -> [Requests -> Answers]]
BY DEF Typed, TypeOK, LocalsTyped

\* What is left to show of a statement: the environment stays as it was.
LEMMA Assembled ==
  ASSUME Typed, LocalsTyped',
         runs' \in [Runs -> RunRow],
         turns' \in [Requests -> TurnRow],
         events' \in [Runs -> Seq(EventRow)],
         jobs' \in [Requests -> JobStates],
         answer' \in [Clients -> [Requests -> Answers]],
         UNCHANGED environment
  PROVE  Typed'
BY DEF Typed, TypeOK, LocalsTyped, environment

\* A status of a row is a status or "absent".
LEMMA StatusesKnown ==
  /\ "running" \in Statuses /\ "queued" \in Statuses /\ "aborted" \in Statuses
  /\ "failed" \in Statuses /\ "completed" \in Statuses
  /\ \A c \in Clients : ModeStatus(c) \in Statuses
BY DEF Statuses, Live, Terminal, ModeStatus

-----------------------------------------------------------------------------
(* Preparing and queueing a turn.                                          *)

LEMMA PrepareTyped ==
  ASSUME Typed, NEW c \in Clients, PrepareStep(c)
  PROVE  Typed'
<1> USE RowsTyped
<1>0. /\ c \in Actors
      /\ \A p \in PreparePCs \union QueuePCs \union ExecutePCs : May(c, p) /\ p \notin Unaware
  BY ClientMay DEF ClientPCs, Unaware, PreparePCs, QueuePCs, ExecutePCs, StartPCs, AgentPCs,
                   FinishPCs, AbortTurnPCs
<1>1. CASE LoadRun(c)
  <2>1. LocalsTyped'
    BY <1>0, <1>1, GoingRead DEF LoadRun, PreparePCs
  <2> QED
    BY <1>1, <2>1, Assembled DEF LoadRun, db
<1>2. CASE FoundTurn(c)
  <2>1. CASE turns[at[c].req].job
    <3>1. Return(c, "duplicate", "none")
      BY <1>2, <2>1 DEF FoundTurn
    <3>2. LocalsTyped' /\ answer' \in [Clients -> [Requests -> Answers]]
                       /\ jobs' \in [Requests -> JobStates]
      BY <1>0, <3>1, ReturnTyped DEF Answers, JobStates
    <3> QED
      BY <1>2, <3>2, Assembled DEF FoundTurn
  <2>2. CASE ~turns[at[c].req].job
    <3> DEFINE l == [at[c] EXCEPT !.turn = turns[at[c].req], !.known = TRUE]
               to == IF c \in Attached THEN "getturn" ELSE "enqueue"
    <3>1. pc[c] = "lookup" /\ pc' = [pc EXCEPT ![c] = to] /\ at' = [at EXCEPT ![c] = l]
      BY <1>2, <2>2 DEF FoundTurn
    <3>2. at[c] \in Local /\ at[c].req \in Requests
      BY <1>0, <3>1, AwareTyped DEF PreparePCs
    <3>3. l \in Local /\ l.req = at[c].req
      BY <3>2, SetTurnKnown
    <3>4. May(c, to)
      BY <1>0 DEF QueuePCs, ExecutePCs, StartPCs
    <3> HIDE DEF l, to
    <3>5. LocalsTyped'
      BY <1>0, <3>1, <3>2, <3>3, <3>4, Moves
    <3> QED
      BY <1>2, <2>2, <3>5, Assembled DEF FoundTurn
  <2> QED
    BY <2>1, <2>2
<1>3. CASE RefuseBusy(c)
  <2>1. LocalsTyped' /\ answer' \in [Clients -> [Requests -> Answers]]
                     /\ jobs' \in [Requests -> JobStates]
    BY <1>0, <1>3, ReturnTyped DEF RefuseBusy, Answers, JobStates
  <2> QED
    BY <1>3, <2>1, Assembled DEF RefuseBusy
<1>4. CASE NoTurnYet(c)
  <2>1. LocalsTyped'
    BY <1>0, <1>4, Going DEF NoTurnYet, PreparePCs
  <2> QED
    BY <1>4, <2>1, Assembled DEF NoTurnYet, db
<1>5. CASE CreateRun(c)
  <2>1. CASE Run(c).status = "absent"
    <3>1. LocalsTyped'
      BY <1>0, <1>5, <2>1, Going DEF CreateRun, PreparePCs
    <3>2. [NoRun EXCEPT !.status = ModeStatus(c)] \in RunRow
      BY StatusesKnown DEF NoRun, RunRow
    <3>3. runs' \in [Runs -> RunRow]
      BY <1>5, <2>1, <3>2 DEF CreateRun
    <3> QED
      BY <1>5, <2>1, <3>1, <3>3, Assembled DEF CreateRun
  <2>2. CASE Run(c).status # "absent"
    <3>1. LocalsTyped' /\ answer' \in [Clients -> [Requests -> Answers]]
                       /\ jobs' \in [Requests -> JobStates]
      BY <1>0, <1>5, <2>2, ReturnTyped DEF CreateRun, Answers, JobStates
    <3> QED
      BY <1>5, <2>2, <3>1, Assembled DEF CreateRun
  <2> QED
    BY <2>1, <2>2
<1>6. CASE ReloadRun(c)
  <2>1. LocalsTyped'
    BY <1>0, <1>6, GoingRead DEF ReloadRun, PreparePCs
  <2> QED
    BY <1>6, <2>1, Assembled DEF ReloadRun, db
<1>7. CASE CreateTurn(c)
  <2>1. CASE turns[at[c].req].status = "absent"
    <3> DEFINE row == [status |-> ModeStatus(c), job |-> FALSE]
               l == [at[c] EXCEPT !.turn = row]
    <3>1. row \in TurnRow
      BY StatusesKnown DEF TurnRow
    <3>2. /\ Go(c, "insert", "activate")
          /\ turns' = [turns EXCEPT ![at[c].req] = row]
          /\ at' = [at EXCEPT ![c] = l]
          /\ UNCHANGED <<runs, events, jobs, answer, environment>>
      BY <1>7, <2>1 DEF CreateTurn
    <3>3. l \in Local /\ l.req = at[c].req
      BY <1>0, <3>1, AwareTyped, SetTurn1
    <3>4. turns' \in [Requests -> TurnRow]
      BY <3>1, <3>2
    <3> HIDE DEF l, row
    <3>5. LocalsTyped'
      BY <1>0, <3>2, <3>3, GoingWith DEF PreparePCs
    <3> QED
      BY <3>2, <3>4, <3>5, Assembled
  <2>2. CASE turns[at[c].req].status # "absent"
    <3>1. LocalsTyped' /\ answer' \in [Clients -> [Requests -> Answers]]
                       /\ jobs' \in [Requests -> JobStates]
      BY <1>0, <1>7, <2>2, ReturnTyped DEF CreateTurn, Answers, JobStates
    <3> QED
      BY <1>7, <2>2, <3>1, Assembled DEF CreateTurn
  <2> QED
    BY <2>1, <2>2
<1>8. CASE ActivateTurn(c)
  <2>1. LocalsTyped'
    BY <1>0, <1>8, Going DEF ActivateTurn, PreparePCs
  <2>2. runs' \in [Runs -> RunRow]
    <3>1. at[c].req \in Requests
      BY <1>0, <1>8, AwareTyped DEF ActivateTurn, Go, PreparePCs
    <3> QED
      BY <1>0, <1>8, <3>1, StatusesKnown, WriteRunTyped DEF ActivateTurn
  <2> QED
    BY <1>8, <2>1, <2>2, Assembled DEF ActivateTurn
<1>9. CASE Prepared(c)
  <2>1. LocalsTyped'
    BY <1>0, <1>9, GoingRead DEF Prepared, PreparePCs, QueuePCs, ExecutePCs, StartPCs
  <2> QED
    BY <1>9, <2>1, Assembled DEF Prepared, db
<1> QED
  BY <1>1, <1>2, <1>3, <1>4, <1>5, <1>6, <1>7, <1>8, <1>9 DEF PrepareStep

LEMMA QueueTyped ==
  ASSUME Typed, NEW c \in Clients, QueueStep(c)
  PROVE  Typed'
<1> USE RowsTyped
<1>0. /\ c \in Actors
      /\ \A p \in QueuePCs : May(c, p) /\ p \notin Unaware
  BY ClientMay DEF ClientPCs, Unaware, QueuePCs
<1>1. CASE EnqueueAgentRun(c)
  <2> DEFINE fresh == jobs[at[c].req] \in {"none", "discarded"}
             l == [at[c] EXCEPT !.skipped = ~fresh]
  <2>1. /\ Go(c, "enqueue", "markturn")
        /\ jobs' = IF fresh THEN [jobs EXCEPT ![at[c].req] = "available"] ELSE jobs
        /\ at' = [at EXCEPT ![c] = l]
        /\ UNCHANGED <<runs, turns, events, answer, environment>>
    BY <1>1 DEF EnqueueAgentRun
  <2>2. l \in Local /\ l.req = at[c].req
    BY <1>0, AwareTyped, SetSkipped
  <2>3. jobs' \in [Requests -> JobStates]
    BY <2>1 DEF JobStates
  <2> HIDE DEF l, fresh
  <2>4. LocalsTyped'
    BY <1>0, <2>1, <2>2, GoingWith DEF QueuePCs
  <2> QED
    BY <2>1, <2>3, <2>4, Assembled
<1>2. CASE MarkTurn(c)
  <2>1. LocalsTyped'
    BY <1>0, <1>2, Going DEF MarkTurn, QueuePCs
  <2>2. turns' \in [Requests -> TurnRow]
    BY <1>2, StatusesKnown DEF MarkTurn, TurnRow
  <2> QED
    BY <1>2, <2>1, <2>2, Assembled DEF MarkTurn
<1>3. CASE MarkRun(c)
  <2>1. LocalsTyped'
    BY <1>0, <1>3, Going DEF MarkRun, QueuePCs
  <2>2. at[c].req \in Requests
    BY <1>0, <1>3, AwareTyped DEF MarkRun, Go, QueuePCs
  <2>3. runs' \in [Runs -> RunRow]
    BY <1>0, <1>3, <2>2, StatusesKnown, WriteRunTyped DEF MarkRun
  <2> QED
    BY <1>3, <2>1, <2>3, Assembled DEF MarkRun
<1>4. CASE EmitQueued(c)
  <2>1. runs' \in [Runs -> RunRow] /\ events' \in [Runs -> Seq(EventRow)]
    BY <1>0, <1>4, EmitTyped DEF EmitQueued, QueuePCs
  <2>2. LocalsTyped' /\ answer' \in [Clients -> [Requests -> Answers]]
                     /\ jobs' \in [Requests -> JobStates]
    BY <1>0, <1>4, ReturnTyped DEF EmitQueued, Answers, JobStates
  <2> QED
    BY <1>4, <2>1, <2>2, Assembled DEF EmitQueued
<1> QED
  BY <1>1, <1>2, <1>3, <1>4 DEF QueueStep

-----------------------------------------------------------------------------
(* Executing a turn.                                                       *)

LEMMA ExecuteTyped ==
  ASSUME Typed, NEW a \in Clients \union Workers, ExecuteStep(a)
  PROVE  Typed'
<1> USE RowsTyped
<1>0. /\ a \in Actors
      /\ \A p \in ExecutePCs : May(a, p) /\ p \notin Unaware
  BY ExecutorMay DEF WorkerPCs, Unaware, ExecutePCs, StartPCs, AgentPCs, FinishPCs, AbortTurnPCs
<1>1. CASE GetTurn(a)
  <2> DEFINE l == [at[a] EXCEPT !.turn = turns[at[a].req]]
  <2>1. Go(a, "getturn", "getrun") /\ at' = [at EXCEPT ![a] = l]
    BY <1>1 DEF GetTurn
  <2>2. at[a].req \in Requests
    BY <1>0, <2>1, AwareTyped DEF Go, ExecutePCs, StartPCs
  <2>3. l \in Local /\ l.req = at[a].req
    BY <1>0, <2>2, AwareTyped, SetTurn1
  <2> HIDE DEF l
  <2>4. LocalsTyped'
    BY <1>0, <2>1, <2>3, GoingWith DEF ExecutePCs, StartPCs
  <2> QED
    BY <1>1, <2>4, Assembled DEF GetTurn, db
<1>2. CASE GetRun(a)
  <2>1. CASE at[a].turn.status \in {"completed", "aborted"}
    <3>1. LocalsTyped' /\ answer' \in [Clients -> [Requests -> Answers]]
                       /\ jobs' \in [Requests -> JobStates]
      BY <1>0, <1>2, <2>1, ReturnTyped DEF GetRun, Answers, JobStates
    <3> QED
      BY <1>2, <3>1, Assembled DEF GetRun
  <2>2. CASE at[a].turn.status \notin {"completed", "aborted"}
    <3> DEFINE to == IF Run(a).cancel THEN "abturn" ELSE "setturn"
    <3>1. Go(a, "getrun", to) /\ ReadRun(a) /\ UNCHANGED <<jobs, answer>>
      BY <1>2, <2>2 DEF GetRun, Go
    <3>2. May(a, to)
      BY <1>0 DEF ExecutePCs, StartPCs, AbortTurnPCs
    <3> HIDE DEF to
    <3>3. LocalsTyped'
      BY <1>0, <3>1, <3>2, GoingRead DEF ExecutePCs, StartPCs
    <3> QED
      BY <1>2, <3>1, <3>3, Assembled DEF GetRun
  <2> QED
    BY <2>1, <2>2
<1>3. CASE SetTurn(a)
  <2>1. LocalsTyped'
    BY <1>0, <1>3, Going DEF SetTurn, ExecutePCs, StartPCs
  <2>2. turns' \in [Requests -> TurnRow]
    BY <1>0, <1>3, StatusesKnown, WriteTurnTyped DEF SetTurn
  <2> QED
    BY <1>3, <2>1, <2>2, Assembled DEF SetTurn
<1>4. CASE SetRun(a)
  <2>1. LocalsTyped'
    BY <1>0, <1>4, Going DEF SetRun, ExecutePCs, StartPCs
  <2>2. at[a].req \in Requests
    BY <1>0, <1>4, AwareTyped DEF SetRun, Go, ExecutePCs, StartPCs
  <2>3. runs' \in [Runs -> RunRow]
    BY <1>0, <1>4, <2>2, StatusesKnown, WriteRunTyped DEF SetRun
  <2> QED
    BY <1>4, <2>1, <2>3, Assembled DEF SetRun
<1>5. CASE EmitStarted(a)
  <2>1. LocalsTyped'
    BY <1>0, <1>5, Going DEF EmitStarted, ExecutePCs, StartPCs, AgentPCs
  <2>2. pc[a] \notin Unaware
    BY <1>0, <1>5 DEF EmitStarted, Go, ExecutePCs, StartPCs
  <2>3. runs' \in [Runs -> RunRow] /\ events' \in [Runs -> Seq(EventRow)]
    BY <1>0, <1>5, <2>2, EmitTyped DEF EmitStarted
  <2> QED
    BY <1>5, <2>1, <2>3, Assembled DEF EmitStarted
<1>6. CASE GetFinished(a)
  <2> DEFINE to == IF at[a].err /\ Run(a).status \in Live THEN "finalrun" ELSE "finalturn"
  <2>1. Go(a, "execdone", to) /\ ReadRun(a)
    BY <1>6 DEF GetFinished
  <2>2. May(a, to)
    BY <1>0 DEF ExecutePCs, FinishPCs
  <2> HIDE DEF to
  <2>3. LocalsTyped'
    BY <1>0, <2>1, <2>2, GoingRead DEF ExecutePCs, FinishPCs
  <2> QED
    BY <1>6, <2>3, Assembled DEF GetFinished, db
<1>7. CASE FinalizeRun(a)
  <2>1. LocalsTyped'
    BY <1>0, <1>7, Going DEF FinalizeRun, ExecutePCs, FinishPCs
  <2>2. runs' \in [Runs -> RunRow]
    BY <1>0, <1>7, StatusesKnown, WriteRunTyped DEF FinalizeRun
  <2> QED
    BY <1>7, <2>1, <2>2, Assembled DEF FinalizeRun
<1>8. CASE ReloadFinal(a)
  <2>1. LocalsTyped'
    BY <1>0, <1>8, GoingRead DEF ReloadFinal, ExecutePCs, FinishPCs
  <2> QED
    BY <1>8, <2>1, Assembled DEF ReloadFinal, db
<1>9. CASE FinalizeTurn(a)
  <2>1. LocalsTyped'
    BY <1>0, <1>9, Going DEF FinalizeTurn, ExecutePCs, FinishPCs
  <2>2. Terminal \subseteq Statuses
    BY DEF Statuses
  <2>3. turns' \in [Requests -> TurnRow]
    BY <1>0, <1>9, <2>2, StatusesKnown, WriteTurnTyped DEF FinalizeTurn
  <2> QED
    BY <1>9, <2>1, <2>3, Assembled DEF FinalizeTurn
<1>10. CASE FinalizeRow(a)
  <2>1. LocalsTyped'
    BY <1>0, <1>10, Going DEF FinalizeRow, ExecutePCs, FinishPCs
  <2>2. at[a].row.status \in Statuses \union {"absent"}
    BY <1>0, AwareTyped DEF RunRow
  <2>3. runs' \in [Runs -> RunRow]
    BY <1>0, <1>10, <2>2, WriteRunTyped DEF FinalizeRow
  <2> QED
    BY <1>10, <2>1, <2>3, Assembled DEF FinalizeRow
<1>11. CASE EmitStatus(a)
  <2>1. runs' \in [Runs -> RunRow] /\ events' \in [Runs -> Seq(EventRow)]
    BY <1>0, <1>11, EmitTyped DEF EmitStatus, ExecutePCs, FinishPCs
  <2>2. LocalsTyped' /\ answer' \in [Clients -> [Requests -> Answers]]
                     /\ jobs' \in [Requests -> JobStates]
    BY <1>0, <1>11, ReturnTyped DEF EmitStatus, Answers, JobStates
  <2> QED
    BY <1>11, <2>1, <2>2, Assembled DEF EmitStatus
<1> QED
  BY <1>1, <1>2, <1>3, <1>4, <1>5, <1>6, <1>7, <1>8, <1>9, <1>10, <1>11 DEF ExecuteStep

\* A step that changes local variables only.
LEMMA Staying ==
  ASSUME LocalsTyped, NEW a \in Actors, pc' = pc,
         NEW l \in Local, l.req = at[a].req, at' = [at EXCEPT ![a] = l]
  PROVE  LocalsTyped'
BY DEF LocalsTyped, PlacesOK, May

\* The watcher of ExecuteTurn and the end of the context it watches for.
LEMMA CancelTyped ==
  ASSUME Typed, NEW a \in Actors, at' = [at EXCEPT ![a].cancelled = TRUE],
         UNCHANGED <<db, pc, answer, environment>>
  PROVE  Typed'
<1> DEFINE l == [at[a] EXCEPT !.cancelled = TRUE]
<1>1. l \in Local /\ l.req = at[a].req /\ at' = [at EXCEPT ![a] = l]
  BY AwareTyped, SetCancelled
<1> HIDE DEF l
<1>2. LocalsTyped'
  BY <1>1, Staying, RowsTyped
<1> QED
  BY <1>2, RowsTyped, Assembled DEF db

LEMMA AgentTyped ==
  ASSUME Typed, NEW a \in Clients \union Workers, AgentStep(a)
  PROVE  Typed'
<1> USE RowsTyped
<1>0. /\ a \in Actors
      /\ \A p \in AgentPCs \union {"execdone"} : May(a, p) /\ p \notin Unaware
  BY ExecutorMay DEF WorkerPCs, Unaware, ExecutePCs, AgentPCs, FinishPCs
<1>1. CASE LoadConversation(a)
  <2>1. PICK ok \in {TRUE, FALSE} :
          /\ pc' = [pc EXCEPT ![a] = IF ok THEN "readmeta" ELSE "execdone"]
          /\ at' = [at EXCEPT ![a].mem = IF ok THEN Run(a).trace \union {at[a].req} ELSE @,
                              ![a].err = ~ok]
    BY <1>1 DEF LoadConversation
  <2> DEFINE m == IF ok THEN Run(a).trace \union {at[a].req} ELSE at[a].mem
             l == [at[a] EXCEPT !.mem = m, !.err = ~ok]
             to == IF ok THEN "readmeta" ELSE "execdone"
  <2>2. pc[a] = "exec" /\ pc' = [pc EXCEPT ![a] = to] /\ at' = [at EXCEPT ![a] = l]
    BY <1>0, <1>1, <2>1 DEF LoadConversation, LocalsTyped
  <2>3. at[a] \in Local /\ at[a].req \in Requests /\ at[a].mem \in SUBSET Requests
    BY <1>0, <2>2, AwareTyped, LocalFields DEF AgentPCs
  <2>4. m \in SUBSET Requests
    BY <1>0, <2>3, AwareTyped DEF RunRow
  <2> HIDE DEF m
  <2>5. l \in Local /\ l.req = at[a].req
    BY <2>3, <2>4, SetMemErr
  <2>6. May(a, to)
    BY <1>0 DEF AgentPCs
  <2> HIDE DEF l, to
  <2>7. LocalsTyped'
    BY <1>0, <2>2, <2>3, <2>5, <2>6, Moves
  <2> QED
    BY <1>1, <2>7, Assembled DEF LoadConversation, db
<1>2. CASE ReadMeta(a)
  <2>1. LocalsTyped'
    BY <1>0, <1>2, GoingRead DEF ReadMeta, AgentPCs
  <2> QED
    BY <1>2, <2>1, Assembled DEF ReadMeta, db
<1>3. CASE WriteMeta(a)
  <2> DEFINE first == at[a].want = "running" /\ at[a].left = MaxStream
             refused == at[a].cancelled /\ (first \/ at[a].want = "completed")
             next == IF first THEN "initial"
                     ELSE IF at[a].want = "running" THEN "stream" ELSE "finish"
             l == [at[a] EXCEPT !.err = TRUE]
             row == [at[a].row EXCEPT !.status = at[a].want, !.trace = at[a].mem]
  <2>1. pc[a] = "writemeta" /\ UNCHANGED <<turns, events, jobs, answer, environment>>
    BY <1>3 DEF WriteMeta
  <2>2. CASE refused
    <3>1. Go(a, "writemeta", "execdone") /\ at' = [at EXCEPT ![a] = l] /\ runs' = runs
      BY <1>3, <2>2 DEF WriteMeta, Go
    <3>2. l \in Local /\ l.req = at[a].req
      BY <1>0, AwareTyped, SetErr
    <3> HIDE DEF l
    <3>3. LocalsTyped'
      BY <1>0, <3>1, <3>2, GoingWith DEF AgentPCs
    <3> QED
      BY <2>1, <3>1, <3>3, Assembled
  <2>3. CASE ~refused
    <3>1. Go(a, "writemeta", next) /\ at' = at /\ runs' = [runs EXCEPT ![at[a].run] = row]
      BY <1>3, <2>3 DEF WriteMeta, Go
    <3>2. May(a, next)
      BY <1>0 DEF AgentPCs
    <3>3. row \in RunRow
      BY <1>0, AwareTyped, LocalFields DEF RunRow
    <3> HIDE DEF next, row
    <3>4. LocalsTyped'
      BY <1>0, <3>1, <3>2, Going DEF AgentPCs
    <3>5. runs' \in [Runs -> RunRow]
      BY <3>1, <3>3
    <3> QED
      BY <2>1, <3>4, <3>5, Assembled
  <2> QED
    BY <2>2, <2>3
<1>4. CASE InitialChunk(a) \/ FinishChunk(a)
  <2> DEFINE to == IF pc[a] = "initial" /\ ~at[a].cancelled THEN "stream" ELSE "execdone"
             e == IF pc[a] = "initial" THEN at[a].cancelled
                  ELSE at[a].want # "completed" \/ at[a].cancelled
             l == [at[a] EXCEPT !.err = e]
  <2>1. /\ Go(a, pc[a], to) /\ pc[a] \in {"initial", "finish"}
        /\ at' = [at EXCEPT ![a] = l]
        /\ UNCHANGED <<turns, jobs, answer, environment>>
    BY <1>4 DEF InitialChunk, FinishChunk, Go
  <2>2. at[a].cancelled \in BOOLEAN /\ at[a] \in Local
    BY <1>0, AwareTyped, LocalFields
  <2>3. e \in BOOLEAN
    BY <2>2
  <2> HIDE DEF e
  <2>4. l \in Local /\ l.req = at[a].req
    BY <2>2, <2>3, SetErr
  <2>5. May(a, to)
    BY <1>0 DEF AgentPCs
  <2> HIDE DEF l, to
  <2>6. LocalsTyped'
    BY <1>0, <2>1, <2>4, <2>5, GoingWith DEF AgentPCs
  <2>7. runs' \in [Runs -> RunRow] /\ events' \in [Runs -> Seq(EventRow)]
    <3>1. pc[a] \notin Unaware
      BY <1>0, <2>1 DEF AgentPCs
    <3>2. UNCHANGED <<runs, events>> \/ Emit(a, "trace_chunk")
      BY <1>4 DEF InitialChunk, FinishChunk
    <3> QED
      BY <1>0, <3>1, <3>2, EmitTyped
  <2> QED
    BY <2>1, <2>6, <2>7, Assembled
<1>5. CASE StreamChunk(a)
  <2> DEFINE l == [at[a] EXCEPT !.left = @ - 1]
  <2>1. pc[a] = "stream" /\ pc' = pc /\ at' = [at EXCEPT ![a] = l]
    BY <1>5 DEF StreamChunk
  <2>2. l \in Local /\ l.req = at[a].req
    BY <1>0, <1>5, AwareTyped, Decrement DEF StreamChunk
  <2> HIDE DEF l
  <2>3. LocalsTyped'
    BY <1>0, <2>1, <2>2, Staying
  <2>4. runs' \in [Runs -> RunRow] /\ events' \in [Runs -> Seq(EventRow)]
    <3>1. pc[a] \notin Unaware
      BY <1>0, <2>1 DEF AgentPCs
    <3> QED
      BY <1>0, <1>5, <3>1, EmitTyped DEF StreamChunk
  <2> QED
    BY <1>5, <2>3, <2>4, Assembled DEF StreamChunk
<1>6. CASE PersistProgress(a)
  <2> DEFINE l == [at[a] EXCEPT !.left = @ - 1]
  <2>1. Go(a, "stream", "readmeta") /\ at' = [at EXCEPT ![a] = l]
    BY <1>6 DEF PersistProgress
  <2>2. l \in Local /\ l.req = at[a].req
    BY <1>0, <1>6, AwareTyped, Decrement DEF PersistProgress
  <2> HIDE DEF l
  <2>3. LocalsTyped'
    BY <1>0, <2>1, <2>2, GoingWith DEF AgentPCs
  <2> QED
    BY <1>6, <2>3, Assembled DEF PersistProgress, db
<1>7. CASE EndStream(a)
  <2>1. PICK want \in {"completed", IF at[a].cancelled THEN "aborted" ELSE "failed"} :
          at' = [at EXCEPT ![a].want = want]
    BY <1>7 DEF EndStream
  <2> DEFINE l == [at[a] EXCEPT !.want = want]
  <2>2. Go(a, "stream", "readmeta") /\ at' = [at EXCEPT ![a] = l]
    BY <1>7, <2>1 DEF EndStream
  <2>3. want \in Statuses
    BY <2>1, StatusesKnown
  <2>4. l \in Local /\ l.req = at[a].req
    BY <1>0, <2>3, AwareTyped, SetWant
  <2> HIDE DEF l
  <2>5. LocalsTyped'
    BY <1>0, <2>2, <2>4, GoingWith DEF AgentPCs
  <2> QED
    BY <1>7, <2>5, Assembled DEF EndStream, db
<1> QED
  BY <1>1, <1>2, <1>3, <1>4, <1>5, <1>6, <1>7 DEF AgentStep

-----------------------------------------------------------------------------
(* Aborting.                                                               *)

LEMMA AbortTurnTyped ==
  ASSUME Typed, NEW a \in Actors, AbortTurnStep(a)
  PROVE  Typed'
<1> USE RowsTyped
<1>0. /\ May(a, "abrow") /\ May(a, "abemit")
      /\ {"abturn", "abrow", "abemit"} \intersect Unaware = {}
  BY AnyoneMay DEF Unaware
<1>1. CASE AbortTurn(a)
  <2>1. LocalsTyped'
    BY <1>0, <1>1, Going DEF AbortTurn
  <2>2. turns' \in [Requests -> TurnRow]
    BY <1>1, StatusesKnown, WriteTurnTyped DEF AbortTurn
  <2> QED
    BY <1>1, <2>1, <2>2, Assembled DEF AbortTurn
<1>2. CASE AbortRow(a)
  <2>1. LocalsTyped'
    BY <1>0, <1>2, Going DEF AbortRow
  <2>2. runs' \in [Runs -> RunRow]
    BY <1>2, StatusesKnown, WriteRunTyped DEF AbortRow
  <2> QED
    BY <1>2, <2>1, <2>2, Assembled DEF AbortRow
<1>3. CASE EmitAborted(a)
  <2>1. runs' \in [Runs -> RunRow] /\ events' \in [Runs -> Seq(EventRow)]
    BY <1>0, <1>3, EmitTyped DEF EmitAborted
  <2>2. LocalsTyped' /\ answer' \in [Clients -> [Requests -> Answers]]
                     /\ jobs' \in [Requests -> JobStates]
    BY <1>3, ReturnTyped DEF EmitAborted, Answers, JobStates
  <2> QED
    BY <1>3, <2>1, <2>2, Assembled DEF EmitAborted
<1> QED
  BY <1>1, <1>2, <1>3 DEF AbortTurnStep

LEMMA AbortRunTyped ==
  ASSUME Typed, NEW a \in Aborters, AbortRunStep(a)
  PROVE  Typed'
<1> USE RowsTyped
<1>0. a \in Actors /\ \A p \in AbortRunPCs \union AbortTurnPCs : May(a, p)
  BY AborterMay DEF AborterPCs
<1>1. CASE CheckRun(a)
  <2>1. CASE Run(a).status \in Terminal
    <3>1. LocalsTyped' /\ answer' \in [Clients -> [Requests -> Answers]]
                       /\ jobs' \in [Requests -> JobStates]
      BY <1>0, <1>1, <2>1, ReturnTyped DEF CheckRun, Answers, JobStates
    <3> QED
      BY <1>1, <3>1, Assembled DEF CheckRun
  <2>2. CASE Run(a).status \notin Terminal
    <3>1. Go(a, "abget", "abreq") /\ UNCHANGED <<jobs, at, answer>>
      BY <1>1, <2>2 DEF CheckRun, Go
    <3>2. LocalsTyped'
      BY <1>0, <3>1, Going DEF AbortRunPCs, Unaware
    <3> QED
      BY <1>1, <3>1, <3>2, Assembled DEF CheckRun
  <2> QED
    BY <2>1, <2>2
<1>2. CASE RequestAbort(a)
  <2>1. LocalsTyped'
    BY <1>0, <1>2, Going DEF RequestAbort, AbortRunPCs, Unaware
  <2>2. [Run(a) EXCEPT !.cancel = TRUE] \in RunRow
    BY <1>0, AwareTyped DEF RunRow
  <2>3. runs' \in [Runs -> RunRow]
    BY <1>2, <2>2 DEF RequestAbort, Run
  <2> QED
    BY <1>2, <2>1, <2>3, Assembled DEF RequestAbort
<1>3. CASE RecheckRun(a)
  <2>1. CASE Run(a).status # "queued"
    <3>1. LocalsTyped' /\ answer' \in [Clients -> [Requests -> Answers]]
                       /\ jobs' \in [Requests -> JobStates]
      BY <1>0, <1>3, <2>1, ReturnTyped DEF RecheckRun, Answers, JobStates
    <3> QED
      BY <1>3, <3>1, Assembled DEF RecheckRun
  <2>2. CASE Run(a).status = "queued"
    <3> DEFINE row == Run(a)
               active == Run(a).active
               to == IF active = None THEN "abdirect" ELSE "abgetturn"
               l == [at[a] EXCEPT !.row = row, !.req = active]
    <3>1. /\ pc' = [pc EXCEPT ![a] = to] /\ at' = [at EXCEPT ![a] = l]
          /\ UNCHANGED <<jobs, answer>>
      BY <1>0, <1>3, <2>2 DEF RecheckRun, LocalsTyped
    <3>2. row \in RunRow /\ at[a] \in Local /\ active \in Requests \union {None}
      BY <1>0, AwareTyped DEF RunRow
    <3> HIDE DEF row, active
    <3>3. l \in Local /\ l.req = active
      BY <3>2 DEF Local
    <3>4. May(a, to) /\ (l.req \in Requests \/ to \in Unaware)
      BY <1>0, <3>2, <3>3 DEF AbortRunPCs, Unaware
    <3> HIDE DEF l, to
    <3>5. LocalsTyped'
      BY <1>0, <3>1, <3>3, <3>4, Moves
    <3> QED
      BY <1>3, <3>1, <3>5, Assembled DEF RecheckRun
  <2> QED
    BY <2>1, <2>2
<1>4. CASE AbortIdleRun(a)
  <2>1. LocalsTyped' /\ answer' \in [Clients -> [Requests -> Answers]]
                     /\ jobs' \in [Requests -> JobStates]
    BY <1>0, <1>4, ReturnTyped DEF AbortIdleRun, Answers, JobStates
  <2>2. runs' \in [Runs -> RunRow]
    BY <1>0, <1>4, StatusesKnown, WriteRunTyped DEF AbortIdleRun
  <2> QED
    BY <1>4, <2>1, <2>2, Assembled DEF AbortIdleRun
<1>5. CASE GetActiveTurn(a)
  <2> DEFINE l == [at[a] EXCEPT !.turn = turns[at[a].req]]
  <2>1. Go(a, "abgetturn", "abturn") /\ at' = [at EXCEPT ![a] = l]
    BY <1>5 DEF GetActiveTurn
  <2>2. at[a].req \in Requests
    BY <1>0, <2>1, AwareTyped DEF Go, Unaware
  <2>3. l \in Local /\ l.req = at[a].req
    BY <1>0, <2>2, AwareTyped, SetTurn1
  <2> HIDE DEF l
  <2>4. LocalsTyped'
    BY <1>0, <2>1, <2>3, GoingWith DEF AbortTurnPCs, Unaware
  <2> QED
    BY <1>5, <2>4, Assembled DEF GetActiveTurn, db
<1> QED
  BY <1>1, <1>2, <1>3, <1>4, <1>5 DEF AbortRunStep

-----------------------------------------------------------------------------
(* Operations that begin.                                                  *)

LEMMA Beginning ==
  ASSUME Typed, NEW a \in Actors, NEW first, NEW q \in Requests \union {None},
         NEW r \in Runs, Begin(a, first, q, r), May(a, first),
         q \in Requests \/ first \in Unaware
  PROVE  LocalsTyped'
<1>1. NewLocal(q, r) \in Local /\ NewLocal(q, r).req = q
  BY NewLocalTyped
<1>2. pc' = [pc EXCEPT ![a] = first] /\ at' = [at EXCEPT ![a] = NewLocal(q, r)]
  BY DEF Begin, Go
<1> QED
  BY <1>1, <1>2, Moves, RowsTyped

LEMMA SubmitTyped ==
  ASSUME Typed, NEW c \in Clients, NEW q \in Requests, Submit(c, q)
  PROVE  Typed'
<1>1. c \in Actors /\ May(c, "load") /\ RunOf[q] \in Runs
  BY ClientMay, RequestsAssumption DEF ClientPCs, PreparePCs
<1>2. LocalsTyped'
  BY <1>1, Beginning DEF Submit
<1> QED
  BY <1>2, RowsTyped, Assembled DEF Submit, db

LEMMA FetchTyped ==
  ASSUME Typed, NEW w \in Workers, NEW q \in Requests, Fetch(w, q)
  PROVE  Typed'
<1>1. w \in Actors /\ May(w, "getturn") /\ RunOf[q] \in Runs
  BY ExecutorMay, RequestsAssumption DEF WorkerPCs, ExecutePCs, StartPCs
<1>2. LocalsTyped'
  BY <1>1, Beginning DEF Fetch
<1>3. jobs' \in [Requests -> JobStates]
  BY RowsTyped DEF Fetch, JobStates
<1> QED
  BY <1>2, <1>3, RowsTyped, Assembled DEF Fetch

LEMMA AbortTyped ==
  ASSUME Typed, NEW a \in Aborters, NEW r \in Runs, AbortRun(a, r)
  PROVE  Typed'
<1>1. a \in Actors /\ May(a, "abget") /\ "abget" \in Unaware
  BY AborterMay DEF AborterPCs, AbortRunPCs, Unaware
<1>2. LocalsTyped'
  BY <1>1, Beginning DEF AbortRun
<1>3. aborts' \in 0..MaxAborts
  BY BoundsAssumption DEF AbortRun, Typed, TypeOK
<1> QED
  BY <1>2, <1>3 DEF AbortRun, db, Typed, TypeOK, LocalsTyped

-----------------------------------------------------------------------------
(* Cancelled contexts, crashes and cleanups.                               *)

LEMMA GiveUpTyped ==
  ASSUME Typed, NEW a \in Actors, GiveUp(a)
  PROVE  Typed'
<1>1. LocalsTyped' /\ answer' \in [Clients -> [Requests -> Answers]]
                   /\ jobs' \in [Requests -> JobStates]
  BY ReturnTyped DEF GiveUp, Answers, JobStates
<1> QED
  BY <1>1, RowsTyped, Assembled DEF GiveUp

LEMMA CrashTyped ==
  ASSUME Typed, Crash
  PROVE  Typed'
<1>1. PICK a \in Actors : TRUE
  BY ActorsAssumption DEF Crash
<1>2. Blank \in Local
  BY <1>1, AwareTyped, NewLocalTyped, RequestsAssumption
<1>3. LocalsTyped'
  <2>1. \A b \in Actors : May(b, pc'[b]) /\ (pc'[b] \notin Unaware => at'[b].req \in Requests)
    <3> TAKE b \in Actors
    <3>1. CASE b \in Mortal
      BY <3>1, AnyoneMay DEF Crash, Unaware
    <3>2. CASE b \notin Mortal
      BY <3>2, AwareTyped DEF Crash
    <3> QED
      BY <3>1, <3>2
  <2>2. pc' \in [Actors -> PCs]
    BY <2>1 DEF Crash, May
  <2>3. at' \in [Actors -> Local]
    BY <1>2, AwareTyped DEF Crash
  <2> QED
    BY <2>1, <2>2, <2>3 DEF LocalsTyped, PlacesOK, May
<1>4. answer' \in [Clients -> [Requests -> Answers]]
  BY RowsTyped DEF Crash, Answers
<1>5. crashes' \in 0..MaxCrashes
  BY BoundsAssumption DEF Crash, Typed, TypeOK
<1> QED
  BY <1>3, <1>4, <1>5 DEF Crash, db, Typed, TypeOK, LocalsTyped

LEMMA RestartTyped ==
  ASSUME Typed, Restart
  PROVE  Typed'
<1>1. \A b \in Actors : May(b, pc'[b]) /\ (pc'[b] \notin Unaware => at'[b].req \in Requests)
  <2> TAKE b \in Actors
  <2>1. CASE b \in Mortal
    BY <2>1, AnyoneMay DEF Restart, Unaware
  <2>2. CASE b \notin Mortal
    BY <2>2, AwareTyped DEF Restart
  <2> QED
    BY <2>1, <2>2
<1>2. pc' \in [Actors -> PCs]
  BY <1>1 DEF Restart, May
<1>3. LocalsTyped'
  BY <1>1, <1>2, RowsTyped DEF LocalsTyped, PlacesOK, May, Restart
<1>4. cleaning' \in BOOLEAN
  BY DEF Restart, Typed, TypeOK
<1> QED
  BY <1>3, <1>4 DEF Restart, db, Typed, TypeOK, LocalsTyped

LEMMA MarkStaleTyped ==
  ASSUME Typed, MarkStaleAborted
  PROVE  Typed'
<1> DEFINE Stale == {r \in Runs : runs[r].status = "running"}
<1>1. PICK named \in [Runs -> Requests \union {None}] :
       /\ events' = [r \in Runs |->
                       IF named[r] = None THEN events[r]
                       ELSE Append(events[r], [req |-> named[r], kind |-> "status"])]
       /\ runs' = [r \in Runs |->
                     IF r \notin Stale THEN runs[r]
                     ELSE [runs[r] EXCEPT !.status = "aborted", !.active = None,
                             !.last = IF named[r] = None THEN @ ELSE Len(events[r]) + 1]]
  BY DEF MarkStaleAborted
<1>2. events' \in [Runs -> Seq(EventRow)]
  <2> SUFFICES ASSUME NEW r \in Runs, named[r] # None
               PROVE  Append(events[r], [req |-> named[r], kind |-> "status"]) \in Seq(EventRow)
    BY <1>1, RowsTyped
  <2>1. [req |-> named[r], kind |-> "status"] \in EventRow
    BY DEF EventRow
  <2> QED
    BY <2>1, RowsTyped
<1>3. runs' \in [Runs -> RunRow]
  <2> SUFFICES ASSUME NEW r \in Runs
               PROVE  [runs[r] EXCEPT !.status = "aborted", !.active = None,
                         !.last = IF named[r] = None THEN @ ELSE Len(events[r]) + 1] \in RunRow
    BY <1>1, RowsTyped
  <2> DEFINE n == IF named[r] = None THEN runs[r].last ELSE Len(events[r]) + 1
  <2>1. runs[r] \in RunRow /\ events[r] \in Seq(EventRow)
    BY RowsTyped
  <2>2. runs[r].last \in Nat
    BY <2>1 DEF RunRow
  <2>3. n \in Nat
    BY <2>1, <2>2
  <2> HIDE DEF n
  <2>4. [runs[r] EXCEPT !.status = "aborted", !.active = None, !.last = n] \in RunRow
    BY <2>1, <2>3, StatusesKnown DEF RunRow
  <2> QED
    BY <2>4 DEF n
<1>4. turns' \in [Requests -> TurnRow]
  <2>1. turns' = [q \in Requests |-> IF Stale # {} /\ turns[q].status = "running"
                                       THEN [turns[q] EXCEPT !.status = "aborted"]
                                       ELSE turns[q]]
    BY DEF MarkStaleAborted
  <2>2. \A q \in Requests : [turns[q] EXCEPT !.status = "aborted"] \in TurnRow
    BY RowsTyped, StatusesKnown DEF TurnRow
  <2> QED
    BY <2>1, <2>2, RowsTyped
<1> HIDE DEF Stale
<1> QED
  BY <1>2, <1>3, <1>4
     DEF MarkStaleAborted, Typed, TypeOK, PlacesOK, May

LEMMA RescueTyped ==
  ASSUME Typed, NEW q \in Requests, Rescue(q)
  PROVE  Typed'
<1>1. jobs' \in [Requests -> JobStates]
  BY RowsTyped DEF Rescue, JobStates
<1> QED
  BY <1>1 DEF Rescue, environment, Typed, TypeOK, PlacesOK, May

LEMMA StartServerTyped ==
  ASSUME Typed, StartServer
  PROVE  Typed'
<1>1. boots' \in 0..MaxBoots
  BY BoundsAssumption DEF StartServer, Typed, TypeOK
<1> QED
  BY <1>1 DEF StartServer, db, Typed, TypeOK, PlacesOK, May

-----------------------------------------------------------------------------
(* Type correctness.                                                       *)

LEMMA InitTyped == Init => Typed
<1> SUFFICES ASSUME Init PROVE Typed
  OBVIOUS
<1>1. NoRun \in RunRow /\ NoTurn \in TurnRow /\ Blank \in Local
  BY RequestsAssumption, NewLocalTyped
<1>2. runs \in [Runs -> RunRow] /\ turns \in [Requests -> TurnRow]
  BY <1>1 DEF Init
<1>3. events \in [Runs -> Seq(EventRow)] /\ jobs \in [Requests -> JobStates]
  BY DEF Init, JobStates
<1>4. pc \in [Actors -> PCs] /\ at \in [Actors -> Local] /\ PlacesOK
  <2>1. \A a \in Actors : May(a, "idle") /\ "idle" \in PCs
    BY AnyoneMay DEF May
  <2> QED
    BY <1>1, <2>1 DEF Init, PlacesOK, Unaware
<1>5. answer \in [Clients -> [Requests -> Answers]]
  BY DEF Init, Answers
<1>6. cleaning \in BOOLEAN
  BY Zenon DEF Init
<1>7. crashes \in 0..MaxCrashes /\ boots \in 0..MaxBoots /\ aborts \in 0..MaxAborts
  <2>1. crashes = 0 /\ boots = 0 /\ aborts = 0
    BY DEF Init
  <2> QED
    BY <2>1, BoundsAssumption
<1> QED
  BY <1>2, <1>3, <1>4, <1>5, <1>6, <1>7 DEF Typed, TypeOK

LEMMA StepTyped ==
  ASSUME Typed, NEW a \in Actors, Step(a)
  PROVE  Typed'
<1>1. CASE a \in Clients /\ (PrepareStep(a) \/ QueueStep(a))
  BY <1>1, PrepareTyped, QueueTyped
<1>2. CASE a \in Clients \union Workers /\ (ExecuteStep(a) \/ AgentStep(a))
  BY <1>2, ExecuteTyped, AgentTyped
<1>3. CASE WatchForAbort(a)
  BY <1>3, CancelTyped DEF WatchForAbort
<1>4. CASE AbortTurnStep(a)
  BY <1>4, AbortTurnTyped
<1>5. CASE a \in Aborters /\ AbortRunStep(a)
  BY <1>5, AbortRunTyped
<1> QED
  BY <1>1, <1>2, <1>3, <1>4, <1>5 DEF Step

LEMMA NextTyped == Typed /\ [Next]_vars => Typed'
<1> SUFFICES ASSUME Typed, [Next]_vars PROVE Typed'
  OBVIOUS
<1>1. ASSUME NEW a \in Actors, Step(a) PROVE Typed'
  BY <1>1, StepTyped
<1>2. ASSUME NEW a \in Actors, GiveUp(a) PROVE Typed'
  BY <1>2, GiveUpTyped
<1>3. ASSUME NEW a \in Actors, ContextDone(a) PROVE Typed'
  BY <1>3, CancelTyped DEF ContextDone
<1>4. ASSUME NEW c \in Clients, NEW q \in Requests, Submit(c, q) PROVE Typed'
  BY <1>4, SubmitTyped
<1>5. ASSUME NEW w \in Workers, NEW q \in Requests, Fetch(w, q) PROVE Typed'
  BY <1>5, FetchTyped
<1>6. ASSUME NEW a \in Aborters, NEW r \in Runs, AbortRun(a, r) PROVE Typed'
  BY <1>6, AbortTyped
<1>7. ASSUME NEW q \in Requests, Rescue(q) PROVE Typed'
  BY <1>7, RescueTyped
<1>8. CASE Crash
  BY <1>8, CrashTyped
<1>9. CASE Restart
  BY <1>9, RestartTyped
<1>10. CASE StartServer
  BY <1>10, StartServerTyped
<1>11. CASE MarkStaleAborted
  BY <1>11, MarkStaleTyped
<1>12. CASE UNCHANGED vars
  BY <1>12 DEF vars, Typed, TypeOK, PlacesOK, May
<1> QED
  BY <1>1, <1>2, <1>3, <1>4, <1>5, <1>6, <1>7, <1>8, <1>9, <1>10, <1>11, <1>12 DEF Next

\* Every row, job, program counter and local copy keeps its type, and no
\* operation writes a row it cannot name, however the operations interleave.
THEOREM TypeCorrect == Spec => []TypeOK
<1>1. Spec => []Typed
  BY InitTyped, NextTyped, PTL DEF Spec
<1>2. Typed => TypeOK
  BY DEF Typed
<1> QED
  BY <1>1, <1>2, PTL

-----------------------------------------------------------------------------
(***************************************************************************)
(* One submission of a message is answered 202 Accepted, however many      *)
(* clients submit it, repeat it or crash.                                  *)
(*                                                                         *)
(* The client that is going to accept a request is the one that wrote its  *)
(* turn row; the row is never removed, so there is only one such client.   *)
(***************************************************************************)
\* The statements after the one that wrote the turn row.
MakerPCs == {"activate", "prepared"} \union QueuePCs

\* Client c has accepted request q, or wrote its turn row and may accept it.
Accepting(c, q) ==
  \/ answer[c][q] = "accepted"
  \/ pc[c] \in MakerPCs /\ at[c].req = q /\ ~at[c].known

RowKept == \A c \in Clients, q \in Requests : Accepting(c, q) => turns[q].status # "absent"

OneMaker ==
  \A c, d \in Clients, q \in Requests : Accepting(c, q) /\ Accepting(d, q) => c = d

Accepted == RowKept /\ OneMaker

\* A step that makes nobody accepting and removes no row.
Steady ==
  /\ \A c \in Clients, q \in Requests : Accepting(c, q)' => Accepting(c, q)
  /\ \A q \in Requests : turns[q].status # "absent" => turns'[q].status # "absent"

LEMMA SteadyAccepted ==
  ASSUME Accepted, Steady PROVE Accepted'
BY DEF Accepted, RowKept, OneMaker, Steady

LEMMA ActorKinds ==
  /\ \A c \in Clients : c \in Actors /\ c \notin Workers /\ c \notin Aborters
  /\ \A w \in Workers \union Aborters : w \in Actors /\ w \notin Clients
BY ActorsAssumption DEF Actors

\* Where executors and aborters are, no turn row was just written.
LEMMA MakerPlaces ==
  /\ (ExecutePCs \union AbortRunPCs \union {"idle", "dead"}) \intersect MakerPCs = {}
  /\ {"load", "lookup", "create", "reload", "insert"} \intersect MakerPCs = {}
  /\ QueuePCs \subseteq MakerPCs /\ MakerPCs \intersect Unaware = {}
BY DEF ExecutePCs, StartPCs, AgentPCs, FinishPCs, AbortTurnPCs, AbortRunPCs, MakerPCs, QueuePCs,
       Unaware

\* Rows stay when a status other than "absent" is written.
LEMMA RowsStay ==
  ASSUME Typed, NEW a \in Actors,
         \/ turns' = turns
         \/ \E s \in Statuses : WriteTurn(a, s)
         \/ \E row \in TurnRow : row.status # "absent" /\ turns' = [turns EXCEPT ![at[a].req] = row]
  PROVE  \A q \in Requests : turns[q].status # "absent" => turns'[q].status # "absent"
<1>1. "absent" \notin Statuses
  BY DEF Statuses, Live, Terminal
<1>2. CASE \E s \in Statuses : WriteTurn(a, s)
  BY <1>1, <1>2, RowsTyped DEF WriteTurn
<1>3. CASE \E row \in TurnRow : row.status # "absent" /\ turns' = [turns EXCEPT ![at[a].req] = row]
  BY <1>3, RowsTyped
<1> QED
  BY <1>2, <1>3

\* The shape of a statement: actor a moves, perhaps with its turn row made.
LEMMA MoveSteady ==
  ASSUME Typed, NEW a \in Actors, answer' = answer,
         \A b \in Actors \ {a} : pc'[b] = pc[b] /\ at'[b] = at[b],
         pc'[a] \in MakerPCs => pc[a] \in MakerPCs /\ at'[a].req = at[a].req
                               /\ at'[a].known = at[a].known,
         \A q \in Requests : turns[q].status # "absent" => turns'[q].status # "absent"
  PROVE  Steady
<1> SUFFICES ASSUME NEW c \in Clients, NEW q \in Requests, Accepting(c, q)'
             PROVE  Accepting(c, q)
  BY DEF Steady
<1>1. CASE c = a
  BY <1>1 DEF Accepting
<1>2. CASE c # a
  BY <1>2, ActorKinds DEF Accepting
<1> QED
  BY <1>1, <1>2

\* The usual form of such a statement.
LEMMA GoSteady ==
  ASSUME Typed, NEW a \in Actors, NEW from, NEW to, Go(a, from, to), answer' = answer,
         \E l : at' = [at EXCEPT ![a] = l], to \notin MakerPCs,
         \A q \in Requests : turns[q].status # "absent" => turns'[q].status # "absent"
  PROVE  Steady
<1>1. pc'[a] = to /\ \A b \in Actors \ {a} : pc'[b] = pc[b] /\ at'[b] = at[b]
  BY RowsTyped DEF Go, LocalsTyped
<1> QED
  BY <1>1, MoveSteady

\* An operation that returns accepts only what its client was about to.
LEMMA ReturnSteady ==
  ASSUME Typed, NEW a \in Actors, NEW result, NEW outcome, Return(a, result, outcome),
         a \in Clients /\ result = "accepted" => pc[a] \in QueuePCs /\ ~at[a].known,
         \A q \in Requests : turns[q].status # "absent" => turns'[q].status # "absent"
  PROVE  Steady
<1>1. /\ pc' = [pc EXCEPT ![a] = "idle"] /\ at' = [at EXCEPT ![a] = Blank]
      /\ answer' = IF a \in Clients THEN [answer EXCEPT ![a][at[a].req] = result] ELSE answer
  BY DEF Return
<1>2. pc'[a] = "idle" /\ \A b \in Actors \ {a} : pc'[b] = pc[b] /\ at'[b] = at[b]
  BY <1>1, RowsTyped DEF LocalsTyped
<1>3. "idle" \notin MakerPCs
  BY MakerPlaces
<1> SUFFICES ASSUME NEW c \in Clients, NEW q \in Requests, Accepting(c, q)'
             PROVE  Accepting(c, q)
  BY DEF Steady
<1>4. CASE c # a
  <2>1. answer'[c][q] = answer[c][q]
    BY <1>1, <1>4, RowsTyped
  <2> QED
    BY <1>2, <1>4, <2>1, ActorKinds DEF Accepting
<1>5. CASE c = a
  <2>1. answer'[c][q] = "accepted"
    BY <1>2, <1>3, <1>5 DEF Accepting
  <2>2. answer[c][q] = "accepted" \/ (result = "accepted" /\ at[c].req = q)
    BY <1>1, <1>5, <2>1, RowsTyped
  <2> QED
    BY <1>5, <2>2, MakerPlaces DEF Accepting
<1> QED
  BY <1>4, <1>5

-----------------------------------------------------------------------------
(* Every statement but the one that writes the turn row is steady.         *)

LEMMA PrepareAccepted ==
  ASSUME Typed, Accepted, NEW c \in Clients, PrepareStep(c)
  PROVE  Accepted'
<1> USE RowsTyped
<1>0. c \in Actors
  BY ActorKinds
<1>1. CASE LoadRun(c) \/ NoTurnYet(c) \/ ReloadRun(c)
  <2>1. PICK to \in {"lookup", "create", "insert"} : Go(c, pc[c], to)
    BY <1>1 DEF LoadRun, NoTurnYet, ReloadRun, Go
  <2>2. \E l : at' = [at EXCEPT ![c] = l]
    BY <1>1 DEF LoadRun, NoTurnYet, ReloadRun, ReadRun, LocalsTyped
  <2>3. answer' = answer /\ turns' = turns
    BY <1>1 DEF LoadRun, NoTurnYet, ReloadRun, db
  <2> QED
    BY <1>0, <2>1, <2>2, <2>3, MakerPlaces, GoSteady, SteadyAccepted
<1>2. CASE FoundTurn(c)
  <2>1. CASE turns[at[c].req].job
    BY <1>0, <1>2, <2>1, ReturnSteady, SteadyAccepted DEF FoundTurn
  <2>2. CASE ~turns[at[c].req].job
    <3>1. /\ pc' = [pc EXCEPT ![c] = IF c \in Attached THEN "getturn" ELSE "enqueue"]
          /\ at' = [at EXCEPT ![c].turn = turns[at[c].req], ![c].known = TRUE]
          /\ answer' = answer /\ turns' = turns
      BY <1>2, <2>2 DEF FoundTurn
    <3>2. at'[c].known /\ \A b \in Actors \ {c} : pc'[b] = pc[b] /\ at'[b] = at[b]
      BY <1>0, <3>1 DEF LocalsTyped, Local
    <3>3. \A d \in Clients, q \in Requests : Accepting(d, q)' => Accepting(d, q)
      BY <3>1, <3>2, ActorKinds DEF Accepting
    <3> QED
      BY <3>1, <3>3, SteadyAccepted DEF Steady
  <2> QED
    BY <2>1, <2>2
<1>3. CASE RefuseBusy(c)
  BY <1>0, <1>3, ReturnSteady, SteadyAccepted DEF RefuseBusy
<1>4. CASE CreateRun(c)
  <2>1. CASE Run(c).status = "absent"
    <3>1. /\ Go(c, "create", "reload") /\ at' = [at EXCEPT ![c] = at[c]]
          /\ answer' = answer /\ turns' = turns
      BY <1>4, <2>1 DEF CreateRun, LocalsTyped
    <3> QED
      BY <1>0, <3>1, MakerPlaces, GoSteady, SteadyAccepted
  <2>2. CASE Run(c).status # "absent"
    BY <1>0, <1>4, <2>2, ReturnSteady, SteadyAccepted DEF CreateRun
  <2> QED
    BY <2>1, <2>2
<1>5. CASE CreateTurn(c)
  <2>1. CASE turns[at[c].req].status = "absent"
    <3> DEFINE row == [status |-> ModeStatus(c), job |-> FALSE]
    <3>1. /\ pc[c] = "insert" /\ pc' = [pc EXCEPT ![c] = "activate"]
          /\ at' = [at EXCEPT ![c].turn = row]
          /\ turns' = [turns EXCEPT ![at[c].req] = row] /\ answer' = answer
      BY <1>5, <2>1 DEF CreateTurn, Go
    <3>2. at'[c].req = at[c].req /\ \A b \in Actors \ {c} : pc'[b] = pc[b] /\ at'[b] = at[b]
      BY <1>0, <3>1 DEF LocalsTyped, Local
    <3>3. at[c].req \in Requests /\ row.status # "absent"
      BY <1>0, <3>1, AwareTyped DEF Unaware, ModeStatus
    <3>4. /\ turns'[at[c].req].status # "absent"
          /\ \A q \in Requests : q # at[c].req => turns'[q] = turns[q]
      BY <3>1, <3>3
    <3>5. \A d \in Clients, q \in Requests :
            Accepting(d, q)' => Accepting(d, q) \/ (d = c /\ q = at[c].req)
      <4> SUFFICES ASSUME NEW d \in Clients, NEW q \in Requests, Accepting(d, q)'
                   PROVE  Accepting(d, q) \/ (d = c /\ q = at[c].req)
        OBVIOUS
      <4>1. CASE d = c
        BY <3>1, <3>2, <4>1 DEF Accepting
      <4>2. CASE d # c
        BY <3>1, <3>2, <4>2, ActorKinds DEF Accepting
      <4> QED
        BY <4>1, <4>2
    <3>6. \A d \in Clients : ~Accepting(d, at[c].req)
      BY <2>1, <3>3 DEF Accepted, RowKept
    <3>7. RowKept'
      BY <3>4, <3>5 DEF Accepted, RowKept
    <3>8. OneMaker'
      BY <3>5, <3>6 DEF Accepted, OneMaker
    <3> QED
      BY <3>7, <3>8 DEF Accepted
  <2>2. CASE turns[at[c].req].status # "absent"
    BY <1>0, <1>5, <2>2, ReturnSteady, SteadyAccepted DEF CreateTurn
  <2> QED
    BY <2>1, <2>2
<1>6. CASE ActivateTurn(c)
  <2>1. /\ pc[c] = "activate" /\ pc' = [pc EXCEPT ![c] = "prepared"] /\ at' = at
        /\ answer' = answer /\ turns' = turns
    BY <1>6 DEF ActivateTurn, Go
  <2> QED
    BY <1>0, <2>1, MoveSteady, SteadyAccepted DEF LocalsTyped, MakerPCs
<1>7. CASE Prepared(c)
  <2>1. /\ pc[c] \in MakerPCs
        /\ at' = [at EXCEPT ![c].row = Run(c)] /\ answer' = answer /\ turns' = turns
        /\ \E to : pc' = [pc EXCEPT ![c] = to]
    BY <1>7 DEF Prepared, Go, ReadRun, db, MakerPCs
  <2>2. /\ \A b \in Actors \ {c} : pc'[b] = pc[b] /\ at'[b] = at[b]
        /\ at'[c] = [at[c] EXCEPT !.row = Run(c)]
    BY <1>0, <2>1 DEF LocalsTyped
  <2>3. at'[c].req = at[c].req /\ at'[c].known = at[c].known
    BY <1>0, <2>2 DEF LocalsTyped, Local
  <2> QED
    BY <1>0, <2>1, <2>2, <2>3, MoveSteady, SteadyAccepted
<1> QED
  BY <1>1, <1>2, <1>3, <1>4, <1>5, <1>6, <1>7 DEF PrepareStep

LEMMA QueueAccepted ==
  ASSUME Typed, Accepted, NEW c \in Clients, QueueStep(c)
  PROVE  Accepted'
<1> USE RowsTyped
<1>0. c \in Actors
  BY ActorKinds
<1>1. CASE EnqueueAgentRun(c)
  <2>1. /\ pc[c] \in MakerPCs /\ pc' = [pc EXCEPT ![c] = "markturn"]
        /\ \E b \in BOOLEAN : at' = [at EXCEPT ![c].skipped = b]
        /\ answer' = answer /\ turns' = turns
    BY <1>1 DEF EnqueueAgentRun, Go, MakerPCs, QueuePCs
  <2>2. /\ at'[c].req = at[c].req /\ at'[c].known = at[c].known
        /\ \A b \in Actors \ {c} : pc'[b] = pc[b] /\ at'[b] = at[b]
    BY <1>0, <2>1 DEF LocalsTyped, Local
  <2> QED
    BY <1>0, <2>1, <2>2, MoveSteady, SteadyAccepted
<1>2. CASE MarkTurn(c) \/ MarkRun(c)
  <2>1. /\ pc[c] \in MakerPCs /\ (\E to : pc' = [pc EXCEPT ![c] = to]) /\ at' = at
        /\ answer' = answer
    BY <1>2 DEF MarkTurn, MarkRun, Go, MakerPCs, QueuePCs
  <2>2. \A q \in Requests : turns[q].status # "absent" => turns'[q].status # "absent"
    BY <1>2 DEF MarkTurn, MarkRun
  <2> QED
    BY <1>0, <2>1, <2>2, MoveSteady, SteadyAccepted DEF LocalsTyped
<1>3. CASE EmitQueued(c)
  BY <1>0, <1>3, ReturnSteady, SteadyAccepted DEF EmitQueued, QueuePCs
<1> QED
  BY <1>1, <1>2, <1>3 DEF QueueStep

LEMMA ExecuteAccepted ==
  ASSUME Typed, Accepted, NEW a \in Clients \union Workers, ExecuteStep(a)
  PROVE  Accepted'
<1> USE RowsTyped
<1>0. a \in Actors /\ \A to \in ExecutePCs : to \notin MakerPCs
  BY ActorKinds, MakerPlaces
<1>1. ASSUME NEW from, NEW to \in ExecutePCs, Go(a, from, to), answer' = answer,
             at' = at \/ ReadRun(a) \/ GetTurn(a),
             turns' = turns \/ \E s \in Statuses : WriteTurn(a, s)
      PROVE  Accepted'
  <2>1. \E l : at' = [at EXCEPT ![a] = l]
    BY <1>1 DEF ReadRun, GetTurn, LocalsTyped
  <2> QED
    BY <1>0, <1>1, <2>1, RowsStay, GoSteady, SteadyAccepted
<1>2. ASSUME NEW result, NEW outcome, Return(a, result, outcome), result # "accepted",
             turns' = turns
      PROVE  Accepted'
  BY <1>0, <1>2, ReturnSteady, SteadyAccepted
<1>3. StartPCs \union FinishPCs \union {"exec", "abturn"} \subseteq ExecutePCs
  BY DEF ExecutePCs, AgentPCs, AbortTurnPCs
<1>4. CASE GetTurn(a)
  BY <1>1, <1>3, <1>4 DEF GetTurn, StartPCs, db
<1>5. CASE GetRun(a)
  <2>1. CASE at[a].turn.status \in {"completed", "aborted"}
    BY <1>2, <1>5, <2>1 DEF GetRun
  <2>2. CASE at[a].turn.status \notin {"completed", "aborted"}
    <3>1. /\ Go(a, "getrun", IF Run(a).cancel THEN "abturn" ELSE "setturn")
          /\ ReadRun(a) /\ answer' = answer /\ turns' = turns
      BY <1>5, <2>2 DEF GetRun, Go
    <3> QED
      BY <1>1, <1>3, <3>1 DEF StartPCs
  <2> QED
    BY <2>1, <2>2
<1>6. CASE SetTurn(a)
  BY <1>1, <1>3, <1>6, StatusesKnown DEF SetTurn, StartPCs
<1>7. CASE SetRun(a)
  BY <1>1, <1>3, <1>7 DEF SetRun, StartPCs
<1>8. CASE EmitStarted(a)
  BY <1>1, <1>3, <1>8 DEF EmitStarted, StartPCs
<1>9. CASE GetFinished(a)
  BY <1>1, <1>3, <1>9 DEF GetFinished, FinishPCs, db
<1>10. CASE FinalizeRun(a)
  BY <1>1, <1>3, <1>10 DEF FinalizeRun, FinishPCs
<1>11. CASE ReloadFinal(a)
  BY <1>1, <1>3, <1>11 DEF ReloadFinal, FinishPCs, db
<1>12. CASE FinalizeTurn(a)
  <2>1. \E s \in Statuses : WriteTurn(a, s)
    BY <1>12 DEF FinalizeTurn, Statuses, Terminal
  <2> QED
    BY <1>1, <1>3, <1>12, <2>1 DEF FinalizeTurn, FinishPCs
<1>13. CASE FinalizeRow(a)
  BY <1>1, <1>3, <1>13 DEF FinalizeRow, FinishPCs
<1>14. CASE EmitStatus(a)
  BY <1>2, <1>14 DEF EmitStatus
<1> QED
  BY <1>4, <1>5, <1>6, <1>7, <1>8, <1>9, <1>10, <1>11, <1>12, <1>13, <1>14 DEF ExecuteStep

LEMMA AgentAccepted ==
  ASSUME Typed, Accepted, NEW a \in Clients \union Workers, AgentStep(a)
  PROVE  Accepted'
<1>0. a \in Actors /\ \A to \in ExecutePCs : to \notin MakerPCs
  BY ActorKinds, MakerPlaces
<1>1. answer' = answer /\ turns' = turns
  BY DEF AgentStep, LoadConversation, ReadMeta, WriteMeta, InitialChunk, StreamChunk,
         PersistProgress, EndStream, FinishChunk, db
<1>2. \A b \in Actors \ {a} : at'[b] = at[b]
  BY RowsTyped
     DEF AgentStep, LoadConversation, ReadMeta, WriteMeta, InitialChunk, StreamChunk,
         PersistProgress, EndStream, FinishChunk, ReadRun, LocalsTyped
<1>3. \E to \in AgentPCs \union {"execdone"} : pc' = [pc EXCEPT ![a] = to]
  <2>1. CASE StreamChunk(a)
    BY <2>1, RowsTyped DEF StreamChunk, LocalsTyped, AgentPCs
  <2>2. CASE LoadConversation(a) \/ ReadMeta(a) \/ WriteMeta(a)
    BY <2>2 DEF LoadConversation, ReadMeta, WriteMeta, Go, AgentPCs
  <2>3. CASE InitialChunk(a) \/ PersistProgress(a) \/ EndStream(a) \/ FinishChunk(a)
    BY <2>3 DEF InitialChunk, PersistProgress, EndStream, FinishChunk, Go, AgentPCs
  <2> QED
    BY <2>1, <2>2, <2>3 DEF AgentStep
<1>4. AgentPCs \union {"execdone"} \subseteq ExecutePCs
  BY DEF ExecutePCs, FinishPCs
<1>5. pc'[a] \notin MakerPCs /\ \A b \in Actors \ {a} : pc'[b] = pc[b]
  BY <1>0, <1>3, <1>4, RowsTyped DEF LocalsTyped
<1> QED
  BY <1>0, <1>1, <1>2, <1>5, MoveSteady, SteadyAccepted

LEMMA CancelAccepted ==
  ASSUME Typed, Accepted, NEW a \in Actors, WatchForAbort(a) \/ ContextDone(a)
  PROVE  Accepted'
<1>1. /\ at' = [at EXCEPT ![a].cancelled = TRUE] /\ pc' = pc
      /\ answer' = answer /\ turns' = turns
  BY DEF WatchForAbort, ContextDone, db
<1>2. at'[a].req = at[a].req /\ at'[a].known = at[a].known
  BY <1>1, AwareTyped, RowsTyped DEF LocalsTyped, Local
<1>3. \A b \in Actors \ {a} : pc'[b] = pc[b] /\ at'[b] = at[b]
  BY <1>1, RowsTyped DEF LocalsTyped
<1> QED
  BY <1>1, <1>2, <1>3, MoveSteady, SteadyAccepted

LEMMA AbortTurnAccepted ==
  ASSUME Typed, Accepted, NEW a \in Actors, AbortTurnStep(a)
  PROVE  Accepted'
<1> USE RowsTyped DEF LocalsTyped
<1>0. "abrow" \notin MakerPCs /\ "abemit" \notin MakerPCs
  BY MakerPlaces DEF ExecutePCs, AbortTurnPCs
<1>1. CASE AbortTurn(a)
  BY <1>0, <1>1, StatusesKnown, RowsStay, GoSteady, SteadyAccepted DEF AbortTurn
<1>2. CASE AbortRow(a)
  BY <1>0, <1>2, GoSteady, SteadyAccepted DEF AbortRow
<1>3. CASE EmitAborted(a)
  BY <1>3, ReturnSteady, SteadyAccepted DEF EmitAborted
<1> QED
  BY <1>1, <1>2, <1>3 DEF AbortTurnStep

\* Actors that are no clients leave rows and answers to the others.
LEMMA OthersAccepted ==
  ASSUME Typed, Accepted, NEW a \in Workers \union Aborters, answer' = answer, turns' = turns,
         \A b \in Actors \ {a} : pc'[b] = pc[b] /\ at'[b] = at[b]
  PROVE  Accepted'
<1>1. \A c \in Clients, q \in Requests : Accepting(c, q)' => Accepting(c, q)
  BY ActorKinds DEF Accepting
<1> QED
  BY <1>1, SteadyAccepted DEF Steady

LEMMA AbortRunAccepted ==
  ASSUME Typed, Accepted, NEW a \in Aborters, AbortRunStep(a) \/ \E r \in Runs : AbortRun(a, r)
  PROVE  Accepted'
<1> USE RowsTyped, ActorKinds DEF LocalsTyped
<1>1. CASE CheckRun(a)
  BY <1>1, OthersAccepted DEF CheckRun, Return
<1>2. CASE RequestAbort(a)
  BY <1>2, OthersAccepted DEF RequestAbort, Go
<1>3. CASE RecheckRun(a)
  BY <1>3, OthersAccepted DEF RecheckRun, Return
<1>4. CASE AbortIdleRun(a)
  BY <1>4, OthersAccepted DEF AbortIdleRun, Return
<1>5. CASE GetActiveTurn(a)
  BY <1>5, OthersAccepted DEF GetActiveTurn, Go, db
<1>6. CASE \E r \in Runs : AbortRun(a, r)
  BY <1>6, OthersAccepted DEF AbortRun, Begin, Go, db
<1> QED
  BY <1>1, <1>2, <1>3, <1>4, <1>5, <1>6 DEF AbortRunStep

LEMMA BeginAccepted ==
  ASSUME Typed, Accepted
  PROVE  /\ \A c \in Clients, q \in Requests : Submit(c, q) => Accepted'
         /\ \A w \in Workers, q \in Requests : Fetch(w, q) => Accepted'
<1>1. ASSUME NEW c \in Clients, NEW q \in Requests, Submit(c, q) PROVE Accepted'
  BY <1>1, ActorKinds, MakerPlaces, GoSteady, SteadyAccepted DEF Submit, Begin, db
<1>2. ASSUME NEW w \in Workers, NEW q \in Requests, Fetch(w, q) PROVE Accepted'
  BY <1>2, ActorKinds, RowsTyped, OthersAccepted DEF Fetch, Begin, Go, LocalsTyped
<1> QED
  BY <1>1, <1>2

\* A cleanup changes the statuses of rows, to "aborted" only.
LEMMA EnvironmentAccepted ==
  ASSUME Typed, Accepted,
         \/ Crash \/ Restart \/ StartServer \/ MarkStaleAborted \/ UNCHANGED vars
         \/ \E q \in Requests : Rescue(q)
  PROVE  Accepted'
<1> USE RowsTyped DEF LocalsTyped
<1>1. "dead" \notin MakerPCs /\ "idle" \notin MakerPCs
  BY MakerPlaces
<1>2. \A q \in Requests : turns[q].status # "absent" => turns'[q].status # "absent"
  <2>1. CASE MarkStaleAborted
    <3>1. turns' = [q \in Requests |-> IF /\ {r \in Runs : runs[r].status = "running"} # {}
                                            /\ turns[q].status = "running"
                                         THEN [turns[q] EXCEPT !.status = "aborted"]
                                         ELSE turns[q]]
      BY <2>1 DEF MarkStaleAborted
    <3>2. \A q \in Requests : [turns[q] EXCEPT !.status = "aborted"].status = "aborted"
      BY DEF TurnRow
    <3> QED
      BY <3>1, <3>2
  <2>2. CASE ~MarkStaleAborted
    BY <2>2 DEF Crash, Restart, StartServer, Rescue, vars, db
  <2> QED
    BY <2>1, <2>2
<1>3. \A c \in Clients, q \in Requests : Accepting(c, q)' => Accepting(c, q)
  <2>1. CASE Crash
    <3>1. \A c \in Clients, q \in Requests : answer'[c][q] = "accepted" => answer[c][q] = "accepted"
      BY <2>1 DEF Crash
    <3>2. \A c \in Clients : pc'[c] \in MakerPCs => pc[c] = pc'[c] /\ at'[c] = at[c]
      BY <1>1, <2>1, ActorKinds DEF Crash
    <3> QED
      BY <3>1, <3>2 DEF Accepting
  <2>2. CASE Restart
    BY <1>1, <2>2, ActorKinds DEF Restart, Accepting
  <2>3. CASE StartServer \/ MarkStaleAborted \/ UNCHANGED vars \/ \E q \in Requests : Rescue(q)
    BY <2>3 DEF StartServer, MarkStaleAborted, Rescue, vars, db, Accepting
  <2> QED
    BY <2>1, <2>2, <2>3
<1> QED
  BY <1>2, <1>3, SteadyAccepted DEF Steady

LEMMA NextAccepted == Typed /\ Accepted /\ [Next]_vars => Accepted'
<1> SUFFICES ASSUME Typed, Accepted, [Next]_vars PROVE Accepted'
  OBVIOUS
<1>1. ASSUME NEW a \in Actors, Step(a) PROVE Accepted'
  <2>1. CASE a \in Clients /\ (PrepareStep(a) \/ QueueStep(a))
    BY <2>1, PrepareAccepted, QueueAccepted
  <2>2. CASE a \in Clients \union Workers /\ (ExecuteStep(a) \/ AgentStep(a))
    BY <2>2, ExecuteAccepted, AgentAccepted
  <2>3. CASE WatchForAbort(a)
    BY <2>3, CancelAccepted
  <2>4. CASE AbortTurnStep(a)
    BY <2>4, AbortTurnAccepted
  <2>5. CASE a \in Aborters /\ AbortRunStep(a)
    BY <2>5, AbortRunAccepted
  <2> QED
    BY <1>1, <2>1, <2>2, <2>3, <2>4, <2>5 DEF Step
<1>2. ASSUME NEW a \in Actors, GiveUp(a) PROVE Accepted'
  BY <1>2, ReturnSteady, SteadyAccepted DEF GiveUp
<1>3. ASSUME NEW a \in Actors, ContextDone(a) PROVE Accepted'
  BY <1>3, CancelAccepted
<1>4. ASSUME NEW q \in Requests,
             \/ \E c \in Clients : Submit(c, q)
             \/ \E w \in Workers : Fetch(w, q)
      PROVE  Accepted'
  BY <1>4, BeginAccepted
<1>5. ASSUME NEW a \in Aborters, NEW r \in Runs, AbortRun(a, r) PROVE Accepted'
  BY <1>5, AbortRunAccepted
<1>6. CASE \/ Crash \/ Restart \/ StartServer \/ MarkStaleAborted \/ UNCHANGED vars
           \/ \E q \in Requests : Rescue(q)
  BY <1>6, EnvironmentAccepted
<1> QED
  BY <1>1, <1>2, <1>3, <1>4, <1>5, <1>6 DEF Next

LEMMA InitAccepted == Init => Accepted
<1> SUFFICES ASSUME Init PROVE Accepted
  OBVIOUS
<1>1. \A c \in Clients, q \in Requests : answer[c][q] = "none" /\ pc[c] = "idle"
  BY ActorKinds DEF Init
<1> QED
  BY <1>1, MakerPlaces DEF Accepted, RowKept, OneMaker, Accepting

\* At most one submission of a message is answered 202 Accepted; all the
\* others are duplicates, refused or lost.
THEOREM AcceptsOnce == Spec => []AcceptedOnce
<1>1. Init => Typed /\ Accepted
  BY InitTyped, InitAccepted
<1>2. Typed /\ Accepted /\ [Next]_vars => (Typed /\ Accepted)'
  BY NextTyped, NextAccepted
<1>3. Accepted => AcceptedOnce
  BY DEF Accepted, OneMaker, Accepting, AcceptedOnce
<1> QED
  BY <1>1, <1>2, <1>3, PTL DEF Spec

-----------------------------------------------------------------------------
(***************************************************************************)
(* ExecuteTurn runs at most once at a time for a turn, whatever the number *)
(* of clients and workers and however often the process crashes, and the   *)
(* life of every message implements TurnLifecycle.                         *)
(*                                                                         *)
(* The first needs the whole chain from the submission to the execution    *)
(* (Claimed): an attached client draws its own request ids and gives them  *)
(* no job, a queued turn has one job, and a job that is running was        *)
(* fetched by the one worker that executes its turn.                       *)
(*                                                                         *)
(* The second also needs to know that jobs, runs and actors name turns     *)
(* that have a row, that nothing was answered yet on a request at work,    *)
(* and that the mortal process crashes as a whole (Backed).  A statement   *)
(* then has one of a few shapes: it changes no stage (Goes), or it is the  *)
(* step that creates, offers, takes or returns a turn, and that is a step  *)
(* of TurnLifecycle.                                                       *)
(***************************************************************************)

Resting == {"idle", "dead"}

\* Only attached clients execute, and they queue nothing.
AttachedExecute ==
  \A c \in Clients : /\ pc[c] \in ExecutePCs => c \in Attached
                     /\ pc[c] \in QueuePCs => c \notin Attached

\* A client works on a request of its own.
OwnRequest == \A c \in Clients : pc[c] \notin Resting => at[c].req \in Submits[c]

\* A worker executes a turn whose job is running.
ClaimedJob == \A w \in Workers : pc[w] \in ExecutePCs => jobs[at[w].req] = "running"

\* A job is running for one worker.
SoleClaim ==
  \A v, w \in Workers :
    pc[v] \in ExecutePCs /\ pc[w] \in ExecutePCs /\ at[v].req = at[w].req => v = w

\* The request of an attached client has no job.
NoJob == \A c \in Attached : \A q \in Submits[c] : jobs[q] = "none"

Claimed == AttachedExecute /\ OwnRequest /\ ClaimedJob /\ SoleClaim /\ NoJob

\* The disjointness of the kinds of actors and of their requests.
LEMMA Kinds ==
  /\ \A c \in Clients : c \in Actors /\ c \notin Workers /\ c \notin Aborters
  /\ \A w \in Workers : w \in Actors /\ w \notin Clients /\ w \notin Aborters
  /\ \A b \in Aborters : b \in Actors /\ b \notin Clients /\ b \notin Workers
  /\ Attached \subseteq Clients
  /\ \A c \in Clients : Submits[c] \subseteq Requests
  /\ \A c \in Attached, d \in Clients : c # d => Submits[c] \intersect Submits[d] = {}
BY ActorsAssumption, RequestsAssumption DEF Actors

\* The kinds of statements are disjoint.
LEMMA Places ==
  /\ ExecutePCs \intersect QueuePCs = {}
  /\ ExecutePCs \intersect PreparePCs = {}
  /\ QueuePCs \intersect PreparePCs = {}
  /\ (PreparePCs \union QueuePCs \union ExecutePCs) \intersect Resting = {}
  /\ (PreparePCs \union QueuePCs \union ExecutePCs) \intersect Unaware = {}
BY DEF PreparePCs, QueuePCs, ExecutePCs, StartPCs, AgentPCs, FinishPCs, AbortTurnPCs,
       Resting, Unaware

\* Two executors of a turn would hold the same job, or share a request id.
LEMMA ClaimedExclusive ==
  ASSUME Claimed PROVE ExclusiveExecution
<1> SUFFICES ASSUME NEW q \in Requests, NEW a \in Clients \union Workers,
                    NEW b \in Clients \union Workers, Executes(a, q), Executes(b, q)
             PROVE  a = b
  BY DEF ExclusiveExecution
<1>1. /\ pc[a] \in ExecutePCs /\ at[a].req = q
      /\ pc[b] \in ExecutePCs /\ at[b].req = q
  BY DEF Executes
<1>2. \A c \in Clients : pc[c] \in ExecutePCs => c \in Attached /\ at[c].req \in Submits[c]
  BY Places DEF Claimed, AttachedExecute, OwnRequest
<1>3. CASE a \in Workers /\ b \in Workers
  BY <1>1, <1>3 DEF Claimed, SoleClaim
<1>4. CASE a \in Clients /\ b \in Clients
  BY <1>1, <1>2, <1>4, Kinds
<1>5. ASSUME NEW c \in Clients, NEW w \in Workers, pc[c] \in ExecutePCs, at[c].req = q,
             pc[w] \in ExecutePCs, at[w].req = q
      PROVE  FALSE
  <2>1. jobs[q] = "none"
    BY <1>2, <1>5 DEF Claimed, NoJob
  <2>2. jobs[q] = "running"
    BY <1>5 DEF Claimed, ClaimedJob
  <2> QED
    BY <2>1, <2>2
<1> QED
  BY <1>1, <1>3, <1>4, <1>5

-----------------------------------------------------------------------------
(* The three shapes of a statement.                                        *)

\* An operation of a goes on with the same request, or an aborter does.
Inside(a) ==
  /\ jobs' = jobs
  /\ \A b \in Actors \ {a} : pc'[b] = pc[b] /\ at'[b].req = at[b].req
  /\ a \in Clients \union Workers => at'[a].req = at[a].req
  /\ a \in Clients => /\ pc[a] \notin Resting
                      /\ pc'[a] \in ExecutePCs => a \in Attached
                      /\ pc'[a] \in QueuePCs => a \notin Attached
  /\ a \in Workers => pc[a] \in ExecutePCs

\* A step that stays inside the same part of the program keeps Claimed.
LEMMA InsideClaimed ==
  ASSUME Claimed, NEW a \in Actors, Inside(a)
  PROVE  Claimed'
<1>1. \A b \in Clients \union Workers : at'[b].req = at[b].req
  BY Kinds DEF Inside
<1>2. \A b \in Clients : pc'[b] \notin Resting => pc[b] \notin Resting
  BY Kinds DEF Inside
<1>3. \A b \in Workers : pc'[b] \in ExecutePCs => pc[b] \in ExecutePCs
  BY Kinds DEF Inside
<1>4. AttachedExecute'
  BY Kinds DEF Inside, Claimed, AttachedExecute
<1>5. OwnRequest'
  BY <1>1, <1>2 DEF Claimed, OwnRequest
<1>6. ClaimedJob' /\ SoleClaim'
  BY <1>1, <1>3 DEF Inside, Claimed, ClaimedJob, SoleClaim
<1>7. NoJob'
  BY DEF Inside, Claimed, NoJob
<1> QED
  BY <1>4, <1>5, <1>6, <1>7 DEF Claimed

\* A worker that returns gives its own job up and no other one.
LEMMA ReturnClaimed ==
  ASSUME Typed, Claimed, NEW a \in Actors, NEW result, NEW outcome,
         Return(a, result, outcome), a \in Workers => pc[a] \in ExecutePCs
  PROVE  Claimed'
<1>1. /\ pc' = [pc EXCEPT ![a] = "idle"] /\ at' = [at EXCEPT ![a] = Blank]
      /\ jobs' = IF a \in Workers THEN [jobs EXCEPT ![at[a].req] = outcome] ELSE jobs
  BY DEF Return
<1>2. pc'[a] = "idle" /\ \A b \in Actors \ {a} : pc'[b] = pc[b] /\ at'[b] = at[b]
  BY <1>1, RowsTyped DEF LocalsTyped
<1>3. "idle" \in Resting /\ "idle" \notin ExecutePCs /\ "idle" \notin QueuePCs
  BY Places DEF Resting
<1>4. \A q \in Requests : (a \in Workers => q # at[a].req) => jobs'[q] = jobs[q]
  BY <1>1, RowsTyped
<1>5. AttachedExecute' /\ OwnRequest'
  BY <1>2, <1>3, Kinds DEF Claimed, AttachedExecute, OwnRequest
<1>6. ASSUME NEW w \in Workers, pc'[w] \in ExecutePCs
      PROVE  w # a /\ pc[w] \in ExecutePCs /\ at'[w] = at[w] /\ jobs'[at[w].req] = "running"
  <2>1. w # a /\ pc[w] \in ExecutePCs /\ at'[w] = at[w] /\ at[w].req \in Requests
    BY <1>2, <1>3, <1>6, Kinds, Places, AwareTyped
  <2>2. a \in Workers => at[w].req # at[a].req
    BY <2>1 DEF Claimed, SoleClaim
  <2> QED
    BY <1>4, <2>1, <2>2 DEF Claimed, ClaimedJob
<1>7. ClaimedJob' /\ SoleClaim'
  BY <1>6 DEF Claimed, ClaimedJob, SoleClaim
<1>8. NoJob'
  <2> SUFFICES ASSUME NEW c \in Attached, NEW q \in Submits[c] PROVE jobs'[q] = "none"
    BY DEF NoJob
  <2>1. jobs[q] = "none" /\ q \in Requests
    BY Kinds DEF Claimed, NoJob
  <2>2. a \in Workers => q # at[a].req
    BY <2>1 DEF Claimed, ClaimedJob
  <2> QED
    BY <1>4, <2>1, <2>2
<1> QED
  BY <1>5, <1>7, <1>8 DEF Claimed

\* EnqueueAgentRun offers a job only to a turn that nobody executes.
LEMMA EnqueueClaimed ==
  ASSUME Typed, Claimed, NEW c \in Clients, EnqueueAgentRun(c)
  PROVE  Claimed'
<1>1. /\ pc[c] = "enqueue" /\ pc' = [pc EXCEPT ![c] = "markturn"]
      /\ \E b \in BOOLEAN : at' = [at EXCEPT ![c].skipped = b]
      /\ \/ jobs' = jobs
         \/ /\ jobs[at[c].req] \in {"none", "discarded"}
            /\ jobs' = [jobs EXCEPT ![at[c].req] = "available"]
  BY DEF EnqueueAgentRun, Go
<1>2. c \in Actors /\ pc[c] \in QueuePCs /\ pc[c] \notin Resting /\ at[c].req \in Requests
  BY <1>1, Kinds, Places, AwareTyped DEF QueuePCs
<1>3. c \notin Attached /\ at[c].req \in Submits[c]
  BY <1>2 DEF Claimed, AttachedExecute, OwnRequest
<1>4. \A b \in Actors : at'[b].req = at[b].req /\ (b # c => pc'[b] = pc[b])
  BY <1>1, RowsTyped DEF LocalsTyped, Local
<1>5. pc'[c] = "markturn" /\ "markturn" \notin ExecutePCs /\ "markturn" \in QueuePCs
  BY <1>1, <1>2, RowsTyped, Places DEF LocalsTyped, QueuePCs
<1>6. AttachedExecute' /\ OwnRequest'
  BY <1>2, <1>3, <1>4, <1>5, Kinds DEF Claimed, AttachedExecute, OwnRequest
<1>7. \A q \in Requests : jobs'[q] = jobs[q] \/ (q = at[c].req /\ jobs[q] \in {"none", "discarded"})
  BY <1>1, RowsTyped
<1>8. \A w \in Workers : pc'[w] = pc[w] /\ at'[w].req = at[w].req
  BY <1>4, Kinds
<1>9. ASSUME NEW w \in Workers, pc[w] \in ExecutePCs PROVE jobs'[at[w].req] = "running"
  <2>1. at[w].req \in Requests /\ jobs[at[w].req] = "running"
    BY <1>9, Kinds, Places, AwareTyped DEF Claimed, ClaimedJob
  <2> QED
    BY <1>7, <2>1
<1>10. ClaimedJob' /\ SoleClaim'
  BY <1>8, <1>9 DEF Claimed, ClaimedJob, SoleClaim
<1>11. NoJob'
  <2> SUFFICES ASSUME NEW d \in Attached, NEW q \in Submits[d] PROVE jobs'[q] = "none"
    BY DEF NoJob
  <2>1. q # at[c].req /\ q \in Requests /\ jobs[q] = "none"
    BY <1>3, Kinds DEF Claimed, NoJob
  <2> QED
    BY <1>7, <2>1
<1> QED
  BY <1>6, <1>10, <1>11 DEF Claimed

-----------------------------------------------------------------------------
(* Every statement has one of these shapes.                                *)

\* The shape of the statements that move a from one place to another and
\* assign only local variables other than req.
LEMMA GoInside ==
  ASSUME Typed, NEW a \in Actors, NEW from, NEW to, Go(a, from, to), jobs' = jobs,
         \A b \in Actors : at'[b].req = at[b].req,
         a \in Clients => /\ from \notin Resting
                          /\ to \in ExecutePCs => a \in Attached
                          /\ to \in QueuePCs => a \notin Attached,
         a \in Workers => from \in ExecutePCs
  PROVE  Inside(a)
BY RowsTyped DEF Inside, Go, LocalsTyped

\* An assignment to other local variables keeps the requests.
LEMMA SetKeeps ==
  ASSUME Typed, NEW a \in Actors, NEW l, l.req = at[a].req, at' = [at EXCEPT ![a] = l]
  PROVE  \A b \in Actors : at'[b].req = at[b].req
BY RowsTyped DEF LocalsTyped

\* Reading keeps the request an actor works on.
LEMMA ReadKeeps ==
  ASSUME Typed, NEW a \in Actors, at' = at \/ ReadRun(a)
  PROVE  \A b \in Actors : at'[b].req = at[b].req
<1> DEFINE l == [at[a] EXCEPT !.row = Run(a)]
<1>1. CASE ReadRun(a)
  <2>1. l.req = at[a].req /\ at' = [at EXCEPT ![a] = l]
    BY <1>1, AwareTyped, SetRow DEF ReadRun
  <2> HIDE DEF l
  <2> QED
    BY <2>1, SetKeeps
<1> QED
  BY <1>1

\* So does the cancellation of its context.
LEMMA CancelKeeps ==
  ASSUME Typed, NEW a \in Actors, at' = [at EXCEPT ![a].cancelled = TRUE]
  PROVE  \A b \in Actors : at'[b].req = at[b].req
<1> DEFINE l == [at[a] EXCEPT !.cancelled = TRUE]
<1>1. l.req = at[a].req /\ at' = [at EXCEPT ![a] = l]
  BY AwareTyped, SetCancelled
<1> HIDE DEF l
<1> QED
  BY <1>1, SetKeeps

\* PrepareTurn keeps Claimed.
LEMMA PrepareClaimed ==
  ASSUME Typed, Claimed, NEW c \in Clients, PrepareStep(c)
  PROVE  Claimed'
<1> USE RowsTyped
<1>0. /\ c \in Actors /\ c \notin Workers
      /\ PreparePCs \intersect Resting = {}
      /\ PreparePCs \intersect (ExecutePCs \union QueuePCs) = {}
      /\ "getturn" \in ExecutePCs /\ "enqueue" \in QueuePCs
      /\ "getturn" \notin QueuePCs /\ "enqueue" \notin ExecutePCs
  BY Kinds, Places DEF ExecutePCs, StartPCs, QueuePCs
<1>1. CASE LoadRun(c)
  BY <1>0, <1>1, ReadKeeps, GoInside, InsideClaimed DEF LoadRun, db, PreparePCs
<1>2. CASE FoundTurn(c)
  <2>1. CASE turns[at[c].req].job
    BY <1>0, <1>2, <2>1, ReturnClaimed DEF FoundTurn
  <2>2. CASE ~turns[at[c].req].job
    <3>1. /\ Go(c, "lookup", IF c \in Attached THEN "getturn" ELSE "enqueue")
          /\ at' = [at EXCEPT ![c].turn = turns[at[c].req], ![c].known = TRUE]
          /\ jobs' = jobs
      BY <1>2, <2>2 DEF FoundTurn, Go
    <3>2. \A b \in Actors : at'[b].req = at[b].req
      BY <3>1 DEF LocalsTyped, Local
    <3> QED
      BY <1>0, <3>1, <3>2, GoInside, InsideClaimed DEF PreparePCs
  <2> QED
    BY <2>1, <2>2
<1>3. CASE RefuseBusy(c)
  BY <1>0, <1>3, ReturnClaimed DEF RefuseBusy
<1>4. CASE NoTurnYet(c)
  BY <1>0, <1>4, ReadKeeps, GoInside, InsideClaimed DEF NoTurnYet, db, PreparePCs
<1>5. CASE CreateRun(c)
  <2>1. CASE Run(c).status = "absent"
    BY <1>0, <1>5, <2>1, ReadKeeps, GoInside, InsideClaimed DEF CreateRun, PreparePCs
  <2>2. CASE Run(c).status # "absent"
    BY <1>0, <1>5, <2>2, ReturnClaimed DEF CreateRun
  <2> QED
    BY <2>1, <2>2
<1>6. CASE ReloadRun(c)
  BY <1>0, <1>6, ReadKeeps, GoInside, InsideClaimed DEF ReloadRun, db, PreparePCs
<1>7. CASE CreateTurn(c)
  <2>1. CASE turns[at[c].req].status = "absent"
    <3>1. /\ Go(c, "insert", "activate") /\ jobs' = jobs
          /\ at' = [at EXCEPT ![c].turn = [status |-> ModeStatus(c), job |-> FALSE]]
      BY <1>7, <2>1 DEF CreateTurn
    <3>2. \A b \in Actors : at'[b].req = at[b].req
      BY <3>1 DEF LocalsTyped, Local
    <3> QED
      BY <1>0, <3>1, <3>2, GoInside, InsideClaimed DEF PreparePCs
  <2>2. CASE turns[at[c].req].status # "absent"
    BY <1>0, <1>7, <2>2, ReturnClaimed DEF CreateTurn
  <2> QED
    BY <2>1, <2>2
<1>8. CASE ActivateTurn(c)
  BY <1>0, <1>8, ReadKeeps, GoInside, InsideClaimed DEF ActivateTurn, PreparePCs
<1>9. CASE Prepared(c)
  BY <1>0, <1>9, ReadKeeps, GoInside, InsideClaimed DEF Prepared, db, PreparePCs
<1> QED
  BY <1>1, <1>2, <1>3, <1>4, <1>5, <1>6, <1>7, <1>8, <1>9 DEF PrepareStep

\* QueuePreparedTurn keeps Claimed.
LEMMA QueueClaimed ==
  ASSUME Typed, Claimed, NEW c \in Clients, QueueStep(c)
  PROVE  Claimed'
<1>0. /\ c \in Actors /\ c \notin Workers
      /\ QueuePCs \intersect Resting = {} /\ QueuePCs \intersect ExecutePCs = {}
      /\ pc[c] \in QueuePCs => c \notin Attached
  BY Kinds, Places DEF Claimed, AttachedExecute
<1>1. CASE EnqueueAgentRun(c)
  BY <1>1, EnqueueClaimed
<1>2. CASE MarkTurn(c)
  BY <1>0, <1>2, ReadKeeps, GoInside, InsideClaimed DEF MarkTurn, QueuePCs, Go
<1>3. CASE MarkRun(c)
  BY <1>0, <1>3, ReadKeeps, GoInside, InsideClaimed DEF MarkRun, QueuePCs, Go
<1>4. CASE EmitQueued(c)
  BY <1>0, <1>4, ReturnClaimed DEF EmitQueued
<1> QED
  BY <1>1, <1>2, <1>3, <1>4 DEF QueueStep

\* ExecuteTurn keeps Claimed: what it returns to gives the claim up.
LEMMA ExecuteClaimed ==
  ASSUME Typed, Claimed, NEW a \in Clients \union Workers, ExecuteStep(a)
  PROVE  Claimed'
<1>0. /\ a \in Actors
      /\ ExecutePCs \intersect Resting = {} /\ ExecutePCs \intersect QueuePCs = {}
      /\ a \in Clients /\ pc[a] \in ExecutePCs => a \in Attached
  BY Kinds, Places DEF Claimed, AttachedExecute
<1>1. ASSUME NEW from \in ExecutePCs, NEW to \in ExecutePCs, Go(a, from, to),
             jobs' = jobs, at' = at \/ ReadRun(a)
      PROVE  Claimed'
  BY <1>0, <1>1, ReadKeeps, GoInside, InsideClaimed DEF Go
<1>2. ASSUME NEW result, NEW outcome, Return(a, result, outcome), pc[a] \in ExecutePCs
      PROVE  Claimed'
  BY <1>0, <1>2, ReturnClaimed
<1>3. StartPCs \union FinishPCs \union {"exec", "abturn"} \subseteq ExecutePCs
  BY DEF ExecutePCs, AgentPCs, AbortTurnPCs
<1>4. CASE GetTurn(a)
  <2>1. /\ Go(a, "getturn", "getrun") /\ jobs' = jobs
        /\ \A b \in Actors : at'[b].req = at[b].req
    BY <1>4, RowsTyped DEF GetTurn, db, LocalsTyped, Local
  <2>2. "getturn" \in ExecutePCs /\ "getrun" \in ExecutePCs
    BY <1>3 DEF StartPCs
  <2> QED
    BY <1>0, <2>1, <2>2, GoInside, InsideClaimed DEF Go
<1>5. CASE GetRun(a)
  <2>1. CASE at[a].turn.status \in {"completed", "aborted"}
    BY <1>2, <1>3, <1>5, <2>1 DEF GetRun, StartPCs
  <2>2. CASE at[a].turn.status \notin {"completed", "aborted"}
    <3>1. /\ Go(a, "getrun", IF Run(a).cancel THEN "abturn" ELSE "setturn")
          /\ jobs' = jobs /\ ReadRun(a)
      BY <1>5, <2>2 DEF GetRun, Go
    <3> QED
      BY <1>1, <1>3, <3>1 DEF StartPCs
  <2> QED
    BY <2>1, <2>2
<1>6. CASE SetTurn(a)
  BY <1>1, <1>3, <1>6 DEF SetTurn, StartPCs
<1>7. CASE SetRun(a)
  BY <1>1, <1>3, <1>7 DEF SetRun, StartPCs
<1>8. CASE EmitStarted(a)
  BY <1>1, <1>3, <1>8 DEF EmitStarted, StartPCs
<1>9. CASE GetFinished(a)
  BY <1>1, <1>3, <1>9 DEF GetFinished, FinishPCs, db
<1>10. CASE FinalizeRun(a)
  BY <1>1, <1>3, <1>10 DEF FinalizeRun, FinishPCs
<1>11. CASE ReloadFinal(a)
  BY <1>1, <1>3, <1>11 DEF ReloadFinal, FinishPCs, db
<1>12. CASE FinalizeTurn(a)
  BY <1>1, <1>3, <1>12 DEF FinalizeTurn, FinishPCs
<1>13. CASE FinalizeRow(a)
  BY <1>1, <1>3, <1>13 DEF FinalizeRow, FinishPCs
<1>14. CASE EmitStatus(a)
  BY <1>2, <1>3, <1>14 DEF EmitStatus, FinishPCs
<1> QED
  BY <1>4, <1>5, <1>6, <1>7, <1>8, <1>9, <1>10, <1>11, <1>12, <1>13, <1>14 DEF ExecuteStep

\* Setting the fields that agent.Run sets keeps the request.
LEMMA AgentKeeps ==
  ASSUME Typed, NEW a \in Clients \union Workers, AgentStep(a)
  PROVE  \A b \in Actors : at'[b].req = at[b].req
<1>0. a \in Actors /\ at[a] \in Local
  BY Kinds, AwareTyped
<1>1. CASE LoadConversation(a)
  BY <1>1, RowsTyped DEF LoadConversation, LocalsTyped, Local
<1>2. CASE ReadMeta(a)
  BY <1>0, <1>2, ReadKeeps DEF ReadMeta
<1>3. CASE WriteMeta(a) \/ InitialChunk(a) \/ FinishChunk(a)
  <2> DEFINE l(e) == [at[a] EXCEPT !.err = e]
  <2>1. at' = at \/ \E e \in BOOLEAN : at' = [at EXCEPT ![a] = l(e)]
    <3>1. at[a].cancelled \in BOOLEAN
      BY <1>0, LocalFields
    <3> QED
      BY <1>3, <3>1 DEF WriteMeta, InitialChunk, FinishChunk
  <2>2. \A e \in BOOLEAN : l(e).req = at[a].req
    BY <1>0, SetErr
  <2> HIDE DEF l
  <2> QED
    BY <1>0, <2>1, <2>2, SetKeeps
<1>4. CASE StreamChunk(a) \/ PersistProgress(a)
  <2> DEFINE l == [at[a] EXCEPT !.left = @ - 1]
  <2>1. l.req = at[a].req /\ at' = [at EXCEPT ![a] = l]
    BY <1>0, <1>4, Decrement DEF StreamChunk, PersistProgress
  <2> HIDE DEF l
  <2> QED
    BY <1>0, <2>1, SetKeeps
<1>5. CASE EndStream(a)
  BY <1>5, RowsTyped DEF EndStream, LocalsTyped, Local
<1> QED
  BY <1>1, <1>2, <1>3, <1>4, <1>5 DEF AgentStep

\* The agent's run keeps Claimed.
LEMMA AgentClaimed ==
  ASSUME Typed, Claimed, NEW a \in Clients \union Workers, AgentStep(a)
  PROVE  Claimed'
<1>0. /\ a \in Actors
      /\ ExecutePCs \intersect Resting = {} /\ ExecutePCs \intersect QueuePCs = {}
      /\ a \in Clients /\ pc[a] \in ExecutePCs => a \in Attached
  BY Kinds, Places DEF Claimed, AttachedExecute
<1>1. jobs' = jobs
  BY DEF AgentStep, LoadConversation, ReadMeta, WriteMeta, InitialChunk, StreamChunk,
         PersistProgress, EndStream, FinishChunk, db
<1>2. pc[a] \in AgentPCs /\ \E to \in AgentPCs \union {"execdone"} : pc' = [pc EXCEPT ![a] = to]
  <2>1. CASE StreamChunk(a)
    BY <2>1, <1>0, RowsTyped DEF StreamChunk, LocalsTyped, AgentPCs
  <2>2. CASE LoadConversation(a) \/ ReadMeta(a) \/ WriteMeta(a)
    BY <2>2 DEF LoadConversation, ReadMeta, WriteMeta, Go, AgentPCs
  <2>3. CASE InitialChunk(a) \/ PersistProgress(a) \/ EndStream(a) \/ FinishChunk(a)
    BY <2>3 DEF InitialChunk, PersistProgress, EndStream, FinishChunk, Go, AgentPCs
  <2> QED
    BY <2>1, <2>2, <2>3 DEF AgentStep
<1>3. AgentPCs \union {"execdone"} \subseteq ExecutePCs
  BY DEF ExecutePCs, FinishPCs
<1>4. PICK to \in ExecutePCs : Go(a, pc[a], to)
  BY <1>2, <1>3 DEF Go
<1> QED
  BY <1>0, <1>1, <1>2, <1>3, <1>4, AgentKeeps, GoInside, InsideClaimed

\* Noticing a cancelled context keeps Claimed.
LEMMA CancelClaimed ==
  ASSUME Typed, Claimed, NEW a \in Actors, WatchForAbort(a) \/ ContextDone(a)
  PROVE  Claimed'
<1>1. pc' = pc /\ jobs' = jobs
  BY DEF WatchForAbort, ContextDone, db
<1>2. \A b \in Actors : at'[b].req = at[b].req
  BY CancelKeeps DEF WatchForAbort, ContextDone
<1> QED
  BY <1>1, <1>2, Kinds DEF Claimed, AttachedExecute, OwnRequest, ClaimedJob, SoleClaim, NoJob

\* Aborting a turn stays inside the execution, or leaves it.
LEMMA AbortTurnClaimed ==
  ASSUME Typed, Claimed, NEW a \in Actors, AbortTurnStep(a)
  PROVE  Claimed'
<1>0. /\ AbortTurnPCs \subseteq ExecutePCs
      /\ ExecutePCs \intersect Resting = {} /\ ExecutePCs \intersect QueuePCs = {}
      /\ a \in Clients /\ pc[a] \in ExecutePCs => a \in Attached
  BY Places DEF ExecutePCs, Claimed, AttachedExecute
<1>1. CASE AbortTurn(a)
  BY <1>0, <1>1, ReadKeeps, GoInside, InsideClaimed DEF AbortTurn, AbortTurnPCs, Go
<1>2. CASE AbortRow(a)
  BY <1>0, <1>2, ReadKeeps, GoInside, InsideClaimed DEF AbortRow, AbortTurnPCs, Go
<1>3. CASE EmitAborted(a)
  BY <1>0, <1>3, ReturnClaimed DEF EmitAborted, AbortTurnPCs
<1> QED
  BY <1>1, <1>2, <1>3 DEF AbortTurnStep

\* An aborter touches neither jobs nor the locals of anybody else.
LEMMA AborterClaimed ==
  ASSUME Typed, Claimed, NEW a \in Aborters, jobs' = jobs,
         \A b \in Actors \ {a} : pc'[b] = pc[b] /\ at'[b] = at[b]
  PROVE  Claimed'
<1>1. \A b \in Clients \union Workers : pc'[b] = pc[b] /\ at'[b] = at[b]
  BY Kinds
<1> QED
  BY <1>1, Kinds DEF Claimed, AttachedExecute, OwnRequest, ClaimedJob, SoleClaim, NoJob

\* AbortRun keeps Claimed.
LEMMA AbortRunClaimed ==
  ASSUME Typed, Claimed, NEW a \in Aborters, AbortRunStep(a) \/ \E r \in Runs : AbortRun(a, r)
  PROVE  Claimed'
<1> USE RowsTyped, Kinds DEF LocalsTyped
<1>1. CASE CheckRun(a)
  BY <1>1, AborterClaimed DEF CheckRun, Return
<1>2. CASE RequestAbort(a)
  BY <1>2, AborterClaimed DEF RequestAbort, Go
<1>3. CASE RecheckRun(a)
  BY <1>3, AborterClaimed DEF RecheckRun, Return
<1>4. CASE AbortIdleRun(a)
  BY <1>4, AborterClaimed DEF AbortIdleRun, Return
<1>5. CASE GetActiveTurn(a)
  BY <1>5, AborterClaimed DEF GetActiveTurn, Go, db
<1>6. CASE \E r \in Runs : AbortRun(a, r)
  BY <1>6, AborterClaimed DEF AbortRun, Begin, Go, db
<1> QED
  BY <1>1, <1>2, <1>3, <1>4, <1>5, <1>6 DEF AbortRunStep

\* A submission begins with a request id of the client.
LEMMA SubmitClaimed ==
  ASSUME Typed, Claimed, NEW c \in Clients, NEW q \in Requests, Submit(c, q)
  PROVE  Claimed'
<1>1. /\ q \in Submits[c] /\ jobs' = jobs
      /\ pc' = [pc EXCEPT ![c] = "load"] /\ at' = [at EXCEPT ![c] = NewLocal(q, RunOf[q])]
  BY DEF Submit, Begin, Go, db
<1>2. "load" \notin ExecutePCs /\ "load" \notin QueuePCs
  BY Places DEF PreparePCs
<1>3. /\ pc'[c] = "load" /\ at'[c].req = q
      /\ \A b \in Actors \ {c} : pc'[b] = pc[b] /\ at'[b] = at[b]
  BY <1>1, Kinds, RowsTyped, NewLocalTyped, RequestsAssumption DEF LocalsTyped
<1> QED
  BY <1>1, <1>2, <1>3, Kinds
     DEF Claimed, AttachedExecute, OwnRequest, ClaimedJob, SoleClaim, NoJob

\* The fetched job was available, so nobody executes its turn yet.
LEMMA FetchClaimed ==
  ASSUME Typed, Claimed, NEW w \in Workers, NEW q \in Requests, Fetch(w, q)
  PROVE  Claimed'
<1>1. /\ jobs[q] = "available" /\ jobs' = [jobs EXCEPT ![q] = "running"]
      /\ pc' = [pc EXCEPT ![w] = "getturn"] /\ at' = [at EXCEPT ![w] = NewLocal(q, RunOf[q])]
  BY DEF Fetch, Begin, Go
<1>2. /\ at'[w].req = q
      /\ \A b \in Actors \ {w} : pc'[b] = pc[b] /\ at'[b] = at[b]
      /\ jobs'[q] = "running" /\ \A p \in Requests \ {q} : jobs'[p] = jobs[p]
  BY <1>1, Kinds, RowsTyped, NewLocalTyped, RequestsAssumption DEF LocalsTyped
<1>3. ASSUME NEW v \in Workers, v # w, pc'[v] \in ExecutePCs
      PROVE  pc[v] \in ExecutePCs /\ at'[v] = at[v] /\ at[v].req # q
             /\ jobs'[at[v].req] = "running"
  <2>1. pc[v] \in ExecutePCs /\ at'[v] = at[v] /\ at[v].req \in Requests
    BY <1>2, <1>3, Kinds, Places, AwareTyped
  <2>2. jobs[at[v].req] = "running"
    BY <2>1 DEF Claimed, ClaimedJob
  <2> QED
    BY <1>1, <1>2, <2>1, <2>2
<1>4. AttachedExecute' /\ OwnRequest'
  BY <1>2, Kinds DEF Claimed, AttachedExecute, OwnRequest
<1>5. ClaimedJob'
  BY <1>2, <1>3 DEF ClaimedJob
<1>6. SoleClaim'
  BY <1>2, <1>3 DEF Claimed, SoleClaim
<1>7. NoJob'
  <2> SUFFICES ASSUME NEW c \in Attached, NEW p \in Submits[c] PROVE jobs'[p] = "none"
    BY DEF NoJob
  <2>1. jobs[p] = "none" /\ p \in Requests
    BY Kinds DEF Claimed, NoJob
  <2> QED
    BY <1>1, <1>2, <2>1
<1> QED
  BY <1>4, <1>5, <1>6, <1>7 DEF Claimed

\* A discarded job was running, and nobody executed its turn.
LEMMA RescueClaimed ==
  ASSUME Typed, Claimed, NEW q \in Requests, Rescue(q)
  PROVE  Claimed'
<1>1. /\ jobs[q] = "running" /\ jobs' = [jobs EXCEPT ![q] = "discarded"]
      /\ \A w \in Workers : ~Executes(w, q)
      /\ pc' = pc /\ at' = at
  BY DEF Rescue
<1>2. \A p \in Requests : p # q => jobs'[p] = jobs[p]
  BY <1>1, RowsTyped
<1>3. ClaimedJob'
  <2> SUFFICES ASSUME NEW w \in Workers, pc[w] \in ExecutePCs
               PROVE  jobs'[at[w].req] = "running"
    BY <1>1 DEF ClaimedJob
  <2>1. at[w].req # q /\ at[w].req \in Requests
    BY <1>1, Kinds, Places, AwareTyped DEF Executes
  <2> QED
    BY <1>2, <2>1 DEF Claimed, ClaimedJob
<1>4. NoJob'
  <2> SUFFICES ASSUME NEW c \in Attached, NEW p \in Submits[c] PROVE jobs'[p] = "none"
    BY DEF NoJob
  <2>1. jobs[p] = "none" /\ p \in Requests
    BY Kinds DEF Claimed, NoJob
  <2> QED
    BY <1>1, <1>2, <2>1
<1> QED
  BY <1>1, <1>3, <1>4 DEF Claimed, AttachedExecute, OwnRequest, SoleClaim

\* Actors that stop, and jobs that stay as they are.
LEMMA StopClaimed ==
  ASSUME Typed, Claimed, jobs' = jobs,
         \A b \in Actors : pc'[b] \in Resting \/ (pc'[b] = pc[b] /\ at'[b] = at[b])
  PROVE  Claimed'
<1>1. \A b \in Actors : pc'[b] \in ExecutePCs \union QueuePCs \/ pc'[b] \notin Resting
                        => pc'[b] = pc[b] /\ at'[b] = at[b]
  BY Places
<1> QED
  BY <1>1, Kinds DEF Claimed, AttachedExecute, OwnRequest, ClaimedJob, SoleClaim, NoJob

\* Time-outs, crashes and restarts keep Claimed.
LEMMA EnvironmentClaimed ==
  ASSUME Typed, Claimed,
         Crash \/ Restart \/ StartServer \/ MarkStaleAborted \/ UNCHANGED vars
  PROVE  Claimed'
<1>1. CASE Crash
  BY <1>1, StopClaimed, RowsTyped DEF Crash, db, Resting, LocalsTyped
<1>2. CASE Restart
  BY <1>2, StopClaimed, RowsTyped DEF Restart, db, Resting, LocalsTyped
<1>3. CASE StartServer
  BY <1>3, StopClaimed DEF StartServer, db
<1>4. CASE MarkStaleAborted
  BY <1>4, StopClaimed DEF MarkStaleAborted
<1>5. CASE UNCHANGED vars
  BY <1>5, StopClaimed DEF vars
<1> QED
  BY <1>1, <1>2, <1>3, <1>4, <1>5

\* Of a worker, only the execution of a turn can be given up.
LEMMA GiveUpClaimed ==
  ASSUME Typed, Claimed, NEW a \in Actors, GiveUp(a)
  PROVE  Claimed'
<1>1. a \in Workers => pc[a] \in ExecutePCs
  <2>1. May(a, pc[a])
    BY AwareTyped
  <2>2. pc[a] \notin {"idle", "dead"}
    BY DEF GiveUp, PreparePCs, QueuePCs, StartPCs, AbortTurnPCs, AbortRunPCs
  <2> QED
    BY <2>1, <2>2 DEF May, WorkerPCs
<1> QED
  BY <1>1, ReturnClaimed DEF GiveUp

\* Claimed is inductive relative to the types.
LEMMA NextClaimed == Typed /\ Claimed /\ [Next]_vars => Claimed'
<1> SUFFICES ASSUME Typed, Claimed, [Next]_vars PROVE Claimed'
  OBVIOUS
<1>1. ASSUME NEW a \in Actors, Step(a) PROVE Claimed'
  <2>1. CASE a \in Clients /\ (PrepareStep(a) \/ QueueStep(a))
    BY <2>1, PrepareClaimed, QueueClaimed
  <2>2. CASE a \in Clients \union Workers /\ (ExecuteStep(a) \/ AgentStep(a))
    BY <2>2, ExecuteClaimed, AgentClaimed
  <2>3. CASE WatchForAbort(a)
    BY <2>3, CancelClaimed
  <2>4. CASE AbortTurnStep(a)
    BY <2>4, AbortTurnClaimed
  <2>5. CASE a \in Aborters /\ AbortRunStep(a)
    BY <2>5, AbortRunClaimed
  <2> QED
    BY <1>1, <2>1, <2>2, <2>3, <2>4, <2>5 DEF Step
<1>2. ASSUME NEW a \in Actors, GiveUp(a) \/ ContextDone(a) PROVE Claimed'
  BY <1>2, GiveUpClaimed, CancelClaimed
<1>3. ASSUME NEW c \in Clients, NEW q \in Requests, Submit(c, q) PROVE Claimed'
  BY <1>3, SubmitClaimed
<1>4. ASSUME NEW w \in Workers, NEW q \in Requests, Fetch(w, q) PROVE Claimed'
  BY <1>4, FetchClaimed
<1>5. ASSUME NEW a \in Aborters, NEW r \in Runs, AbortRun(a, r) PROVE Claimed'
  BY <1>5, AbortRunClaimed
<1>6. ASSUME NEW q \in Requests, Rescue(q) PROVE Claimed'
  BY <1>6, RescueClaimed
<1>7. CASE Crash \/ Restart \/ StartServer \/ MarkStaleAborted \/ UNCHANGED vars
  BY <1>7, EnvironmentClaimed
<1> QED
  BY <1>1, <1>2, <1>3, <1>4, <1>5, <1>6, <1>7 DEF Next

\* Initially nobody claims anything.
LEMMA InitClaimed == Init => Claimed
<1> SUFFICES ASSUME Init PROVE Claimed
  OBVIOUS
<1>1. \A a \in Actors : pc[a] \in Resting
  BY DEF Init, Resting
<1>2. \A q \in Requests : jobs[q] = "none"
  BY DEF Init
<1> QED
  BY <1>1, <1>2, Kinds, Places
     DEF Claimed, AttachedExecute, OwnRequest, ClaimedJob, SoleClaim, NoJob

\* Nothing locks a turn while ExecuteTurn works on it, and yet no two workers
\* or attached clients ever work on the same one, crashes included.
THEOREM Exclusive == Spec => []ExclusiveExecution
<1>1. Init => Typed /\ Claimed
  BY InitTyped, InitClaimed
<1>2. Typed /\ Claimed /\ [Next]_vars => (Typed /\ Claimed)'
  BY NextTyped, NextClaimed
<1>3. Typed /\ Claimed => ExclusiveExecution
  BY ClaimedExclusive
<1> QED
  BY <1>1, <1>2, <1>3, PTL DEF Spec

-----------------------------------------------------------------------------
(* The rows, the jobs and the places of the actors implement TurnLifecycle.*)

HasRow(q) == turns[q].status # "absent"

\* Where the request of an actor has a turn row.
MadePCs == {"activate", "prepared", "abgetturn"} \union QueuePCs \union ExecutePCs

\* A job belongs to a turn row.
JobHasRow == \A q \in Requests : jobs[q] # "none" => HasRow(q)

\* Who queues, executes or aborts a turn works on a turn row.
WorkHasRow == \A a \in Actors : pc[a] \in MadePCs => HasRow(at[a].req)

\* A run, and the copy of a run that an actor has read, names a turn row.
ActiveHasRow == \A r \in Runs : runs[r].active \in Requests => HasRow(runs[r].active)
CopyHasRow == \A a \in Actors : at[a].row.active \in Requests => HasRow(at[a].row.active)

\* An attached client at work has not been told the result of its request.
Unanswered == \A c \in Attached : pc[c] \notin Resting => answer[c][at[c].req] = "none"

\* The mortal process crashes and restarts as a whole.
DeadTogether == \A a, b \in Mortal : pc[a] = "dead" => pc[b] = "dead"

Backed == /\ JobHasRow /\ WorkHasRow /\ ActiveHasRow /\ CopyHasRow
          /\ Unanswered /\ DeadTogether

\* What a statement of a may do to the active turns of the runs.
RunsMove(a) ==
  \A r \in Runs : \/ runs'[r].active \in {runs[r].active, None, at[a].row.active}
                  \/ runs'[r].active = at[a].req /\ HasRow(at[a].req)

\* No turn row comes or goes.
RowsAsBefore == \A q \in Requests : HasRow(q)' <=> HasRow(q)

\* Nobody but a moves, and a was not stopped by a crash.
Alone(a) ==
  /\ pc[a] # "dead" /\ pc'[a] # "dead"
  /\ \A b \in Actors \ {a} : pc'[b] = pc[b] /\ at'[b] = at[b]

\* The statements that neither begin nor end the execution of a turn.
Goes(a) ==
  /\ Alone(a)
  /\ jobs' = jobs /\ answer' = answer
  /\ RowsAsBefore
  /\ RunsMove(a)
  /\ at'[a].row.active \in {at[a].row.active, Run(a).active, None}
  /\ pc'[a] \in MadePCs => HasRow(at'[a].req)
  /\ a \in Attached => answer[a][at'[a].req] = "none"
  /\ a \in Clients \union Workers =>
       \/ pc[a] \notin ExecutePCs /\ pc'[a] \notin ExecutePCs
       \/ pc[a] \in ExecutePCs /\ pc'[a] \in ExecutePCs /\ at'[a].req = at[a].req

\* Who works on a turn works on a request id.
MadeAware == \A b \in Actors : pc[b] \in MadePCs => at[b].req \in Requests

\* Who works on a turn has a request id.
LEMMA MadeKnown == Typed => MadeAware
<1>1. MadePCs \intersect Unaware = {}
  BY Places DEF MadePCs, Unaware
<1> QED
  BY <1>1, AwareTyped DEF MadeAware

\* The same in the next state.
LEMMA MadeTyped ==
  ASSUME Typed', NEW b \in Actors, pc'[b] \in MadePCs PROVE at'[b].req \in Requests
<1>1. Typed' => MadeAware'
  BY MadeKnown, PTL
<1> QED
  BY <1>1 DEF MadeAware

\* A step of one actor keeps Backed if what it writes names rows that exist.
LEMMA AloneBacked ==
  ASSUME Typed, Backed, NEW a \in Actors, Alone(a), RunsMove(a),
         \A q \in Requests : HasRow(q) => HasRow(q)',
         \A q \in Requests : jobs'[q] # "none" => HasRow(q)',
         at'[a].row.active \in {at[a].row.active, Run(a).active, None},
         pc'[a] \in MadePCs => HasRow(at[a].req)',
         Unanswered'
  PROVE  Backed'
<1>0. /\ at[a].run \in Runs /\ None \notin Requests
      /\ \A b \in Actors : pc[b] \in MadePCs => at[b].req \in Requests
  BY MadeKnown, AwareTyped, RequestsAssumption DEF MadeAware
<1>1. JobHasRow'
  BY DEF JobHasRow
<1>2. WorkHasRow'
  <2> SUFFICES ASSUME NEW b \in Actors, pc'[b] \in MadePCs PROVE HasRow(at[b].req)'
    BY DEF WorkHasRow
  <2>1. CASE b = a
    BY <2>1
  <2>2. CASE b # a
    <3>1. pc[b] \in MadePCs /\ at'[b] = at[b]
      BY <2>2 DEF Alone
    <3>2. HasRow(at[b].req) /\ at[b].req \in Requests
      BY <1>0, <3>1 DEF Backed, WorkHasRow
    <3> QED
      BY <3>1, <3>2 DEF HasRow
  <2> QED
    BY <2>1, <2>2
<1>3. ActiveHasRow'
  <2> SUFFICES ASSUME NEW r \in Runs, runs'[r].active \in Requests
               PROVE  HasRow(runs[r].active)'
    BY DEF ActiveHasRow
  <2>1. HasRow(runs'[r].active)
    BY <1>0 DEF RunsMove, Backed, ActiveHasRow, CopyHasRow
  <2> QED
    BY <2>1 DEF HasRow
<1>4. CopyHasRow'
  <2> SUFFICES ASSUME NEW b \in Actors, at'[b].row.active \in Requests
               PROVE  HasRow(at[b].row.active)'
    BY DEF CopyHasRow
  <2>1. HasRow(at'[b].row.active)
    <3>1. CASE b = a
      BY <1>0, <3>1 DEF Backed, ActiveHasRow, CopyHasRow, Run
    <3>2. CASE b # a
      BY <3>2 DEF Alone, Backed, CopyHasRow
    <3> QED
      BY <3>1, <3>2
  <2> QED
    BY <2>1 DEF HasRow
<1>5. DeadTogether'
  BY ActorsAssumption DEF Alone, Backed, DeadTogether
<1> QED
  BY <1>1, <1>2, <1>3, <1>4, <1>5 DEF Backed

-----------------------------------------------------------------------------
(* The stage and the holder of a turn.                                     *)

\* What the stage of a turn depends on.
SameView(q) ==
  /\ HasRow(q)' <=> HasRow(q)
  /\ \A b \in Clients \union Workers : Executes(b, q)' <=> Executes(b, q)
  /\ jobs'[q] = jobs[q]
  /\ Returned(q)' <=> Returned(q)

\* ClaimedExclusive in the next state.
LEMMA StillExclusive == Claimed' => ExclusiveExecution'
<1>1. Claimed => ExclusiveExecution
  BY ClaimedExclusive
<1> QED
  BY <1>1, PTL

\* Whoever executes a turn holds it.
ExecutorHolds ==
  \A q \in Requests : \A a \in Clients \union Workers :
    Executes(a, q) => IsExecuted(q) /\ HolderOf(q) = a

\* While executions exclude each other the holder of a turn is its executor.
LEMMA HolderIs == ExclusiveExecution => ExecutorHolds
<1> SUFFICES ASSUME ExclusiveExecution, NEW q \in Requests,
                    NEW a \in Clients \union Workers, Executes(a, q)
             PROVE  IsExecuted(q) /\ HolderOf(q) = a
  BY DEF ExecutorHolds
<1>1. IsExecuted(q)
  BY DEF IsExecuted
<1>2. HolderOf(q) = CHOOSE b \in Clients \union Workers : Executes(b, q)
  BY <1>1 DEF HolderOf
<1> DEFINE h == CHOOSE b \in Clients \union Workers : Executes(b, q)
<1>3. h \in Clients \union Workers /\ Executes(h, q)
  OBVIOUS
<1> HIDE DEF h
<1>4. h = a
  BY <1>3 DEF ExclusiveExecution
<1> QED
  BY <1>1, <1>2, <1>4 DEF h

\* The same in the next state.
LEMMA HolderWillBe == ExclusiveExecution' => ExecutorHolds'
BY HolderIs, PTL

\* The holder of a turn changes only with its executors.
LEMMA SameHolder ==
  ASSUME ExclusiveExecution, ExclusiveExecution', NEW q \in Requests,
         \A b \in Clients \union Workers : Executes(b, q)' <=> Executes(b, q)
  PROVE  (IsExecuted(q)' <=> IsExecuted(q)) /\ HolderOf(q)' = HolderOf(q)
<1>1. IsExecuted(q)' <=> IsExecuted(q)
  BY DEF IsExecuted
<1>2. CASE IsExecuted(q)
  <2>1. PICK a \in Clients \union Workers : Executes(a, q)
    BY <1>2 DEF IsExecuted
  <2> QED
    BY <1>1, <2>1, HolderIs, HolderWillBe DEF ExecutorHolds
<1>3. CASE ~IsExecuted(q)
  BY <1>1, <1>3 DEF HolderOf
<1> QED
  BY <1>1, <1>2, <1>3

\* So does the stage, if row, job and answer stay too.
LEMMA SameStage ==
  ASSUME ExclusiveExecution, ExclusiveExecution', NEW q \in Requests, SameView(q)
  PROVE  StageOf(q)' = StageOf(q) /\ HolderOf(q)' = HolderOf(q)
<1>1. (IsExecuted(q)' <=> IsExecuted(q)) /\ HolderOf(q)' = HolderOf(q)
  BY SameHolder DEF SameView
<1> QED
  BY <1>1 DEF SameView, StageOf, HasRow

\* A step after which every turn looks as before is a stutter.
LEMMA NoneMoves ==
  ASSUME \A q \in Requests : StageOf(q)' = StageOf(q) /\ HolderOf(q)' = HolderOf(q)
  PROVE  UNCHANGED Lifecycle!lifecycle
BY DEF Lifecycle!lifecycle

\* A step after which every turn but one looks as before moves that turn.
LEMMA OneMoves ==
  ASSUME ExclusiveExecution, ExclusiveExecution', NEW q \in Requests,
         NEW from, NEW to, NEW who,
         StageOf(q) \in from, StageOf(q)' = to, HolderOf(q)' = who,
         \A p \in Requests \ {q} : SameView(p)
  PROVE  Lifecycle!Move(q, from, to, who)
<1>1. \A p \in Requests \ {q} : StageOf(p)' = StageOf(p) /\ HolderOf(p)' = HolderOf(p)
  BY SameStage
<1> QED
  BY <1>1 DEF Lifecycle!Move

\* What a step of one actor may change of the view of a turn.
LEMMA AloneSees ==
  ASSUME NEW a \in Actors, Alone(a), NEW p \in Requests,
         HasRow(p)' <=> HasRow(p), jobs'[p] = jobs[p],
         \A c \in Attached : answer'[c][p] = answer[c][p],
         a \in Clients \union Workers => (Executes(a, p)' <=> Executes(a, p))
  PROVE  SameView(p)
<1>1. \A b \in Clients \union Workers : Executes(b, p)' <=> Executes(b, p)
  BY Kinds DEF Alone, Executes
<1>2. Returned(p)' <=> Returned(p)
  BY DEF Returned
<1> QED
  BY <1>1, <1>2 DEF SameView

-----------------------------------------------------------------------------
(* The shapes of a statement.                                              *)

\* A statement that neither begins nor ends an execution is a stutter.
LEMMA GoesOn ==
  ASSUME Typed, Typed', Claimed, Claimed', Backed, NEW a \in Actors, Goes(a)
  PROVE  Backed' /\ UNCHANGED Lifecycle!lifecycle
<1>1. Backed'
  <2>1. Unanswered'
    BY Kinds DEF Goes, Alone, Backed, Unanswered
  <2>2. \A q \in Requests : HasRow(q) => HasRow(q)'
    BY DEF Goes, RowsAsBefore
  <2>3. \A q \in Requests : jobs'[q] # "none" => HasRow(q)'
    BY <2>2 DEF Goes, Backed, JobHasRow
  <2>4. pc'[a] \in MadePCs => HasRow(at[a].req)'
    <3>1. pc'[a] \in MadePCs => at'[a].req \in Requests
      BY MadeTyped
    <3> QED
      BY <2>2, <3>1 DEF Goes, HasRow
  <2> QED
    BY <2>1, <2>2, <2>3, <2>4, AloneBacked DEF Goes
<1>2. ASSUME NEW q \in Requests PROVE SameView(q)
  <2>1. a \in Clients \union Workers => (Executes(a, q)' <=> Executes(a, q))
    BY DEF Goes, Executes
  <2> QED
    BY <2>1, AloneSees DEF Goes, RowsAsBefore
<1> QED
  BY <1>1, <1>2, ClaimedExclusive, StillExclusive, SameStage, NoneMoves

\* Nothing was answered yet on the request of a client at work.
LEMMA NotReturned ==
  ASSUME Typed, Claimed, Backed, NEW c \in Clients, pc[c] \notin Resting
  PROVE  ~Returned(at[c].req)
BY Kinds DEF Returned, Claimed, OwnRequest, Backed, Unanswered

\* The turn of a worker's job is executed by that worker, and nobody once it
\* has returned.
LEMMA ReturnSteps ==
  ASSUME Typed, Typed', Claimed, Claimed', Backed, NEW a \in Actors,
         NEW result, NEW outcome, Return(a, result, outcome), turns' = turns, RunsMove(a),
         pc[a] \notin Resting,
         result # "none", outcome \in {"completed", "discarded"} \/ a \notin Workers,
         a \in Workers => pc[a] \in ExecutePCs
  PROVE  Backed' /\ [Lifecycle!LifecycleNext]_(Lifecycle!lifecycle)
<1>0. PICK q : q = at[a].req
  OBVIOUS
<1>1. /\ pc' = [pc EXCEPT ![a] = "idle"] /\ at' = [at EXCEPT ![a] = Blank]
      /\ answer' = IF a \in Clients THEN [answer EXCEPT ![a][q] = result] ELSE answer
      /\ jobs' = IF a \in Workers THEN [jobs EXCEPT ![q] = outcome] ELSE jobs
  BY <1>0 DEF Return
<1>2. /\ pc'[a] = "idle" /\ at'[a] = Blank /\ Alone(a)
      /\ Blank.row.active = None
  <2>1. pc[a] # "dead"
    BY DEF Resting
  <2> QED
    BY <1>1, <2>1, RowsTyped DEF LocalsTyped, Alone, Blank, NewLocal, NoRun
<1>3. "idle" \notin MadePCs /\ "idle" \notin ExecutePCs /\ "idle" \in Resting
  BY Places DEF MadePCs, Resting
<1>4. /\ \A c \in Clients, p \in Requests : c # a \/ p # q => answer'[c][p] = answer[c][p]
      /\ a \in Clients /\ q \in Requests => answer'[a][q] = result
      /\ \A p \in Requests : a \notin Workers \/ p # q => jobs'[p] = jobs[p]
      /\ a \in Workers /\ q \in Requests => jobs'[q] = outcome
  BY <1>1, RowsTyped
<1>5. a \in Clients \union Workers => q \in Requests
  BY <1>0, Kinds, Places, AwareTyped DEF Claimed, OwnRequest
<1>6. Backed'
  <2>1. \A p \in Requests : jobs'[p] # "none" => HasRow(p)'
    <3>1. a \in Workers => HasRow(q)
      BY <1>0 DEF Backed, WorkHasRow, MadePCs
    <3> QED
      BY <1>4, <3>1 DEF Backed, JobHasRow, HasRow
  <2>2. Unanswered'
    <3> SUFFICES ASSUME NEW c \in Attached, pc'[c] \notin Resting
                 PROVE  answer'[c][at'[c].req] = "none"
      BY DEF Unanswered
    <3>1. c # a /\ pc[c] \notin Resting /\ at'[c] = at[c]
      BY <1>2, <1>3, Kinds DEF Alone
    <3>2. at[c].req \in Requests /\ c \in Clients
      BY <3>1, Kinds DEF Claimed, OwnRequest
    <3> QED
      BY <1>4, <3>1, <3>2 DEF Backed, Unanswered
  <2> QED
    BY <1>2, <1>3, <2>1, <2>2, AloneBacked DEF HasRow
<1>7. ExclusiveExecution /\ ExclusiveExecution'
  BY ClaimedExclusive, StillExclusive
<1>8. \A p \in Requests : ~Executes(a, p)' /\ (HasRow(p)' <=> HasRow(p))
  BY <1>2, <1>3 DEF Executes, HasRow
<1>9. \A p \in Requests : p # q \/ a \in Aborters => SameView(p)
  <2> SUFFICES ASSUME NEW p \in Requests, p # q \/ a \in Aborters PROVE SameView(p)
    OBVIOUS
  <2>1. a \in Clients \union Workers => ~Executes(a, p)
    BY <1>0, Kinds DEF Executes
  <2> QED
    BY <1>2, <1>4, <1>8, <2>1, AloneSees, Kinds
<1>10. CASE a \in Aborters
  BY <1>6, <1>7, <1>9, <1>10, SameStage, NoneMoves
<1>11. CASE a \in Clients \union Workers /\ pc[a] \in ExecutePCs
  <2>1. q \in Requests /\ Executes(a, q) /\ HasRow(q) /\ ~Executes(a, q)'
    BY <1>0, <1>5, <1>8, <1>11, Kinds DEF Executes, Backed, WorkHasRow, MadePCs
  <2>2. \A b \in Clients \union Workers : ~Executes(b, q)'
    <3> SUFFICES ASSUME NEW b \in Clients \union Workers, Executes(b, q)' PROVE FALSE
      OBVIOUS
    <3>1. b # a
      BY <2>1
    <3>2. Executes(b, q)
      BY <1>2, <3>1, Kinds DEF Executes, Alone
    <3> QED
      BY <1>7, <2>1, <3>1, <3>2, <1>11 DEF ExclusiveExecution
  <2>3. StageOf(q) = "executing" /\ HolderOf(q)' = None
    BY <1>11, <2>1, <2>2 DEF StageOf, HasRow, IsExecuted, HolderOf
  <2>4. CASE a \in Workers
    <3>1. StageOf(q)' \in {"done", "lost"}
      BY <1>4, <1>8, <2>1, <2>2, <2>4 DEF StageOf, HasRow, IsExecuted
    <3>2. Lifecycle!Settle(q) \/ Lifecycle!Lose(q)
      BY <1>7, <1>9, <2>1, <2>3, <3>1, OneMoves DEF Lifecycle!Settle, Lifecycle!Lose
    <3> QED
      BY <1>6, <2>1, <3>2 DEF Lifecycle!LifecycleNext
  <2>5. CASE a \in Clients
    <3>1. a \in Attached /\ q \in Submits[a] /\ jobs[q] = "none"
      BY <1>0, <1>11, <2>5, Places DEF Claimed, AttachedExecute, OwnRequest, NoJob
    <3>2. Returned(q)' /\ jobs'[q] = "none"
      BY <1>4, <2>1, <2>5, <3>1, Kinds DEF Returned
    <3>3. StageOf(q)' = "done"
      BY <1>8, <2>1, <2>2, <3>2 DEF StageOf, HasRow, IsExecuted
    <3>4. Lifecycle!Settle(q)
      BY <1>7, <1>9, <2>1, <2>3, <3>3, OneMoves DEF Lifecycle!Settle
    <3> QED
      BY <1>6, <2>1, <3>4 DEF Lifecycle!LifecycleNext
  <2> QED
    BY <1>11, <2>4, <2>5
<1>12. CASE a \in Clients /\ pc[a] \notin ExecutePCs
  <2>1. q \in Requests /\ ~Executes(a, q) /\ ~Executes(a, q)'
    BY <1>5, <1>8, <1>12 DEF Executes
  <2>2. /\ jobs'[q] = jobs[q]
        /\ \A b \in Clients \union Workers : Executes(b, q)' <=> Executes(b, q)
    <3>1. a \notin Workers
      BY <1>12, Kinds
    <3> QED
      BY <1>2, <1>4, <2>1, <3>1, Kinds DEF Executes, Alone
  <2>3. (IsExecuted(q)' <=> IsExecuted(q)) /\ HolderOf(q)' = HolderOf(q)
    BY <1>7, <2>1, <2>2, SameHolder
  <2>4. CASE a \notin Attached \/ ~HasRow(q) \/ IsExecuted(q)
    <3>1. a \notin Attached => (Returned(q)' <=> Returned(q))
      BY <1>4, <2>1, Kinds DEF Returned
    <3>2. StageOf(q)' = StageOf(q)
      BY <1>8, <2>1, <2>2, <2>3, <2>4, <3>1 DEF StageOf, HasRow
    <3> QED
      BY <1>6, <1>7, <1>9, <2>3, <3>2, SameStage, NoneMoves
  <2>5. CASE a \in Attached /\ HasRow(q) /\ ~IsExecuted(q)
    <3>1. q \in Submits[a] /\ jobs[q] = "none" /\ ~Returned(q)
      BY <1>0, <1>12, <2>5, NotReturned DEF Claimed, OwnRequest, NoJob
    <3>2. StageOf(q) = "prepared" /\ HolderOf(q)' = None
      BY <2>3, <2>5, <3>1 DEF StageOf, HasRow, HolderOf
    <3>3. Returned(q)'
      BY <1>4, <2>1, <2>5, <3>1, Kinds DEF Returned
    <3>4. StageOf(q)' = "done"
      BY <1>8, <2>1, <2>2, <2>3, <2>5, <3>1, <3>3 DEF StageOf, HasRow
    <3>5. Lifecycle!Abandon(q)
      BY <1>7, <1>9, <2>1, <3>2, <3>4, OneMoves DEF Lifecycle!Abandon
    <3> QED
      BY <1>6, <2>1, <3>5 DEF Lifecycle!LifecycleNext
  <2> QED
    BY <1>12, <2>4, <2>5
<1> QED
  BY <1>10, <1>11, <1>12 DEF Actors

\* What begins an execution takes a turn that waited for it.
LEMMA TakeSteps ==
  ASSUME Typed, Typed', Claimed, Claimed', Backed, NEW a \in Clients \union Workers,
         NEW q \in Requests, Alone(a), RowsAsBefore, HasRow(q), RunsMove(a),
         \A p \in Requests : jobs'[p] = jobs[p] \/ p = q, answer' = answer,
         pc[a] \notin ExecutePCs, pc'[a] \in ExecutePCs, at'[a].req = q,
         at'[a].row.active \in {at[a].row.active, Run(a).active, None},
         a \in Attached => answer[a][q] = "none",
         a \in Clients => pc[a] \notin Resting /\ at[a].req = q /\ jobs[q] = "none",
         a \in Workers => pc[a] \in Resting /\ jobs[q] = "available"
  PROVE  Backed' /\ \E e \in Clients \union Workers : Lifecycle!Take(q, e)
<1>1. Backed'
  <2>1. Unanswered'
    BY Kinds DEF Alone, Backed, Unanswered
  <2>2. \A p \in Requests : HasRow(p) => HasRow(p)'
    BY DEF RowsAsBefore
  <2>3. \A p \in Requests : jobs'[p] # "none" => HasRow(p)'
    BY <2>2 DEF Backed, JobHasRow
  <2>4. pc'[a] \in MadePCs => HasRow(at[a].req)'
    BY <2>2 DEF HasRow
  <2> QED
    BY <2>1, <2>2, <2>3, <2>4, Kinds, AloneBacked DEF Actors
<1>2. ExclusiveExecution /\ ExclusiveExecution'
  BY ClaimedExclusive, StillExclusive
<1>3. Executes(a, q)' /\ ~Executes(a, q)
  BY Kinds DEF Executes
<1>4. ~IsExecuted(q)
  <2> SUFFICES ASSUME NEW b \in Clients \union Workers, Executes(b, q) PROVE FALSE
    BY DEF IsExecuted
  <2>1. b # a /\ Executes(b, q)'
    BY <1>3, Kinds DEF Executes, Alone
  <2> QED
    BY <1>2, <1>3, <2>1 DEF ExclusiveExecution
<1>5. StageOf(q) \in {"prepared", "pending"}
  <2>1. a \in Clients => ~Returned(q)
    BY NotReturned
  <2> QED
    BY <1>4, <2>1 DEF StageOf, HasRow
<1>6. StageOf(q)' = "executing" /\ HolderOf(q)' = a
  <2>1. IsExecuted(q)' /\ HolderOf(q)' = a
    BY <1>2, <1>3, HolderWillBe DEF ExecutorHolds
  <2>2. HasRow(q)'
    BY DEF RowsAsBefore
  <2> QED
    BY <2>1, <2>2 DEF StageOf, HasRow
<1>7. ASSUME NEW p \in Requests, p # q PROVE SameView(p)
  <2>1. ~Executes(a, p) /\ ~Executes(a, p)'
    BY <1>7 DEF Executes
  <2> QED
    BY <1>7, <2>1, AloneSees DEF RowsAsBefore, Actors
<1>8. Lifecycle!Take(q, a)
  BY <1>2, <1>5, <1>6, <1>7, OneMoves DEF Lifecycle!Take
<1> QED
  BY <1>1, <1>8

\* The first row of a turn.
LEMMA CreateSteps ==
  ASSUME Typed, Typed', Claimed, Claimed', Backed, NEW c \in Clients,
         CreateTurn(c), turns[at[c].req].status = "absent"
  PROVE  Backed' /\ \E q \in Requests : Lifecycle!Prepare(q)
<1>0. PICK q : q = at[c].req
  OBVIOUS
<1> DEFINE row == [status |-> ModeStatus(c), job |-> FALSE]
<1>1. /\ pc[c] = "insert" /\ pc' = [pc EXCEPT ![c] = "activate"]
      /\ turns' = [turns EXCEPT ![q] = row] /\ at' = [at EXCEPT ![c].turn = row]
      /\ runs' = runs /\ jobs' = jobs /\ answer' = answer
  BY <1>0 DEF CreateTurn, Go
<1>2. row.status # "absent" /\ "insert" \notin ExecutePCs /\ "insert" \notin Resting
      /\ "activate" \notin ExecutePCs /\ "insert" \in PreparePCs
  BY Places DEF ModeStatus, PreparePCs
<1>3. c \in Actors /\ c \notin Workers /\ q \in Requests /\ pc[c] \notin Resting
  BY <1>0, <1>1, <1>2, Kinds DEF Claimed, OwnRequest
<1> HIDE DEF row
<1>4. pc'[c] = "activate" /\ Alone(c) /\ at'[c].req = q /\ at'[c].row = at[c].row
  BY <1>0, <1>1, <1>3, RowsTyped DEF LocalsTyped, Local, Alone
<1>5. HasRow(q)' /\ ~HasRow(q) /\ \A p \in Requests \ {q} : HasRow(p)' <=> HasRow(p)
  BY <1>0, <1>1, <1>2, <1>3, RowsTyped DEF HasRow
<1>6. Backed'
  <2>1. RunsMove(c) /\ \A p \in Requests : HasRow(p) => HasRow(p)'
    BY <1>1, <1>5 DEF RunsMove
  <2>2. Unanswered'
    BY <1>0, <1>1, <1>3, <1>4, Kinds DEF Alone, Backed, Unanswered
  <2>3. \A p \in Requests : jobs'[p] # "none" => HasRow(p)'
    BY <1>1, <2>1 DEF Backed, JobHasRow
  <2>4. HasRow(at[c].req)'
    BY <1>4, <1>5 DEF HasRow
  <2> QED
    BY <1>3, <1>4, <2>1, <2>2, <2>3, <2>4, AloneBacked
<1>7. ExclusiveExecution /\ ExclusiveExecution'
  BY ClaimedExclusive, StillExclusive
<1>8. \A p \in Requests : ~Executes(c, p) /\ ~Executes(c, p)'
  BY <1>1, <1>2, <1>4 DEF Executes
<1>9. ASSUME NEW p \in Requests \ {q} PROVE SameView(p)
  BY <1>1, <1>3, <1>4, <1>5, <1>8, AloneSees
<1>10. \A b \in Clients \union Workers : ~Executes(b, q) /\ ~Executes(b, q)'
  <2> SUFFICES ASSUME NEW b \in Clients \union Workers PROVE ~Executes(b, q) /\ ~Executes(b, q)'
    OBVIOUS
  <2>1. ~Executes(b, q)
    BY <1>3, <1>5 DEF Executes, Backed, WorkHasRow, MadePCs, Actors
  <2>2. ~Executes(b, q)'
    BY <1>3, <1>4, <1>8, <2>1, Kinds DEF Alone, Executes
  <2> QED
    BY <2>1, <2>2
<1>11. ~Returned(q)' /\ jobs'[q] = "none"
  BY <1>0, <1>1, <1>3, <1>5, NotReturned DEF Returned, Backed, JobHasRow
<1>12. StageOf(q) = "new" /\ StageOf(q)' = "prepared" /\ HolderOf(q)' = None
  BY <1>5, <1>10, <1>11 DEF StageOf, HasRow, HolderOf, IsExecuted
<1>13. Lifecycle!Prepare(q)
  BY <1>3, <1>7, <1>9, <1>12, OneMoves DEF Lifecycle!Prepare
<1> QED
  BY <1>3, <1>6, <1>13

\* A job of a turn that has none, or that was discarded.
LEMMA OfferSteps ==
  ASSUME Typed, Typed', Claimed, Claimed', Backed, NEW c \in Clients,
         EnqueueAgentRun(c), jobs[at[c].req] \in {"none", "discarded"}
  PROVE  Backed' /\ \E q \in Requests : Lifecycle!Offer(q)
<1>0. PICK q : q = at[c].req
  OBVIOUS
<1>1. /\ pc[c] = "enqueue" /\ pc' = [pc EXCEPT ![c] = "markturn"]
      /\ jobs' = [jobs EXCEPT ![q] = "available"] /\ at' = [at EXCEPT ![c].skipped = FALSE]
      /\ runs' = runs /\ turns' = turns /\ answer' = answer
  BY <1>0 DEF EnqueueAgentRun, Go
<1>2. /\ "enqueue" \in QueuePCs /\ "markturn" \in QueuePCs
      /\ \A p \in QueuePCs : p \notin ExecutePCs /\ p \notin Resting /\ p \in MadePCs
  BY Places DEF QueuePCs, MadePCs
<1>3. c \in Actors /\ c \notin Workers /\ q \in Requests /\ q \in Submits[c] /\ c \notin Attached
  BY <1>0, <1>1, <1>2, Kinds DEF Claimed, OwnRequest, AttachedExecute
<1>4. pc'[c] = "markturn" /\ Alone(c) /\ at'[c].req = q /\ at'[c].row = at[c].row
  BY <1>0, <1>1, <1>3, RowsTyped DEF LocalsTyped, Local, Alone
<1>5. jobs'[q] = "available" /\ \A p \in Requests \ {q} : jobs'[p] = jobs[p]
  BY <1>1, <1>3, RowsTyped
<1>6. HasRow(q) /\ \A p : HasRow(p)' <=> HasRow(p)
  BY <1>0, <1>1, <1>2, <1>3 DEF HasRow, Backed, WorkHasRow
<1>7. Backed'
  <2>1. RunsMove(c) /\ \A p \in Requests : HasRow(p) => HasRow(p)'
    BY <1>1, <1>6 DEF RunsMove
  <2>2. Unanswered'
    BY <1>1, <1>3, <1>4, Kinds DEF Alone, Backed, Unanswered
  <2>3. \A p \in Requests : jobs'[p] # "none" => HasRow(p)'
    BY <1>5, <1>6 DEF Backed, JobHasRow
  <2>4. HasRow(at[c].req)'
    BY <1>1, <1>4, <1>6 DEF HasRow
  <2> QED
    BY <1>3, <1>4, <2>1, <2>2, <2>3, <2>4, AloneBacked
<1>8. ExclusiveExecution /\ ExclusiveExecution'
  BY ClaimedExclusive, StillExclusive
<1>9. \A p \in Requests : ~Executes(c, p) /\ ~Executes(c, p)'
  BY <1>1, <1>2, <1>4 DEF Executes
<1>10. ASSUME NEW p \in Requests \ {q} PROVE SameView(p)
  BY <1>1, <1>3, <1>4, <1>5, <1>6, <1>9, AloneSees
<1>11. \A b \in Clients \union Workers : ~Executes(b, q) /\ ~Executes(b, q)'
  <2> SUFFICES ASSUME NEW b \in Clients \union Workers PROVE ~Executes(b, q) /\ ~Executes(b, q)'
    OBVIOUS
  <2>1. ~Executes(b, q)
    <3>1. CASE b \in Workers
      BY <1>0, <3>1 DEF Executes, Claimed, ClaimedJob
    <3>2. CASE b \in Clients
      BY <1>3, <3>2, Kinds, Places DEF Executes, Claimed, AttachedExecute, OwnRequest
    <3> QED
      BY <3>1, <3>2
  <2>2. ~Executes(b, q)'
    BY <1>4, <1>9, <1>3, <2>1, Kinds DEF Alone, Executes
  <2> QED
    BY <2>1, <2>2
<1>12. ~Returned(q)
  BY <1>0, <1>1, <1>2, NotReturned
<1>13. StageOf(q) \in {"prepared", "lost"}
  BY <1>0, <1>6, <1>11, <1>12 DEF StageOf, HasRow, IsExecuted
<1>14. StageOf(q)' = "pending" /\ HolderOf(q)' = None
  BY <1>5, <1>6, <1>11 DEF StageOf, HasRow, IsExecuted, HolderOf
<1>15. Lifecycle!Offer(q)
  BY <1>3, <1>8, <1>10, <1>13, <1>14, OneMoves DEF Lifecycle!Offer
<1> QED
  BY <1>3, <1>7, <1>15

-----------------------------------------------------------------------------
(* The process and the cleanup.                                            *)

\* A crash loses the turns of the workers it kills and ends those of the
\* attached clients.
LEMMA CrashSteps ==
  ASSUME Typed, Typed', Claimed, Claimed', Backed, Crash
  PROVE  Backed' /\ \E Q \in SUBSET Requests : Lifecycle!Crash(Q)
<1>0. \A m \in Mortal : m \in Actors
  BY ActorsAssumption
<1>1. /\ runs' = runs /\ turns' = turns /\ jobs' = jobs
      /\ \A b \in Actors : IF b \in Mortal THEN pc'[b] = "dead" /\ at'[b] = Blank
                                           ELSE pc'[b] = pc[b] /\ at'[b] = at[b]
      /\ \A c \in Clients, q \in Requests :
           answer'[c][q] = IF c \in Mortal /\ pc[c] # "idle" /\ at[c].req = q
                             THEN "lost" ELSE answer[c][q]
  BY DEF Crash, db
<1>2. /\ "dead" \notin ExecutePCs /\ "dead" \notin MadePCs /\ "dead" \in Resting
      /\ Blank.row.active = None
      /\ "idle" \notin ExecutePCs
  BY Places DEF MadePCs, Resting, Blank, NewLocal, NoRun
<1>3. Backed'
  <2>1. JobHasRow' /\ ActiveHasRow'
    BY <1>1 DEF Backed, JobHasRow, ActiveHasRow, HasRow
  <2>2. WorkHasRow'
    BY <1>1, <1>2 DEF Backed, WorkHasRow, HasRow
  <2>3. CopyHasRow'
    BY <1>1, <1>2, RequestsAssumption DEF Backed, CopyHasRow, HasRow
  <2>4. Unanswered'
    <3> SUFFICES ASSUME NEW c \in Attached, pc'[c] \notin Resting
                 PROVE  answer'[c][at'[c].req] = "none"
      BY DEF Unanswered
    <3>1. c \in Clients /\ c \in Actors /\ c \notin Mortal
      BY <1>1, <1>2, Kinds
    <3>2. pc[c] \notin Resting /\ at'[c] = at[c]
      BY <1>1, <3>1
    <3>3. at[c].req \in Requests
      BY <3>1, <3>2, Kinds DEF Claimed, OwnRequest
    <3> QED
      BY <1>1, <3>1, <3>2, <3>3 DEF Backed, Unanswered
  <2>5. DeadTogether'
    BY <1>0, <1>1 DEF DeadTogether
  <2> QED
    BY <2>1, <2>2, <2>3, <2>4, <2>5 DEF Backed
<1>4. ExclusiveExecution /\ ExclusiveExecution'
  BY ClaimedExclusive, StillExclusive
<1>5. \A q \in Requests, a \in Clients \union Workers :
        Executes(a, q)' <=> (Executes(a, q) /\ a \notin Mortal)
  BY <1>1, <1>2, Kinds DEF Executes
<1>6. \A q \in Requests : Returned(q) => Returned(q)'
  BY <1>1, Kinds DEF Returned
<1>7. ASSUME NEW q \in Requests, StageOf(q)' = StageOf(q) PROVE HolderOf(q)' = HolderOf(q)
  <2>1. CASE IsExecuted(q)'
    <3>1. PICK a \in Clients \union Workers : Executes(a, q)'
      BY <2>1 DEF IsExecuted
    <3>2. Executes(a, q)
      BY <1>5, <3>1
    <3> QED
      BY <1>4, <3>1, <3>2, HolderIs, HolderWillBe DEF ExecutorHolds
  <2>2. CASE ~IsExecuted(q)' /\ ~IsExecuted(q)
    BY <2>2 DEF HolderOf
  <2>3. CASE ~IsExecuted(q)' /\ IsExecuted(q)
    <3>1. HasRow(q) /\ HasRow(q)'
      <4>1. PICK a \in Clients \union Workers : Executes(a, q)
        BY <2>3 DEF IsExecuted
      <4> QED
        BY <1>1, <4>1 DEF Executes, Backed, WorkHasRow, MadePCs, HasRow, Actors
    <3>2. StageOf(q) = "executing"
      BY <2>3, <3>1 DEF StageOf, HasRow
    <3>3. StageOf(q)' # "executing"
      BY <1>1, <2>3, <3>1, RowsTyped DEF StageOf, HasRow, JobStates
    <3> QED
      BY <1>7, <3>2, <3>3
  <2> QED
    BY <2>1, <2>2, <2>3
<1>8. ASSUME NEW q \in Requests, StageOf(q)' # StageOf(q)
      PROVE  /\ StageOf(q) \in {"executing", "prepared"}
             /\ StageOf(q)' \in {"done", "lost"}
             /\ HolderOf(q)' = None
  <2>1. HasRow(q) /\ HasRow(q)'
    BY <1>1, <1>8 DEF StageOf, HasRow
  <2>2. IsExecuted(q)' => IsExecuted(q)
    BY <1>5 DEF IsExecuted
  <2>3. ~IsExecuted(q)'
    BY <1>8, <2>1, <2>2 DEF StageOf, HasRow
  <2>4. HolderOf(q)' = None
    BY <2>3 DEF HolderOf
  <2>5. CASE IsExecuted(q)
    <3>1. StageOf(q) = "executing"
      BY <2>1, <2>5 DEF StageOf, HasRow
    <3>2. PICK a \in Clients \union Workers : Executes(a, q)
      BY <2>5 DEF IsExecuted
    <3>3. a \in Mortal
      BY <1>5, <2>3, <3>2 DEF IsExecuted
    <3>4. CASE a \in Workers
      <4>1. jobs'[q] = "running"
        BY <1>1, <3>2, <3>4 DEF Executes, Claimed, ClaimedJob
      <4>2. StageOf(q)' = "lost"
        BY <2>1, <2>3, <4>1 DEF StageOf, HasRow
      <4> QED
        BY <2>4, <3>1, <4>2
    <3>5. CASE a \in Clients
      <4>1. a \in Attached /\ q \in Submits[a] /\ jobs[q] = "none" /\ pc[a] # "idle"
        BY <1>2, <3>2, <3>5, Places
           DEF Executes, Claimed, AttachedExecute, OwnRequest, NoJob
      <4>2. Returned(q)' /\ jobs'[q] = "none"
        BY <1>1, <3>2, <3>3, <3>5, <4>1 DEF Executes, Returned
      <4>3. StageOf(q)' = "done"
        BY <2>1, <2>3, <4>2 DEF StageOf, HasRow
      <4> QED
        BY <2>4, <3>1, <4>3
    <3> QED
      BY <3>4, <3>5
  <2>6. CASE ~IsExecuted(q)
    <3>1. jobs[q] = "none" /\ jobs'[q] = "none" /\ ~Returned(q) /\ Returned(q)'
      <4>1. jobs'[q] = jobs[q] /\ jobs[q] \in JobStates
        BY <1>1, RowsTyped
      <4>2. jobs[q] = "none"
        BY <1>8, <2>1, <2>3, <2>6, <4>1 DEF StageOf, HasRow, JobStates
      <4>3. ~(Returned(q) <=> Returned(q)')
        BY <1>8, <2>1, <2>3, <2>6, <4>1, <4>2 DEF StageOf, HasRow
      <4> QED
        BY <1>6, <4>1, <4>2, <4>3
    <3> QED
      BY <2>1, <2>3, <2>4, <2>6, <3>1 DEF StageOf, HasRow
  <2> QED
    BY <2>5, <2>6
<1>9. \E Q \in SUBSET Requests : Lifecycle!Crash(Q)
  <2>1. PICK Q \in SUBSET Requests : Q = {q \in Requests : StageOf(q)' # StageOf(q)}
    OBVIOUS
  <2>2. PICK Keep \in SUBSET Q : Keep = {q \in Q : StageOf(q)' = "done"}
    OBVIOUS
  <2>3. \A q \in Q : StageOf(q) \in {"executing", "prepared"}
    BY <1>8, <2>1
  <2>4. \A q \in Requests : StageOf(q)' = IF q \notin Q THEN StageOf(q)
                                          ELSE IF q \in Keep THEN "done" ELSE "lost"
    BY <1>8, <2>1, <2>2
  <2>5. \A q \in Requests : HolderOf(q)' = IF q \in Q THEN None ELSE HolderOf(q)
    BY <1>7, <1>8, <2>1
  <2>6. Lifecycle!Crash(Q)
    BY <2>3, <2>4, <2>5 DEF Lifecycle!Crash
  <2> QED
    BY <2>6
<1> QED
  BY <1>3, <1>9

\* A restart finds the whole process dead.
LEMMA RestartSteps ==
  ASSUME Typed, Typed', Claimed, Claimed', Backed, Restart
  PROVE  Backed' /\ UNCHANGED Lifecycle!lifecycle
<1>0. \A m \in Mortal : m \in Actors
  BY ActorsAssumption
<1>1. /\ runs' = runs /\ turns' = turns /\ jobs' = jobs /\ at' = at /\ answer' = answer
      /\ \A b \in Actors : pc'[b] = IF b \in Mortal THEN "idle" ELSE pc[b]
      /\ \A m \in Mortal : pc[m] = "dead"
  BY DEF Restart, db, Backed, DeadTogether
<1>2. /\ "dead" \notin ExecutePCs /\ "idle" \notin ExecutePCs
      /\ "idle" \notin MadePCs /\ "idle" \in Resting
  BY Places DEF MadePCs, Resting
<1>3. Backed'
  <2>1. JobHasRow' /\ ActiveHasRow' /\ CopyHasRow'
    BY <1>1 DEF Backed, JobHasRow, ActiveHasRow, CopyHasRow, HasRow
  <2>2. WorkHasRow'
    BY <1>1, <1>2 DEF Backed, WorkHasRow, HasRow
  <2>3. Unanswered'
    BY <1>1, <1>2, Kinds DEF Backed, Unanswered
  <2>4. DeadTogether'
    BY <1>0, <1>1 DEF DeadTogether
  <2> QED
    BY <2>1, <2>2, <2>3, <2>4 DEF Backed
<1>4. \A q \in Requests : SameView(q)
  <2>1. \A q \in Requests, b \in Clients \union Workers : Executes(b, q)' <=> Executes(b, q)
    BY <1>1, <1>2, Kinds DEF Executes
  <2> QED
    BY <1>1, <2>1 DEF SameView, HasRow, Returned
<1> QED
  BY <1>3, <1>4, ClaimedExclusive, StillExclusive, SameStage, NoneMoves

\* The cleanup of a starting server aborts turns and deactivates them.
LEMMA CleanSteps ==
  ASSUME Typed, Typed', Claimed, Claimed', Backed, StartServer \/ MarkStaleAborted
  PROVE  Backed' /\ UNCHANGED Lifecycle!lifecycle
<1>1. /\ jobs' = jobs /\ pc' = pc /\ at' = at /\ answer' = answer
      /\ \A q \in Requests : HasRow(q)' <=> HasRow(q)
      /\ \A r \in Runs : runs'[r].active \in {runs[r].active, None}
  <2>1. CASE StartServer
    BY <2>1 DEF StartServer, db, HasRow
  <2>2. CASE MarkStaleAborted
    <3>1. jobs' = jobs /\ pc' = pc /\ at' = at /\ answer' = answer
      BY <2>2 DEF MarkStaleAborted
    <3>2. \A q \in Requests : HasRow(q)' <=> HasRow(q)
      <4>1. turns' = [q \in Requests |-> IF /\ {r \in Runs : runs[r].status = "running"} # {}
                                            /\ turns[q].status = "running"
                                           THEN [turns[q] EXCEPT !.status = "aborted"]
                                           ELSE turns[q]]
        BY <2>2 DEF MarkStaleAborted
      <4>2. \A q \in Requests : [turns[q] EXCEPT !.status = "aborted"].status = "aborted"
        BY RowsTyped DEF TurnRow
      <4> QED
        BY <4>1, <4>2 DEF HasRow
    <3>3. \A r \in Runs : runs'[r].active \in {runs[r].active, None}
      BY ZenonT(60), <2>2, RowsTyped DEF MarkStaleAborted, RunRow
    <3> QED
      BY <3>1, <3>2, <3>3
  <2> QED
    BY <2>1, <2>2
<1>2. Backed'
  <2>1. JobHasRow'
    BY <1>1 DEF Backed, JobHasRow
  <2>2. WorkHasRow'
    BY <1>1, MadeKnown DEF Backed, WorkHasRow, MadeAware, HasRow
  <2>3. ActiveHasRow'
    BY <1>1, RequestsAssumption DEF Backed, ActiveHasRow, HasRow
  <2>4. CopyHasRow'
    BY <1>1 DEF Backed, CopyHasRow, HasRow
  <2>5. Unanswered' /\ DeadTogether'
    BY <1>1 DEF Backed, Unanswered, DeadTogether
  <2> QED
    BY <2>1, <2>2, <2>3, <2>4, <2>5 DEF Backed
<1>3. \A q \in Requests : SameView(q)
  BY <1>1 DEF SameView, Executes, Returned
<1> QED
  BY <1>2, <1>3, ClaimedExclusive, StillExclusive, SameStage, NoneMoves

\* A discarded job was lost already.
LEMMA RescueSteps ==
  ASSUME Typed, Typed', Claimed, Claimed', Backed, NEW p \in Requests, Rescue(p)
  PROVE  Backed' /\ UNCHANGED Lifecycle!lifecycle
<1>1. /\ runs' = runs /\ turns' = turns /\ pc' = pc /\ at' = at /\ answer' = answer
      /\ jobs[p] = "running" /\ jobs' = [jobs EXCEPT ![p] = "discarded"]
  BY DEF Rescue
<1>2. jobs'[p] = "discarded" /\ \A q \in Requests \ {p} : jobs'[q] = jobs[q]
  BY <1>1, RowsTyped
<1>3. Backed'
  BY <1>1, <1>2 DEF Backed, JobHasRow, WorkHasRow, ActiveHasRow, CopyHasRow, Unanswered,
                    DeadTogether, HasRow
<1>4. \A q \in Requests \ {p} : SameView(q)
  BY <1>1, <1>2 DEF SameView, Executes, Returned, HasRow
<1>5. ExclusiveExecution /\ ExclusiveExecution'
  BY ClaimedExclusive, StillExclusive
<1>6. StageOf(p)' = StageOf(p) /\ HolderOf(p)' = HolderOf(p)
  <2>1. \A b \in Clients \union Workers : Executes(b, p)' <=> Executes(b, p)
    BY <1>1 DEF Executes
  <2>2. (IsExecuted(p)' <=> IsExecuted(p)) /\ HolderOf(p)' = HolderOf(p)
    BY <1>5, <2>1, SameHolder
  <2> QED
    BY <1>1, <1>2, <2>2 DEF StageOf
<1> QED
  BY <1>3, <1>4, <1>5, <1>6, SameStage, NoneMoves

-----------------------------------------------------------------------------
(* Every statement has one of these shapes.                                *)

\* A step of the lifecycle, or none.
Follows == [Lifecycle!LifecycleNext]_(Lifecycle!lifecycle)

\* The local variables that the invariant speaks of keep their values, or
\* take those of the run.
Reads(a) ==
  /\ at'[a].req = at[a].req
  /\ at'[a].row \in {at[a].row, Run(a)}
  /\ \A b \in Actors \ {a} : at'[b] = at[b]

\* A read of the run copies its active turn.
LEMMA ReadReads ==
  ASSUME Typed, NEW a \in Actors, at' = at \/ ReadRun(a) PROVE Reads(a)
BY RowsTyped DEF Reads, ReadRun, LocalsTyped, Local

\* Another local value leaves the request and the copy of the run alone.
LEMMA SetReads ==
  ASSUME Typed, NEW a \in Actors, NEW l, l.req = at[a].req, l.row = at[a].row,
         at' = [at EXCEPT ![a] = l]
  PROVE  Reads(a)
BY RowsTyped DEF Reads, LocalsTyped

\* A write of the run puts back the copy, with another active turn or not.
LEMMA WriteMoves ==
  ASSUME Typed, Backed, NEW a \in Actors, NEW s, NEW x, WriteRun(a, s, x),
         x = None \/ (x = at[a].req /\ pc[a] \in MadePCs)
  PROVE  RunsMove(a)
<1> DEFINE row == [at[a].row EXCEPT !.status = s, !.active = x, !.cancel = FALSE]
<1>1. row.active = x
  BY AwareTyped DEF RunRow
<1>2. runs' = [runs EXCEPT ![at[a].run] = row]
  BY DEF WriteRun
<1>3. x = at[a].req /\ pc[a] \in MadePCs => HasRow(at[a].req)
  BY DEF Backed, WorkHasRow
<1> HIDE DEF row
<1> QED
  BY <1>1, <1>2, <1>3, RowsTyped DEF RunsMove

\* Emit touches neither the turns nor what a run is active with.
LEMMA EmitMoves ==
  ASSUME Typed, NEW a \in Actors, NEW kind, Emit(a, kind)
  PROVE  RunsMove(a)
BY RowsTyped DEF Emit, RunsMove, RunRow

\* Go moves one actor and keeps its local variables.
LEMMA GoGoes ==
  ASSUME Typed, Typed', Claimed, Claimed', Backed, NEW a \in Actors, NEW from, NEW to,
         Go(a, from, to),
         from \notin Resting, to \notin Resting, Reads(a), jobs' = jobs, answer' = answer,
         RowsAsBefore, RunsMove(a), to \in MadePCs => HasRow(at[a].req),
         a \in Clients \union Workers => (from \in ExecutePCs <=> to \in ExecutePCs)
  PROVE  Backed' /\ Follows
<1>1. /\ pc[a] = from /\ pc'[a] = to
      /\ \A b \in Actors \ {a} : pc'[b] = pc[b]
  BY RowsTyped DEF Go, LocalsTyped
<1>2. a \in Attached => answer[a][at[a].req] = "none"
  BY <1>1 DEF Backed, Unanswered
<1>3. Goes(a)
  BY <1>1, <1>2 DEF Goes, Alone, Reads, Resting
<1> QED
  BY <1>3, GoesOn DEF Follows

\* The places where a client prepares its turn.
LEMMA PreparePlaces ==
  /\ PreparePCs \intersect (Resting \union ExecutePCs) = {}
  /\ PreparePCs \intersect MadePCs = {"activate", "prepared"}
  /\ "enqueue" \notin ExecutePCs /\ "enqueue" \notin Resting
  /\ "getturn" \in ExecutePCs
BY Places DEF PreparePCs, MadePCs, ExecutePCs, StartPCs, QueuePCs

\* Where turns is unchanged no row comes or goes.
LEMMA TurnsKept == ASSUME turns' = turns PROVE RowsAsBefore
BY DEF RowsAsBefore, HasRow

\* Where runs is unchanged no active turn changes.
LEMMA RunsKept == ASSUME NEW a, runs' = runs PROVE RunsMove(a)
BY DEF RunsMove

\* An attached client starts its own turn.
LEMMA AttachedTakes ==
  ASSUME Typed, Typed', Claimed, Claimed', Backed, NEW c \in Attached,
         pc[c] \in PreparePCs, pc' = [pc EXCEPT ![c] = "getturn"], Reads(c),
         HasRow(at[c].req), UNCHANGED <<runs, turns, jobs, answer>>
  PROVE  Backed' /\ Follows
<1>0. PICK q : q = at[c].req
  OBVIOUS
<1>1. /\ c \in Clients /\ c \in Actors /\ c \notin Workers
      /\ pc[c] \notin Resting /\ pc[c] \notin ExecutePCs
  BY PreparePlaces, Kinds
<1>2. q \in Requests /\ jobs[q] = "none" /\ answer[c][q] = "none"
  BY <1>0, <1>1, Kinds DEF Claimed, OwnRequest, NoJob, Backed, Unanswered
<1>3. pc'[c] \in ExecutePCs /\ Alone(c)
  BY <1>1, PreparePlaces, RowsTyped DEF LocalsTyped, Alone, Resting, Reads
<1>4. RowsAsBefore /\ RunsMove(c)
  BY TurnsKept, RunsKept
<1>5. at'[c].req = q /\ at'[c].row.active \in {at[c].row.active, Run(c).active, None}
  BY <1>0 DEF Reads
<1>6. Backed' /\ \E e \in Clients \union Workers : Lifecycle!Take(q, e)
  BY <1>0, <1>1, <1>2, <1>3, <1>4, <1>5, TakeSteps
<1> QED
  BY <1>2, <1>6 DEF Follows, Lifecycle!LifecycleNext

\* Preparation: the one statement that moves a turn is its creation.
LEMMA PrepareSteps ==
  ASSUME Typed, Typed', Claimed, Claimed', Backed, NEW c \in Clients, PrepareStep(c)
  PROVE  Backed' /\ Follows
<1>0. /\ c \in Actors /\ c \notin Workers
      /\ {"load", "lookup", "create", "reload", "insert", "activate", "prepared"} = PreparePCs
  BY Kinds DEF PreparePCs
<1>1. ASSUME NEW from \in PreparePCs, NEW to \in PreparePCs, Go(c, from, to), Reads(c),
             jobs' = jobs, answer' = answer, turns' = turns, RunsMove(c),
             to \in {"activate", "prepared"} => HasRow(at[c].req)
      PROVE  Backed' /\ Follows
  <2>1. /\ from \notin Resting /\ to \notin Resting
        /\ from \notin ExecutePCs /\ to \notin ExecutePCs
        /\ to \in MadePCs => HasRow(at[c].req)
    BY <1>1, PreparePlaces
  <2> QED
    BY <1>0, <1>1, <2>1, TurnsKept, GoGoes
<1>2. ASSUME NEW result, result # "none", NEW outcome, Return(c, result, outcome),
             pc[c] \in PreparePCs, runs' = runs, turns' = turns
      PROVE  Backed' /\ Follows
  BY <1>0, <1>2, PreparePlaces, RunsKept, ReturnSteps DEF Follows
<1>3. CASE LoadRun(c)
  BY <1>0, <1>1, <1>3, ReadReads, RunsKept DEF LoadRun, db
<1>4. CASE FoundTurn(c)
  <2>1. CASE turns[at[c].req].job
    BY <1>0, <1>2, <1>4, <2>1 DEF FoundTurn
  <2>2. CASE ~turns[at[c].req].job
    <3>1. /\ pc[c] = "lookup" /\ HasRow(at[c].req)
          /\ pc' = [pc EXCEPT ![c] = IF c \in Attached THEN "getturn" ELSE "enqueue"]
          /\ at' = [at EXCEPT ![c].turn = turns[at[c].req], ![c].known = TRUE]
          /\ UNCHANGED <<runs, turns, jobs, answer>>
      BY <1>4, <2>2 DEF FoundTurn, HasRow
    <3>2. Reads(c)
      BY <1>0, <3>1, RowsTyped DEF Reads, LocalsTyped, Local
    <3>3. CASE c \in Attached
      BY <1>0, <3>1, <3>2, <3>3, AttachedTakes
    <3>4. CASE c \notin Attached
      <4>1. Go(c, "lookup", "enqueue")
        BY <3>1, <3>4 DEF Go
      <4>2. "lookup" \notin Resting /\ "lookup" \notin ExecutePCs
        BY <1>0, PreparePlaces
      <4> QED
        BY <1>0, <3>1, <3>2, <4>1, <4>2, PreparePlaces, TurnsKept, RunsKept, GoGoes
    <3> QED
      BY <3>3, <3>4
  <2> QED
    BY <2>1, <2>2
<1>5. CASE RefuseBusy(c)
  BY <1>0, <1>2, <1>5 DEF RefuseBusy
<1>6. CASE NoTurnYet(c)
  BY <1>0, <1>1, <1>6, ReadReads, RunsKept DEF NoTurnYet, db
<1>7. CASE CreateRun(c)
  <2>1. CASE Run(c).status = "absent"
    <3>1. /\ Go(c, "create", "reload") /\ at' = at
          /\ jobs' = jobs /\ answer' = answer /\ turns' = turns
          /\ runs' = [runs EXCEPT ![at[c].run] = [NoRun EXCEPT !.status = ModeStatus(c)]]
      BY <1>7, <2>1 DEF CreateRun
    <3>2. [NoRun EXCEPT !.status = ModeStatus(c)].active = None
      BY DEF NoRun
    <3>3. RunsMove(c)
      BY <1>0, <3>1, <3>2, RowsTyped DEF RunsMove
    <3> QED
      BY <1>0, <1>1, <3>1, <3>3, ReadReads
  <2>2. CASE Run(c).status # "absent"
    BY <1>0, <1>2, <1>7, <2>2 DEF CreateRun
  <2> QED
    BY <2>1, <2>2
<1>8. CASE ReloadRun(c)
  BY <1>0, <1>1, <1>8, ReadReads, RunsKept DEF ReloadRun, db
<1>9. CASE CreateTurn(c)
  <2>1. CASE turns[at[c].req].status = "absent"
    BY <1>9, <2>1, CreateSteps DEF Follows, Lifecycle!LifecycleNext
  <2>2. CASE turns[at[c].req].status # "absent"
    BY <1>0, <1>2, <1>9, <2>2 DEF CreateTurn
  <2> QED
    BY <2>1, <2>2
<1>10. pc[c] \in {"activate", "prepared"} => HasRow(at[c].req) /\ pc[c] \in MadePCs
  BY <1>0 DEF Backed, WorkHasRow, MadePCs
<1>11. CASE ActivateTurn(c)
  <2>1. /\ Go(c, "activate", "prepared") /\ at' = at
        /\ jobs' = jobs /\ answer' = answer /\ turns' = turns
        /\ WriteRun(c, ModeStatus(c), at[c].req)
    BY <1>11 DEF ActivateTurn
  <2>2. HasRow(at[c].req) /\ RunsMove(c)
    BY <1>0, <1>10, <2>1, WriteMoves DEF Go
  <2> QED
    BY <1>0, <1>1, <2>1, <2>2, ReadReads
<1>12. CASE Prepared(c)
  <2>1. /\ Go(c, "prepared", IF c \in Attached THEN "getturn" ELSE "enqueue")
        /\ Reads(c) /\ HasRow(at[c].req)
        /\ UNCHANGED <<runs, turns, jobs, answer>>
    BY <1>0, <1>10, <1>12, ReadReads DEF Prepared, db, Go
  <2>2. CASE c \in Attached
    BY <1>0, <2>1, <2>2, AttachedTakes DEF Go
  <2>3. CASE c \notin Attached
    <3>1. "prepared" \notin Resting /\ "prepared" \notin ExecutePCs
      BY <1>0, PreparePlaces
    <3> QED
      BY <1>0, <2>1, <2>3, <3>1, PreparePlaces, TurnsKept, RunsKept, GoGoes
  <2> QED
    BY <2>2, <2>3
<1> QED
  BY <1>3, <1>4, <1>5, <1>6, <1>7, <1>8, <1>9, <1>11, <1>12 DEF PrepareStep

\* A statement that writes a turn row writes over one.
LEMMA WriteKeeps ==
  ASSUME Typed, Backed, NEW a \in Actors, pc[a] \in MadePCs, NEW row,
         row.status # "absent", turns' = [turns EXCEPT ![at[a].req] = row]
  PROVE  RowsAsBefore
<1>1. HasRow(at[a].req) /\ at[a].req \in Requests
  BY MadeKnown DEF MadeAware, Backed, WorkHasRow
<1> QED
  BY <1>1, RowsTyped DEF RowsAsBefore, HasRow

\* A write of an existing turn neither creates nor deletes a row.
LEMMA TurnWritten ==
  ASSUME Typed, Backed, NEW a \in Actors, pc[a] \in MadePCs, NEW s, s # "absent",
         WriteTurn(a, s)
  PROVE  RowsAsBefore
<1> DEFINE row == [status |-> s, job |-> at[a].turn.job]
<1>1. row.status # "absent" /\ turns' = [turns EXCEPT ![at[a].req] = row]
  BY DEF WriteTurn
<1> HIDE DEF row
<1> QED
  BY <1>1, WriteKeeps

\* Queueing: the one statement that moves a turn offers its job.
LEMMA QueueSteps ==
  ASSUME Typed, Typed', Claimed, Claimed', Backed, NEW c \in Clients, QueueStep(c)
  PROVE  Backed' /\ Follows
<1>0. /\ c \in Actors /\ c \notin Workers
      /\ {"enqueue", "markturn", "markrun", "emitqueued"} = QueuePCs
      /\ \A p \in QueuePCs : p \notin Resting /\ p \notin ExecutePCs /\ p \in MadePCs
  BY Kinds, Places DEF QueuePCs, MadePCs
<1>1. pc[c] \in QueuePCs => HasRow(at[c].req) /\ pc[c] \in MadePCs
  BY <1>0 DEF Backed, WorkHasRow
<1>2. ASSUME NEW from \in QueuePCs, NEW to \in QueuePCs, Go(c, from, to), Reads(c),
             jobs' = jobs, answer' = answer, RowsAsBefore, RunsMove(c)
      PROVE  Backed' /\ Follows
  BY <1>0, <1>1, <1>2, GoGoes DEF Go
<1>3. CASE EnqueueAgentRun(c)
  <2>1. CASE jobs[at[c].req] \in {"none", "discarded"}
    BY <1>3, <2>1, OfferSteps DEF Follows, Lifecycle!LifecycleNext
  <2>2. CASE jobs[at[c].req] \notin {"none", "discarded"}
    <3> DEFINE l == [at[c] EXCEPT !.skipped = TRUE]
    <3>1. /\ Go(c, "enqueue", "markturn") /\ at' = [at EXCEPT ![c] = l]
          /\ UNCHANGED <<runs, turns, jobs, answer>>
      BY <1>3, <2>2 DEF EnqueueAgentRun
    <3>2. l.req = at[c].req /\ l.row = at[c].row
      BY <1>0, AwareTyped DEF Local
    <3> HIDE DEF l
    <3> QED
      BY <1>0, <1>2, <3>1, <3>2, SetReads, TurnsKept, RunsKept
  <2> QED
    BY <2>1, <2>2
<1>4. CASE MarkTurn(c)
  <2> DEFINE row == [status |-> "queued", job |-> TRUE]
  <2>1. /\ Go(c, "markturn", "markrun") /\ at' = at
        /\ turns' = [turns EXCEPT ![at[c].req] = row]
        /\ UNCHANGED <<runs, jobs, answer>>
    BY <1>4 DEF MarkTurn
  <2>2. row.status # "absent"
    OBVIOUS
  <2> HIDE DEF row
  <2>3. RowsAsBefore
    BY <1>0, <1>1, <2>1, <2>2, WriteKeeps DEF Go
  <2> QED
    BY <1>0, <1>2, <2>1, <2>3, ReadReads, RunsKept
<1>5. CASE MarkRun(c)
  <2>1. /\ Go(c, "markrun", "emitqueued") /\ at' = at
        /\ WriteRun(c, "queued", at[c].req)
        /\ UNCHANGED <<turns, jobs, answer>>
    BY <1>5 DEF MarkRun
  <2>2. RunsMove(c)
    BY <1>0, <1>1, <2>1, WriteMoves DEF Go
  <2> QED
    BY <1>0, <1>2, <2>1, <2>2, ReadReads, TurnsKept
<1>6. CASE EmitQueued(c)
  <2>1. /\ Emit(c, "queued") /\ turns' = turns /\ pc[c] = "emitqueued"
        /\ \E result \in {"duplicate", "accepted"} : Return(c, result, "none")
    BY <1>6 DEF EmitQueued
  <2>2. RunsMove(c)
    BY <1>0, <2>1, EmitMoves
  <2> QED
    BY <1>0, <2>1, <2>2, ReturnSteps DEF Follows
<1> QED
  BY <1>3, <1>4, <1>5, <1>6 DEF QueueStep

\* Who executes goes on executing, or returns.
LEMMA ExecutePlaces ==
  /\ \A p \in ExecutePCs : p \notin Resting /\ p \in MadePCs
  /\ StartPCs \union AgentPCs \union FinishPCs \union AbortTurnPCs = ExecutePCs
BY Places DEF MadePCs, ExecutePCs

\* A statement inside ExecuteTurn, or inside the abort of a turn.
LEMMA ExecuteGoes ==
  ASSUME Typed, Typed', Claimed, Claimed', Backed, NEW a \in Actors,
         NEW from \in ExecutePCs, NEW to \in ExecutePCs,
         Go(a, from, to), Reads(a), jobs' = jobs, answer' = answer,
         RowsAsBefore, RunsMove(a)
  PROVE  Backed' /\ Follows
<1>1. pc[a] \in MadePCs /\ HasRow(at[a].req)
  BY ExecutePlaces DEF Go, Backed, WorkHasRow
<1> QED
  BY <1>1, ExecutePlaces, GoGoes

\* The places from which an execution returns.
LEMMA ExecuteReturns ==
  ASSUME Typed, Typed', Claimed, Claimed', Backed, NEW a \in Actors,
         pc[a] \in ExecutePCs, Return(a, "ran", "completed"), turns' = turns, RunsMove(a)
  PROVE  Backed' /\ Follows
BY ExecutePlaces, ReturnSteps DEF Follows

\* Execution: the one statement that moves a turn is the return.
LEMMA ExecuteSteps ==
  ASSUME Typed, Typed', Claimed, Claimed', Backed, NEW a \in Clients \union Workers,
         ExecuteStep(a)
  PROVE  Backed' /\ Follows
<1>0. /\ a \in Actors
      /\ {"getturn", "getrun", "setturn", "setrun", "started", "exec", "abturn",
          "execdone", "finalrun", "finalreload", "finalturn", "finalrow", "emitstatus"}
           \subseteq ExecutePCs
      /\ \A p \in ExecutePCs : p \in MadePCs
  BY Kinds, ExecutePlaces DEF ExecutePCs, StartPCs, AgentPCs, FinishPCs, AbortTurnPCs
<1>1. CASE GetTurn(a)
  <2> DEFINE l == [at[a] EXCEPT !.turn = turns[at[a].req]]
  <2>1. /\ Go(a, "getturn", "getrun") /\ at' = [at EXCEPT ![a] = l]
        /\ UNCHANGED <<runs, turns, jobs, answer>>
    BY <1>1 DEF GetTurn, db
  <2>2. l.req = at[a].req /\ l.row = at[a].row
    BY <1>0, AwareTyped DEF Local
  <2> HIDE DEF l
  <2> QED
    BY <1>0, <2>1, <2>2, SetReads, TurnsKept, RunsKept, ExecuteGoes
<1>2. CASE GetRun(a)
  <2>1. CASE at[a].turn.status \in {"completed", "aborted"}
    BY <1>0, <1>2, <2>1, RunsKept, ExecuteReturns DEF GetRun
  <2>2. CASE at[a].turn.status \notin {"completed", "aborted"}
    <3>1. PICK to \in {"abturn", "setturn"} :
            /\ Go(a, "getrun", to) /\ ReadRun(a)
            /\ UNCHANGED <<runs, turns, jobs, answer>>
      BY <1>2, <2>2 DEF GetRun, Go
    <3> QED
      BY <1>0, <3>1, ReadReads, TurnsKept, RunsKept, ExecuteGoes
  <2> QED
    BY <2>1, <2>2
<1>3. CASE SetTurn(a)
  <2>1. /\ Go(a, "setturn", "setrun") /\ at' = at /\ WriteTurn(a, "running")
        /\ UNCHANGED <<runs, jobs, answer>>
    BY <1>3 DEF SetTurn
  <2>2. RowsAsBefore
    BY <1>0, <2>1, TurnWritten DEF Go
  <2> QED
    BY <1>0, <2>1, <2>2, ReadReads, RunsKept, ExecuteGoes
<1>4. CASE SetRun(a)
  <2>1. /\ Go(a, "setrun", "started") /\ at' = at /\ WriteRun(a, "running", at[a].req)
        /\ UNCHANGED <<turns, jobs, answer>>
    BY <1>4 DEF SetRun
  <2>2. RunsMove(a)
    BY <1>0, <2>1, WriteMoves DEF Go
  <2> QED
    BY <1>0, <2>1, <2>2, ReadReads, TurnsKept, ExecuteGoes
<1>5. CASE EmitStarted(a)
  <2>1. /\ Go(a, "started", "exec") /\ at' = at /\ Emit(a, "started")
        /\ UNCHANGED <<turns, jobs, answer>>
    BY <1>5 DEF EmitStarted
  <2> QED
    BY <1>0, <2>1, EmitMoves, ReadReads, TurnsKept, ExecuteGoes
<1>6. CASE GetFinished(a)
  <2>1. PICK to \in {"finalrun", "finalturn"} :
          /\ Go(a, "execdone", to) /\ ReadRun(a)
          /\ UNCHANGED <<runs, turns, jobs, answer>>
    BY <1>6 DEF GetFinished, db
  <2> QED
    BY <1>0, <2>1, ReadReads, TurnsKept, RunsKept, ExecuteGoes
<1>7. CASE FinalizeRun(a)
  <2>1. /\ Go(a, "finalrun", "finalreload") /\ at' = at
        /\ \E s \in {"aborted", "failed"} : WriteRun(a, s, None)
        /\ UNCHANGED <<turns, jobs, answer>>
    BY <1>7 DEF FinalizeRun
  <2>2. RunsMove(a)
    BY <1>0, <2>1, WriteMoves
  <2> QED
    BY <1>0, <2>1, <2>2, ReadReads, TurnsKept, ExecuteGoes
<1>8. CASE ReloadFinal(a)
  BY <1>0, <1>8, ReadReads, TurnsKept, RunsKept, ExecuteGoes DEF ReloadFinal, db
<1>9. CASE FinalizeTurn(a)
  <2>1. /\ Go(a, "finalturn", "finalrow") /\ at' = at
        /\ \E s \in Terminal : WriteTurn(a, s)
        /\ UNCHANGED <<runs, jobs, answer>>
    BY <1>9 DEF FinalizeTurn, Terminal
  <2>2. RowsAsBefore
    BY <1>0, <2>1, TurnWritten DEF Go, Terminal
  <2> QED
    BY <1>0, <2>1, <2>2, ReadReads, RunsKept, ExecuteGoes
<1>10. CASE FinalizeRow(a)
  <2>1. /\ Go(a, "finalrow", "emitstatus") /\ at' = at
        /\ WriteRun(a, at[a].row.status, None)
        /\ UNCHANGED <<turns, jobs, answer>>
    BY <1>10 DEF FinalizeRow
  <2>2. RunsMove(a)
    BY <1>0, <2>1, WriteMoves
  <2> QED
    BY <1>0, <2>1, <2>2, ReadReads, TurnsKept, ExecuteGoes
<1>11. CASE EmitStatus(a)
  BY <1>0, <1>11, EmitMoves, ExecuteReturns DEF EmitStatus
<1> QED
  BY <1>1, <1>2, <1>3, <1>4, <1>5, <1>6, <1>7, <1>8, <1>9, <1>10, <1>11 DEF ExecuteStep

\* Aborting a turn writes its row and the run, and moves no turn of the lifecycle.
LEMMA AbortTurnSteps ==
  ASSUME Typed, Typed', Claimed, Claimed', Backed, NEW a \in Actors, AbortTurnStep(a)
  PROVE  Backed' /\ Follows
<1>0. /\ {"abturn", "abrow", "abemit"} \subseteq ExecutePCs
      /\ \A p \in ExecutePCs : p \in MadePCs
  BY ExecutePlaces DEF ExecutePCs, AbortTurnPCs
<1>1. CASE AbortTurn(a)
  <2>1. /\ Go(a, "abturn", "abrow") /\ at' = at /\ WriteTurn(a, "aborted")
        /\ UNCHANGED <<runs, jobs, answer>>
    BY <1>1 DEF AbortTurn
  <2>2. RowsAsBefore
    BY <1>0, <2>1, TurnWritten DEF Go
  <2> QED
    BY <1>0, <2>1, <2>2, ReadReads, RunsKept, ExecuteGoes
<1>2. CASE AbortRow(a)
  <2>1. /\ Go(a, "abrow", "abemit") /\ at' = at /\ WriteRun(a, "aborted", None)
        /\ UNCHANGED <<turns, jobs, answer>>
    BY <1>2 DEF AbortRow
  <2>2. RunsMove(a)
    BY <1>0, <2>1, WriteMoves
  <2> QED
    BY <1>0, <2>1, <2>2, ReadReads, TurnsKept, ExecuteGoes
<1>3. CASE EmitAborted(a)
  BY <1>0, <1>3, EmitMoves, ExecuteReturns DEF EmitAborted
<1> QED
  BY <1>1, <1>2, <1>3 DEF AbortTurnStep

\* Of the fields that agent.Run sets, none names a request.
LEMMA AgentReads ==
  ASSUME Typed, NEW a \in Clients \union Workers, AgentStep(a)
  PROVE  Reads(a)
<1>0. a \in Actors /\ at[a] \in Local
  BY Kinds, AwareTyped
<1>1. ASSUME NEW l, at' = [at EXCEPT ![a] = l], l.req = at[a].req, l.row = at[a].row
      PROVE  Reads(a)
  BY <1>0, <1>1, SetReads
<1>2. CASE LoadConversation(a)
  BY <1>0, <1>2, RowsTyped DEF LoadConversation, Reads, LocalsTyped, Local
<1>3. CASE ReadMeta(a)
  BY <1>0, <1>3, ReadReads DEF ReadMeta
<1>4. CASE WriteMeta(a) \/ InitialChunk(a) \/ FinishChunk(a)
  <2> DEFINE l(e) == [at[a] EXCEPT !.err = e]
  <2>1. at' = at \/ \E e \in BOOLEAN : at' = [at EXCEPT ![a] = l(e)]
    <3>1. at[a].cancelled \in BOOLEAN
      BY <1>0, LocalFields
    <3> QED
      BY <1>4, <3>1 DEF WriteMeta, InitialChunk, FinishChunk
  <2>2. \A e \in BOOLEAN : l(e).req = at[a].req /\ l(e).row = at[a].row
    BY <1>0 DEF Local
  <2> HIDE DEF l
  <2> QED
    BY <1>0, <1>1, <2>1, <2>2, ReadReads
<1>5. CASE StreamChunk(a) \/ PersistProgress(a)
  <2> DEFINE l == [at[a] EXCEPT !.left = @ - 1]
  <2>1. l.req = at[a].req /\ l.row = at[a].row /\ at' = [at EXCEPT ![a] = l]
    BY <1>0, <1>5 DEF StreamChunk, PersistProgress, Local
  <2> HIDE DEF l
  <2> QED
    BY <1>1, <2>1
<1>6. CASE EndStream(a)
  BY <1>0, <1>6, RowsTyped DEF EndStream, Reads, LocalsTyped, Local
<1> QED
  BY <1>2, <1>3, <1>4, <1>5, <1>6 DEF AgentStep

\* The agent's statements write only the transcript and the run.
LEMMA AgentSteps ==
  ASSUME Typed, Typed', Claimed, Claimed', Backed, NEW a \in Clients \union Workers,
         AgentStep(a)
  PROVE  Backed' /\ Follows
<1>0. a \in Actors /\ AgentPCs \union {"execdone"} \subseteq ExecutePCs
  BY Kinds DEF ExecutePCs, FinishPCs
<1>1. jobs' = jobs /\ answer' = answer /\ turns' = turns
  BY DEF AgentStep, LoadConversation, ReadMeta, WriteMeta, InitialChunk, StreamChunk,
         PersistProgress, EndStream, FinishChunk, db
<1>2. pc[a] \in AgentPCs /\ \E to \in AgentPCs \union {"execdone"} : Go(a, pc[a], to)
  <2>1. CASE StreamChunk(a)
    BY <2>1, <1>0, RowsTyped DEF StreamChunk, LocalsTyped, AgentPCs, Go
  <2>2. CASE LoadConversation(a) \/ ReadMeta(a) \/ WriteMeta(a)
    BY <2>2 DEF LoadConversation, ReadMeta, WriteMeta, Go, AgentPCs
  <2>3. CASE InitialChunk(a) \/ PersistProgress(a) \/ EndStream(a) \/ FinishChunk(a)
    BY <2>3 DEF InitialChunk, PersistProgress, EndStream, FinishChunk, Go, AgentPCs
  <2> QED
    BY <2>1, <2>2, <2>3 DEF AgentStep
<1>3. RunsMove(a)
  <2>1. CASE WriteMeta(a)
    <3> DEFINE row == [at[a].row EXCEPT !.status = at[a].want, !.trace = at[a].mem]
    <3>1. row.active = at[a].row.active
      BY <1>0, AwareTyped DEF RunRow
    <3>2. runs' = runs \/ runs' = [runs EXCEPT ![at[a].run] = row]
      BY <2>1 DEF WriteMeta
    <3> HIDE DEF row
    <3> QED
      BY <3>1, <3>2, RowsTyped DEF RunsMove
  <2>2. CASE StreamChunk(a)
    BY <1>0, <2>2, EmitMoves DEF StreamChunk
  <2>3. CASE InitialChunk(a) \/ FinishChunk(a)
    BY <1>0, <2>3, RunsKept, EmitMoves DEF InitialChunk, FinishChunk
  <2>4. CASE LoadConversation(a) \/ ReadMeta(a) \/ PersistProgress(a) \/ EndStream(a)
    BY <2>4, RunsKept DEF LoadConversation, ReadMeta, PersistProgress, EndStream, db
  <2> QED
    BY <2>1, <2>2, <2>3, <2>4 DEF AgentStep
<1> QED
  BY <1>0, <1>1, <1>2, <1>3, AgentReads, TurnsKept, ExecuteGoes

\* Cancelling the context of an execution moves no turn.
LEMMA CancelSteps ==
  ASSUME Typed, Typed', Claimed, Claimed', Backed, NEW a \in Actors,
         WatchForAbort(a) \/ ContextDone(a)
  PROVE  Backed' /\ Follows
<1> DEFINE l == [at[a] EXCEPT !.cancelled = TRUE]
<1>1. /\ pc[a] \in WatchedPCs /\ pc' = pc /\ UNCHANGED <<runs, turns, jobs, answer>>
      /\ at' = [at EXCEPT ![a] = l]
  BY DEF WatchForAbort, ContextDone, db
<1>2. l.req = at[a].req /\ l.row = at[a].row
  BY AwareTyped DEF Local
<1> HIDE DEF l
<1>3. WatchedPCs \subseteq ExecutePCs
  BY DEF WatchedPCs, ExecutePCs, FinishPCs
<1>4. Go(a, pc[a], pc[a])
  BY <1>1, RowsTyped DEF Go, LocalsTyped
<1> QED
  BY <1>1, <1>2, <1>3, <1>4, SetReads, TurnsKept, RunsKept, ExecuteGoes

\* The handler of an abort, until it aborts the active turn.
LEMMA AbortRunSteps ==
  ASSUME Typed, Typed', Claimed, Claimed', Backed, NEW a \in Aborters, AbortRunStep(a)
  PROVE  Backed' /\ Follows
<1>0. /\ a \in Actors /\ a \notin Clients \union Workers /\ a \notin Attached
      /\ {"abget", "abreq", "abcheck", "abdirect", "abgetturn", "abturn"} \intersect Resting = {}
      /\ "abgetturn" \in MadePCs
      /\ {"abget", "abreq", "abcheck", "abdirect"} \intersect MadePCs = {}
  BY Kinds DEF Resting, MadePCs, QueuePCs, ExecutePCs, StartPCs, AgentPCs, FinishPCs,
               AbortTurnPCs
<1>1. ASSUME NEW from \in AbortRunPCs, NEW to \in AbortRunPCs \union {"abturn"},
             Go(a, from, to), Reads(a), UNCHANGED <<turns, jobs, answer>>, RunsMove(a),
             to \in MadePCs => HasRow(at[a].req)
      PROVE  Backed' /\ Follows
  <2>1. from \notin Resting /\ to \notin Resting
    BY <1>0, <1>1 DEF AbortRunPCs
  <2> QED
    BY <1>0, <1>1, <2>1, TurnsKept, GoGoes
<1>2. ASSUME Return(a, "ran", "completed"), pc[a] \in AbortRunPCs, turns' = turns, RunsMove(a)
      PROVE  Backed' /\ Follows
  <2>1. pc[a] \notin Resting
    BY <1>0, <1>2 DEF AbortRunPCs
  <2> QED
    BY <1>0, <1>2, <2>1, ReturnSteps DEF Follows
<1>3. {"abget", "abreq", "abcheck", "abdirect", "abgetturn"} = AbortRunPCs
  BY DEF AbortRunPCs
<1>4. CASE CheckRun(a)
  <2>1. CASE Run(a).status \in Terminal
    BY <1>2, <1>3, <1>4, <2>1, RunsKept DEF CheckRun
  <2>2. CASE Run(a).status \notin Terminal
    <3>1. Go(a, "abget", "abreq") /\ at' = at /\ UNCHANGED <<runs, turns, jobs, answer>>
      BY <1>4, <2>2 DEF CheckRun, Go
    <3> QED
      BY <1>0, <1>1, <1>3, <3>1, ReadReads, RunsKept
  <2> QED
    BY <2>1, <2>2
<1>5. CASE RequestAbort(a)
  <2>1. /\ Go(a, "abreq", "abcheck") /\ at' = at /\ UNCHANGED <<turns, jobs, answer>>
        /\ runs' = [runs EXCEPT ![at[a].run].cancel = TRUE]
    BY <1>5 DEF RequestAbort
  <2>2. RunsMove(a)
    BY <2>1, RowsTyped DEF RunsMove, RunRow
  <2> QED
    BY <1>0, <1>1, <1>3, <2>1, <2>2, ReadReads
<1>6. CASE RecheckRun(a)
  <2>1. CASE Run(a).status # "queued"
    BY <1>2, <1>3, <1>6, <2>1, RunsKept DEF RecheckRun
  <2>2. CASE Run(a).status = "queued"
    <3>1. /\ pc[a] = "abcheck"
          /\ pc' = [pc EXCEPT ![a] = IF Run(a).active = None THEN "abdirect" ELSE "abgetturn"]
          /\ at' = [at EXCEPT ![a].row = Run(a), ![a].req = Run(a).active]
          /\ UNCHANGED <<runs, turns, jobs, answer>>
      BY <1>6, <2>2 DEF RecheckRun
    <3>2. at'[a].req = Run(a).active /\ at'[a].row = Run(a)
          /\ \A b \in Actors \ {a} : at'[b] = at[b] /\ pc'[b] = pc[b]
      BY <1>0, <3>1, RowsTyped DEF LocalsTyped, Local
    <3>3. pc'[a] = IF Run(a).active = None THEN "abdirect" ELSE "abgetturn"
      BY <1>0, <3>1, RowsTyped DEF LocalsTyped
    <3>4. Run(a).active # None => HasRow(Run(a).active)
      <4>1. at[a].run \in Runs /\ Run(a).active \in Requests \union {None}
        BY <1>0, AwareTyped DEF RunRow
      <4> QED
        BY <4>1 DEF Backed, ActiveHasRow, Run
    <3>5. pc'[a] \in MadePCs => HasRow(at'[a].req)
      BY <1>0, <3>2, <3>3, <3>4
    <3>6. Alone(a)
      <4>1. pc[a] # "dead" /\ pc'[a] # "dead"
        BY <3>1, <3>3
      <4> QED
        BY <3>2, <4>1 DEF Alone
    <3>7. Goes(a)
      BY <1>0, <3>1, <3>2, <3>5, <3>6, TurnsKept, RunsKept DEF Goes
    <3> QED
      BY <1>0, <3>7, GoesOn DEF Follows
  <2> QED
    BY <2>1, <2>2
<1>7. CASE AbortIdleRun(a)
  BY <1>0, <1>2, <1>3, <1>7, WriteMoves DEF AbortIdleRun
<1>8. CASE GetActiveTurn(a)
  <2> DEFINE l == [at[a] EXCEPT !.turn = turns[at[a].req]]
  <2>1. /\ Go(a, "abgetturn", "abturn") /\ at' = [at EXCEPT ![a] = l]
        /\ UNCHANGED <<runs, turns, jobs, answer>>
    BY <1>8 DEF GetActiveTurn, db
  <2>2. l.req = at[a].req /\ l.row = at[a].row
    BY <1>0, AwareTyped DEF Local
  <2>3. HasRow(at[a].req)
    BY <1>0, <2>1 DEF Go, Backed, WorkHasRow
  <2> HIDE DEF l
  <2> QED
    BY <1>0, <1>1, <1>3, <2>1, <2>2, <2>3, SetReads, RunsKept
<1> QED
  BY <1>4, <1>5, <1>6, <1>7, <1>8 DEF AbortRunStep

-----------------------------------------------------------------------------
(* The beginnings and the ends of operations.                              *)

\* An operation that begins without a turn row.
LEMMA BeginSteps ==
  ASSUME Typed, Typed', Claimed, Claimed', Backed, NEW a \in Actors,
         NEW first, NEW q \in Requests \union {None}, NEW r \in Runs, Begin(a, first, q, r),
         first \notin MadePCs, first # "dead", first \notin ExecutePCs,
         UNCHANGED <<runs, turns, jobs, answer>>,
         a \in Attached => answer[a][q] = "none"
  PROVE  Backed' /\ Follows
<1>1. /\ pc[a] = "idle" /\ pc'[a] = first /\ at'[a] = NewLocal(q, r)
      /\ \A b \in Actors \ {a} : pc'[b] = pc[b] /\ at'[b] = at[b]
  BY RowsTyped DEF Begin, Go, LocalsTyped
<1>2. NewLocal(q, r).req = q /\ NewLocal(q, r).row.active = None
  BY DEF NewLocal, NoRun
<1>3. "idle" \notin ExecutePCs
  BY Places DEF Resting
<1>4. Goes(a)
  BY <1>1, <1>2, <1>3, TurnsKept, RunsKept DEF Goes, Alone
<1> QED
  BY <1>4, GoesOn DEF Follows

\* A submission begins at rest.
LEMMA SubmitSteps ==
  ASSUME Typed, Typed', Claimed, Claimed', Backed, NEW c \in Clients, NEW q \in Requests,
         Submit(c, q)
  PROVE  Backed' /\ Follows
<1>1. c \in Actors /\ "load" \in PreparePCs /\ "load" \notin MadePCs /\ RunOf[q] \in Runs
  BY Kinds, PreparePlaces, RequestsAssumption DEF PreparePCs
<1>2. /\ Begin(c, "load", q, RunOf[q]) /\ UNCHANGED <<runs, turns, jobs, answer>>
      /\ c \in Attached => answer[c][q] = "none"
  BY DEF Submit, db
<1> QED
  BY <1>1, <1>2, PreparePlaces, BeginSteps

\* An abort begins at rest.
LEMMA AbortSteps ==
  ASSUME Typed, Typed', Claimed, Claimed', Backed, NEW a \in Aborters, NEW r \in Runs,
         AbortRun(a, r)
  PROVE  Backed' /\ Follows
<1>1. a \in Actors /\ a \notin Attached /\ "abget" \notin MadePCs /\ "abget" \notin ExecutePCs
  BY Kinds DEF MadePCs, QueuePCs, ExecutePCs, StartPCs, AgentPCs, FinishPCs, AbortTurnPCs
<1>2. Begin(a, "abget", None, r) /\ UNCHANGED <<runs, turns, jobs, answer>>
  BY DEF AbortRun, db
<1> QED
  BY <1>1, <1>2, BeginSteps

\* Fetching a job takes the turn.
LEMMA FetchSteps ==
  ASSUME Typed, Typed', Claimed, Claimed', Backed, NEW w \in Workers, NEW q \in Requests,
         Fetch(w, q)
  PROVE  Backed' /\ Follows
<1>1. /\ jobs[q] = "available" /\ jobs' = [jobs EXCEPT ![q] = "running"]
      /\ pc[w] = "idle" /\ pc' = [pc EXCEPT ![w] = "getturn"]
      /\ at' = [at EXCEPT ![w] = NewLocal(q, RunOf[q])]
      /\ UNCHANGED <<runs, turns, answer>>
  BY DEF Fetch, Begin, Go
<1>2. w \in Actors /\ w \notin Clients /\ w \notin Attached
  BY Kinds
<1>3. /\ pc'[w] = "getturn" /\ at'[w].req = q /\ at'[w].row.active = None /\ Alone(w)
  BY <1>1, <1>2, RowsTyped DEF LocalsTyped, Alone, NewLocal, NoRun
<1>4. /\ "getturn" \in ExecutePCs /\ "idle" \notin ExecutePCs /\ "idle" \in Resting
  BY PreparePlaces, Places DEF Resting
<1>5. HasRow(q) /\ \A p \in Requests : jobs'[p] = jobs[p] \/ p = q
  BY <1>1, RowsTyped DEF Backed, JobHasRow
<1>6. RowsAsBefore /\ RunsMove(w)
  BY <1>1, TurnsKept, RunsKept
<1>7. Backed' /\ \E e \in Clients \union Workers : Lifecycle!Take(q, e)
  BY <1>1, <1>2, <1>3, <1>4, <1>5, <1>6, TakeSteps
<1> QED
  BY <1>7 DEF Follows, Lifecycle!LifecycleNext

\* A client that gives up returns.
LEMMA GiveUpSteps ==
  ASSUME Typed, Typed', Claimed, Claimed', Backed, NEW a \in Actors, GiveUp(a)
  PROVE  Backed' /\ Follows
<1>1. pc[a] \notin Resting
  BY DEF GiveUp, PreparePCs, QueuePCs, StartPCs, AbortTurnPCs, AbortRunPCs, Resting
<1>2. a \in Workers => pc[a] \in ExecutePCs
  <2>1. May(a, pc[a])
    BY AwareTyped
  <2> QED
    BY <1>1, <2>1 DEF May, WorkerPCs, Resting
<1> QED
  BY <1>1, <1>2, RunsKept, ReturnSteps DEF GiveUp, Follows

\* Every statement of an actor is a step of TurnLifecycle or a stutter.
LEMMA StepFollows ==
  ASSUME Typed, Typed', Claimed, Claimed', Backed, NEW a \in Actors, Step(a)
  PROVE  Backed' /\ Follows
<1>1. CASE a \in Clients /\ (PrepareStep(a) \/ QueueStep(a))
  BY <1>1, PrepareSteps, QueueSteps
<1>2. CASE a \in Clients \union Workers /\ (ExecuteStep(a) \/ AgentStep(a))
  BY <1>2, ExecuteSteps, AgentSteps
<1>3. CASE WatchForAbort(a)
  BY <1>3, CancelSteps
<1>4. CASE AbortTurnStep(a)
  BY <1>4, AbortTurnSteps
<1>5. CASE a \in Aborters /\ AbortRunStep(a)
  BY <1>5, AbortRunSteps
<1> QED
  BY <1>1, <1>2, <1>3, <1>4, <1>5 DEF Step

\* Every step of the system is a step of TurnLifecycle or a stutter.
LEMMA NextFollows ==
  Typed /\ Typed' /\ Claimed /\ Claimed' /\ Backed /\ [Next]_vars => Backed' /\ Follows
<1> SUFFICES ASSUME Typed, Typed', Claimed, Claimed', Backed, [Next]_vars
             PROVE  Backed' /\ Follows
  OBVIOUS
<1>1. ASSUME NEW a \in Actors, Step(a) \/ GiveUp(a) \/ ContextDone(a)
      PROVE  Backed' /\ Follows
  BY <1>1, StepFollows, GiveUpSteps, CancelSteps
<1>2. ASSUME NEW c \in Clients, NEW q \in Requests, Submit(c, q) PROVE Backed' /\ Follows
  BY <1>2, SubmitSteps
<1>3. ASSUME NEW w \in Workers, NEW q \in Requests, Fetch(w, q) PROVE Backed' /\ Follows
  BY <1>3, FetchSteps
<1>4. ASSUME NEW a \in Aborters, NEW r \in Runs, AbortRun(a, r) PROVE Backed' /\ Follows
  BY <1>4, AbortSteps
<1>5. ASSUME NEW q \in Requests, Rescue(q) PROVE Backed' /\ Follows
  BY <1>5, RescueSteps DEF Follows
<1>6. CASE Crash
  BY <1>6, CrashSteps DEF Follows, Lifecycle!LifecycleNext
<1>7. CASE Restart \/ StartServer \/ MarkStaleAborted
  BY <1>7, RestartSteps, CleanSteps DEF Follows
<1>8. CASE UNCHANGED vars
  <2>1. Backed'
    BY <1>8 DEF vars, Backed, JobHasRow, WorkHasRow, ActiveHasRow, CopyHasRow, Unanswered,
                DeadTogether, HasRow
  <2>2. \A q \in Requests : SameView(q)
    BY <1>8 DEF vars, SameView, Executes, Returned, HasRow
  <2> QED
    BY <2>1, <2>2, ClaimedExclusive, StillExclusive, SameStage, NoneMoves DEF Follows
<1> QED
  BY <1>1, <1>2, <1>3, <1>4, <1>5, <1>6, <1>7, <1>8 DEF Next

\* The initial states are initial states of TurnLifecycle.
LEMMA InitBacked == Init => Backed /\ Lifecycle!LifecycleInit
<1> SUFFICES ASSUME Init PROVE Backed /\ Lifecycle!LifecycleInit
  OBVIOUS
<1>1. /\ \A a \in Actors : pc[a] = "idle" /\ at[a] = Blank
      /\ \A q \in Requests : jobs[q] = "none" /\ turns[q] = NoTurn
      /\ \A r \in Runs : runs[r] = NoRun
  BY DEF Init
<1>2. /\ "idle" \in Resting /\ "idle" \notin MadePCs /\ "idle" \notin ExecutePCs
      /\ NoRun.active = None /\ Blank.row.active = None /\ NoTurn.status = "absent"
      /\ None \notin Requests
  BY Places, RequestsAssumption DEF Resting, MadePCs, NoRun, Blank, NewLocal, NoTurn
<1>3. Backed
  BY <1>1, <1>2, ActorsAssumption, Kinds
     DEF Backed, JobHasRow, WorkHasRow, ActiveHasRow, CopyHasRow, Unanswered, DeadTogether
<1>4. \A q \in Requests : StageOf(q) = "new" /\ HolderOf(q) = None
  BY <1>1, <1>2, Kinds DEF StageOf, HolderOf, IsExecuted, Executes, Actors
<1> QED
  BY <1>3, <1>4 DEF Lifecycle!LifecycleInit

\* Behind the rows, the job and the places of the actors every message leads
\* the life that TurnLifecycle describes: one turn, one executor at a time,
\* and no second execution of a turn that was executed to its end.
THEOREM LivesOnce == Spec => ExecutedLikeLifecycle
<1> DEFINE Inv == Typed /\ Claimed /\ Backed
<1>1. Init => Inv /\ Lifecycle!LifecycleInit
  BY InitTyped, InitClaimed, InitBacked
<1>2. Inv /\ [Next]_vars => Inv'
  BY NextTyped, NextClaimed, NextFollows
<1>3. Inv /\ [Next]_vars => [Lifecycle!LifecycleNext]_(Lifecycle!lifecycle)
  BY NextTyped, NextClaimed, NextFollows DEF Follows
<1> QED
  BY <1>1, <1>2, <1>3, PTL DEF Spec, ExecutedLikeLifecycle, Lifecycle!LifecycleSpec
=============================================================================
