-------------------------- MODULE ConversationProofs --------------------------
(***************************************************************************)
(* What becomes of a turn and of its run, for any number of clients,       *)
(* workers, aborters, runs and requests:                                   *)
(*                                                                         *)
(*   AbortedForGood      a queued turn that is aborted stays aborted;      *)
(*   StartsOnce          without a crash a turn starts once;               *)
(*   HeldConversations   a conversation that one attached client holds     *)
(*                       keeps its transcript, its last event and its      *)
(*                       readiness for the next message;                   *)
(*   RunsAreTended       a run marked running has a worker that will end   *)
(*                       it, or a server that cleans up.                   *)
(*                                                                         *)
(* All of them need to know what a statement of an actor may touch: its    *)
(* own run, the log of that run and its own turn (Acts), because an actor  *)
(* at work is at the run of its request and no row names a turn of another *)
(* run (Placed).                                                           *)
(***************************************************************************)
EXTENDS AgentRunsProofs

-----------------------------------------------------------------------------
(* What a statement may touch.                                             *)

\* An actor at work on a request is at the run of this request, and a run
\* or a copy of it names a request of its own.
AtItsRun == \A a \in Actors : at[a].req \in Requests => RunOf[at[a].req] = at[a].run
ActiveBelongs == \A r \in Runs : runs[r].active \in Requests => RunOf[runs[r].active] = r
CopyBelongs ==
  \A a \in Actors : at[a].row.active \in Requests => RunOf[at[a].row.active] = at[a].run

Placed == AtItsRun /\ ActiveBelongs /\ CopyBelongs

\* Actor a goes on with its request, or takes one over, or returns.
GoesOnAt(a) ==
  \/ /\ at'[a].run = at[a].run
     /\ at'[a].req = at[a].req \/ (pc[a] = "abcheck" /\ at'[a].req = Run(a).active)
     /\ pc'[a] \notin Resting
  \/ pc'[a] = "idle" /\ at'[a] = Blank

\* A statement of a touches the rows of its run and of its request only.
TouchesOwn(a) ==
  /\ \A q \in Requests : q # at[a].req => turns'[q] = turns[q] /\ jobs'[q] = jobs[q]
  /\ \A r \in Runs : r # at[a].run => runs'[r] = runs[r] /\ events'[r] = events[r]
  /\ \A c \in Clients, q \in Requests :
       c # a \/ q # at[a].req => answer'[c][q] = answer[c][q]

Acts(a) ==
  /\ pc[a] \notin Resting
  /\ \A b \in Actors \ {a} : pc'[b] = pc[b] /\ at'[b] = at[b]
  /\ GoesOnAt(a)
  /\ TouchesOwn(a)
  /\ UNCHANGED environment

\* The active turns that a statement may leave in a run and in a copy.
Names(a) ==
  /\ runs'[at[a].run].active \in {Run(a).active, at[a].row.active, None}
     \/ (runs'[at[a].run].active = at[a].req /\ pc[a] \notin Unaware)
  /\ at'[a].row.active \in {at[a].row.active, Run(a).active, None}

\* A statement that names rows of its own run leaves every actor at its run.
LEMMA NamesPlaced ==
  ASSUME Typed, Placed, NEW a \in Actors, Acts(a), Names(a)
  PROVE  Placed'
<1>0. /\ at[a].run \in Runs /\ None \notin Requests
      /\ Blank.row.active = None /\ Blank.req = None
  BY AwareTyped, RequestsAssumption DEF Blank, NewLocal, NoRun
<1>1. /\ Run(a).active \in Requests => RunOf[Run(a).active] = at[a].run
      /\ at[a].row.active \in Requests => RunOf[at[a].row.active] = at[a].run
      /\ at[a].req \in Requests => RunOf[at[a].req] = at[a].run
  BY <1>0 DEF Placed, AtItsRun, ActiveBelongs, CopyBelongs, Run
<1>2. AtItsRun'
  <2> SUFFICES ASSUME NEW b \in Actors, at'[b].req \in Requests PROVE RunOf[at'[b].req] = at'[b].run
    BY DEF AtItsRun
  <2>1. CASE b # a
    BY <2>1 DEF Acts, Placed, AtItsRun
  <2>2. CASE b = a
    BY <1>0, <1>1, <2>2 DEF Acts, GoesOnAt
  <2> QED
    BY <2>1, <2>2
<1>3. ActiveBelongs'
  <2> SUFFICES ASSUME NEW r \in Runs, runs'[r].active \in Requests
               PROVE  RunOf[runs'[r].active] = r
    BY DEF ActiveBelongs
  <2>1. CASE r # at[a].run
    BY <2>1 DEF Acts, TouchesOwn, Placed, ActiveBelongs
  <2>2. CASE r = at[a].run
    BY <1>0, <1>1, <2>2 DEF Names
  <2> QED
    BY <2>1, <2>2
<1>4. CopyBelongs'
  <2> SUFFICES ASSUME NEW b \in Actors, at'[b].row.active \in Requests
               PROVE  RunOf[at'[b].row.active] = at'[b].run
    BY DEF CopyBelongs
  <2>1. CASE b # a
    BY <2>1 DEF Acts, Placed, CopyBelongs
  <2>2. CASE b = a
    BY <1>0, <1>1, <2>2 DEF Acts, GoesOnAt, Names
  <2> QED
    BY <2>1, <2>2
<1> QED
  BY <1>2, <1>3, <1>4 DEF Placed

\* The usual statement: a goes on with its request.
LEMMA Acting ==
  ASSUME Typed, NEW a \in Actors, pc[a] \notin Resting, NEW to, to \notin Resting,
         pc' = [pc EXCEPT ![a] = to],
         NEW l, at' = [at EXCEPT ![a] = l], l.req = at[a].req, l.run = at[a].run,
         TouchesOwn(a), UNCHANGED environment
  PROVE  Acts(a) /\ pc'[a] = to /\ at'[a] = l
BY RowsTyped DEF LocalsTyped, Acts, GoesOnAt

\* The last statement: a returns.
LEMMA Returning ==
  ASSUME Typed, NEW a \in Actors, pc[a] \notin Resting,
         NEW result, NEW outcome, Return(a, result, outcome),
         \A q \in Requests : q # at[a].req => turns'[q] = turns[q],
         \A r \in Runs : r # at[a].run => runs'[r] = runs[r] /\ events'[r] = events[r],
         UNCHANGED environment
  PROVE  Acts(a) /\ pc'[a] = "idle" /\ at'[a] = Blank
<1>1. /\ pc' = [pc EXCEPT ![a] = "idle"] /\ at' = [at EXCEPT ![a] = Blank]
      /\ answer' = IF a \in Clients THEN [answer EXCEPT ![a][at[a].req] = result] ELSE answer
      /\ jobs' = IF a \in Workers THEN [jobs EXCEPT ![at[a].req] = outcome] ELSE jobs
  BY DEF Return
<1>2. /\ \A b \in Actors \ {a} : pc'[b] = pc[b] /\ at'[b] = at[b]
      /\ pc'[a] = "idle" /\ at'[a] = Blank
  BY <1>1, RowsTyped DEF LocalsTyped
<1>3. \A q \in Requests : q # at[a].req => jobs'[q] = jobs[q]
  BY <1>1, RowsTyped
<1>4. \A c \in Clients, q \in Requests : c # a \/ q # at[a].req => answer'[c][q] = answer[c][q]
  BY <1>1, RowsTyped
<1> QED
  BY <1>2, <1>3, <1>4 DEF Acts, GoesOnAt, TouchesOwn

\* The rows that the writes of the code touch.
LEMMA WriteRunTouches ==
  ASSUME Typed, NEW a \in Actors, NEW s, NEW x, WriteRun(a, s, x)
  PROVE  /\ \A r \in Runs : r # at[a].run => runs'[r] = runs[r]
         /\ runs'[at[a].run].active = x /\ runs'[at[a].run].status = s
         /\ runs'[at[a].run].last = at[a].row.last /\ runs'[at[a].run].trace = at[a].row.trace
<1> DEFINE row == [at[a].row EXCEPT !.status = s, !.active = x, !.cancel = FALSE]
<1>1. /\ row.active = x /\ row.status = s /\ row.last = at[a].row.last
      /\ row.trace = at[a].row.trace
  BY AwareTyped DEF RunRow
<1>2. runs' = [runs EXCEPT ![at[a].run] = row] /\ at[a].run \in Runs
  BY AwareTyped DEF WriteRun
<1> HIDE DEF row
<1> QED
  BY <1>1, <1>2, RowsTyped

\* UpdateAgentRunTurn writes one turn and keeps the job id of the copy.
LEMMA WriteTurnTouches ==
  ASSUME Typed, NEW a \in Actors, NEW s, WriteTurn(a, s)
  PROVE  /\ \A q \in Requests : q # at[a].req => turns'[q] = turns[q]
         /\ at[a].req \in Requests =>
              turns'[at[a].req].status = s /\ turns'[at[a].req].job = at[a].turn.job
BY RowsTyped DEF WriteTurn

\* An event is appended to the log of the actor's run, and moves its last_event_id.
LEMMA EmitTouches ==
  ASSUME Typed, Placed, NEW a \in Actors, pc[a] \notin Unaware, NEW kind, Emit(a, kind)
  PROVE  /\ \A r \in Runs : r # at[a].run => runs'[r] = runs[r] /\ events'[r] = events[r]
         /\ runs'[at[a].run] = [Run(a) EXCEPT !.last = Len(events[at[a].run]) + 1]
         /\ events'[at[a].run] = Append(events[at[a].run], [req |-> at[a].req, kind |-> kind])
         /\ runs'[at[a].run].active = Run(a).active
         /\ runs'[at[a].run].status = Run(a).status
         /\ runs'[at[a].run].trace = Run(a).trace
         /\ runs'[at[a].run].last = Len(events'[at[a].run])
<1>1. RunOf[at[a].req] = at[a].run /\ at[a].run \in Runs
  BY AwareTyped DEF Placed, AtItsRun
<1> DEFINE r == at[a].run
           row == [runs[r] EXCEPT !.last = Len(events[r]) + 1]
           e == [req |-> at[a].req, kind |-> kind]
<1>2. events' = [events EXCEPT ![r] = Append(events[r], e)] /\ runs' = [runs EXCEPT ![r] = row]
  BY <1>1 DEF Emit
<1>3. /\ row.active = runs[r].active /\ row.status = runs[r].status
      /\ row.trace = runs[r].trace /\ row.last = Len(events[r]) + 1
  BY <1>1, RowsTyped DEF RunRow
<1>4. Len(Append(events[r], e)) = Len(events[r]) + 1
  <2>1. events[r] \in Seq(EventRow)
    BY <1>1, RowsTyped
  <2> HIDE DEF e, r
  <2> QED
    BY <2>1
<1>5. /\ \A s \in Runs : s # r => runs'[s] = runs[s] /\ events'[s] = events[s]
      /\ runs'[r] = row /\ events'[r] = Append(events[r], e)
  <2> HIDE DEF row, e
  <2> QED
    BY <1>1, <1>2, RowsTyped DEF r
<1>6. Run(a) = runs[r]
  BY DEF Run
<1> HIDE DEF row, e, r
<1>7. /\ runs'[r].active = runs[r].active /\ runs'[r].status = runs[r].status
      /\ runs'[r].trace = runs[r].trace /\ runs'[r].last = Len(events'[r])
  BY <1>3, <1>4, <1>5
<1> QED
  BY <1>5, <1>6, <1>7 DEF row, e, r

-----------------------------------------------------------------------------
(* Every statement touches what is its own.                                *)

\* Nothing but the place and the local variables of a changes.
LEMMA TouchesNone ==
  ASSUME NEW a, UNCHANGED <<db, answer>> PROVE TouchesOwn(a)
BY DEF db, TouchesOwn

\* The places of an operation at work.
LEMMA AtWorkPlaces ==
  /\ \A p \in PreparePCs \union QueuePCs \union ExecutePCs : p \notin Resting /\ p \notin Unaware
  /\ \A p \in AbortRunPCs : p \notin Resting
  /\ "abgetturn" \notin Unaware
  /\ Unaware = Resting \union {"abget", "abreq", "abcheck", "abdirect"}
BY Places DEF AbortRunPCs, Resting, Unaware

\* A statement that keeps the copy of the row, or reads it again.
LEMMA ReadNames ==
  ASSUME Typed, NEW a \in Actors, runs' = runs, at' = at \/ ReadRun(a)
  PROVE  Names(a) /\ \E l : at' = [at EXCEPT ![a] = l] /\ l.req = at[a].req /\ l.run = at[a].run
<1>1. CASE at' = at
  <2>1. at' = [at EXCEPT ![a] = at[a]]
    BY <1>1, RowsTyped DEF LocalsTyped
  <2> QED
    BY <1>1, <2>1 DEF Names, Run
<1>2. CASE ReadRun(a)
  <2> DEFINE l == [at[a] EXCEPT !.row = Run(a)]
  <2>1. l.req = at[a].req /\ l.run = at[a].run /\ l.row = Run(a)
    BY AwareTyped DEF Local
  <2>2. at' = [at EXCEPT ![a] = l]
    BY <1>2 DEF ReadRun
  <2> HIDE DEF l
  <2>3. at'[a] = l
    BY <2>2, RowsTyped DEF LocalsTyped
  <2> QED
    BY <2>1, <2>2, <2>3 DEF Names, Run
<1> QED
  BY <1>1, <1>2

\* A statement that reads, or one that touches other tables only.
LEMMA ReadActs ==
  ASSUME Typed, Placed, NEW a \in Actors, NEW from, NEW to, Go(a, from, to),
         from \notin Resting, to \notin Resting,
         at' = at \/ ReadRun(a), runs' = runs, TouchesOwn(a), UNCHANGED environment
  PROVE  Acts(a) /\ Placed'
<1>1. PICK l : at' = [at EXCEPT ![a] = l] /\ l.req = at[a].req /\ l.run = at[a].run
  BY ReadNames
<1>2. Acts(a) /\ pc'[a] = to /\ at'[a] = l
  BY <1>1, Acting DEF Go
<1> QED
  BY <1>1, <1>2, ReadNames, NamesPlaced DEF Go

\* A statement that changes another local variable.
LEMMA SetActs ==
  ASSUME Typed, Placed, NEW a \in Actors, NEW to, pc' = [pc EXCEPT ![a] = to],
         pc[a] \notin Resting, to \notin Resting,
         NEW l, at' = [at EXCEPT ![a] = l],
         l.req = at[a].req, l.run = at[a].run, l.row = at[a].row,
         runs'[at[a].run].active \in {Run(a).active, at[a].row.active, None},
         TouchesOwn(a), UNCHANGED environment
  PROVE  Acts(a) /\ Placed'
<1>1. Acts(a) /\ pc'[a] = to /\ at'[a] = l
  BY Acting
<1>2. Names(a)
  BY <1>1 DEF Names
<1> QED
  BY <1>1, <1>2, NamesPlaced

\* A statement that writes the row of the run, or its log.
LEMMA WriteActs ==
  ASSUME Typed, Placed, NEW a \in Actors, NEW from, NEW to, Go(a, from, to), at' = at,
         from \notin Resting, to \notin Resting,
         \/ runs'[at[a].run].active \in {Run(a).active, at[a].row.active, None}
         \/ runs'[at[a].run].active = at[a].req /\ from \notin Unaware,
         TouchesOwn(a), UNCHANGED environment
  PROVE  Acts(a) /\ Placed'
<1>1. at' = [at EXCEPT ![a] = at[a]]
  BY RowsTyped DEF LocalsTyped
<1>2. Acts(a) /\ pc'[a] = to /\ at'[a] = at[a]
  BY <1>1, Acting DEF Go
<1>3. Names(a)
  BY <1>2 DEF Names, Go
<1> QED
  BY <1>2, <1>3, NamesPlaced DEF Go

\* The last statement of an operation.
LEMMA ReturnActs ==
  ASSUME Typed, Placed, NEW a \in Actors, pc[a] \notin Resting,
         NEW result, NEW outcome, Return(a, result, outcome),
         \A q \in Requests : q # at[a].req => turns'[q] = turns[q],
         \A r \in Runs : r # at[a].run => runs'[r] = runs[r] /\ events'[r] = events[r],
         runs'[at[a].run].active \in {Run(a).active, None},
         UNCHANGED environment
  PROVE  Acts(a) /\ Placed'
<1>1. Acts(a) /\ pc'[a] = "idle" /\ at'[a] = Blank
  BY Returning
<1>2. Names(a)
  BY <1>1 DEF Names, Blank, NewLocal, NoRun
<1> QED
  BY <1>1, <1>2, NamesPlaced DEF Unaware

\* The last statement of an operation that touches no row.
LEMMA ReturnOnlyActs ==
  ASSUME Typed, Placed, NEW a \in Actors, pc[a] \notin Resting,
         NEW result, NEW outcome, Return(a, result, outcome),
         UNCHANGED <<runs, turns, events, environment>>
  PROVE  Acts(a) /\ Placed'
BY ReturnActs DEF Run

\* The statements of prepareRun (load, create, insert) touch what is their own.
LEMMA PrepareActs ==
  ASSUME Typed, Placed, NEW c \in Clients, PrepareStep(c)
  PROVE  Acts(c) /\ Placed'
<1>0. /\ c \in Actors /\ at[c].run \in Runs /\ at[c] \in Local
      /\ pc[c] \in PreparePCs => pc[c] \notin Resting /\ pc[c] \notin Unaware
      /\ \A p \in PreparePCs \union {"getturn", "enqueue"} : p \notin Resting /\ p \notin Unaware
  BY Kinds, AwareTyped, AtWorkPlaces DEF ExecutePCs, StartPCs, QueuePCs
<1>1. CASE LoadRun(c) \/ NoTurnYet(c) \/ ReloadRun(c) \/ Prepared(c)
  <2>1. PICK from \in PreparePCs, to \in PreparePCs \union {"getturn", "enqueue"} :
          Go(c, from, to) /\ (at' = at \/ ReadRun(c))
          /\ UNCHANGED <<db, answer, environment>>
    BY <1>1 DEF LoadRun, NoTurnYet, ReloadRun, Prepared, PreparePCs
  <2>2. TouchesOwn(c) /\ runs' = runs
    BY <2>1, TouchesNone DEF db
  <2> QED
    BY <1>0, <2>1, <2>2, ReadActs
<1>2. CASE FoundTurn(c)
  <2>1. CASE turns[at[c].req].job
    BY <1>0, <1>2, <2>1, ReturnOnlyActs DEF FoundTurn, PreparePCs
  <2>2. CASE ~turns[at[c].req].job
    <3> DEFINE l == [at[c] EXCEPT !.turn = turns[at[c].req], !.known = TRUE]
    <3>1. l.req = at[c].req /\ l.run = at[c].run /\ l.row = at[c].row
      BY <1>0 DEF Local
    <3>2. PICK to \in {"getturn", "enqueue"} : pc' = [pc EXCEPT ![c] = to]
      BY <1>2, <2>2 DEF FoundTurn
    <3>3. /\ pc[c] = "lookup" /\ at' = [at EXCEPT ![c] = l]
          /\ UNCHANGED <<db, answer, environment>>
      BY <1>2, <2>2 DEF FoundTurn, db
    <3> HIDE DEF l
    <3>4. TouchesOwn(c) /\ runs' = runs
      BY <3>3, TouchesNone DEF db
    <3> QED
      BY <1>0, <3>1, <3>2, <3>3, <3>4, SetActs DEF PreparePCs, Run
  <2> QED
    BY <2>1, <2>2
<1>3. CASE RefuseBusy(c)
  BY <1>0, <1>3, ReturnOnlyActs DEF RefuseBusy, PreparePCs
<1>4. CASE CreateRun(c)
  <2>1. CASE /\ Go(c, "create", "reload")
             /\ runs' = [runs EXCEPT ![at[c].run] = [NoRun EXCEPT !.status = ModeStatus(c)]]
             /\ UNCHANGED <<turns, events, jobs, at, answer, environment>>
    <3>1. [NoRun EXCEPT !.status = ModeStatus(c)].active = None
      BY DEF NoRun
    <3>2. /\ runs'[at[c].run].active = None
          /\ \A r \in Runs : r # at[c].run => runs'[r] = runs[r]
      BY <1>0, <2>1, <3>1, RowsTyped
    <3>3. TouchesOwn(c)
      BY <2>1, <3>2 DEF TouchesOwn
    <3> QED
      BY <1>0, <2>1, <3>2, <3>3, WriteActs DEF PreparePCs
  <2>2. CASE /\ pc[c] = "create" /\ Return(c, "error", "none")
             /\ UNCHANGED <<runs, turns, events, environment>>
    BY <1>0, <2>2, ReturnOnlyActs DEF PreparePCs
  <2> QED
    BY <1>4, <2>1, <2>2 DEF CreateRun
<1>5. CASE CreateTurn(c)
  <2> DEFINE row == [status |-> ModeStatus(c), job |-> FALSE]
             l == [at[c] EXCEPT !.turn = row]
  <2>1. CASE /\ Go(c, "insert", "activate") /\ turns' = [turns EXCEPT ![at[c].req] = row]
             /\ at' = [at EXCEPT ![c] = l]
             /\ UNCHANGED <<runs, events, jobs, answer, environment>>
    <3>1. l.req = at[c].req /\ l.run = at[c].run /\ l.row = at[c].row
      BY <1>0 DEF Local
    <3> HIDE DEF l, row
    <3>2. TouchesOwn(c) /\ runs' = runs
      BY <2>1, RowsTyped DEF TouchesOwn
    <3> QED
      BY <1>0, <2>1, <3>1, <3>2, SetActs DEF PreparePCs, Run, Go
  <2>2. CASE /\ pc[c] = "insert" /\ Return(c, "error", "none")
             /\ UNCHANGED <<runs, turns, events, environment>>
    BY <1>0, <2>2, ReturnOnlyActs DEF PreparePCs
  <2> QED
    BY <1>5, <2>1, <2>2 DEF CreateTurn
<1>6. CASE ActivateTurn(c)
  <2>1. /\ Go(c, "activate", "prepared") /\ WriteRun(c, ModeStatus(c), at[c].req)
        /\ UNCHANGED <<turns, events, jobs, at, answer, environment>>
    BY <1>6 DEF ActivateTurn
  <2>2. TouchesOwn(c)
    BY <1>0, <2>1, WriteRunTouches DEF TouchesOwn
  <2> QED
    BY <1>0, <2>1, <2>2, WriteRunTouches, WriteActs DEF PreparePCs
<1> QED
  BY <1>1, <1>2, <1>3, <1>4, <1>5, <1>6 DEF PrepareStep

\* So do those that queue the client's turn.
LEMMA QueueActs ==
  ASSUME Typed, Placed, NEW c \in Clients, QueueStep(c)
  PROVE  Acts(c) /\ Placed'
<1>0. /\ c \in Actors /\ at[c].run \in Runs /\ at[c] \in Local
      /\ \A p \in QueuePCs : p \notin Resting /\ p \notin Unaware
  BY Kinds, AwareTyped, AtWorkPlaces
<1>1. CASE EnqueueAgentRun(c)
  <2> DEFINE l(b) == [at[c] EXCEPT !.skipped = b]
  <2>1. \A b : l(b).req = at[c].req /\ l(b).run = at[c].run /\ l(b).row = at[c].row
    BY <1>0 DEF Local
  <2>2. PICK b : at' = [at EXCEPT ![c] = l(b)]
    BY <1>1 DEF EnqueueAgentRun
  <2>3. /\ Go(c, "enqueue", "markturn") /\ UNCHANGED <<runs, turns, events, answer, environment>>
        /\ jobs' = jobs \/ jobs' = [jobs EXCEPT ![at[c].req] = "available"]
    BY <1>1 DEF EnqueueAgentRun
  <2> HIDE DEF l
  <2>4. TouchesOwn(c)
    BY <2>3, RowsTyped DEF TouchesOwn
  <2> QED
    BY <1>0, <2>1, <2>2, <2>3, <2>4, SetActs DEF QueuePCs, Run, Go
<1>2. CASE MarkTurn(c)
  <2>1. TouchesOwn(c)
    BY <1>2, RowsTyped DEF MarkTurn, TouchesOwn
  <2> QED
    BY <1>0, <1>2, <2>1, ReadActs DEF MarkTurn, QueuePCs
<1>3. CASE MarkRun(c)
  <2>1. /\ Go(c, "markrun", "emitqueued") /\ WriteRun(c, "queued", at[c].req)
        /\ UNCHANGED <<turns, events, jobs, at, answer, environment>>
    BY <1>3 DEF MarkRun
  <2>2. TouchesOwn(c)
    BY <1>0, <2>1, WriteRunTouches DEF TouchesOwn
  <2> QED
    BY <1>0, <2>1, <2>2, WriteRunTouches, WriteActs DEF QueuePCs
<1>4. CASE EmitQueued(c)
  <2>1. pc[c] = "emitqueued" /\ pc[c] \notin Unaware /\ pc[c] \notin Resting
    BY <1>0, <1>4 DEF EmitQueued, QueuePCs
  <2> QED
    BY <1>0, <1>4, <2>1, EmitTouches, ReturnActs DEF EmitQueued
<1> QED
  BY <1>1, <1>2, <1>3, <1>4 DEF QueueStep

\* So do those of ExecuteTurn and its finalizers.
LEMMA ExecuteActs ==
  ASSUME Typed, Placed, NEW a \in Clients \union Workers, ExecuteStep(a)
  PROVE  Acts(a) /\ Placed'
<1>0. /\ a \in Actors /\ at[a].run \in Runs /\ at[a] \in Local
      /\ \A p \in ExecutePCs : p \notin Resting /\ p \notin Unaware
      /\ StartPCs \union FinishPCs \union {"exec", "abturn"} \subseteq ExecutePCs
  BY Kinds, AwareTyped, AtWorkPlaces DEF ExecutePCs, AgentPCs, AbortTurnPCs
<1>1. CASE GetTurn(a)
  <2> DEFINE l == [at[a] EXCEPT !.turn = turns[at[a].req]]
  <2>1. /\ Go(a, "getturn", "getrun") /\ at' = [at EXCEPT ![a] = l]
        /\ UNCHANGED <<db, answer, environment>>
    BY <1>1 DEF GetTurn
  <2>2. l.req = at[a].req /\ l.run = at[a].run /\ l.row = at[a].row
    BY <1>0 DEF Local
  <2> HIDE DEF l
  <2>3. TouchesOwn(a) /\ runs' = runs
    BY <2>1, TouchesNone DEF db
  <2> QED
    BY <1>0, <2>1, <2>2, <2>3, SetActs DEF StartPCs, Run, Go
<1>2. CASE GetRun(a)
  <2>1. CASE at[a].turn.status \in {"completed", "aborted"}
    BY <1>0, <1>2, <2>1, ReturnOnlyActs DEF GetRun, StartPCs
  <2>2. CASE at[a].turn.status \notin {"completed", "aborted"}
    <3>1. PICK to \in {"abturn", "setturn"} :
            Go(a, "getrun", to) /\ ReadRun(a) /\ UNCHANGED <<db, answer, environment>>
      BY <1>2, <2>2 DEF GetRun, Go, db
    <3>2. TouchesOwn(a) /\ runs' = runs
      BY <3>1, TouchesNone DEF db
    <3> QED
      BY <1>0, <3>1, <3>2, ReadActs DEF StartPCs
  <2> QED
    BY <2>1, <2>2
<1>3. CASE SetTurn(a)
  <2>1. TouchesOwn(a)
    BY <1>0, <1>3, WriteTurnTouches DEF SetTurn, TouchesOwn
  <2> QED
    BY <1>0, <1>3, <2>1, ReadActs DEF SetTurn, StartPCs
<1>4. CASE SetRun(a)
  <2>1. /\ Go(a, "setrun", "started") /\ WriteRun(a, "running", at[a].req)
        /\ UNCHANGED <<turns, events, jobs, at, answer, environment>>
    BY <1>4 DEF SetRun
  <2>2. TouchesOwn(a)
    BY <1>0, <2>1, WriteRunTouches DEF TouchesOwn
  <2> QED
    BY <1>0, <2>1, <2>2, WriteRunTouches, WriteActs DEF StartPCs
<1>5. CASE EmitStarted(a)
  <2>1. /\ Go(a, "started", "exec") /\ Emit(a, "started") /\ pc[a] \notin Unaware
        /\ UNCHANGED <<turns, jobs, at, answer, environment>>
    BY <1>0, <1>5 DEF EmitStarted, Go, StartPCs
  <2>2. TouchesOwn(a)
    BY <1>0, <2>1, EmitTouches DEF TouchesOwn
  <2> QED
    BY <1>0, <2>1, <2>2, EmitTouches, WriteActs DEF StartPCs
<1>6. CASE GetFinished(a)
  <2>1. PICK to \in {"finalrun", "finalturn"} :
          Go(a, "execdone", to) /\ ReadRun(a) /\ UNCHANGED <<db, answer, environment>>
    BY <1>6 DEF GetFinished
  <2>2. TouchesOwn(a) /\ runs' = runs
    BY <2>1, TouchesNone DEF db
  <2> QED
    BY <1>0, <2>1, <2>2, ReadActs DEF FinishPCs
<1>7. CASE FinalizeRun(a)
  <2>1. PICK s : WriteRun(a, s, None)
    BY <1>7 DEF FinalizeRun
  <2>2. TouchesOwn(a)
    BY <1>0, <1>7, <2>1, WriteRunTouches DEF FinalizeRun, TouchesOwn
  <2> QED
    BY <1>0, <1>7, <2>1, <2>2, WriteRunTouches, WriteActs DEF FinalizeRun, FinishPCs
<1>8. CASE ReloadFinal(a)
  <2>1. TouchesOwn(a) /\ runs' = runs
    BY <1>8, TouchesNone DEF ReloadFinal, db
  <2> QED
    BY <1>0, <1>8, <2>1, ReadActs DEF ReloadFinal, FinishPCs
<1>9. CASE FinalizeTurn(a)
  <2>1. TouchesOwn(a)
    BY <1>0, <1>9, WriteTurnTouches DEF FinalizeTurn, TouchesOwn
  <2> QED
    BY <1>0, <1>9, <2>1, ReadActs DEF FinalizeTurn, FinishPCs
<1>10. CASE FinalizeRow(a)
  <2>1. WriteRun(a, at[a].row.status, None)
    BY <1>10 DEF FinalizeRow
  <2>2. TouchesOwn(a)
    BY <1>0, <1>10, <2>1, WriteRunTouches DEF FinalizeRow, TouchesOwn
  <2> QED
    BY <1>0, <1>10, <2>1, <2>2, WriteRunTouches, WriteActs DEF FinalizeRow, FinishPCs
<1>11. CASE EmitStatus(a)
  <2>1. pc[a] = "emitstatus" /\ pc[a] \notin Unaware /\ pc[a] \notin Resting
    BY <1>0, <1>11 DEF EmitStatus, FinishPCs
  <2> QED
    BY <1>0, <1>11, <2>1, EmitTouches, ReturnActs DEF EmitStatus
<1> QED
  BY <1>1, <1>2, <1>3, <1>4, <1>5, <1>6, <1>7, <1>8, <1>9, <1>10, <1>11 DEF ExecuteStep

\* So do those that abort one turn.
LEMMA AbortTurnActs ==
  ASSUME Typed, Placed, NEW a \in Actors, AbortTurnStep(a)
  PROVE  Acts(a) /\ Placed'
<1>0. /\ at[a].run \in Runs
      /\ \A p \in AbortTurnPCs : p \notin Resting /\ p \notin Unaware
  BY AwareTyped, AtWorkPlaces DEF ExecutePCs
<1>1. CASE AbortTurn(a)
  <2>1. TouchesOwn(a)
    BY <1>0, <1>1, WriteTurnTouches DEF AbortTurn, TouchesOwn
  <2> QED
    BY <1>0, <1>1, <2>1, ReadActs DEF AbortTurn, AbortTurnPCs
<1>2. CASE AbortRow(a)
  <2>1. TouchesOwn(a)
    BY <1>0, <1>2, WriteRunTouches DEF AbortRow, TouchesOwn
  <2> QED
    BY <1>0, <1>2, <2>1, WriteRunTouches, WriteActs DEF AbortRow, AbortTurnPCs
<1>3. CASE EmitAborted(a)
  <2>1. pc[a] = "abemit" /\ pc[a] \notin Unaware /\ pc[a] \notin Resting
    BY <1>0, <1>3 DEF EmitAborted, AbortTurnPCs
  <2> QED
    BY <1>0, <1>3, <2>1, EmitTouches, ReturnActs DEF EmitAborted
<1> QED
  BY <1>1, <1>2, <1>3 DEF AbortTurnStep

\* So do the cancellations of an executor's context.
LEMMA CancelActs ==
  ASSUME Typed, Placed, NEW a \in Actors, WatchForAbort(a) \/ ContextDone(a)
  PROVE  Acts(a) /\ Placed'
<1> DEFINE l == [at[a] EXCEPT !.cancelled = TRUE]
<1>1. /\ pc[a] \in WatchedPCs /\ pc' = pc /\ at' = [at EXCEPT ![a] = l]
      /\ UNCHANGED <<db, answer, environment>>
  BY DEF WatchForAbort, ContextDone
<1>2. l.req = at[a].req /\ l.run = at[a].run /\ l.row = at[a].row
  BY AwareTyped DEF Local
<1> HIDE DEF l
<1>3. pc[a] \notin Resting /\ pc[a] \notin Unaware
  BY <1>1, AtWorkPlaces DEF WatchedPCs, ExecutePCs, FinishPCs
<1>4. pc' = [pc EXCEPT ![a] = pc[a]] /\ TouchesOwn(a) /\ runs' = runs
  BY <1>1, TouchesNone, RowsTyped DEF LocalsTyped, db
<1> QED
  BY <1>1, <1>2, <1>3, <1>4, SetActs DEF Run

\* So do the agent loop's: the messages it saves and the ends it has.
LEMMA AgentActs ==
  ASSUME Typed, Placed, NEW a \in Clients \union Workers, AgentStep(a)
  PROVE  Acts(a) /\ Placed'
<1>0. /\ a \in Actors /\ at[a].run \in Runs /\ at[a] \in Local /\ at[a].cancelled \in BOOLEAN
      /\ \A p \in AgentPCs \union {"execdone"} : p \notin Resting /\ p \notin Unaware
  BY Kinds, AwareTyped, LocalFields, AtWorkPlaces DEF ExecutePCs, FinishPCs
<1>1. CASE LoadConversation(a)
  <2> DEFINE l(m, e) == [at[a] EXCEPT !.mem = m, !.err = e]
  <2>1. \A m, e : l(m, e).req = at[a].req /\ l(m, e).run = at[a].run /\ l(m, e).row = at[a].row
    BY <1>0 DEF Local
  <2>2. PICK to \in AgentPCs \union {"execdone"} : Go(a, "exec", to)
    BY <1>1 DEF LoadConversation, Go, AgentPCs
  <2>3. \E m, e : at' = [at EXCEPT ![a] = l(m, e)]
    <3>1. PICK ok \in {TRUE, FALSE} :
            at' = [at EXCEPT ![a].mem = IF ok THEN Run(a).trace \union {at[a].req} ELSE @,
                             ![a].err = ~ok]
      BY <1>1 DEF LoadConversation
    <3>2. at' = [at EXCEPT ![a] =
                   l(IF ok THEN Run(a).trace \union {at[a].req} ELSE at[a].mem, ~ok)]
      BY <1>0, <3>1, RowsTyped DEF LocalsTyped, Local
    <3> HIDE DEF l
    <3> QED
      BY <3>2
  <2> HIDE DEF l
  <2>4. TouchesOwn(a) /\ runs' = runs /\ UNCHANGED environment
    BY <1>1, TouchesNone DEF LoadConversation, db
  <2> QED
    BY ZenonT(60), <1>0, <2>1, <2>2, <2>3, <2>4, SetActs DEF AgentPCs, Run, Go
<1>2. CASE ReadMeta(a)
  <2>1. TouchesOwn(a) /\ runs' = runs
    BY <1>2, TouchesNone DEF ReadMeta, db
  <2> QED
    BY <1>0, <1>2, <2>1, ReadActs DEF ReadMeta, AgentPCs
<1>3. CASE WriteMeta(a)
  <2> DEFINE l == [at[a] EXCEPT !.err = TRUE]
             row == [at[a].row EXCEPT !.status = at[a].want, !.trace = at[a].mem]
  <2>0. /\ l.req = at[a].req /\ l.run = at[a].run /\ l.row = at[a].row
        /\ row.active = at[a].row.active
    BY <1>0, AwareTyped DEF Local, RunRow
  <2>1. CASE /\ pc[a] = "writemeta" /\ pc' = [pc EXCEPT ![a] = "execdone"]
             /\ at' = [at EXCEPT ![a] = l] /\ runs' = runs
             /\ UNCHANGED <<turns, events, jobs, answer, environment>>
    <3> HIDE DEF l
    <3>1. TouchesOwn(a)
      BY <2>1, TouchesNone DEF db
    <3> QED
      BY <1>0, <2>0, <2>1, <3>1, SetActs DEF AgentPCs, Run
  <2>2. CASE /\ pc[a] = "writemeta" /\ at' = at
             /\ \E to \in {"initial", "stream", "finish"} : pc' = [pc EXCEPT ![a] = to]
             /\ runs' = [runs EXCEPT ![at[a].run] = row]
             /\ UNCHANGED <<turns, events, jobs, answer, environment>>
    <3> HIDE DEF row
    <3>1. /\ \A r \in Runs : r # at[a].run => runs'[r] = runs[r]
          /\ runs'[at[a].run].active = at[a].row.active
      BY <1>0, <2>0, <2>2, RowsTyped
    <3>2. TouchesOwn(a)
      BY <2>2, <3>1 DEF TouchesOwn
    <3>3. PICK to \in {"initial", "stream", "finish"} : Go(a, "writemeta", to)
      BY <2>2 DEF Go
    <3> QED
      BY <1>0, <2>2, <3>1, <3>2, <3>3, WriteActs DEF AgentPCs
  <2>3. (\/ /\ pc[a] = "writemeta" /\ pc' = [pc EXCEPT ![a] = "execdone"]
            /\ at' = [at EXCEPT ![a] = l] /\ runs' = runs
         \/ /\ pc[a] = "writemeta" /\ at' = at
            /\ \E to \in {"initial", "stream", "finish"} : pc' = [pc EXCEPT ![a] = to]
            /\ runs' = [runs EXCEPT ![at[a].run] = row])
        /\ UNCHANGED <<turns, events, jobs, answer, environment>>
    BY <1>3 DEF WriteMeta
  <2> QED
    BY <2>1, <2>2, <2>3
<1>4. CASE InitialChunk(a) \/ FinishChunk(a)
  <2> DEFINE l(e) == [at[a] EXCEPT !.err = e]
  <2>1. \A e : l(e).req = at[a].req /\ l(e).run = at[a].run /\ l(e).row = at[a].row
    BY <1>0 DEF Local
  <2>2. \E from \in AgentPCs, to \in AgentPCs \union {"execdone"} : Go(a, from, to)
    BY <1>4 DEF InitialChunk, FinishChunk, AgentPCs
  <2>3. /\ \E e : at' = [at EXCEPT ![a] = l(e)]
        /\ Emit(a, "trace_chunk") \/ UNCHANGED <<runs, events>>
        /\ UNCHANGED <<turns, jobs, answer, environment>>
    BY <1>4 DEF InitialChunk, FinishChunk
  <2> HIDE DEF l
  <2>4. pc[a] \notin Unaware /\ pc[a] \notin Resting
    BY <1>0, <2>2 DEF Go
  <2>5. TouchesOwn(a) /\ runs'[at[a].run].active = Run(a).active
    BY <1>0, <2>3, <2>4, EmitTouches DEF TouchesOwn, Run
  <2> QED
    BY <1>0, <2>1, <2>2, <2>3, <2>4, <2>5, SetActs DEF Go
<1>5. CASE StreamChunk(a) \/ PersistProgress(a)
  <2> DEFINE l == [at[a] EXCEPT !.left = @ - 1]
  <2>1. l.req = at[a].req /\ l.run = at[a].run /\ l.row = at[a].row
    BY <1>0 DEF Local
  <2>2. \E to \in AgentPCs : Go(a, "stream", to)
    BY <1>5, RowsTyped DEF StreamChunk, PersistProgress, AgentPCs, Go, LocalsTyped
  <2>3. /\ at' = [at EXCEPT ![a] = l]
        /\ Emit(a, "trace_chunk") \/ UNCHANGED <<runs, events>>
        /\ UNCHANGED <<turns, jobs, answer, environment>>
    BY <1>5 DEF StreamChunk, PersistProgress, db
  <2> HIDE DEF l
  <2>4. pc[a] \notin Unaware /\ pc[a] \notin Resting
    BY <1>0, <2>2 DEF Go, AgentPCs
  <2>5. TouchesOwn(a) /\ runs'[at[a].run].active = Run(a).active
    BY <1>0, <2>3, <2>4, EmitTouches DEF TouchesOwn, Run
  <2> QED
    BY <1>0, <2>1, <2>2, <2>3, <2>4, <2>5, SetActs DEF Go
<1>6. CASE EndStream(a)
  <2> DEFINE l(w) == [at[a] EXCEPT !.want = w]
  <2>1. \A w : l(w).req = at[a].req /\ l(w).run = at[a].run /\ l(w).row = at[a].row
    BY <1>0 DEF Local
  <2>2. Go(a, "stream", "readmeta") /\ \E w : at' = [at EXCEPT ![a] = l(w)]
    BY <1>6 DEF EndStream
  <2> HIDE DEF l
  <2>3. TouchesOwn(a) /\ runs' = runs /\ UNCHANGED environment
    BY <1>6, TouchesNone DEF EndStream, db
  <2> QED
    BY <1>0, <2>1, <2>2, <2>3, SetActs DEF AgentPCs, Run, Go
<1> QED
  BY <1>1, <1>2, <1>3, <1>4, <1>5, <1>6 DEF AgentStep

\* So do those of AbortRun.
LEMMA AbortRunActs ==
  ASSUME Typed, Placed, NEW a \in Aborters, AbortRunStep(a)
  PROVE  Acts(a) /\ Placed'
<1>0. /\ a \in Actors /\ at[a].run \in Runs /\ at[a] \in Local
      /\ \A p \in AbortRunPCs \union {"abturn"} : p \notin Resting
      /\ "abgetturn" \notin Unaware /\ "abturn" \notin Unaware
      /\ {"abget", "abreq", "abcheck", "abdirect"} \subseteq Unaware
      /\ AbortRunPCs = {"abget", "abreq", "abcheck", "abdirect", "abgetturn"}
  BY Kinds, AwareTyped, AtWorkPlaces DEF ExecutePCs, AbortTurnPCs, AbortRunPCs
<1>1. CASE CheckRun(a)
  <2>1. CASE Run(a).status \in Terminal
    BY <1>0, <1>1, <2>1, ReturnOnlyActs DEF CheckRun
  <2>2. CASE Run(a).status \notin Terminal
    <3>1. Go(a, "abget", "abreq") /\ at' = at /\ UNCHANGED <<db, answer, environment>>
      BY <1>1, <2>2 DEF CheckRun, Go, db
    <3>2. TouchesOwn(a) /\ runs' = runs
      BY <3>1, TouchesNone DEF db
    <3> QED
      BY <1>0, <3>1, <3>2, ReadActs
  <2> QED
    BY <2>1, <2>2
<1>2. CASE RequestAbort(a)
  <2>1. /\ \A r \in Runs : r # at[a].run => runs'[r] = runs[r]
        /\ runs'[at[a].run].active = Run(a).active
    BY <1>0, <1>2, RowsTyped DEF RequestAbort, Run, RunRow
  <2>2. TouchesOwn(a)
    BY <1>2, <2>1 DEF RequestAbort, TouchesOwn
  <2> QED
    BY <1>0, <1>2, <2>1, <2>2, WriteActs DEF RequestAbort
<1>3. CASE RecheckRun(a)
  <2>1. CASE Run(a).status # "queued"
    BY <1>0, <1>3, <2>1, ReturnOnlyActs DEF RecheckRun
  <2>2. CASE Run(a).status = "queued"
    <3>1. /\ pc[a] = "abcheck"
          /\ pc' = [pc EXCEPT ![a] = IF Run(a).active = None THEN "abdirect" ELSE "abgetturn"]
          /\ at' = [at EXCEPT ![a].row = Run(a), ![a].req = Run(a).active]
          /\ UNCHANGED <<db, answer, environment>>
      BY <1>3, <2>2 DEF RecheckRun, db
    <3>2. /\ at'[a].req = Run(a).active /\ at'[a].row = Run(a) /\ at'[a].run = at[a].run
          /\ \A b \in Actors \ {a} : at'[b] = at[b] /\ pc'[b] = pc[b]
          /\ pc'[a] = IF Run(a).active = None THEN "abdirect" ELSE "abgetturn"
      BY <1>0, <3>1, RowsTyped DEF LocalsTyped, Local
    <3>3. TouchesOwn(a) /\ runs' = runs
      BY <3>1, TouchesNone DEF db
    <3>4. Acts(a)
      BY <1>0, <3>1, <3>2, <3>3 DEF Acts, GoesOnAt
    <3>5. Names(a)
      BY <3>2, <3>3 DEF Names, Run
    <3>6. Run(a).active \in Requests \union {None}
      BY <1>0, AwareTyped DEF RunRow
    <3> QED
      BY <1>0, <3>2, <3>4, <3>5, <3>6, NamesPlaced
  <2> QED
    BY <2>1, <2>2
<1>4. CASE AbortIdleRun(a)
  <2>1. pc[a] = "abdirect" /\ WriteRun(a, "aborted", None)
    BY <1>4 DEF AbortIdleRun
  <2> QED
    BY <1>0, <1>4, <2>1, WriteRunTouches, ReturnActs DEF AbortIdleRun
<1>5. CASE GetActiveTurn(a)
  <2> DEFINE l == [at[a] EXCEPT !.turn = turns[at[a].req]]
  <2>1. /\ Go(a, "abgetturn", "abturn") /\ at' = [at EXCEPT ![a] = l]
        /\ UNCHANGED <<db, answer, environment>>
    BY <1>5 DEF GetActiveTurn
  <2>2. l.req = at[a].req /\ l.run = at[a].run /\ l.row = at[a].row
    BY <1>0 DEF Local
  <2> HIDE DEF l
  <2>3. TouchesOwn(a) /\ runs' = runs
    BY <2>1, TouchesNone DEF db
  <2> QED
    BY <1>0, <2>1, <2>2, <2>3, SetActs DEF Run, Go
<1> QED
  BY <1>1, <1>2, <1>3, <1>4, <1>5 DEF AbortRunStep

\* So does an operation that is given up at any statement.
LEMMA GiveUpActs ==
  ASSUME Typed, Placed, NEW a \in Actors, GiveUp(a)
  PROVE  Acts(a) /\ Placed'
<1>1. pc[a] \notin Resting
  BY AtWorkPlaces DEF GiveUp, ExecutePCs
<1> QED
  BY <1>1, ReturnOnlyActs DEF GiveUp

\* Every statement, and every end of one, touches what is its own.
LEMMA StepActs ==
  ASSUME Typed, Placed, NEW a \in Actors, Step(a) \/ GiveUp(a) \/ ContextDone(a)
  PROVE  Acts(a) /\ Placed'
BY PrepareActs, QueueActs, ExecuteActs, AgentActs, CancelActs, AbortTurnActs, AbortRunActs,
   GiveUpActs DEF Step

\* What the beginning of an operation touches.
Begins(a, q, r) ==
  /\ pc[a] = "idle" /\ pc'[a] \notin Resting
  /\ \A b \in Actors \ {a} : pc'[b] = pc[b] /\ at'[b] = at[b]
  /\ at'[a] = NewLocal(q, r)

\* Begin places an idle actor at the first statement of an operation.
LEMMA BeginBegins ==
  ASSUME Typed, NEW a \in Actors, NEW first, NEW q, NEW r, Begin(a, first, q, r),
         first \notin Resting
  PROVE  Begins(a, q, r) /\ pc'[a] = first
BY RowsTyped DEF Begin, Go, LocalsTyped, Begins

\* An operation that begins at the run of its request is placed.
LEMMA BeginPlaced ==
  ASSUME Placed, NEW a \in Actors, NEW q, NEW r, Begins(a, q, r), runs' = runs,
         q \in Requests => RunOf[q] = r
  PROVE  Placed'
<1>1. /\ NewLocal(q, r).req = q /\ NewLocal(q, r).run = r /\ NewLocal(q, r).row.active = None
      /\ None \notin Requests
  BY RequestsAssumption DEF NewLocal, NoRun
<1> QED
  BY <1>1 DEF Begins, Placed, AtItsRun, ActiveBelongs, CopyBelongs

\* A client submits one of its messages.
LEMMA SubmitBegins ==
  ASSUME Typed, Placed, NEW c \in Clients, NEW q \in Requests, Submit(c, q)
  PROVE  /\ c \in Actors /\ Begins(c, q, RunOf[q]) /\ pc'[c] = "load" /\ q \in Submits[c]
         /\ UNCHANGED <<db, answer, environment>> /\ Placed'
<1>1. "load" \notin Resting /\ c \in Actors
  BY Kinds DEF Resting
<1> QED
  BY <1>1, BeginBegins, BeginPlaced DEF Submit, db

\* A worker fetches an available job.
LEMMA FetchBegins ==
  ASSUME Typed, Placed, NEW w \in Workers, NEW q \in Requests, Fetch(w, q)
  PROVE  /\ w \in Actors /\ Begins(w, q, RunOf[q]) /\ pc'[w] = "getturn"
         /\ jobs[q] = "available" /\ jobs' = [jobs EXCEPT ![q] = "running"]
         /\ UNCHANGED <<runs, turns, events, answer, environment>> /\ Placed'
<1>1. "getturn" \notin Resting /\ w \in Actors
  BY Kinds DEF Resting
<1> QED
  BY <1>1, BeginBegins, BeginPlaced DEF Fetch

\* An aborter asks for a run that exists.
LEMMA AbortBegins ==
  ASSUME Typed, Placed, NEW a \in Aborters, NEW r \in Runs, AbortRun(a, r)
  PROVE  /\ a \in Actors /\ Begins(a, None, r) /\ pc'[a] = "abget"
         /\ runs[r].status # "absent"
         /\ UNCHANGED <<db, answer, cleaning, crashes, boots>> /\ Placed'
<1>1. "abget" \notin Resting /\ "abget" \in Unaware /\ a \in Actors
  BY Kinds DEF Resting, Unaware
<1> QED
  BY <1>1, BeginBegins, BeginPlaced, RequestsAssumption DEF AbortRun, db

\* The steps of the environment.
LEMMA CrashPlaced ==
  ASSUME Placed, Crash PROVE Placed'
<1>1. /\ runs' = runs
      /\ \A b \in Actors : (pc'[b] = "dead" /\ at'[b] = Blank) \/ (pc'[b] = pc[b] /\ at'[b] = at[b])
  BY DEF Crash, db
<1>2. Blank.req = None /\ Blank.row.active = None /\ None \notin Requests
  BY RequestsAssumption DEF Blank, NewLocal, NoRun
<1> QED
  BY <1>1, <1>2 DEF Placed, AtItsRun, ActiveBelongs, CopyBelongs

\* A restart sets actors idle and touches no row.
LEMMA RestartPlaced ==
  ASSUME Placed, Restart PROVE Placed'
<1>1. runs' = runs /\ at' = at /\ \A b \in Actors : pc'[b] = "idle" \/ pc'[b] = pc[b]
  BY DEF Restart, db
<1> QED
  BY <1>1 DEF Placed, AtItsRun, ActiveBelongs, CopyBelongs, Unaware

\* What the cleanup of a server does to a run.
LEMMA CleanupTouches ==
  ASSUME Typed, MarkStaleAborted
  PROVE  /\ \A r \in Runs : /\ runs[r].status # "running" => runs'[r] = runs[r]
                            /\ runs[r].status = "running" =>
                                 runs'[r].status = "aborted" /\ runs'[r].active = None
                            /\ runs'[r].trace = runs[r].trace
         /\ UNCHANGED <<jobs, pc, at, answer, crashes, boots>> /\ cleaning /\ ~cleaning'
<1>1. PICK named \in [Runs -> Requests \union {None}] :
        runs' = [r \in Runs |->
                     IF r \notin {s \in Runs : runs[s].status = "running"} THEN runs[r]
                     ELSE [runs[r] EXCEPT !.status = "aborted", !.active = None,
                             !.last = IF named[r] = None THEN @ ELSE Len(events[r]) + 1]]
  BY DEF MarkStaleAborted
<1>2. \A r \in Runs :
        /\ runs[r].status # "running" => runs'[r] = runs[r]
        /\ runs[r].status = "running" => \E x : runs'[r] =
             [runs[r] EXCEPT !.status = "aborted", !.active = None, !.last = x]
  BY <1>1
<1>3. UNCHANGED <<jobs, pc, at, answer, crashes, boots>> /\ cleaning /\ cleaning' = FALSE
  BY DEF MarkStaleAborted
<1>4. \A r \in Runs : runs[r] \in RunRow
  BY RowsTyped
<1>5. ASSUME NEW r \in Runs, runs[r].status = "running"
      PROVE  runs'[r].status = "aborted" /\ runs'[r].active = None /\ runs'[r].trace = runs[r].trace
  <2>1. PICK x : runs'[r] = [runs[r] EXCEPT !.status = "aborted", !.active = None, !.last = x]
    BY <1>2, <1>5
  <2>2. runs[r] \in RunRow
    BY <1>4
  <2> QED
    BY <2>1, <2>2 DEF RunRow
<1>6. \A r \in Runs : runs'[r].trace = runs[r].trace
  BY <1>2, <1>5
<1> QED
  BY <1>2, <1>3, <1>5, <1>6

\* Every step leaves the actors at their runs.
LEMMA NextPlaced == Typed /\ Placed /\ [Next]_vars => Placed'
<1> SUFFICES ASSUME Typed, Placed, [Next]_vars PROVE Placed'
  OBVIOUS
<1>1. CASE MarkStaleAborted
  BY <1>1, CleanupTouches, RequestsAssumption DEF Placed, AtItsRun, ActiveBelongs, CopyBelongs
<1>2. CASE \E q \in Requests : Rescue(q)
  BY <1>2 DEF Rescue, Placed, AtItsRun, ActiveBelongs, CopyBelongs
<1>3. CASE StartServer
  BY <1>3 DEF StartServer, db, Placed, AtItsRun, ActiveBelongs, CopyBelongs
<1>4. CASE UNCHANGED vars
  BY <1>4 DEF vars, Placed, AtItsRun, ActiveBelongs, CopyBelongs
<1>5. CASE \E a \in Actors : Step(a) \/ GiveUp(a) \/ ContextDone(a)
  BY <1>5, StepActs
<1>6. CASE \/ \E c \in Clients, q \in Requests : Submit(c, q)
           \/ \E w \in Workers, q \in Requests : Fetch(w, q)
           \/ \E a \in Aborters, r \in Runs : AbortRun(a, r)
  BY <1>6, SubmitBegins, FetchBegins, AbortBegins
<1> QED
  BY <1>1, <1>2, <1>3, <1>4, <1>5, <1>6, CrashPlaced, RestartPlaced DEF Next

\* At the start nobody is at work and no row names a turn.
LEMMA InitPlaced == Init => Placed
<1> SUFFICES ASSUME Init PROVE Placed
  OBVIOUS
<1>1. /\ \A a \in Actors : pc[a] = "idle" /\ at[a] = Blank
      /\ \A r \in Runs : runs[r] = NoRun
  BY DEF Init
<1>2. Blank.req = None /\ NoRun.active = None /\ Blank.row.active = None /\ None \notin Requests
  BY RequestsAssumption DEF NoRun, Blank, NewLocal
<1> QED
  BY <1>1, <1>2 DEF Placed, AtItsRun, ActiveBelongs, CopyBelongs

-----------------------------------------------------------------------------
(* Aborting a queued turn is final.                                        *)

\* Where an actor that works on an aborted turn leaves it aborted: a client
\* before its look-up finds the job, a worker before it has seen the status,
\* and whoever aborts.
HarmlessPCs == {"load", "lookup", "create", "reload", "insert", "getturn", "abgetturn",
                "abrow", "abemit"} \union Unaware

Harmless(a, q) ==
  at[a].req = q =>
    \/ pc[a] \in HarmlessPCs
    \/ pc[a] = "getrun" /\ at[a].turn.status = "aborted"
    \/ pc[a] = "abturn" /\ at[a].turn.job

\* Turn q is aborted, was queued, and nobody is about to change that.
Aborted(q) == /\ turns[q].status = "aborted" /\ turns[q].job
              /\ \A a \in Actors : Harmless(a, q)

\* Turn q stays aborted and a stays harmless.
LeavesAborted(a, q) ==
  /\ turns'[q] = turns[q] \/ (turns'[q].status = "aborted" /\ turns'[q].job)
  /\ Harmless(a, q)'

\* An operation that returns is at no turn.
LEMMA BlankHarmless ==
  ASSUME NEW q \in Requests, NEW a, at'[a] = Blank, turns' = turns
  PROVE  LeavesAborted(a, q)
<1>1. at'[a].req = None /\ None # q
  BY RequestsAssumption DEF Blank, NewLocal
<1> QED
  BY <1>1 DEF LeavesAborted, Harmless

\* An operation that goes on to a harmless place.
LEMMA GoHarmless ==
  ASSUME Typed, NEW q \in Requests, NEW a \in Actors, NEW to \in HarmlessPCs,
         pc' = [pc EXCEPT ![a] = to],
         turns'[q] = turns[q] \/ (turns'[q].status = "aborted" /\ turns'[q].job)
  PROVE  LeavesAborted(a, q)
BY RowsTyped DEF LocalsTyped, LeavesAborted, Harmless

\* An operation that returns without writing a turn leaves an aborted one aborted.
LEMMA ReturnHarmless ==
  ASSUME Typed, NEW q \in Requests, NEW a \in Actors,
         NEW result, NEW outcome, Return(a, result, outcome), turns' = turns
  PROVE  LeavesAborted(a, q)
<1>1. at'[a] = Blank
  BY RowsTyped DEF LocalsTyped, Return
<1> QED
  BY <1>1, BlankHarmless

\* The places of an actor at an aborted turn, told apart.
LEMMA HarmlessPlaces ==
  /\ HarmlessPCs = {"load", "lookup", "create", "reload", "insert", "getturn", "abgetturn",
                    "abrow", "abemit", "idle", "dead", "abget", "abreq", "abcheck", "abdirect"}
  /\ \A p \in AgentPCs \union FinishPCs \union QueuePCs \union WatchedPCs : p \notin HarmlessPCs
  /\ \A p \in AgentPCs \union FinishPCs \union QueuePCs \union WatchedPCs :
       p # "getrun" /\ p # "abturn"
BY DEF HarmlessPCs, Unaware, AgentPCs, FinishPCs, QueuePCs, WatchedPCs

\* A client that finds the aborted turn does not write it.
LEMMA PrepareHarmless ==
  ASSUME Typed, NEW q \in Requests, Aborted(q), NEW c \in Clients, PrepareStep(c), at[c].req = q
  PROVE  LeavesAborted(c, q)
<1>0. /\ c \in Actors
      /\ turns[q].status = "aborted" /\ turns[q].job
      /\ pc[c] \in HarmlessPCs \/ pc[c] = "getrun" \/ pc[c] = "abturn"
  BY Kinds DEF Aborted, Harmless
<1> USE HarmlessPlaces
<1>1. CASE LoadRun(c)
  BY <1>0, <1>1, GoHarmless DEF LoadRun, Go, db
<1>2. CASE FoundTurn(c)
  BY <1>0, <1>2, ReturnHarmless DEF FoundTurn
<1>3. CASE RefuseBusy(c)
  BY <1>0, <1>3 DEF RefuseBusy
<1>4. CASE NoTurnYet(c)
  BY <1>0, <1>4 DEF NoTurnYet
<1>5. CASE CreateRun(c)
  BY <1>0, <1>5, GoHarmless, ReturnHarmless DEF CreateRun, Go
<1>6. CASE ReloadRun(c)
  BY <1>0, <1>6, GoHarmless DEF ReloadRun, Go, db
<1>7. CASE CreateTurn(c)
  BY <1>0, <1>7, ReturnHarmless DEF CreateTurn
<1>8. CASE ActivateTurn(c) \/ Prepared(c)
  BY <1>0, <1>8 DEF ActivateTurn, Prepared, Go
<1> QED
  BY <1>1, <1>2, <1>3, <1>4, <1>5, <1>6, <1>7, <1>8 DEF PrepareStep

\* An executor that finds the turn aborted returns before it writes.
LEMMA ExecuteHarmless ==
  ASSUME Typed, NEW q \in Requests, Aborted(q), NEW a \in Actors, ExecuteStep(a), at[a].req = q
  PROVE  LeavesAborted(a, q)
<1>0. /\ turns[q].status = "aborted" /\ turns[q].job
      /\ pc[a] \in HarmlessPCs \/ pc[a] = "getrun" \/ pc[a] = "abturn"
      /\ pc[a] = "getrun" => at[a].turn.status = "aborted"
  BY HarmlessPlaces DEF Aborted, Harmless
<1> USE HarmlessPlaces
<1>1. CASE GetTurn(a)
  <2>1. /\ pc'[a] = "getrun" /\ at'[a] = [at[a] EXCEPT !.turn = turns[q]] /\ turns' = turns
    BY <1>1, RowsTyped DEF GetTurn, Go, db, LocalsTyped
  <2>2. at'[a].turn = turns[q]
    BY <2>1, AwareTyped DEF Local
  <2> QED
    BY <1>0, <2>1, <2>2 DEF LeavesAborted, Harmless
<1>2. CASE GetRun(a)
  BY <1>0, <1>2, ReturnHarmless DEF GetRun
<1>3. CASE SetTurn(a) \/ SetRun(a) \/ EmitStarted(a)
  BY <1>0, <1>3 DEF SetTurn, SetRun, EmitStarted, Go
<1>4. CASE \/ GetFinished(a) \/ FinalizeRun(a) \/ ReloadFinal(a) \/ FinalizeTurn(a)
           \/ FinalizeRow(a) \/ EmitStatus(a)
  <2>1. pc[a] \in FinishPCs
    BY <1>4 DEF GetFinished, FinalizeRun, ReloadFinal, FinalizeTurn, FinalizeRow, EmitStatus,
                Go, FinishPCs
  <2> QED
    BY <1>0, <2>1
<1> QED
  BY <1>1, <1>2, <1>3, <1>4 DEF ExecuteStep

\* Aborting an aborted turn once more leaves it aborted.
LEMMA AbortTurnHarmless ==
  ASSUME Typed, NEW q \in Requests, Aborted(q), NEW a \in Actors, AbortTurnStep(a), at[a].req = q
  PROVE  LeavesAborted(a, q)
<1>0. /\ turns[q].status = "aborted" /\ turns[q].job
      /\ pc[a] = "abturn" => at[a].turn.job
  BY HarmlessPlaces DEF Aborted, Harmless
<1> USE HarmlessPlaces
<1>1. CASE AbortTurn(a)
  <2>1. /\ pc' = [pc EXCEPT ![a] = "abrow"]
        /\ turns'[q].status = "aborted" /\ turns'[q].job
    BY <1>0, <1>1, WriteTurnTouches DEF AbortTurn, Go
  <2> QED
    BY <2>1, GoHarmless
<1>2. CASE AbortRow(a)
  BY <1>2, GoHarmless DEF AbortRow, Go
<1>3. CASE EmitAborted(a)
  BY <1>3, ReturnHarmless DEF EmitAborted
<1> QED
  BY <1>1, <1>2, <1>3 DEF AbortTurnStep

\* AbortRun leaves an aborted turn aborted.
LEMMA AbortRunHarmless ==
  ASSUME Typed, NEW q \in Requests, Aborted(q), NEW a \in Actors, AbortRunStep(a),
         at[a].req = q \/ pc[a] = "abcheck"
  PROVE  LeavesAborted(a, q)
<1>0. turns[q].status = "aborted" /\ turns[q].job
  BY DEF Aborted
<1> USE HarmlessPlaces
<1>1. CASE CheckRun(a)
  BY <1>1, GoHarmless, ReturnHarmless DEF CheckRun
<1>2. CASE RequestAbort(a)
  BY <1>2, GoHarmless DEF RequestAbort, Go
<1>3. CASE RecheckRun(a)
  BY <1>3, GoHarmless, ReturnHarmless DEF RecheckRun
<1>4. CASE AbortIdleRun(a)
  BY <1>4, ReturnHarmless DEF AbortIdleRun
<1>5. CASE GetActiveTurn(a)
  <2>1. /\ pc'[a] = "abturn" /\ at'[a] = [at[a] EXCEPT !.turn = turns[at[a].req]]
        /\ turns' = turns /\ at[a].req = q
    BY <1>5, RowsTyped DEF GetActiveTurn, Go, db, LocalsTyped
  <2>2. at'[a].turn = turns[q]
    BY <2>1, AwareTyped DEF Local
  <2> QED
    BY <1>0, <2>1, <2>2 DEF LeavesAborted, Harmless
<1> QED
  BY <1>1, <1>2, <1>3, <1>4, <1>5 DEF AbortRunStep

\* A statement of an actor at the turn, or of one that is about to take it.
LEMMA StepHarmless ==
  ASSUME Typed, NEW q \in Requests, Aborted(q), NEW a \in Actors,
         Step(a) \/ GiveUp(a) \/ ContextDone(a), at[a].req = q \/ pc[a] = "abcheck"
  PROVE  LeavesAborted(a, q)
<1>1. CASE a \in Clients /\ PrepareStep(a) /\ at[a].req = q
  BY <1>1, PrepareHarmless
<1>2. CASE ExecuteStep(a) /\ at[a].req = q
  BY <1>2, ExecuteHarmless
<1>3. CASE AbortTurnStep(a) /\ at[a].req = q
  BY <1>3, AbortTurnHarmless
<1>4. CASE AbortRunStep(a)
  BY <1>4, AbortRunHarmless
<1>5. CASE GiveUp(a)
  BY <1>5, ReturnHarmless DEF GiveUp
<1>6. ASSUME pc[a] = "abcheck"
      PROVE  ~PrepareStep(a) /\ ~QueueStep(a) /\ ~ExecuteStep(a) /\ ~AgentStep(a)
             /\ ~AbortTurnStep(a) /\ ~WatchForAbort(a) /\ ~ContextDone(a)
  <2>1. ~PrepareStep(a)
    BY <1>6 DEF PrepareStep, LoadRun, FoundTurn, RefuseBusy, NoTurnYet, CreateRun, ReloadRun,
                CreateTurn, ActivateTurn, Prepared, Go
  <2>2. ~QueueStep(a) /\ ~AbortTurnStep(a)
    BY <1>6 DEF QueueStep, EnqueueAgentRun, MarkTurn, MarkRun, EmitQueued, AbortTurnStep,
                AbortTurn, AbortRow, EmitAborted, Go
  <2>3. ~ExecuteStep(a)
    BY <1>6 DEF ExecuteStep, GetTurn, GetRun, SetTurn, SetRun, EmitStarted, GetFinished,
                FinalizeRun, ReloadFinal, FinalizeTurn, FinalizeRow, EmitStatus, Go
  <2>4. ~AgentStep(a)
    BY <1>6 DEF AgentStep, LoadConversation, ReadMeta, WriteMeta, InitialChunk, StreamChunk,
                PersistProgress, EndStream, FinishChunk, Go
  <2>5. ~WatchForAbort(a) /\ ~ContextDone(a)
    BY <1>6 DEF WatchForAbort, ContextDone, WatchedPCs, AgentPCs
  <2> QED
    BY <2>1, <2>2, <2>3, <2>4, <2>5
<1>7. ASSUME at[a].req = q
      PROVE  ~QueueStep(a) /\ ~AgentStep(a) /\ ~WatchForAbort(a) /\ ~ContextDone(a)
  <2>1. pc[a] \notin AgentPCs \union QueuePCs \union WatchedPCs
    BY <1>7, HarmlessPlaces DEF Aborted, Harmless
  <2>2. ~QueueStep(a)
    BY <2>1 DEF QueuePCs, QueueStep, EnqueueAgentRun, MarkTurn, MarkRun, EmitQueued, Go
  <2>3. ~AgentStep(a)
    BY <2>1 DEF AgentPCs, AgentStep, LoadConversation, ReadMeta, WriteMeta, InitialChunk,
                StreamChunk, PersistProgress, EndStream, FinishChunk, Go
  <2> QED
    BY <2>1, <2>2, <2>3 DEF WatchForAbort, ContextDone
<1> QED
  BY <1>1, <1>2, <1>3, <1>4, <1>5, <1>6, <1>7 DEF Step

\* Nobody but the actors at the turn can change it.
LEMMA ActsAborted ==
  ASSUME Typed, Placed, NEW q \in Requests, Aborted(q), NEW a \in Actors,
         Step(a) \/ GiveUp(a) \/ ContextDone(a)
  PROVE  Aborted(q)'
<1>1. Acts(a)
  BY StepActs
<1>2. LeavesAborted(a, q)
  <2>1. CASE at[a].req = q \/ pc[a] = "abcheck"
    BY <2>1, StepHarmless
  <2>2. CASE at[a].req # q /\ pc[a] # "abcheck"
    <3>1. turns'[q] = turns[q]
      BY <1>1, <2>2 DEF Acts, TouchesOwn
    <3>2. at'[a].req # q
      BY <1>1, <2>2, RequestsAssumption DEF Acts, GoesOnAt, Blank, NewLocal
    <3> QED
      BY <3>1, <3>2 DEF LeavesAborted, Harmless
  <2> QED
    BY <2>1, <2>2
<1>3. \A b \in Actors \ {a} : Harmless(b, q)'
  BY <1>1 DEF Acts, Aborted, Harmless
<1> QED
  BY <1>2, <1>3 DEF LeavesAborted, Aborted

\* A new operation begins at a harmless place.
LEMMA BeginAborted ==
  ASSUME NEW q \in Requests, Aborted(q), NEW a \in Actors, NEW p, NEW r, Begins(a, p, r),
         pc'[a] \in HarmlessPCs, turns' = turns
  PROVE  Aborted(q)'
BY DEF Begins, Aborted, Harmless

\* No step takes an aborted turn with a job back.
LEMMA NextAborted ==
  ASSUME Typed, Placed, NEW q \in Requests, Aborted(q), [Next]_vars
  PROVE  Aborted(q)'
<1> USE HarmlessPlaces
<1>1. CASE \E a \in Actors : Step(a) \/ GiveUp(a) \/ ContextDone(a)
  BY <1>1, ActsAborted
<1>2. CASE \E c \in Clients, p \in Requests : Submit(c, p)
  BY <1>2, SubmitBegins, BeginAborted DEF db
<1>3. CASE \E w \in Workers, p \in Requests : Fetch(w, p)
  BY <1>3, FetchBegins, BeginAborted
<1>4. CASE \E a \in Aborters, r \in Runs : AbortRun(a, r)
  BY <1>4, AbortBegins, BeginAborted DEF db
<1>5. CASE \E p \in Requests : Rescue(p)
  BY <1>5 DEF Rescue, Aborted, Harmless
<1>6. CASE Crash
  <2>1. /\ turns' = turns
        /\ \A b \in Actors : pc'[b] = "dead" \/ (pc'[b] = pc[b] /\ at'[b] = at[b])
    BY <1>6 DEF Crash, db
  <2> QED
    BY <2>1 DEF Aborted, Harmless
<1>7. CASE Restart
  <2>1. turns' = turns /\ at' = at /\ \A b \in Actors : pc'[b] = "idle" \/ pc'[b] = pc[b]
    BY <1>7 DEF Restart, db
  <2> QED
    BY <2>1 DEF Aborted, Harmless
<1>8. CASE StartServer
  BY <1>8 DEF StartServer, db, Aborted, Harmless
<1>9. CASE MarkStaleAborted
  <2>1. turns'[q] = turns[q] /\ pc' = pc /\ at' = at
    BY <1>9 DEF MarkStaleAborted, Aborted
  <2> QED
    BY <2>1 DEF Aborted, Harmless
<1>10. CASE UNCHANGED vars
  BY <1>10 DEF vars, Aborted, Harmless
<1> QED
  BY <1>1, <1>2, <1>3, <1>4, <1>5, <1>6, <1>7, <1>8, <1>9, <1>10 DEF Next

\* An aborted turn of a queued message that nobody is working on is never
\* executed any more: not by the worker that fetches its job, nor after the
\* message is submitted again.
THEOREM AbortedForGood == Spec => AbortIsFinal
<1>1. Spec => [](Typed /\ Placed)
  <2>1. Init => Typed /\ Placed
    BY InitTyped, InitPlaced
  <2>2. Typed /\ Placed /\ [Next]_vars => (Typed /\ Placed)'
    BY NextTyped, NextPlaced
  <2> QED
    BY <2>1, <2>2, PTL DEF Spec
<1>2. ASSUME NEW q \in Requests
      PROVE  Spec => [](turns[q].status = "aborted" /\ turns[q].job /\ Untouched(q)
                          => [](turns[q].status = "aborted"))
  <2>1. turns[q].status = "aborted" /\ turns[q].job /\ Untouched(q) => Aborted(q)
    BY DEF Untouched, Aborted, Harmless, HarmlessPCs, Unaware
  <2>2. Typed /\ Placed /\ Aborted(q) /\ [Next]_vars => Aborted(q)'
    BY NextAborted
  <2>3. Aborted(q) => turns[q].status = "aborted"
    BY DEF Aborted
  <2> QED
    BY <1>1, <2>1, <2>2, <2>3, PTL DEF Spec
<1> QED
  BY <1>2 DEF AbortIsFinal

-----------------------------------------------------------------------------
(* A turn starts once.                                                     *)

\* The executor of q has been called: it runs, or its job is completed, or
\* the attached client that ran it was told the result.
Begun(q) ==
  \/ jobs[q] = "completed"
  \/ \E a \in Clients \union Workers : pc[a] \in AgentPCs \union FinishPCs /\ at[a].req = q
  \/ \E c \in Attached : q \in Submits[c] /\ answer[c][q] # "none"

StartedBegun == \A q \in Requests : Announced(q, "started") => Begun(q)

\* As long as nothing crashes.
Once == crashes = 0 => StartedOnce /\ StartedBegun

\* The logs grow by other events than a start.
NoStart ==
  \A r \in Runs : \/ events'[r] = events[r]
                  \/ \E e \in EventRow : /\ events'[r] = Append(events[r], e)
                                         /\ e.kind # "started"

BegunStays == \A q \in Requests : Begun(q) => Begun(q)'

\* What a log holds after an event was appended.
LEMMA AppendHolds ==
  ASSUME NEW s \in Seq(EventRow), NEW e \in EventRow
  PROVE  \A i \in DOMAIN Append(s, e) :
           \/ i \in DOMAIN s /\ Append(s, e)[i] = s[i]
           \/ i = Len(s) + 1 /\ Append(s, e)[i] = e
<1> SUFFICES ASSUME NEW i \in DOMAIN Append(s, e)
             PROVE  \/ i \in DOMAIN s /\ Append(s, e)[i] = s[i]
                    \/ i = Len(s) + 1 /\ Append(s, e)[i] = e
  OBVIOUS
<1>1. /\ Len(s) \in Nat /\ DOMAIN s = 1..Len(s)
      /\ DOMAIN Append(s, e) = 1..(Len(s) + 1)
  OBVIOUS
<1>2. CASE i = Len(s) + 1
  BY <1>2
<1>3. CASE i \in 1..Len(s)
  BY <1>1, <1>3
<1> QED
  BY <1>1, <1>2, <1>3

\* A step that appends no agent_run_started keeps the starts single.
LEMMA NoStartKeeps ==
  ASSUME Typed, Typed', NoStart, BegunStays, StartedOnce, StartedBegun
  PROVE  StartedOnce' /\ StartedBegun'
<1>1. ASSUME NEW r \in Runs, NEW i \in DOMAIN events'[r], events'[r][i].kind = "started"
      PROVE  i \in DOMAIN events[r] /\ events'[r][i] = events[r][i]
  <2>1. CASE events'[r] = events[r]
    BY <1>1, <2>1
  <2>2. CASE events'[r] # events[r]
    <3>1. PICK e \in EventRow : events'[r] = Append(events[r], e) /\ e.kind # "started"
      BY <2>2 DEF NoStart
    <3>2. events[r] \in Seq(EventRow)
      BY RowsTyped
    <3> QED
      BY <1>1, <3>1, <3>2, AppendHolds
  <2> QED
    BY <2>1, <2>2
<1>2. StartedOnce'
  <2> SUFFICES ASSUME NEW r \in Runs, NEW i \in DOMAIN events'[r], NEW j \in DOMAIN events'[r],
                      events'[r][i].kind = "started", events'[r][j] = events'[r][i]
               PROVE  i = j
    BY DEF StartedOnce
  <2> QED
    BY <1>1 DEF StartedOnce
<1>3. StartedBegun'
  <2> SUFFICES ASSUME NEW q \in Requests, Announced(q, "started")' PROVE Begun(q)'
    BY DEF StartedBegun
  <2>1. RunOf[q] \in Runs
    BY RequestsAssumption
  <2>2. PICK i \in DOMAIN events'[RunOf[q]] :
          events'[RunOf[q]][i] = [req |-> q, kind |-> "started"]
    BY DEF Announced
  <2>3. Announced(q, "started")
    BY <1>1, <2>1, <2>2 DEF Announced
  <2> QED
    BY <2>3 DEF StartedBegun, BegunStays
<1> QED
  BY <1>2, <1>3

\* The events of the other statements.
LEMMA EmitNoStart ==
  ASSUME Typed, NEW a \in Actors, at[a].req \in Requests,
         NEW kind \in {"queued", "trace_chunk", "status"}, Emit(a, kind)
  PROVE  NoStart
<1> DEFINE e == [req |-> at[a].req, kind |-> kind]
           r == RunOf[at[a].req]
<1>1. e \in EventRow /\ e.kind # "started" /\ r \in Runs
  BY RequestsAssumption DEF EventRow
<1>2. events' = [events EXCEPT ![r] = Append(events[r], e)]
  BY DEF Emit
<1> HIDE DEF e, r
<1>3. \A s \in Runs : events'[s] = IF s = r THEN Append(events[r], e) ELSE events[s]
  BY <1>1, <1>2, RowsTyped
<1> QED
  BY <1>1, <1>3 DEF NoStart

\* The event of a statement that is not EmitStarted.
Speaks(a) ==
  \/ events' = events
  \/ pc[a] \notin Unaware /\ \E kind \in {"queued", "trace_chunk", "status"} : Emit(a, kind)

\* A statement other than EmitStarted appends events of other kinds, if any.
LEMMA StepSpeaks ==
  ASSUME NEW a \in Actors, Step(a) \/ GiveUp(a) \/ ContextDone(a)
  PROVE  Speaks(a) \/ (a \in Clients \union Workers /\ EmitStarted(a))
<1> USE DEF db, Return, Go
<1>1. CASE PrepareStep(a)
  <2>1. events' = events
    BY <1>1 DEF PrepareStep, LoadRun, FoundTurn, RefuseBusy, NoTurnYet, CreateRun, ReloadRun,
                CreateTurn, ActivateTurn, Prepared
  <2> QED
    BY <2>1 DEF Speaks
<1>2. CASE QueueStep(a)
  BY <1>2 DEF QueueStep, EnqueueAgentRun, MarkTurn, MarkRun, EmitQueued, Speaks, Unaware
<1>3. CASE ExecuteStep(a) /\ a \in Clients \union Workers
  BY <1>3 DEF ExecuteStep, GetTurn, GetRun, SetTurn, SetRun, GetFinished, FinalizeRun,
              ReloadFinal, FinalizeTurn, FinalizeRow, EmitStatus, Speaks, Unaware
<1>4. CASE AgentStep(a)
  BY <1>4 DEF AgentStep, LoadConversation, ReadMeta, WriteMeta, InitialChunk, StreamChunk,
              PersistProgress, EndStream, FinishChunk, Speaks, Unaware
<1>5. CASE AbortTurnStep(a)
  BY <1>5 DEF AbortTurnStep, AbortTurn, AbortRow, EmitAborted, Speaks, Unaware
<1>6. CASE AbortRunStep(a)
  BY <1>6 DEF AbortRunStep, CheckRun, RequestAbort, RecheckRun, AbortIdleRun, GetActiveTurn, Speaks
<1>7. CASE WatchForAbort(a) \/ GiveUp(a) \/ ContextDone(a)
  BY <1>7 DEF WatchForAbort, GiveUp, ContextDone, Speaks
<1> QED
  BY <1>1, <1>2, <1>3, <1>4, <1>5, <1>6, <1>7 DEF Step

\* Such a statement announces no start.
LEMMA SpeaksNoStart ==
  ASSUME Typed, NEW a \in Actors, Speaks(a) PROVE NoStart
<1>1. CASE events' = events
  BY <1>1 DEF NoStart
<1>2. CASE events' # events
  <2>1. /\ at[a].req \in Requests
        /\ \E kind \in {"queued", "trace_chunk", "status"} : Emit(a, kind)
    BY <1>2, AwareTyped DEF Speaks
  <2> QED
    BY <2>1, EmitNoStart
<1> QED
  BY <1>1, <1>2

\* The jobs of a client's statements: a completed one stays.
LEMMA JobsStay ==
  ASSUME Typed, NEW a \in Actors, a \notin Workers, Step(a) \/ GiveUp(a) \/ ContextDone(a),
         NEW q \in Requests, jobs[q] = "completed"
  PROVE  jobs'[q] = "completed"
<1> USE DEF db, Return
<1>1. CASE PrepareStep(a)
  BY <1>1 DEF PrepareStep, LoadRun, FoundTurn, RefuseBusy, NoTurnYet, CreateRun, ReloadRun,
              CreateTurn, ActivateTurn, Prepared
<1>2. CASE QueueStep(a)
  <2>1. CASE EnqueueAgentRun(a)
    BY <2>1, RowsTyped DEF EnqueueAgentRun
  <2> QED
    BY <1>2, <2>1 DEF QueueStep, MarkTurn, MarkRun, EmitQueued
<1>3. CASE ExecuteStep(a)
  BY <1>3 DEF ExecuteStep, GetTurn, GetRun, SetTurn, SetRun, EmitStarted, GetFinished,
              FinalizeRun, ReloadFinal, FinalizeTurn, FinalizeRow, EmitStatus
<1>4. CASE AgentStep(a)
  BY <1>4 DEF AgentStep, LoadConversation, ReadMeta, WriteMeta, InitialChunk, StreamChunk,
              PersistProgress, EndStream, FinishChunk
<1>5. CASE AbortTurnStep(a)
  BY <1>5 DEF AbortTurnStep, AbortTurn, AbortRow, EmitAborted
<1>6. CASE AbortRunStep(a)
  BY <1>6 DEF AbortRunStep, CheckRun, RequestAbort, RecheckRun, AbortIdleRun, GetActiveTurn
<1>7. CASE WatchForAbort(a) \/ GiveUp(a) \/ ContextDone(a)
  BY <1>7 DEF WatchForAbort, GiveUp, ContextDone
<1> QED
  BY <1>1, <1>2, <1>3, <1>4, <1>5, <1>6, <1>7 DEF Step

\* The executor's statements lead to the end of the execution.
LEMMA Finishes ==
  ASSUME Typed, NEW a \in Clients \union Workers, pc[a] \in AgentPCs \union FinishPCs,
         Step(a) \/ GiveUp(a) \/ ContextDone(a)
  PROVE  pc'[a] \in AgentPCs \union FinishPCs \/ Return(a, "ran", "completed")
<1> DEFINE In == AgentPCs \union FinishPCs
<1>0. /\ a \in Actors /\ pc[a] \in In
      /\ \A to : (\E from : Go(a, from, to)) => pc'[a] = to
      /\ \A to : pc' = [pc EXCEPT ![a] = to] => pc'[a] = to
  BY Kinds, RowsTyped DEF Go, LocalsTyped
<1>1. /\ AgentPCs = {"exec", "readmeta", "writemeta", "initial", "stream", "finish"}
      /\ FinishPCs = {"execdone", "finalrun", "finalreload", "finalturn", "finalrow", "emitstatus"}
  BY DEF AgentPCs, FinishPCs
<1>2. ~PrepareStep(a) /\ ~QueueStep(a) /\ ~AbortTurnStep(a) /\ ~GiveUp(a)
  <2>1. pc[a] \notin PreparePCs \union QueuePCs \union AbortTurnPCs \union StartPCs
                     \union AbortRunPCs
    BY <1>0, <1>1 DEF PreparePCs, QueuePCs, AbortTurnPCs, StartPCs, AbortRunPCs
  <2>2. ~PrepareStep(a)
    BY <2>1 DEF PreparePCs, PrepareStep, LoadRun, FoundTurn, RefuseBusy, NoTurnYet, CreateRun,
                ReloadRun, CreateTurn, ActivateTurn, Prepared, Go
  <2>3. ~QueueStep(a) /\ ~AbortTurnStep(a)
    BY <2>1 DEF QueuePCs, QueueStep, EnqueueAgentRun, MarkTurn, MarkRun, EmitQueued,
                AbortTurnPCs, AbortTurnStep, AbortTurn, AbortRow, EmitAborted, Go
  <2> QED
    BY <2>1, <2>2, <2>3 DEF GiveUp
<1>3. CASE ExecuteStep(a)
  <2>1. ~GetTurn(a) /\ ~GetRun(a) /\ ~SetTurn(a) /\ ~SetRun(a) /\ ~EmitStarted(a)
    BY <1>0, <1>1 DEF GetTurn, GetRun, SetTurn, SetRun, EmitStarted, Go
  <2>2. CASE EmitStatus(a)
    BY <2>2 DEF EmitStatus
  <2>3. CASE GetFinished(a) \/ FinalizeRun(a) \/ ReloadFinal(a) \/ FinalizeTurn(a) \/ FinalizeRow(a)
    BY <1>0, <1>1, <2>3 DEF GetFinished, FinalizeRun, ReloadFinal, FinalizeTurn, FinalizeRow
  <2> QED
    BY <1>3, <2>1, <2>2, <2>3 DEF ExecuteStep
<1>4. CASE AgentStep(a)
  <2>1. CASE LoadConversation(a) \/ WriteMeta(a)
    BY <1>0, <1>1, <2>1 DEF LoadConversation, WriteMeta
  <2>2. CASE ReadMeta(a) \/ InitialChunk(a) \/ PersistProgress(a) \/ EndStream(a) \/ FinishChunk(a)
    BY <1>0, <1>1, <2>2 DEF ReadMeta, InitialChunk, PersistProgress, EndStream, FinishChunk
  <2>3. CASE StreamChunk(a)
    BY <1>0, <2>3 DEF StreamChunk
  <2> QED
    BY <1>4, <2>1, <2>2, <2>3 DEF AgentStep
<1>5. CASE WatchForAbort(a) \/ ContextDone(a)
  BY <1>0, <1>5 DEF WatchForAbort, ContextDone
<1> QED
  BY <1>0, <1>2, <1>3, <1>4, <1>5, Kinds DEF Step

\* A turn whose executor was called stays so.
LEMMA StepBegun ==
  ASSUME Typed, Placed, Claimed, Backed, NEW a \in Actors, Step(a) \/ GiveUp(a) \/ ContextDone(a)
  PROVE  BegunStays
<1>1. Acts(a)
  BY StepActs
<1> SUFFICES ASSUME NEW q \in Requests, Begun(q) PROVE Begun(q)'
  BY DEF BegunStays
<1>2. CASE jobs[q] = "completed"
  <2>1. CASE a \in Workers
    <3>1. pc[a] \in ExecutePCs
      BY <1>1, <2>1, RowsTyped DEF LocalsTyped, PlacesOK, May, WorkerPCs, Acts, Resting
    <3>2. at[a].req # q
      BY <1>2, <2>1, <3>1 DEF Claimed, ClaimedJob
    <3> QED
      BY <1>1, <1>2, <3>2 DEF Acts, TouchesOwn, Begun
  <2>2. CASE a \notin Workers
    BY <1>2, <2>2, JobsStay DEF Begun
  <2> QED
    BY <2>1, <2>2
<1>3. CASE \E c \in Attached : q \in Submits[c] /\ answer[c][q] # "none"
  <2>1. PICK c \in Attached : q \in Submits[c] /\ answer[c][q] # "none"
    BY <1>3
  <2>2. c \in Clients /\ (c # a \/ q # at[a].req)
    BY <1>1, <2>1, Kinds DEF Acts, Backed, Unanswered
  <2>3. answer'[c][q] = answer[c][q]
    BY <1>1, <2>2 DEF Acts, TouchesOwn
  <2> QED
    BY <2>1, <2>3 DEF Begun
<1>4. CASE \E b \in Clients \union Workers : pc[b] \in AgentPCs \union FinishPCs /\ at[b].req = q
  <2>1. PICK b \in Clients \union Workers : pc[b] \in AgentPCs \union FinishPCs /\ at[b].req = q
    BY <1>4
  <2>2. CASE b # a
    <3>1. pc'[b] = pc[b] /\ at'[b] = at[b]
      BY <1>1, <2>2, Kinds DEF Acts
    <3> QED
      BY <2>1, <3>1 DEF Begun
  <2>3. CASE b = a /\ pc'[a] \in AgentPCs \union FinishPCs
    <3>1. pc'[a] # "idle" /\ pc[a] # "abcheck"
      BY <2>1, <2>3 DEF AgentPCs, FinishPCs
    <3>2. at'[a].req = at[a].req
      BY <1>1, <3>1 DEF Acts, GoesOnAt
    <3> QED
      BY <2>1, <2>3, <3>2 DEF Begun
  <2>4. CASE b = a /\ Return(a, "ran", "completed")
    <3>1. CASE a \in Workers
      <4>1. jobs'[q] = "completed"
        BY <2>1, <2>4, <3>1, RowsTyped DEF Return
      <4> QED
        BY <4>1 DEF Begun
    <3>2. CASE a \in Clients
      <4>1. pc[a] \in ExecutePCs
        BY <2>1, <2>4 DEF ExecutePCs
      <4>2. a \in Attached /\ q \in Submits[a]
        BY <2>1, <2>4, <3>2, <4>1, Places DEF Claimed, AttachedExecute, OwnRequest
      <4>3. answer'[a][q] = "ran"
        BY <2>1, <2>4, <3>2, RowsTyped DEF Return
      <4> QED
        BY <4>2, <4>3 DEF Begun
    <3> QED
      BY <2>1, <2>4, <3>1, <3>2
  <2> QED
    BY <2>1, <2>2, <2>3, <2>4, Finishes
<1> QED
  BY <1>2, <1>3, <1>4 DEF Begun

\* An executor that announces its start is the first of its turn.
LEMMA FirstStart ==
  ASSUME Typed, Claimed, Backed, StartedBegun, NEW a \in Clients \union Workers, pc[a] = "started"
  PROVE  at[a].req \in Requests /\ ~Announced(at[a].req, "started")
<1> DEFINE q == at[a].req
<1>0. /\ a \in Actors /\ "started" \in ExecutePCs /\ "started" \notin Resting
      /\ "started" \notin Unaware /\ "started" \notin AgentPCs \union FinishPCs
  BY Kinds DEF ExecutePCs, StartPCs, AgentPCs, FinishPCs, Resting, Unaware
<1>1. q \in Requests
  BY <1>0, AwareTyped
<1>2. \/ a \in Workers /\ jobs[q] = "running"
      \/ a \in Attached /\ q \in Submits[a] /\ jobs[q] = "none" /\ answer[a][q] = "none"
  BY <1>0, Kinds DEF Claimed, ClaimedJob, AttachedExecute, OwnRequest, NoJob, Backed, Unanswered
<1>3. ~Begun(q)
  <2>1. jobs[q] # "completed"
    BY <1>2
  <2>2. ASSUME NEW b \in Clients \union Workers, pc[b] \in AgentPCs \union FinishPCs, at[b].req = q
        PROVE  FALSE
    <3>1. pc[b] \in ExecutePCs
      BY <2>2 DEF ExecutePCs
    <3>2. Executes(a, q) /\ Executes(b, q)
      BY <1>0, <2>2, <3>1, Kinds DEF Executes
    <3>3. a = b
      BY <1>1, <3>2, ClaimedExclusive DEF ExclusiveExecution
    <3> QED
      BY <1>0, <2>2, <3>3
  <2>3. ASSUME NEW c \in Attached, q \in Submits[c], answer[c][q] # "none" PROVE FALSE
    <3>1. jobs[q] = "none"
      BY <2>3 DEF Claimed, NoJob
    <3>2. a \in Attached /\ q \in Submits[a] /\ answer[a][q] = "none"
      BY <1>2, <3>1
    <3> QED
      BY <2>3, <3>2, Kinds
  <2> QED
    BY <2>1, <2>2, <2>3 DEF Begun
<1> QED
  BY <1>1, <1>3 DEF StartedBegun

\* EmitStarted appends the first start of its turn.
LEMMA StartKeeps ==
  ASSUME Typed, Placed, Claimed, Backed, StartedOnce, StartedBegun,
         NEW a \in Clients \union Workers, EmitStarted(a)
  PROVE  StartedOnce' /\ StartedBegun'
<1> DEFINE q == at[a].req
           r == at[a].run
           e == [req |-> q, kind |-> "started"]
<1>0. a \in Actors /\ pc[a] = "started" /\ "started" \notin Unaware /\ Emit(a, "started")
  BY Kinds DEF EmitStarted, Go, Unaware
<1>1. q \in Requests /\ ~Announced(q, "started")
  BY <1>0, FirstStart
<1>2. /\ r = RunOf[q] /\ r \in Runs /\ events'[r] = Append(events[r], e)
      /\ \A s \in Runs : s # r => events'[s] = events[s]
  BY <1>0, EmitTouches, AwareTyped DEF Placed, AtItsRun
<1>3. e \in EventRow /\ events[r] \in Seq(EventRow) /\ e.kind = "started" /\ e.req = q
  BY <1>1, <1>2, RowsTyped DEF EventRow
<1>4. \A i \in DOMAIN events[r] : events[r][i] # e
  BY <1>1, <1>2 DEF Announced
<1>5. BegunStays
  BY <1>0, Kinds, StepBegun DEF Step, ExecuteStep
<1>6. \A p \in Requests : p = q => Begun(p)'
  <2>1. pc'[a] = "exec" /\ at' = at
    BY <1>0, RowsTyped DEF EmitStarted, Go, LocalsTyped
  <2>2. "exec" \in AgentPCs
    BY DEF AgentPCs
  <2> QED
    BY <2>1, <2>2 DEF Begun
<1> HIDE DEF e, r, q
<1>7. \A i \in DOMAIN events'[r] :
        \/ i \in DOMAIN events[r] /\ events'[r][i] = events[r][i]
        \/ i = Len(events[r]) + 1 /\ events'[r][i] = e
  BY <1>2, <1>3, AppendHolds
<1>8. StartedOnce'
  <2> SUFFICES ASSUME NEW s \in Runs, NEW i \in DOMAIN events'[s], NEW j \in DOMAIN events'[s],
                      events'[s][i].kind = "started", events'[s][j] = events'[s][i]
               PROVE  i = j
    BY DEF StartedOnce
  <2>1. CASE s # r
    BY <1>2, <2>1 DEF StartedOnce
  <2>2. CASE s = r
    <3>1. CASE i \in DOMAIN events[r] /\ j \in DOMAIN events[r] /\ events'[r][i] = events[r][i]
               /\ events'[r][j] = events[r][j]
      BY <1>2, <2>2, <3>1 DEF StartedOnce
    <3>2. CASE events'[r][i] = e /\ events'[r][j] = e
      BY <1>4, <1>7, <2>2, <3>2
    <3> QED
      BY <1>4, <1>7, <2>2, <3>1, <3>2
  <2> QED
    BY <2>1, <2>2
<1>9. StartedBegun'
  <2> SUFFICES ASSUME NEW p \in Requests, Announced(p, "started")' PROVE Begun(p)'
    BY DEF StartedBegun
  <2>1. PICK i \in DOMAIN events'[RunOf[p]] :
          events'[RunOf[p]][i] = [req |-> p, kind |-> "started"]
    BY DEF Announced
  <2>2. CASE p = q
    BY <1>6, <2>2
  <2>3. CASE p # q
    <3>1. i \in DOMAIN events[RunOf[p]] /\ events'[RunOf[p]][i] = events[RunOf[p]][i]
      <4>1. RunOf[p] \in Runs
        BY RequestsAssumption
      <4>2. events'[RunOf[p]][i] # e
        BY <1>3, <2>1, <2>3 DEF e
      <4> QED
        BY <1>2, <1>7, <2>1, <4>1, <4>2
    <3>2. Announced(p, "started")
      BY <2>1, <3>1 DEF Announced
    <3> QED
      BY <1>5, <3>2 DEF StartedBegun, BegunStays
  <2> QED
    BY <2>2, <2>3
<1> QED
  BY <1>8, <1>9

\* A step that lets the completed jobs, the executors and the answers be.
LEMMA OthersBegun ==
  ASSUME answer' = answer,
         \A q \in Requests : jobs[q] = "completed" => jobs'[q] = "completed",
         \A a \in Clients \union Workers : pc[a] \in AgentPCs \union FinishPCs =>
           pc'[a] = pc[a] /\ at'[a] = at[a]
  PROVE  BegunStays
<1> SUFFICES ASSUME NEW q \in Requests, Begun(q) PROVE Begun(q)'
  BY DEF BegunStays
<1>1. CASE jobs[q] = "completed"
  BY <1>1 DEF Begun
<1>2. CASE \E b \in Clients \union Workers : pc[b] \in AgentPCs \union FinishPCs /\ at[b].req = q
  <2>1. PICK b \in Clients \union Workers : pc[b] \in AgentPCs \union FinishPCs /\ at[b].req = q
    BY <1>2
  <2>2. pc'[b] = pc[b] /\ at'[b] = at[b]
    BY <2>1
  <2> QED
    BY <2>1, <2>2 DEF Begun
<1>3. CASE \E c \in Attached : q \in Submits[c] /\ answer[c][q] # "none"
  BY <1>3 DEF Begun
<1> QED
  BY <1>1, <1>2, <1>3 DEF Begun

\* The operations that begin, and the steps of the environment.
LEMMA BeginBegun ==
  ASSUME NEW a \in Actors, NEW q, NEW r, Begins(a, q, r), answer' = answer,
         \A p \in Requests : jobs[p] = "completed" => jobs'[p] = "completed"
  PROVE  BegunStays
<1>1. "idle" \notin AgentPCs \union FinishPCs
  BY DEF AgentPCs, FinishPCs
<1>2. \A b \in Clients \union Workers : pc[b] \in AgentPCs \union FinishPCs =>
        pc'[b] = pc[b] /\ at'[b] = at[b]
  BY <1>1, Kinds DEF Begins
<1> QED
  BY <1>2, OthersBegun

\* Every step keeps the starts single while nothing has crashed.
LEMMA NextOnce == Typed /\ Placed /\ Claimed /\ Backed /\ Once /\ [Next]_vars => Once'
<1> SUFFICES ASSUME Typed, Placed, Claimed, Backed, Once, [Next]_vars, crashes' = 0
             PROVE  StartedOnce' /\ StartedBegun'
  BY DEF Once
<1>0. Typed' /\ crashes \in 0..MaxCrashes /\ MaxCrashes \in Nat
  BY NextTyped, BoundsAssumption DEF Typed, TypeOK
<1>1. ~Crash
  BY <1>0 DEF Crash
<1>2. CASE \E a \in Actors : Step(a) \/ GiveUp(a) \/ ContextDone(a)
  <2>1. PICK a \in Actors : Step(a) \/ GiveUp(a) \/ ContextDone(a)
    BY <1>2
  <2>2. StartedOnce /\ StartedBegun
    BY <2>1, StepActs DEF Acts, environment, Once
  <2>3. CASE Speaks(a)
    BY <1>0, <2>1, <2>2, <2>3, SpeaksNoStart, StepBegun, NoStartKeeps
  <2>4. CASE a \in Clients \union Workers /\ EmitStarted(a)
    BY <2>2, <2>4, StartKeeps
  <2> QED
    BY <2>1, <2>3, <2>4, StepSpeaks
<1>3. ASSUME events' = events, BegunStays, crashes' = crashes
      PROVE  StartedOnce' /\ StartedBegun'
  <2>1. NoStart
    BY <1>3 DEF NoStart
  <2> QED
    BY <1>0, <1>3, <2>1, NoStartKeeps DEF Once
<1>4. CASE \E c \in Clients, q \in Requests : Submit(c, q)
  <2>1. PICK c \in Clients, q \in Requests : Submit(c, q)
    BY <1>4
  <2>2. /\ c \in Actors /\ Begins(c, q, RunOf[q])
        /\ events' = events /\ jobs' = jobs /\ answer' = answer /\ crashes' = crashes
    BY <2>1, SubmitBegins DEF db, environment
  <2> QED
    BY <1>3, <2>2, BeginBegun
<1>5. CASE \E w \in Workers, q \in Requests : Fetch(w, q)
  <2>1. PICK w \in Workers, q \in Requests : Fetch(w, q)
    BY <1>5
  <2>2. /\ w \in Actors /\ Begins(w, q, RunOf[q]) /\ jobs[q] = "available"
        /\ jobs' = [jobs EXCEPT ![q] = "running"]
        /\ events' = events /\ answer' = answer /\ crashes' = crashes
    BY <2>1, FetchBegins DEF environment
  <2>3. \A p \in Requests : jobs[p] = "completed" => jobs'[p] = "completed"
    BY <2>2, RowsTyped
  <2> QED
    BY <1>3, <2>2, <2>3, BeginBegun
<1>6. CASE \E a \in Aborters, r \in Runs : AbortRun(a, r)
  <2>1. PICK a \in Aborters, r \in Runs : AbortRun(a, r)
    BY <1>6
  <2>2. /\ a \in Actors /\ Begins(a, None, r)
        /\ events' = events /\ jobs' = jobs /\ answer' = answer /\ crashes' = crashes
    BY <2>1, AbortBegins DEF db
  <2> QED
    BY <1>3, <2>2, BeginBegun
<1>7. CASE \E q \in Requests : Rescue(q)
  <2>1. /\ \A q \in Requests : jobs[q] = "completed" => jobs'[q] = "completed"
        /\ UNCHANGED <<events, pc, at, answer, crashes>>
    BY <1>7, RowsTyped DEF Rescue, environment
  <2> QED
    BY <1>3, <2>1, OthersBegun
<1>8. CASE Restart
  <2>1. /\ \A a \in Actors : pc'[a] = pc[a] \/ pc[a] = "dead"
        /\ UNCHANGED <<events, jobs, at, answer, crashes>>
    <3>1. PICK a \in Mortal : pc[a] = "dead"
      BY <1>8 DEF Restart
    <3>2. \A b \in Mortal : pc[b] = "dead"
      BY <3>1 DEF Backed, DeadTogether
    <3> QED
      BY <1>8, <3>2 DEF Restart, db
  <2>2. "dead" \notin AgentPCs \union FinishPCs
    BY DEF AgentPCs, FinishPCs
  <2> QED
    BY <1>3, <2>1, <2>2, Kinds, OthersBegun
<1>9. CASE StartServer \/ UNCHANGED vars
  <2>1. UNCHANGED <<events, jobs, pc, at, answer, crashes>>
    BY <1>9 DEF StartServer, db, vars
  <2> QED
    BY <1>3, <2>1, OthersBegun
<1>10. CASE MarkStaleAborted
  <2>1. UNCHANGED <<jobs, pc, at, answer, crashes>>
    BY <1>10 DEF MarkStaleAborted
  <2>2. BegunStays
    BY <2>1, OthersBegun
  <2>3. NoStart
    <3>1. PICK named \in [Runs -> Requests \union {None}] :
            events' = [r \in Runs |->
                         IF named[r] = None THEN events[r]
                         ELSE Append(events[r], [req |-> named[r], kind |-> "status"])]
      BY <1>10 DEF MarkStaleAborted
    <3>2. ASSUME NEW r \in Runs, named[r] # None
          PROVE  \E e \in EventRow : events'[r] = Append(events[r], e) /\ e.kind # "started"
      <4> DEFINE e == [req |-> named[r], kind |-> "status"]
      <4>1. e \in EventRow /\ e.kind # "started"
        BY <3>2 DEF EventRow
      <4>2. events'[r] = Append(events[r], e)
        BY <3>1, <3>2
      <4> QED
        BY <4>1, <4>2
    <3>3. \A r \in Runs : named[r] = None => events'[r] = events[r]
      BY <3>1
    <3> QED
      BY <3>2, <3>3 DEF NoStart
  <2> QED
    BY <1>0, <2>1, <2>2, <2>3, NoStartKeeps DEF Once
<1> QED
  BY <1>1, <1>2, <1>4, <1>5, <1>6, <1>7, <1>8, <1>9, <1>10 DEF Next

\* At the start the logs are empty.
LEMMA InitOnce == Init => Once
<1> SUFFICES ASSUME Init PROVE StartedOnce /\ StartedBegun
  BY DEF Once
<1>1. \A r \in Runs : events[r] = <<>>
  BY DEF Init
<1>2. DOMAIN <<>> = {}
  OBVIOUS
<1> QED
  BY <1>1, <1>2, RequestsAssumption DEF StartedOnce, StartedBegun, Announced

\* As long as no process crashes, a turn is started at most once, whatever
\* MarkTurnQueued writes back over its row and however often its message is
\* submitted or given up.
THEOREM StartsOnce == Spec => [](crashes = 0 => StartedOnce)
<1> DEFINE Inv == Typed /\ Placed /\ Claimed /\ Backed /\ Once
<1>1. Init => Inv
  BY InitTyped, InitPlaced, InitClaimed, InitBacked, InitOnce
<1>2. Inv /\ [Next]_vars => Inv'
  BY NextTyped, NextPlaced, NextClaimed, NextFollows, NextOnce
<1>3. Inv => (crashes = 0 => StartedOnce)
  BY DEF Once
<1> QED
  BY <1>1, <1>2, <1>3, PTL DEF Spec

-----------------------------------------------------------------------------
(* A conversation that one attached client holds.                          *)

\* Only c submits to run r, and c executes its turns itself.
Sole(c, r) ==
  /\ c \in Attached
  /\ \A d \in Clients : \A q \in Submits[d] : RunOf[q] = r => d = c

\* No process has crashed and no second server was started.
Calm == crashes = 0 /\ boots = 0

\* Then nobody is dead and nobody cleans up.
Peace == Calm => ~cleaning /\ \A a \in Actors : pc[a] # "dead"

AtWork(a, r) == pc[a] \notin Resting /\ at[a].run = r

\* The rest of the world only asks the run to stop.
OnlyAborts(c, r) ==
  \A a \in Actors : AtWork(a, r) /\ a # c =>
    /\ a \in Aborters /\ pc[a] \in {"abget", "abreq", "abcheck"}
    /\ runs[r].status # "absent"

NoQueue(r) == \A q \in Requests : RunOf[q] = r => jobs[q] = "none" /\ ~turns[q].job

\* The row of the run keeps up with its log and with its completed turns.
RowHeld(r) ==
  /\ runs[r].status # "queued"
  /\ runs[r].status = "absent" => runs[r] = NoRun
  /\ runs[r].last = Len(events[r])
  /\ \A q \in Requests : RunOf[q] = r /\ turns[q].status = "completed" => q \in runs[r].trace

EarlyPCs == {"load", "lookup", "create", "reload", "insert"}

\* A turn of the run is one that c was told about, or is working on.
Mine(c, r) ==
  \A q \in Requests : RunOf[q] = r /\ turns[q].status # "absent" =>
    /\ q \in Submits[c]
    /\ answer[c][q] # "none" \/ (AtWork(c, r) /\ at[c].req = q /\ pc[c] \notin EarlyPCs)

\* An abort request is the only difference.
Same(x, y) ==
  x.status = y.status /\ x.active = y.active /\ x.last = y.last /\ x.trace = y.trace

\* Where c is about to write back the row it has read.
FreshPCs == {"lookup", "insert", "activate", "setturn", "setrun", "abturn", "abrow",
             "writemeta", "finalrun", "finalturn", "finalrow"}
Fresh(c) == pc[c] \in FreshPCs => Same(at[c].row, Run(c))

\* The conversation that the executor holds in memory is the longer one.
Remembers(c) ==
  /\ pc[c] \in AgentPCs \ {"exec"} => Run(c).trace \subseteq at[c].mem /\ at[c].req \in at[c].mem
  /\ pc[c] \in AgentPCs \union {"started", "execdone", "finalrun", "finalreload", "finalturn"}
       => (Run(c).status = "completed" => at[c].req \in Run(c).trace)

\* The turn that c has created goes to the executor.
Starts(c) ==
  /\ ~at[c].turn.job
  /\ pc[c] \notin {"load", "create"} => Run(c).status # "absent"
  /\ pc[c] \in {"activate", "prepared", "getturn"} => turns[at[c].req].status = "running"
  /\ pc[c] = "getrun" => at[c].turn.status = "running"

\* The executor leaves the run ended, or its error does.
Ends(c) ==
  /\ at[c].want \in {"running"} \union Terminal
  /\ pc[c] = "finish" => Run(c).status = at[c].want /\ at[c].want \in Terminal
  /\ pc[c] = "execdone" /\ ~at[c].err => Run(c).status = "completed"
  /\ pc[c] = "finalreload" => Run(c).status \in Terminal
  /\ pc[c] \in {"finalturn", "finalrow"} => at[c].row.status \in Terminal
  /\ pc[c] \in {"abemit", "emitstatus"} => ~IsBusy(Run(c))

Tends(c) == Fresh(c) /\ Remembers(c) /\ Starts(c) /\ Ends(c)

\* The run is free until c takes it, and again after c has let go of it.
FreePCs == {"load", "lookup", "create"}
Free(c, r) ==
  Undisturbed(r) /\ (AtWork(c, r) => pc[c] \in FreePCs) => ~IsBusy(runs[r])

Held(c, r) == /\ OnlyAborts(c, r) /\ NoQueue(r) /\ RowHeld(r) /\ Mine(c, r) /\ Free(c, r)
              /\ AtWork(c, r) => Tends(c)

HeldRuns == \A c \in Clients, r \in Runs : Sole(c, r) => Held(c, r)

\* A client at work is at one of its requests, at its run.
LEMMA ClientAtWork ==
  ASSUME Typed, Placed, Claimed, Backed, NEW c \in Attached, pc[c] \notin Resting
  PROVE  /\ c \in Actors /\ c \in Clients /\ at[c].req \in Submits[c] /\ at[c].req \in Requests
         /\ at[c].run = RunOf[at[c].req] /\ at[c].run \in Runs
         /\ pc[c] \in PreparePCs \union ExecutePCs
         /\ answer[c][at[c].req] = "none"
<1>1. c \in Clients /\ c \in Actors
  BY Kinds
<1>2. pc[c] \in PreparePCs \union QueuePCs \union ExecutePCs
  BY <1>1, RowsTyped DEF LocalsTyped, PlacesOK, May, ClientPCs, Resting
<1>3. pc[c] \notin QueuePCs
  BY <1>1 DEF Claimed, AttachedExecute
<1>4. at[c].req \in Requests
  BY <1>1, <1>2, AwareTyped, AtWorkPlaces
<1>5. at[c].req \in Submits[c] /\ answer[c][at[c].req] = "none"
  BY <1>1 DEF Claimed, OwnRequest, Backed, Unanswered
<1> QED
  BY <1>1, <1>2, <1>3, <1>4, <1>5, AwareTyped DEF Placed, AtItsRun

\* A step that passes the conversation by, or only asks it to stop.
LEMMA FrameHeld ==
  ASSUME Typed, Placed, Claimed, Backed, NEW c \in Clients, NEW r \in Runs, Sole(c, r), Held(c, r),
         Same(runs'[r], runs[r]), runs[r].status = "absent" => runs'[r] = runs[r],
         events'[r] = events[r],
         \A q \in Requests : RunOf[q] = r =>
           /\ jobs'[q] = jobs[q] /\ turns'[q] = turns[q]
           /\ \A d \in Clients : answer'[d][q] = answer[d][q],
         OnlyAborts(c, r)',
         AtWork(c, r)' <=> AtWork(c, r),
         AtWork(c, r) => pc'[c] = pc[c] /\ at'[c] = at[c]
  PROVE  Held(c, r)'
<1>0. /\ runs'[r].status = runs[r].status /\ runs'[r].active = runs[r].active
      /\ runs'[r].last = runs[r].last /\ runs'[r].trace = runs[r].trace
  BY DEF Same
<1>1. NoQueue(r)'
  BY DEF Held, NoQueue
<1>2. RowHeld(r)'
  BY <1>0 DEF Held, RowHeld
<1>3. Mine(c, r)'
  BY DEF Held, Mine
<1>4. Free(c, r)'
  <2>1. Undisturbed(r)' => Undisturbed(r)
    BY DEF Undisturbed
  <2>2. IsBusy(runs'[r]) <=> IsBusy(runs[r])
    BY <1>0 DEF IsBusy
  <2>3. (AtWork(c, r) => pc[c] \in FreePCs)' => (AtWork(c, r) => pc[c] \in FreePCs)
    OBVIOUS
  <2> QED
    BY <2>1, <2>2, <2>3 DEF Held, Free
<1>5. ASSUME AtWork(c, r) PROVE Tends(c)'
  <2>1. /\ Tends(c) /\ at[c].run = r /\ pc'[c] = pc[c] /\ at'[c] = at[c]
        /\ at[c].req \in Requests /\ RunOf[at[c].req] = r
    BY <1>5, ClientAtWork DEF Held, AtWork, Sole
  <2>2. turns'[at[c].req] = turns[at[c].req]
    BY <2>1
  <2>3. Fresh(c)'
    BY <1>0, <2>1 DEF Tends, Fresh, Same, Run
  <2>4. Remembers(c)'
    BY <1>0, <2>1 DEF Tends, Remembers, Run
  <2>5. Starts(c)'
    BY <1>0, <2>1, <2>2 DEF Tends, Starts, Run
  <2>6. Ends(c)'
    BY <1>0, <2>1 DEF Tends, Ends, Run, IsBusy
  <2> QED
    BY <2>3, <2>4, <2>5, <2>6 DEF Tends
<1> QED
  BY <1>1, <1>2, <1>3, <1>4, <1>5 DEF Held

\* A statement of an actor at another run.
LEMMA OutsideHeld ==
  ASSUME Typed, Placed, Claimed, Backed, NEW c \in Clients, NEW r \in Runs, Sole(c, r), Held(c, r),
         NEW a \in Actors, Acts(a), at[a].run # r
  PROVE  Held(c, r)'
<1>1. \A q \in Requests : RunOf[q] = r => q # at[a].req
  BY DEF Placed, AtItsRun
<1>2. /\ runs'[r] = runs[r] /\ events'[r] = events[r]
      /\ \A q \in Requests : RunOf[q] = r =>
           /\ jobs'[q] = jobs[q] /\ turns'[q] = turns[q]
           /\ \A d \in Clients : answer'[d][q] = answer[d][q]
  BY <1>1 DEF Acts, TouchesOwn
<1>3. ~AtWork(a, r) /\ ~AtWork(a, r)'
  BY DEF AtWork, Acts, GoesOnAt, Resting
<1>4. \A b \in Actors : b # a => pc'[b] = pc[b] /\ at'[b] = at[b]
  BY DEF Acts
<1>5. OnlyAborts(c, r)'
  BY <1>2, <1>3, <1>4 DEF OnlyAborts, Held, AtWork
<1>6. AtWork(c, r)' <=> AtWork(c, r)
  BY <1>3, <1>4, Kinds DEF AtWork
<1>7. AtWork(c, r) => pc'[c] = pc[c] /\ at'[c] = at[c]
  BY <1>3, <1>4, Kinds
<1>8. Same(runs'[r], runs[r])
  BY <1>2 DEF Same
<1> QED
  BY <1>2, <1>5, <1>6, <1>7, <1>8, FrameHeld

\* A step that moves nobody at the run.
LEMMA StillHeld ==
  ASSUME Typed, Placed, Claimed, Backed, NEW c \in Clients, NEW r \in Runs, Sole(c, r), Held(c, r),
         runs' = runs, events' = events, turns' = turns, answer' = answer,
         \A q \in Requests : RunOf[q] = r => jobs'[q] = jobs[q],
         \A b \in Actors : AtWork(b, r) \/ AtWork(b, r)' =>
           (pc'[b] = pc[b] /\ at'[b] = at[b])
           \/ (b \in Aborters /\ pc'[b] = "abget" /\ runs[r].status # "absent")
  PROVE  Held(c, r)'
<1>1. OnlyAborts(c, r)'
  BY DEF OnlyAborts, Held, AtWork
<1>2. AtWork(c, r) \/ AtWork(c, r)' => pc'[c] = pc[c] /\ at'[c] = at[c]
  BY Kinds
<1>3. AtWork(c, r)' <=> AtWork(c, r)
  BY <1>2 DEF AtWork
<1>4. Same(runs'[r], runs[r])
  BY DEF Same
<1> QED
  BY <1>1, <1>2, <1>3, <1>4, FrameHeld

\* An aborter leaves a running conversation to its watcher.
LEMMA AborterHeld ==
  ASSUME Typed, Placed, Claimed, Backed, NEW c \in Clients, NEW r \in Runs, Sole(c, r), Held(c, r),
         NEW a \in Aborters, Step(a) \/ GiveUp(a) \/ ContextDone(a), at[a].run = r
  PROVE  Held(c, r)'
<1>0. /\ a \in Actors /\ a \notin Clients /\ a \notin Workers /\ a # c /\ Acts(a)
  BY Kinds, StepActs
<1>1. /\ pc[a] \in {"abget", "abreq", "abcheck"} /\ runs[r].status # "absent"
      /\ runs[r].status # "queued"
  BY <1>0 DEF Held, OnlyAborts, AtWork, Acts, RowHeld
<1>2. \/ CheckRun(a) \/ RequestAbort(a) \/ RecheckRun(a) \/ GiveUp(a)
  <2>1. ~AbortTurnStep(a) /\ ~AbortIdleRun(a) /\ ~GetActiveTurn(a) /\ ~ContextDone(a)
    BY <1>1 DEF AbortTurnStep, AbortTurn, AbortRow, EmitAborted, AbortIdleRun, GetActiveTurn,
                ContextDone, WatchedPCs, AgentPCs, Go
  <2> QED
    BY <1>0, <2>1 DEF Step, AbortRunStep
<1>3. /\ jobs' = jobs /\ turns' = turns /\ events' = events /\ answer' = answer
  BY <1>0, <1>2 DEF CheckRun, RequestAbort, RecheckRun, GiveUp, Return, db
<1>4. Same(runs'[r], runs[r])
  <2>1. CASE RequestAbort(a)
    <3> DEFINE row == [runs[r] EXCEPT !.cancel = TRUE]
    <3>1. row.status = runs[r].status /\ row.active = runs[r].active
          /\ row.last = runs[r].last /\ row.trace = runs[r].trace
      BY RowsTyped DEF RunRow
    <3>2. runs' = [runs EXCEPT ![r] = row]
      BY <2>1 DEF RequestAbort
    <3> HIDE DEF row
    <3>3. runs'[r] = row
      BY <3>2, RowsTyped
    <3> QED
      BY <3>1, <3>3 DEF Same
  <2>2. CASE ~RequestAbort(a)
    BY <1>2, <2>2 DEF CheckRun, RecheckRun, GiveUp, db, Same
  <2> QED
    BY <2>1, <2>2
<1>5. pc'[a] \in {"idle", "abreq", "abcheck"}
  <2>1. CASE RecheckRun(a)
    BY <1>0, <1>1, <2>1, RowsTyped DEF RecheckRun, Return, LocalsTyped, Run
  <2>2. CASE ~RecheckRun(a)
    BY <1>0, <1>2, <2>2, RowsTyped DEF CheckRun, RequestAbort, GiveUp, Go, Return, LocalsTyped
  <2> QED
    BY <2>1, <2>2
<1>6. /\ \A b \in Actors : b # a => pc'[b] = pc[b] /\ at'[b] = at[b]
      /\ pc'[c] = pc[c] /\ at'[c] = at[c]
  BY <1>0, Kinds DEF Acts
<1>7. runs'[r].status # "absent"
  BY <1>1, <1>4 DEF Same
<1>8. OnlyAborts(c, r)'
  BY <1>5, <1>6, <1>7 DEF OnlyAborts, Held, AtWork, Resting
<1> QED
  BY <1>1, <1>3, <1>4, <1>6, <1>8, FrameHeld DEF AtWork

\* What c may do to the row of its run: the log and the turns are followed.
RowMoves(r) ==
  /\ runs'[r] = runs[r] \/ runs'[r].status \notin {"queued", "absent"}
  /\ runs'[r].last = Len(events'[r])
  /\ runs[r].trace \subseteq runs'[r].trace

\* What it may do to the row of its turn.
TurnMoves(c, r) ==
  \/ turns' = turns
  \/ /\ ~turns'[at[c].req].job
     /\ pc'[c] \notin EarlyPCs
     /\ turns'[at[c].req].status = "completed" => at[c].req \in runs'[r].trace

\* Nobody else is moved.
LEMMA OwnAlone ==
  ASSUME NEW c \in Clients, NEW r \in Runs, Held(c, r), Acts(c), RowMoves(r)
  PROVE  OnlyAborts(c, r)'
<1>1. runs[r].status # "absent" => runs'[r].status # "absent"
  BY DEF RowMoves
<1>2. \A b \in Actors : b # c => pc'[b] = pc[b] /\ at'[b] = at[b]
  BY DEF Acts
<1> QED
  BY <1>1, <1>2 DEF Held, OnlyAborts, AtWork

\* A statement of c at its run keeps the row and its log together.
LEMMA OwnRow ==
  ASSUME NEW c \in Clients, NEW r \in Runs, Held(c, r), Acts(c),
         at[c].req \in Requests, RowMoves(r), TurnMoves(c, r)
  PROVE  RowHeld(r)'
<1>1. /\ runs'[r].status # "queued"
      /\ runs'[r].status = "absent" => runs'[r] = NoRun
      /\ runs'[r].last = Len(events'[r])
  BY DEF Held, RowHeld, RowMoves
<1>2. ASSUME NEW q \in Requests, RunOf[q] = r, turns'[q].status = "completed"
      PROVE  q \in runs'[r].trace
  <2>1. CASE turns'[q] = turns[q]
    BY <1>2, <2>1 DEF Held, RowHeld, RowMoves
  <2>2. CASE turns'[q] # turns[q]
    <3>1. q = at[c].req
      BY <2>2 DEF Acts, TouchesOwn
    <3> QED
      BY <1>2, <2>2, <3>1 DEF TurnMoves
  <2> QED
    BY <2>1, <2>2
<1> QED
  BY <1>1, <1>2 DEF RowHeld

\* A statement of c puts no turn of its run on the queue.
LEMMA OwnQueue ==
  ASSUME NEW c \in Clients, NEW r \in Runs, Held(c, r), Acts(c), jobs' = jobs, TurnMoves(c, r)
  PROVE  NoQueue(r)'
<1> SUFFICES ASSUME NEW q \in Requests, RunOf[q] = r PROVE jobs'[q] = "none" /\ ~turns'[q].job
  BY DEF NoQueue
<1>1. jobs[q] = "none" /\ ~turns[q].job
  BY DEF Held, NoQueue
<1>2. q # at[c].req => turns'[q] = turns[q]
  BY DEF Acts, TouchesOwn
<1> QED
  BY <1>1, <1>2 DEF TurnMoves

\* A statement of c that goes on.
LEMMA OwnHeld ==
  ASSUME Typed, Placed, Claimed, Backed, NEW c \in Clients, NEW r \in Runs, Sole(c, r), Held(c, r),
         Acts(c), at[c].run = r, pc'[c] # "idle", answer' = answer, jobs' = jobs,
         RowMoves(r), TurnMoves(c, r),
         pc[c] \notin EarlyPCs => pc'[c] \notin EarlyPCs,
         pc'[c] \in FreePCs => pc[c] \in FreePCs /\ runs'[r] = runs[r],
         Tends(c)'
  PROVE  Held(c, r)'
<1>0. /\ pc[c] \notin Resting /\ AtWork(c, r) /\ at[c].req \in Submits[c] /\ at[c].req \in Requests
      /\ pc[c] # "abcheck"
  <2>1. pc[c] \notin Resting
    BY DEF Acts
  <2>2. "abcheck" \notin PreparePCs \union ExecutePCs
    BY DEF PreparePCs, ExecutePCs, StartPCs, AgentPCs, FinishPCs, AbortTurnPCs
  <2> QED
    BY <2>1, <2>2, ClientAtWork DEF AtWork, Sole
<1>1. /\ at'[c].run = r /\ at'[c].req = at[c].req /\ pc'[c] \notin Resting
      /\ AtWork(c, r)'
  BY <1>0 DEF Acts, GoesOnAt, AtWork
<1>2. Mine(c, r)'
  <2> SUFFICES ASSUME NEW q \in Requests, RunOf[q] = r, turns'[q].status # "absent"
               PROVE  /\ q \in Submits[c]
                      /\ \/ answer'[c][q] # "none"
                         \/ AtWork(c, r)' /\ at'[c].req = q /\ pc'[c] \notin EarlyPCs
    BY DEF Mine
  <2>1. CASE turns[q].status # "absent"
    BY <1>1, <2>1 DEF Held, Mine
  <2>2. CASE turns[q].status = "absent"
    <3>1. q = at[c].req /\ turns' # turns
      BY <2>2 DEF Acts, TouchesOwn
    <3> QED
      BY <1>0, <1>1, <3>1 DEF TurnMoves
  <2> QED
    BY <2>1, <2>2
<1>3. Free(c, r)'
  <2> SUFFICES ASSUME Undisturbed(r)', pc'[c] \in FreePCs PROVE ~IsBusy(runs'[r])
    BY <1>1 DEF Free
  <2>1. Undisturbed(r) /\ pc[c] \in FreePCs /\ runs'[r] = runs[r]
    BY DEF Undisturbed
  <2> QED
    BY <2>1 DEF Held, Free
<1> QED
  BY <1>0, <1>2, <1>3, OwnAlone, OwnRow, OwnQueue DEF Held

\* A statement of c that returns, and a cancelled context.
LEMMA OwnReturns ==
  ASSUME Typed, Placed, Claimed, Backed, NEW c \in Clients, NEW r \in Runs, Sole(c, r), Held(c, r),
         Acts(c), at[c].run = r, NEW result \in Answers \ {"none"}, NEW outcome,
         Return(c, result, outcome), turns' = turns, RowMoves(r),
         \/ result = "lost"
         \/ ~IsBusy(runs'[r])
         \/ pc[c] \in FreePCs /\ runs'[r] = runs[r]
  PROVE  Held(c, r)'
<1>0. /\ pc[c] \notin Resting /\ AtWork(c, r) /\ at[c].req \in Submits[c] /\ at[c].req \in Requests
      /\ c \notin Workers /\ RunOf[at[c].req] = r /\ answer[c][at[c].req] = "none"
  <2>1. pc[c] \notin Resting
    BY DEF Acts
  <2> QED
    BY <2>1, ClientAtWork, Kinds DEF AtWork, Sole
<1>1. /\ pc'[c] = "idle" /\ jobs' = jobs /\ answer'[c][at[c].req] = result
      /\ ~AtWork(c, r)'
  <2>1. /\ pc' = [pc EXCEPT ![c] = "idle"] /\ jobs' = jobs
        /\ answer' = [answer EXCEPT ![c][at[c].req] = result]
    BY <1>0 DEF Return
  <2>2. pc'[c] = "idle"
    BY <2>1, <1>0, Kinds, RowsTyped DEF LocalsTyped
  <2>3. answer'[c][at[c].req] = result
    BY <2>1, <1>0, RowsTyped
  <2> QED
    BY <2>1, <2>2, <2>3 DEF AtWork, Resting
<1>2. Mine(c, r)'
  <2> SUFFICES ASSUME NEW q \in Requests, RunOf[q] = r, turns[q].status # "absent"
               PROVE  q \in Submits[c] /\ answer'[c][q] # "none"
    BY DEF Mine
  <2>1. CASE q = at[c].req
    BY <1>0, <1>1, <2>1
  <2>2. CASE q # at[c].req
    BY <2>2 DEF Held, Mine, Acts, TouchesOwn
  <2> QED
    BY <2>1, <2>2
<1>3. Free(c, r)'
  <2> SUFFICES ASSUME Undisturbed(r)' PROVE ~IsBusy(runs'[r])
    BY DEF Free
  <2>1. result # "lost"
    BY <1>0, <1>1 DEF Undisturbed
  <2>2. Undisturbed(r)
    <3> SUFFICES ASSUME NEW d \in Clients, NEW q \in Requests, RunOf[q] = r
                 PROVE  answer[d][q] # "lost"
      BY DEF Undisturbed
    <3>1. answer'[d][q] # "lost"
      BY DEF Undisturbed
    <3>2. d # c \/ q # at[c].req => answer'[d][q] = answer[d][q]
      BY DEF Acts, TouchesOwn
    <3> QED
      BY <1>0, <3>1, <3>2
  <2> QED
    BY <2>1, <2>2 DEF Held, Free
<1>4. TurnMoves(c, r)
  BY DEF TurnMoves
<1> QED
  BY <1>0, <1>1, <1>2, <1>3, <1>4, OwnAlone, OwnRow, OwnQueue DEF Held

\* The local variables that Tends looks at.
KeepsView(a) ==
  /\ at'[a].run = at[a].run /\ at'[a].req = at[a].req /\ at'[a].turn = at[a].turn
  /\ at'[a].mem = at[a].mem /\ at'[a].want = at[a].want /\ at'[a].err = at[a].err

\* ReadRun refreshes the copy of the row and no other local variable.
LEMMA RowRead ==
  ASSUME Typed, NEW a \in Actors, ReadRun(a)
  PROVE  KeepsView(a) /\ at'[a].row = Run(a)
<1> DEFINE l == [at[a] EXCEPT !.row = Run(a)]
<1>1. /\ l.run = at[a].run /\ l.req = at[a].req /\ l.turn = at[a].turn /\ l.mem = at[a].mem
      /\ l.want = at[a].want /\ l.err = at[a].err /\ l.row = Run(a)
  BY AwareTyped DEF Local
<1>2. at' = [at EXCEPT ![a] = l]
  BY DEF ReadRun
<1> HIDE DEF l
<1>3. at'[a] = l
  BY <1>2, RowsTyped DEF LocalsTyped
<1> QED
  BY <1>1, <1>3 DEF KeepsView

\* A statement that leaves the run and its log.
LEMMA RowStays ==
  ASSUME NEW c, NEW r, Held(c, r), runs' = runs, events' = events
  PROVE  RowMoves(r)
BY DEF Held, RowHeld, RowMoves

\* An event of c, which keeps last_event_id at the end of the log.
LEMMA EmitMovesRow ==
  ASSUME Typed, Placed, NEW c \in Clients, NEW r \in Runs, Held(c, r), at[c].run = r,
         pc[c] \notin Unaware, runs[r].status # "absent", NEW kind, Emit(c, kind)
  PROVE  /\ RowMoves(r)
         /\ runs'[r].status = runs[r].status /\ runs'[r].active = runs[r].active
         /\ runs'[r].trace = runs[r].trace
<1>1. c \in Actors
  BY Kinds
<1>2. /\ runs'[r].status = runs[r].status /\ runs'[r].active = runs[r].active
      /\ runs'[r].trace = runs[r].trace /\ runs'[r].last = Len(events'[r])
  BY <1>1, EmitTouches DEF Run
<1> QED
  BY <1>2 DEF RowMoves, Held, RowHeld

\* What is known of c at work at its run.
Working(c, r) ==
  /\ Typed /\ Placed /\ Claimed /\ Backed
  /\ c \in Clients /\ r \in Runs /\ Sole(c, r) /\ Held(c, r) /\ Acts(c) /\ at[c].run = r

\* What a working client is known to be.
LEMMA WorkingFacts ==
  ASSUME NEW c, NEW r, Working(c, r)
  PROVE  /\ c \in Actors /\ c \in Clients /\ c \in Attached /\ c \notin Workers /\ r \in Runs
         /\ Typed /\ Placed /\ Claimed /\ Backed /\ Held(c, r) /\ Acts(c) /\ Sole(c, r)
         /\ at[c].run = r /\ Run(c) = runs[r] /\ RunOf[at[c].req] = r
         /\ at[c].req \in Requests /\ at[c].req \in Submits[c]
         /\ answer[c][at[c].req] = "none"
         /\ pc[c] \notin Unaware /\ pc[c] \in PreparePCs \union ExecutePCs
         /\ Fresh(c) /\ Remembers(c) /\ Starts(c) /\ Ends(c)
         /\ RowHeld(r) /\ Mine(c, r)
         /\ at[c].err \in BOOLEAN /\ at[c].cancelled \in BOOLEAN
<1>1. c \in Attached /\ c \in Clients /\ pc[c] \notin Resting /\ AtWork(c, r) /\ c \notin Workers
  BY Kinds DEF Working, Sole, Acts, AtWork
<1>2. Tends(c)
  BY <1>1 DEF Working, Held
<1>3. /\ c \in Actors /\ at[c].req \in Requests /\ at[c].req \in Submits[c]
      /\ RunOf[at[c].req] = r /\ answer[c][at[c].req] = "none"
      /\ pc[c] \in PreparePCs \union ExecutePCs
  BY <1>1, ClientAtWork DEF Working
<1>4. pc[c] \notin Unaware
  BY <1>3, AtWorkPlaces
<1>5. at[c].err \in BOOLEAN /\ at[c].cancelled \in BOOLEAN
  BY <1>3, AwareTyped, LocalFields DEF Working
<1> QED
  BY <1>1, <1>2, <1>3, <1>4, <1>5 DEF Working, Tends, Held, Run

\* While c has not created the turn there is none.
LEMMA NoTurnThere ==
  ASSUME NEW c, NEW r, Working(c, r), pc[c] \in EarlyPCs
  PROVE  turns[at[c].req].status = "absent"
BY WorkingFacts DEF Mine

\* The statement to be shown, once its effects are known.
LEMMA WorkHeld ==
  ASSUME NEW c, NEW r, Working(c, r),
         pc'[c] # "idle", answer' = answer, jobs' = jobs, RowMoves(r), TurnMoves(c, r),
         pc[c] \notin EarlyPCs => pc'[c] \notin EarlyPCs,
         pc'[c] \in FreePCs => pc[c] \in FreePCs /\ runs'[r] = runs[r],
         Fresh(c)', Remembers(c)', Starts(c)', Ends(c)'
  PROVE  Held(c, r)'
BY WorkingFacts, OwnHeld DEF Tends

\* The statement to be shown, when it is the last one.
LEMMA WorkReturns ==
  ASSUME NEW c, NEW r, Working(c, r), NEW result \in Answers \ {"none"}, NEW outcome,
         Return(c, result, outcome), turns' = turns, RowMoves(r),
         \/ result = "lost"
         \/ ~IsBusy(runs'[r])
         \/ pc[c] \in FreePCs /\ runs'[r] = runs[r]
  PROVE  Held(c, r)'
BY WorkingFacts, OwnReturns

\* prepareRun: the row is loaded or created and the turn inserted.
LEMMA PrepareHeld ==
  ASSUME NEW c, NEW r, Working(c, r), PrepareStep(c)
  PROVE  Held(c, r)'
<1>0. /\ c \in Actors /\ c \in Attached /\ r \in Runs /\ Typed /\ Held(c, r)
      /\ at[c].run = r /\ Run(c) = runs[r] /\ at[c].req \in Requests
      /\ ModeStatus(c) = "running"
      /\ \A to : pc' = [pc EXCEPT ![c] = to] => pc'[c] = to
  BY WorkingFacts, RowsTyped DEF ModeStatus, LocalsTyped
<1>t. turns' = turns => TurnMoves(c, r)
  BY DEF TurnMoves
<1>v. at' = at => KeepsView(c) /\ at'[c].row = at[c].row
  BY DEF KeepsView
<1>1. CASE LoadRun(c)
  <2>1. /\ pc[c] = "load" /\ pc'[c] = IF runs[r].status = "absent" THEN "create" ELSE "lookup"
        /\ KeepsView(c) /\ at'[c].row = runs[r]
        /\ UNCHANGED <<runs, turns, events, jobs, answer>>
    BY <1>0, <1>1, RowRead DEF LoadRun, Go, db
  <2>2. RowMoves(r)
    BY <1>0, <2>1, RowStays
  <2>3. Fresh(c)' /\ Remembers(c)' /\ Starts(c)' /\ Ends(c)'
    BY <1>0, <2>1, WorkingFacts
       DEF KeepsView, Fresh, Same, Remembers, Starts, Ends, FreshPCs, AgentPCs, Run
  <2> QED
    BY <1>0, <1>t, <2>1, <2>2, <2>3, WorkHeld DEF FreePCs, EarlyPCs
<1>2. CASE FoundTurn(c)
  BY <1>2, NoTurnThere DEF FoundTurn, EarlyPCs
<1>3. CASE RefuseBusy(c)
  BY <1>0, <1>3, RowStays, WorkReturns DEF RefuseBusy, FreePCs, Answers
<1>4. CASE NoTurnYet(c)
  <2>1. /\ pc[c] = "lookup" /\ pc'[c] = "insert" /\ at' = at
        /\ UNCHANGED <<runs, turns, events, jobs, answer>>
    BY <1>0, <1>4 DEF NoTurnYet, Go, db
  <2>2. RowMoves(r)
    BY <1>0, <2>1, RowStays
  <2>3. Fresh(c)' /\ Remembers(c)' /\ Starts(c)' /\ Ends(c)'
    BY <1>0, <1>v, <2>1, WorkingFacts
       DEF KeepsView, Fresh, Same, Remembers, Starts, Ends, FreshPCs, AgentPCs, Run
  <2> QED
    BY <1>0, <1>t, <2>1, <2>2, <2>3, WorkHeld DEF FreePCs, EarlyPCs
<1>5. CASE CreateRun(c)
  <2>1. CASE /\ Go(c, "create", "reload") /\ Run(c).status = "absent"
             /\ runs' = [runs EXCEPT ![at[c].run] = [NoRun EXCEPT !.status = ModeStatus(c)]]
             /\ UNCHANGED <<turns, events, jobs, at, answer, environment>>
    <3> DEFINE row == [NoRun EXCEPT !.status = "running"]
    <3>1. row.status = "running" /\ row.last = 0 /\ row.trace = {} /\ row.active = None
      BY DEF NoRun
    <3>2. runs' = [runs EXCEPT ![r] = row] /\ pc[c] = "create" /\ pc'[c] = "reload"
      BY <1>0, <2>1 DEF Go
    <3> HIDE DEF row
    <3>3. runs'[r] = row
      BY <1>0, <3>2, RowsTyped
    <3>4. runs[r] = NoRun /\ NoRun.trace = {} /\ NoRun.last = 0 /\ runs[r].last = Len(events[r])
      BY ZenonT(60), <1>0, <2>1, WorkingFacts DEF RowHeld, NoRun
    <3>5. RowMoves(r)
      BY <2>1, <3>1, <3>3, <3>4 DEF RowMoves
    <3>6. Fresh(c)' /\ Remembers(c)' /\ Starts(c)' /\ Ends(c)'
      BY <1>0, <1>v, <2>1, <3>1, <3>2, <3>3, WorkingFacts
         DEF KeepsView, Fresh, Same, Remembers, Starts, Ends, FreshPCs, AgentPCs, Run
    <3> QED
      BY <1>0, <1>t, <2>1, <3>2, <3>5, <3>6, WorkHeld DEF FreePCs, EarlyPCs
  <2>2. CASE /\ pc[c] = "create" /\ Return(c, "error", "none")
             /\ UNCHANGED <<runs, turns, events, environment>>
    BY <1>0, <2>2, RowStays, WorkReturns DEF FreePCs, Answers
  <2> QED
    BY <1>5, <2>1, <2>2 DEF CreateRun
<1>6. CASE ReloadRun(c)
  <2>1. /\ pc[c] = "reload" /\ pc'[c] = "insert"
        /\ KeepsView(c) /\ at'[c].row = runs[r]
        /\ UNCHANGED <<runs, turns, events, jobs, answer>>
    BY <1>0, <1>6, RowRead DEF ReloadRun, Go, db
  <2>2. RowMoves(r)
    BY <1>0, <2>1, RowStays
  <2>3. Fresh(c)' /\ Remembers(c)' /\ Starts(c)' /\ Ends(c)'
    BY <1>0, <2>1, WorkingFacts
       DEF KeepsView, Fresh, Same, Remembers, Starts, Ends, FreshPCs, AgentPCs, Run
  <2> QED
    BY <1>0, <1>t, <2>1, <2>2, <2>3, WorkHeld DEF FreePCs, EarlyPCs
<1>7. CASE CreateTurn(c)
  <2> DEFINE row == [status |-> ModeStatus(c), job |-> FALSE]
             l == [at[c] EXCEPT !.turn = row]
  <2>1. pc[c] = "insert" /\ turns[at[c].req].status = "absent"
    BY <1>7, NoTurnThere DEF CreateTurn, Go, EarlyPCs
  <2>2. /\ pc' = [pc EXCEPT ![c] = "activate"] /\ turns' = [turns EXCEPT ![at[c].req] = row]
        /\ at' = [at EXCEPT ![c] = l]
        /\ UNCHANGED <<runs, events, jobs, answer, environment>>
    BY <1>7, <2>1 DEF CreateTurn, Go
  <2>3. /\ l.run = at[c].run /\ l.req = at[c].req /\ l.turn = row /\ l.mem = at[c].mem
        /\ l.want = at[c].want /\ l.err = at[c].err /\ l.row = at[c].row
    BY <1>0, AwareTyped DEF Local
  <2>4. row.status = "running" /\ row.job = FALSE
    BY <1>0
  <2> HIDE DEF l, row
  <2>5. at'[c] = l /\ turns'[at[c].req] = row /\ pc'[c] = "activate"
    BY <1>0, <2>2, RowsTyped DEF LocalsTyped
  <2>6. RowMoves(r)
    BY <1>0, <2>2, RowStays
  <2>7. TurnMoves(c, r)
    BY <2>4, <2>5 DEF TurnMoves, EarlyPCs
  <2>8. Fresh(c)' /\ Remembers(c)' /\ Starts(c)' /\ Ends(c)'
    BY <1>0, <2>1, <2>2, <2>3, <2>4, <2>5, WorkingFacts
       DEF Fresh, Same, Remembers, Starts, Ends, FreshPCs, AgentPCs, Run
  <2> QED
    BY <1>0, <2>1, <2>2, <2>5, <2>6, <2>7, <2>8, WorkHeld DEF FreePCs, EarlyPCs
<1>8. CASE ActivateTurn(c)
  <2>1. /\ pc[c] = "activate" /\ pc'[c] = "prepared" /\ WriteRun(c, "running", at[c].req)
        /\ UNCHANGED <<turns, events, jobs, at, answer>>
    BY <1>0, <1>8 DEF ActivateTurn, Go
  <2>2. Same(at[c].row, runs[r])
    BY <1>0, <2>1, WorkingFacts DEF Fresh, FreshPCs
  <2>3. /\ runs'[r].status = "running" /\ runs'[r].last = runs[r].last
        /\ runs'[r].trace = runs[r].trace
    BY <1>0, <2>1, <2>2, WriteRunTouches DEF Same
  <2>4. RowMoves(r)
    BY <1>0, <2>1, <2>3 DEF RowMoves, Held, RowHeld
  <2>5. Fresh(c)' /\ Remembers(c)' /\ Starts(c)' /\ Ends(c)'
    BY <1>0, <1>v, <2>1, <2>3, WorkingFacts
       DEF KeepsView, Fresh, Same, Remembers, Starts, Ends, FreshPCs, AgentPCs, Run
  <2> QED
    BY <1>0, <1>t, <2>1, <2>4, <2>5, WorkHeld DEF FreePCs, EarlyPCs
<1>9. CASE Prepared(c)
  <2>1. /\ pc[c] = "prepared" /\ pc'[c] = "getturn"
        /\ KeepsView(c) /\ at'[c].row = runs[r]
        /\ UNCHANGED <<runs, turns, events, jobs, answer>>
    BY <1>0, <1>9, RowRead DEF Prepared, Go, db
  <2>2. RowMoves(r)
    BY <1>0, <2>1, RowStays
  <2>3. Fresh(c)' /\ Remembers(c)' /\ Starts(c)' /\ Ends(c)'
    BY <1>0, <2>1, WorkingFacts
       DEF KeepsView, Fresh, Same, Remembers, Starts, Ends, FreshPCs, AgentPCs, Run
  <2> QED
    BY <1>0, <1>t, <2>1, <2>2, <2>3, WorkHeld DEF FreePCs, EarlyPCs
<1> QED
  BY <1>1, <1>2, <1>3, <1>4, <1>5, <1>6, <1>7, <1>8, <1>9 DEF PrepareStep

\* ExecuteTurn and its finalizers, run by the client itself.
LEMMA ExecuteHeld ==
  ASSUME NEW c, NEW r, Working(c, r), ExecuteStep(c)
  PROVE  Held(c, r)'
<1>0. /\ c \in Actors /\ c \in Attached /\ r \in Runs /\ Typed /\ Placed /\ Held(c, r)
      /\ at[c].run = r /\ Run(c) = runs[r] /\ at[c].req \in Requests
      /\ \A to : pc' = [pc EXCEPT ![c] = to] => pc'[c] = to
  BY WorkingFacts, RowsTyped DEF LocalsTyped
<1>t. turns' = turns => TurnMoves(c, r)
  BY DEF TurnMoves
<1>v. at' = at => KeepsView(c) /\ at'[c].row = at[c].row
  BY DEF KeepsView
<1>n. "completed" \in Terminal /\ "running" \notin Terminal /\ "queued" \notin Terminal
      /\ "absent" \notin Terminal /\ Terminal \subseteq Statuses
  BY DEF Terminal, Statuses
<1>1. CASE GetTurn(c)
  <2> DEFINE l == [at[c] EXCEPT !.turn = turns[at[c].req]]
  <2>1. /\ pc[c] = "getturn" /\ pc'[c] = "getrun" /\ at' = [at EXCEPT ![c] = l]
        /\ UNCHANGED <<runs, turns, events, jobs, answer>>
    BY <1>0, <1>1 DEF GetTurn, Go, db
  <2>2. /\ l.run = at[c].run /\ l.req = at[c].req /\ l.turn = turns[at[c].req]
        /\ l.mem = at[c].mem /\ l.want = at[c].want /\ l.err = at[c].err
    BY <1>0, AwareTyped DEF Local
  <2> HIDE DEF l
  <2>3. at'[c] = l
    BY <1>0, <2>1, RowsTyped DEF LocalsTyped
  <2>4. RowMoves(r)
    BY <1>0, <2>1, RowStays
  <2>5. ~turns[at[c].req].job /\ turns[at[c].req].status = "running"
    BY <1>0, <2>1, WorkingFacts DEF Starts, Held, NoQueue
  <2>6. Fresh(c)' /\ Remembers(c)' /\ Starts(c)' /\ Ends(c)'
    BY <1>0, <2>1, <2>2, <2>3, <2>5, WorkingFacts
       DEF Fresh, Same, Remembers, Starts, Ends, FreshPCs, AgentPCs, Run
  <2> QED
    BY <1>0, <1>t, <2>1, <2>4, <2>6, WorkHeld DEF FreePCs, EarlyPCs
<1>2. CASE GetRun(c)
  <2>1. at[c].turn.status = "running" /\ pc[c] = "getrun"
    BY <1>2, WorkingFacts DEF GetRun, Starts
  <2>2. /\ pc'[c] \in {"abturn", "setturn"}
        /\ KeepsView(c) /\ at'[c].row = runs[r]
        /\ UNCHANGED <<runs, turns, events, jobs, answer>>
    BY <1>0, <1>2, <2>1, RowRead DEF GetRun
  <2>3. RowMoves(r)
    BY <1>0, <2>2, RowStays
  <2>4. Fresh(c)' /\ Remembers(c)' /\ Starts(c)' /\ Ends(c)'
    BY <1>0, <2>1, <2>2, WorkingFacts
       DEF KeepsView, Fresh, Same, Remembers, Starts, Ends, FreshPCs, AgentPCs, Run
  <2> QED
    BY <1>0, <1>t, <2>1, <2>2, <2>3, <2>4, WorkHeld DEF FreePCs, EarlyPCs
<1>3. CASE SetTurn(c)
  <2>1. /\ pc[c] = "setturn" /\ pc'[c] = "setrun" /\ WriteTurn(c, "running")
        /\ UNCHANGED <<runs, events, jobs, at, answer>>
    BY <1>0, <1>3 DEF SetTurn, Go
  <2>2. turns'[at[c].req].status = "running" /\ ~turns'[at[c].req].job
    BY <1>0, <2>1, WorkingFacts, WriteTurnTouches DEF Starts
  <2>3. RowMoves(r) /\ TurnMoves(c, r)
    BY <1>0, <2>1, <2>2, RowStays DEF TurnMoves, EarlyPCs
  <2>4. Fresh(c)' /\ Remembers(c)' /\ Starts(c)' /\ Ends(c)'
    BY <1>0, <1>v, <2>1, WorkingFacts
       DEF KeepsView, Fresh, Same, Remembers, Starts, Ends, FreshPCs, AgentPCs, Run
  <2> QED
    BY <1>0, <2>1, <2>3, <2>4, WorkHeld DEF FreePCs, EarlyPCs
<1>4. CASE SetRun(c)
  <2>1. /\ pc[c] = "setrun" /\ pc'[c] = "started" /\ WriteRun(c, "running", at[c].req)
        /\ UNCHANGED <<turns, events, jobs, at, answer>>
    BY <1>0, <1>4 DEF SetRun, Go
  <2>2. Same(at[c].row, runs[r])
    BY <1>0, <2>1, WorkingFacts DEF Fresh, FreshPCs
  <2>3. /\ runs'[r].status = "running" /\ runs'[r].last = runs[r].last
        /\ runs'[r].trace = runs[r].trace
    BY <1>0, <2>1, <2>2, WriteRunTouches DEF Same
  <2>4. RowMoves(r)
    BY <1>0, <2>1, <2>3 DEF RowMoves, Held, RowHeld
  <2>5. Fresh(c)' /\ Remembers(c)' /\ Starts(c)' /\ Ends(c)'
    BY <1>0, <1>v, <2>1, <2>3, WorkingFacts
       DEF KeepsView, Fresh, Same, Remembers, Starts, Ends, FreshPCs, AgentPCs, Run
  <2> QED
    BY <1>0, <1>t, <2>1, <2>4, <2>5, WorkHeld DEF FreePCs, EarlyPCs
<1>5. CASE EmitStarted(c)
  <2>1. /\ pc[c] = "started" /\ pc'[c] = "exec" /\ Emit(c, "started")
        /\ UNCHANGED <<turns, jobs, at, answer>>
    BY <1>0, <1>5 DEF EmitStarted, Go
  <2>2. runs[r].status # "absent"
    BY <1>0, <2>1, WorkingFacts DEF Starts
  <2>3. RowMoves(r) /\ runs'[r].status = runs[r].status /\ runs'[r].trace = runs[r].trace
    BY <1>0, <2>1, <2>2, WorkingFacts, EmitMovesRow
  <2>4. at[c].want \in {"running"} \union Terminal
    BY WorkingFacts DEF Ends
  <2>5. Fresh(c)' /\ Remembers(c)' /\ Starts(c)' /\ Ends(c)'
    BY <1>0, <1>v, <2>1, <2>2, <2>3, <2>4, WorkingFacts
       DEF KeepsView, Fresh, Same, Remembers, Starts, Ends, FreshPCs, AgentPCs, Run
  <2> QED
    BY <1>0, <1>t, <2>1, <2>3, <2>5, WorkHeld DEF FreePCs, EarlyPCs
<1>6. CASE GetFinished(c)
  <2>1. /\ pc[c] = "execdone"
        /\ pc'[c] = IF at[c].err /\ runs[r].status \in Live THEN "finalrun" ELSE "finalturn"
        /\ KeepsView(c) /\ at'[c].row = runs[r]
        /\ UNCHANGED <<runs, turns, events, jobs, answer>>
    BY <1>0, <1>6, RowRead DEF GetFinished, Go, db
  <2>2. RowMoves(r)
    BY <1>0, <2>1, RowStays
  <2>3. pc'[c] = "finalturn" => runs[r].status \in Terminal
    <3>1. runs[r].status \in Statuses \union {"absent"} /\ runs[r].status # "absent"
      BY SMTT(30), <1>0, <2>1, WorkingFacts, RowsTyped DEF Starts, RunRow
    <3>2. ~at[c].err => runs[r].status = "completed"
      BY <1>0, <2>1, WorkingFacts DEF Ends
    <3> QED
      BY <1>n, <2>1, <3>1, <3>2, WorkingFacts DEF Statuses
  <2>4. Fresh(c)' /\ Remembers(c)' /\ Starts(c)' /\ Ends(c)'
    BY <1>0, <2>1, <2>3, WorkingFacts
       DEF KeepsView, Fresh, Same, Remembers, Starts, Ends, FreshPCs, AgentPCs, Run
  <2> QED
    BY <1>0, <1>t, <2>1, <2>2, <2>4, WorkHeld DEF FreePCs, EarlyPCs
<1>7. CASE FinalizeRun(c)
  <2>1. PICK s \in {"aborted", "failed"} : WriteRun(c, s, None)
    BY <1>7 DEF FinalizeRun
  <2>2. /\ pc[c] = "finalrun" /\ pc'[c] = "finalreload"
        /\ UNCHANGED <<turns, events, jobs, at, answer>>
    BY <1>0, <1>7 DEF FinalizeRun, Go
  <2>3. Same(at[c].row, runs[r])
    BY <1>0, <2>2, WorkingFacts DEF Fresh, FreshPCs
  <2>4. /\ runs'[r].status = s /\ runs'[r].last = runs[r].last
        /\ runs'[r].trace = runs[r].trace
    BY <1>0, <2>1, <2>3, WriteRunTouches DEF Same
  <2>5. RowMoves(r)
    BY <1>0, <2>2, <2>4 DEF RowMoves, Held, RowHeld
  <2>6. Fresh(c)' /\ Remembers(c)' /\ Starts(c)' /\ Ends(c)'
    BY <1>0, <1>v, <2>2, <2>4, WorkingFacts
       DEF KeepsView, Fresh, Same, Remembers, Starts, Ends, FreshPCs, AgentPCs, Run, Terminal
  <2> QED
    BY <1>0, <1>t, <2>2, <2>5, <2>6, WorkHeld DEF FreePCs, EarlyPCs
<1>8. CASE ReloadFinal(c)
  <2>1. /\ pc[c] = "finalreload" /\ pc'[c] = "finalturn"
        /\ KeepsView(c) /\ at'[c].row = runs[r]
        /\ UNCHANGED <<runs, turns, events, jobs, answer>>
    BY <1>0, <1>8, RowRead DEF ReloadFinal, Go, db
  <2>2. RowMoves(r)
    BY <1>0, <2>1, RowStays
  <2>3. Fresh(c)' /\ Remembers(c)' /\ Starts(c)' /\ Ends(c)'
    BY <1>0, <2>1, WorkingFacts
       DEF KeepsView, Fresh, Same, Remembers, Starts, Ends, FreshPCs, AgentPCs, Run
  <2> QED
    BY <1>0, <1>t, <2>1, <2>2, <2>3, WorkHeld DEF FreePCs, EarlyPCs
<1>9. CASE FinalizeTurn(c)
  <2>1. /\ pc[c] = "finalturn" /\ pc'[c] = "finalrow"
        /\ UNCHANGED <<runs, events, jobs, at, answer>>
    BY <1>0, <1>9 DEF FinalizeTurn, Go
  <2>2. at[c].row.status \in Terminal /\ Same(at[c].row, runs[r])
    BY <1>0, <2>1, WorkingFacts DEF Ends, Fresh, FreshPCs
  <2>3. WriteTurn(c, at[c].row.status)
    BY <1>9, <2>2 DEF FinalizeTurn
  <2>4. turns'[at[c].req].status = runs[r].status /\ ~turns'[at[c].req].job
    BY <1>0, <2>1, <2>2, <2>3, WorkingFacts, WriteTurnTouches DEF Starts, Same
  <2>5. runs[r].status = "completed" => at[c].req \in runs[r].trace
    BY <1>0, <2>1, WorkingFacts DEF Remembers
  <2>6. RowMoves(r) /\ TurnMoves(c, r)
    BY <1>0, <2>1, <2>4, <2>5, RowStays DEF TurnMoves, EarlyPCs
  <2>7. Fresh(c)' /\ Remembers(c)' /\ Starts(c)' /\ Ends(c)'
    BY <1>0, <1>v, <2>1, <2>2, WorkingFacts
       DEF KeepsView, Fresh, Same, Remembers, Starts, Ends, FreshPCs, AgentPCs, Run
  <2> QED
    BY <1>0, <2>1, <2>6, <2>7, WorkHeld DEF FreePCs, EarlyPCs
<1>10. CASE FinalizeRow(c)
  <2>1. /\ pc[c] = "finalrow" /\ pc'[c] = "emitstatus" /\ WriteRun(c, at[c].row.status, None)
        /\ UNCHANGED <<turns, events, jobs, at, answer>>
    BY <1>0, <1>10 DEF FinalizeRow, Go
  <2>2. at[c].row.status \in Terminal /\ Same(at[c].row, runs[r])
    BY <1>0, <2>1, WorkingFacts DEF Ends, Fresh, FreshPCs
  <2>3. /\ runs'[r].status \in Terminal /\ runs'[r].last = runs[r].last
        /\ runs'[r].trace = runs[r].trace /\ runs'[r].active = None
    BY <1>0, <2>1, <2>2, WriteRunTouches DEF Same
  <2>4. RowMoves(r)
    BY <1>0, <1>n, <2>1, <2>3 DEF RowMoves, Held, RowHeld
  <2>5. ~IsBusy(runs'[r])
    BY <1>n, <2>3 DEF IsBusy, Live
  <2>6. Fresh(c)' /\ Remembers(c)' /\ Starts(c)' /\ Ends(c)'
    BY <1>0, <1>v, <1>n, <2>1, <2>3, <2>5, WorkingFacts
       DEF KeepsView, Fresh, Same, Remembers, Starts, Ends, FreshPCs, AgentPCs, Run
  <2> QED
    BY <1>0, <1>t, <2>1, <2>4, <2>6, WorkHeld DEF FreePCs, EarlyPCs
<1>11. CASE EmitStatus(c)
  <2>1. /\ pc[c] = "emitstatus" /\ Emit(c, "status") /\ Return(c, "ran", "completed")
        /\ turns' = turns
    BY <1>11 DEF EmitStatus
  <2>2. runs[r].status # "absent" /\ ~IsBusy(runs[r])
    BY <1>0, <2>1, WorkingFacts DEF Starts, Ends
  <2>3. RowMoves(r) /\ ~IsBusy(runs'[r])
    BY <1>0, <2>1, <2>2, WorkingFacts, EmitMovesRow DEF IsBusy
  <2> QED
    BY <1>0, <2>1, <2>3, WorkReturns DEF Answers
<1> QED
  BY <1>1, <1>2, <1>3, <1>4, <1>5, <1>6, <1>7, <1>8, <1>9, <1>10, <1>11 DEF ExecuteStep

\* The agent loop: the transcript grows by the messages it saves.
LEMMA AgentHeld ==
  ASSUME NEW c, NEW r, Working(c, r), AgentStep(c)
  PROVE  Held(c, r)'
<1>0. /\ c \in Actors /\ c \in Clients /\ r \in Runs /\ Typed /\ Placed /\ Held(c, r)
      /\ at[c].run = r /\ Run(c) = runs[r] /\ at[c].req \in Requests
      /\ at[c].err \in BOOLEAN /\ at[c].cancelled \in BOOLEAN
      /\ at \in [Actors -> Local] /\ at[c] \in Local
      /\ \A to : pc' = [pc EXCEPT ![c] = to] => pc'[c] = to
  BY WorkingFacts, AwareTyped, RowsTyped DEF LocalsTyped
<1>t. turns' = turns => TurnMoves(c, r)
  BY DEF TurnMoves
<1>v. at' = at => KeepsView(c) /\ at'[c].row = at[c].row
  BY DEF KeepsView
<1>n. "completed" \in Terminal /\ "running" \notin Terminal /\ "queued" \notin Terminal
      /\ "absent" \notin Terminal
  BY DEF Terminal
<1>p. pc[c] \in AgentPCs => runs[r].status # "absent"
  BY <1>0, WorkingFacts DEF Starts, AgentPCs
<1>w. at[c].want \in {"running"} \union Terminal
  BY WorkingFacts DEF Ends
<1>1. CASE LoadConversation(c)
  <2>1. PICK ok \in {TRUE, FALSE} :
          /\ pc' = [pc EXCEPT ![c] = IF ok THEN "readmeta" ELSE "execdone"]
          /\ at' = [at EXCEPT ![c].mem = IF ok THEN Run(c).trace \union {at[c].req} ELSE @,
                              ![c].err = ~ok]
    BY <1>1 DEF LoadConversation
  <2> DEFINE m == IF ok THEN Run(c).trace \union {at[c].req} ELSE at[c].mem
             l == [at[c] EXCEPT !.mem = m, !.err = ~ok]
  <2>2. pc[c] = "exec" /\ UNCHANGED <<runs, turns, events, jobs, answer>>
    BY <1>1 DEF LoadConversation, db
  <2>3. at' = [at EXCEPT ![c] = l]
    BY <1>0, <2>1 DEF Local
  <2>4. /\ l.run = at[c].run /\ l.req = at[c].req /\ l.turn = at[c].turn /\ l.mem = m
        /\ l.want = at[c].want /\ l.err = ~ok
    BY <1>0 DEF Local
  <2>5. ok => m = runs[r].trace \union {at[c].req}
    BY <1>0
  <2> HIDE DEF l, m
  <2>6. at'[c] = l /\ pc'[c] = IF ok THEN "readmeta" ELSE "execdone"
    BY <1>0, <2>1, <2>3
  <2>7. RowMoves(r)
    BY <1>0, <2>2, RowStays
  <2>8. Fresh(c)' /\ Remembers(c)' /\ Starts(c)' /\ Ends(c)'
    <3>1. CASE ok
      <4>1. /\ pc'[c] = "readmeta" /\ at'[c].mem = runs[r].trace \union {at[c].req}
            /\ at'[c].run = r /\ at'[c].req = at[c].req /\ at'[c].turn = at[c].turn
            /\ at'[c].want = at[c].want /\ runs' = runs
        BY <1>0, <2>2, <2>4, <2>5, <2>6, <3>1
      <4> QED
        BY <1>0, <1>p, <2>2, <4>1, WorkingFacts
           DEF Fresh, Same, Remembers, Starts, Ends, FreshPCs, AgentPCs, Run
    <3>2. CASE ~ok
      <4>1. /\ pc'[c] = "execdone" /\ at'[c].err
            /\ at'[c].run = r /\ at'[c].req = at[c].req /\ at'[c].turn = at[c].turn
            /\ at'[c].want = at[c].want /\ runs' = runs
        BY <1>0, <2>2, <2>4, <2>6, <3>2
      <4> QED
        BY <1>0, <1>p, <2>2, <4>1, WorkingFacts
           DEF Fresh, Same, Remembers, Starts, Ends, FreshPCs, AgentPCs, Run
    <3> QED
      BY <3>1, <3>2
  <2> QED
    BY <1>0, <1>t, <2>2, <2>6, <2>7, <2>8, WorkHeld DEF FreePCs, EarlyPCs
<1>2. CASE ReadMeta(c)
  <2>1. /\ pc[c] = "readmeta" /\ pc'[c] = "writemeta"
        /\ KeepsView(c) /\ at'[c].row = runs[r]
        /\ UNCHANGED <<runs, turns, events, jobs, answer>>
    BY <1>0, <1>2, RowRead DEF ReadMeta, Go, db
  <2>2. RowMoves(r)
    BY <1>0, <2>1, RowStays
  <2>3. Fresh(c)' /\ Remembers(c)' /\ Starts(c)' /\ Ends(c)'
    BY <1>0, <2>1, WorkingFacts
       DEF KeepsView, Fresh, Same, Remembers, Starts, Ends, FreshPCs, AgentPCs, Run
  <2> QED
    BY <1>0, <1>t, <2>1, <2>2, <2>3, WorkHeld DEF FreePCs, EarlyPCs
<1>3. CASE WriteMeta(c)
  <2> DEFINE l == [at[c] EXCEPT !.err = TRUE]
             row == [at[c].row EXCEPT !.status = at[c].want, !.trace = at[c].mem]
  <2>1. /\ pc[c] = "writemeta"
        /\ UNCHANGED <<turns, events, jobs, answer>>
        /\ \/ /\ pc' = [pc EXCEPT ![c] = "execdone"]
              /\ at' = [at EXCEPT ![c] = l] /\ runs' = runs
           \/ /\ pc' = [pc EXCEPT ![c] = "initial"] \/ pc' = [pc EXCEPT ![c] = "stream"]
                 \/ (pc' = [pc EXCEPT ![c] = "finish"] /\ at[c].want # "running")
              /\ at' = at
              /\ runs' = [runs EXCEPT ![at[c].run] = row]
    BY <1>3 DEF WriteMeta
  <2>2. /\ l.run = at[c].run /\ l.req = at[c].req /\ l.turn = at[c].turn /\ l.mem = at[c].mem
        /\ l.want = at[c].want /\ l.err = TRUE
    BY <1>0 DEF Local
  <2>3. /\ row.status = at[c].want /\ row.trace = at[c].mem /\ row.last = at[c].row.last
    BY <1>0, AwareTyped DEF RunRow
  <2>4. Same(at[c].row, runs[r]) /\ runs[r].trace \subseteq at[c].mem /\ at[c].req \in at[c].mem
    BY <1>0, <2>1, WorkingFacts DEF Fresh, FreshPCs, Remembers, AgentPCs
  <2> HIDE DEF l, row
  <2>5. CASE /\ pc' = [pc EXCEPT ![c] = "execdone"]
             /\ at' = [at EXCEPT ![c] = l] /\ runs' = runs
    <3>1. at'[c] = l /\ pc'[c] = "execdone"
      BY <1>0, <2>5
    <3>2. RowMoves(r)
      BY <1>0, <2>1, <2>5, RowStays
    <3>3. Fresh(c)' /\ Remembers(c)' /\ Starts(c)' /\ Ends(c)'
      BY <1>0, <2>1, <2>2, <2>5, <3>1, WorkingFacts
         DEF Fresh, Same, Remembers, Starts, Ends, FreshPCs, AgentPCs, Run
    <3> QED
      BY <1>0, <1>t, <2>1, <3>1, <3>2, <3>3, WorkHeld DEF FreePCs, EarlyPCs
  <2>6. CASE /\ pc' = [pc EXCEPT ![c] = "initial"] \/ pc' = [pc EXCEPT ![c] = "stream"]
                \/ (pc' = [pc EXCEPT ![c] = "finish"] /\ at[c].want # "running")
             /\ at' = at
             /\ runs' = [runs EXCEPT ![at[c].run] = row]
    <3>1. runs'[r] = row /\ pc'[c] \in {"initial", "stream", "finish"}
          /\ (pc'[c] = "finish" => at[c].want \in Terminal)
      BY <1>0, <1>w, <2>6, RowsTyped
    <3>2. RowMoves(r)
      BY <1>0, <1>n, <1>w, <2>1, <2>3, <2>4, <3>1 DEF RowMoves, Held, RowHeld, Same
    <3>3. Fresh(c)' /\ Remembers(c)' /\ Starts(c)' /\ Ends(c)'
      BY <1>0, <1>v, <1>n, <1>w, <2>1, <2>3, <2>4, <2>6, <3>1, WorkingFacts
         DEF KeepsView, Fresh, Remembers, Starts, Ends, FreshPCs, AgentPCs, Run
    <3> QED
      BY <1>0, <1>t, <2>1, <3>1, <3>2, <3>3, WorkHeld DEF FreePCs, EarlyPCs
  <2> QED
    BY <2>1, <2>5, <2>6
<1>4. CASE InitialChunk(c) \/ FinishChunk(c)
  <2> DEFINE e == IF pc[c] = "initial" THEN at[c].cancelled
                  ELSE at[c].want # "completed" \/ at[c].cancelled
             l == [at[c] EXCEPT !.err = e]
  <2>1. /\ \/ pc[c] = "initial" /\ pc'[c] = IF at[c].cancelled THEN "execdone" ELSE "stream"
           \/ pc[c] = "finish" /\ pc'[c] = "execdone"
        /\ at' = [at EXCEPT ![c] = l]
        /\ Emit(c, "trace_chunk") \/ UNCHANGED <<runs, events>>
        /\ UNCHANGED <<turns, jobs, answer>>
    BY <1>0, <1>4 DEF InitialChunk, FinishChunk, Go
  <2>2. /\ l.run = at[c].run /\ l.req = at[c].req /\ l.turn = at[c].turn /\ l.mem = at[c].mem
        /\ l.want = at[c].want /\ l.err = e
    BY <1>0 DEF Local
  <2>3. /\ pc[c] = "initial" => e = at[c].cancelled
        /\ pc[c] = "finish" /\ ~e => at[c].want = "completed"
    OBVIOUS
  <2> HIDE DEF l, e
  <2>4. at'[c] = l
    BY <1>0, <2>1
  <2>5. pc[c] \in AgentPCs /\ runs[r].status # "absent"
    BY <1>p, <2>1 DEF AgentPCs
  <2>6. /\ RowMoves(r)
        /\ runs'[r].status = runs[r].status /\ runs'[r].trace = runs[r].trace
    BY <1>0, <2>1, <2>5, WorkingFacts, RowStays, EmitMovesRow
  <2>7. Fresh(c)' /\ Remembers(c)' /\ Starts(c)' /\ Ends(c)'
    BY <1>0, <2>1, <2>2, <2>3, <2>4, <2>5, <2>6, WorkingFacts
       DEF Fresh, Same, Remembers, Starts, Ends, FreshPCs, AgentPCs, Run
  <2> QED
    BY <1>0, <1>t, <2>1, <2>6, <2>7, WorkHeld DEF FreePCs, EarlyPCs
<1>5. CASE StreamChunk(c) \/ PersistProgress(c)
  <2> DEFINE l == [at[c] EXCEPT !.left = @ - 1]
  <2>1. /\ pc[c] = "stream" /\ pc'[c] \in {"stream", "readmeta"}
        /\ at' = [at EXCEPT ![c] = l]
        /\ Emit(c, "trace_chunk") \/ UNCHANGED <<runs, events>>
        /\ UNCHANGED <<turns, jobs, answer>>
    BY <1>0, <1>5 DEF StreamChunk, PersistProgress, Go, db
  <2>2. /\ l.run = at[c].run /\ l.req = at[c].req /\ l.turn = at[c].turn /\ l.mem = at[c].mem
        /\ l.want = at[c].want /\ l.err = at[c].err
    BY <1>0 DEF Local
  <2> HIDE DEF l
  <2>3. at'[c] = l
    BY <1>0, <2>1
  <2>4. pc[c] \in AgentPCs /\ runs[r].status # "absent"
    BY <1>p, <2>1 DEF AgentPCs
  <2>5. /\ RowMoves(r)
        /\ runs'[r].status = runs[r].status /\ runs'[r].trace = runs[r].trace
    BY <1>0, <2>1, <2>4, WorkingFacts, RowStays, EmitMovesRow
  <2>6. Fresh(c)' /\ Remembers(c)' /\ Starts(c)' /\ Ends(c)'
    BY <1>0, <2>1, <2>2, <2>3, <2>4, <2>5, WorkingFacts
       DEF Fresh, Same, Remembers, Starts, Ends, FreshPCs, AgentPCs, Run
  <2> QED
    BY <1>0, <1>t, <2>1, <2>5, <2>6, WorkHeld DEF FreePCs, EarlyPCs
<1>6. CASE EndStream(c)
  <2>1. PICK w \in Terminal : at' = [at EXCEPT ![c].want = w]
    BY <1>6 DEF EndStream, Terminal
  <2> DEFINE l == [at[c] EXCEPT !.want = w]
  <2>2. /\ pc[c] = "stream" /\ pc'[c] = "readmeta" /\ at' = [at EXCEPT ![c] = l]
        /\ UNCHANGED <<runs, turns, events, jobs, answer>>
    BY <1>0, <1>6, <2>1 DEF EndStream, Go, db
  <2>3. /\ l.run = at[c].run /\ l.req = at[c].req /\ l.turn = at[c].turn /\ l.mem = at[c].mem
        /\ l.want = w /\ l.err = at[c].err
    BY <1>0 DEF Local
  <2> HIDE DEF l
  <2>4. at'[c] = l
    BY <1>0, <2>2
  <2>5. RowMoves(r)
    BY <1>0, <2>2, RowStays
  <2>6. Fresh(c)' /\ Remembers(c)' /\ Starts(c)' /\ Ends(c)'
    BY <1>0, <2>2, <2>3, <2>4, WorkingFacts
       DEF Fresh, Same, Remembers, Starts, Ends, FreshPCs, AgentPCs, Run
  <2> QED
    BY <1>0, <1>t, <2>2, <2>5, <2>6, WorkHeld DEF FreePCs, EarlyPCs
<1> QED
  BY <1>1, <1>2, <1>3, <1>4, <1>5, <1>6 DEF AgentStep

\* The abort of a turn that its own executor carries out.
LEMMA AbortTurnHeld ==
  ASSUME NEW c, NEW r, Working(c, r), AbortTurnStep(c)
  PROVE  Held(c, r)'
<1>0. /\ c \in Actors /\ r \in Runs /\ Typed /\ Placed /\ Held(c, r)
      /\ at[c].run = r /\ Run(c) = runs[r] /\ at[c].req \in Requests
      /\ \A to : pc' = [pc EXCEPT ![c] = to] => pc'[c] = to
  BY WorkingFacts, RowsTyped DEF LocalsTyped
<1>t. turns' = turns => TurnMoves(c, r)
  BY DEF TurnMoves
<1>v. at' = at => KeepsView(c) /\ at'[c].row = at[c].row
  BY DEF KeepsView
<1>1. CASE AbortTurn(c)
  <2>1. /\ pc[c] = "abturn" /\ pc'[c] = "abrow" /\ WriteTurn(c, "aborted")
        /\ UNCHANGED <<runs, events, jobs, at, answer>>
    BY <1>0, <1>1 DEF AbortTurn, Go
  <2>2. turns'[at[c].req].status = "aborted" /\ ~turns'[at[c].req].job
    BY <1>0, <2>1, WorkingFacts, WriteTurnTouches DEF Starts
  <2>3. RowMoves(r) /\ TurnMoves(c, r)
    BY <1>0, <2>1, <2>2, RowStays DEF TurnMoves, EarlyPCs
  <2>4. Fresh(c)' /\ Remembers(c)' /\ Starts(c)' /\ Ends(c)'
    BY <1>0, <1>v, <2>1, WorkingFacts
       DEF KeepsView, Fresh, Same, Remembers, Starts, Ends, FreshPCs, AgentPCs, Run
  <2> QED
    BY <1>0, <2>1, <2>3, <2>4, WorkHeld DEF FreePCs, EarlyPCs
<1>2. CASE AbortRow(c)
  <2>1. /\ pc[c] = "abrow" /\ pc'[c] = "abemit" /\ WriteRun(c, "aborted", None)
        /\ UNCHANGED <<turns, events, jobs, at, answer>>
    BY <1>0, <1>2 DEF AbortRow, Go
  <2>2. Same(at[c].row, runs[r])
    BY <1>0, <2>1, WorkingFacts DEF Fresh, FreshPCs
  <2>3. /\ runs'[r].status = "aborted" /\ runs'[r].last = runs[r].last
        /\ runs'[r].trace = runs[r].trace /\ runs'[r].active = None
    BY <1>0, <2>1, <2>2, WriteRunTouches DEF Same
  <2>4. RowMoves(r) /\ ~IsBusy(runs'[r])
    BY <1>0, <2>1, <2>3 DEF RowMoves, Held, RowHeld, IsBusy, Live
  <2>5. Fresh(c)' /\ Remembers(c)' /\ Starts(c)' /\ Ends(c)'
    BY <1>0, <1>v, <2>1, <2>3, <2>4, WorkingFacts
       DEF KeepsView, Fresh, Same, Remembers, Starts, Ends, FreshPCs, AgentPCs, Run
  <2> QED
    BY <1>0, <1>t, <2>1, <2>4, <2>5, WorkHeld DEF FreePCs, EarlyPCs
<1>3. CASE EmitAborted(c)
  <2>1. /\ pc[c] = "abemit" /\ Emit(c, "status") /\ Return(c, "ran", "completed")
        /\ turns' = turns
    BY <1>3 DEF EmitAborted
  <2>2. runs[r].status # "absent" /\ ~IsBusy(runs[r])
    BY <1>0, <2>1, WorkingFacts DEF Starts, Ends
  <2>3. RowMoves(r) /\ ~IsBusy(runs'[r])
    BY <1>0, <2>1, <2>2, WorkingFacts, EmitMovesRow DEF IsBusy
  <2> QED
    BY <1>0, <2>1, <2>3, WorkReturns DEF Answers
<1> QED
  BY <1>1, <1>2, <1>3 DEF AbortTurnStep

\* A cancelled context changes the flag the executor polls.
LEMMA CancelHeld ==
  ASSUME NEW c, NEW r, Working(c, r), WatchForAbort(c) \/ ContextDone(c)
  PROVE  Held(c, r)'
<1>0. /\ c \in Actors /\ r \in Runs /\ Typed /\ Held(c, r)
      /\ at[c].run = r /\ at[c] \in Local
  BY WorkingFacts, AwareTyped
<1> DEFINE l == [at[c] EXCEPT !.cancelled = TRUE]
<1>1. /\ pc[c] \in WatchedPCs /\ at' = [at EXCEPT ![c] = l]
      /\ UNCHANGED <<runs, turns, events, jobs, pc, answer>>
  BY DEF WatchForAbort, ContextDone, db
<1>2. /\ l.run = at[c].run /\ l.req = at[c].req /\ l.turn = at[c].turn /\ l.mem = at[c].mem
      /\ l.want = at[c].want /\ l.err = at[c].err /\ l.row = at[c].row
  BY <1>0 DEF Local
<1> HIDE DEF l
<1>3. at'[c] = l
  BY <1>0, <1>1, RowsTyped DEF LocalsTyped
<1>4. RowMoves(r) /\ TurnMoves(c, r)
  BY <1>0, <1>1, RowStays DEF TurnMoves
<1>5. pc'[c] # "idle" /\ pc'[c] \notin FreePCs
  BY <1>1 DEF WatchedPCs, AgentPCs, FreePCs
<1>6. Fresh(c)' /\ Remembers(c)' /\ Starts(c)' /\ Ends(c)'
  BY <1>0, <1>1, <1>2, <1>3, WorkingFacts
     DEF Fresh, Same, Remembers, Starts, Ends, Run
<1> QED
  BY <1>1, <1>4, <1>5, <1>6, WorkHeld

\* A statement of an actor at the run of c.
LEMMA WorkingHeld ==
  ASSUME NEW c, NEW r, Working(c, r), Step(c) \/ GiveUp(c) \/ ContextDone(c)
  PROVE  Held(c, r)'
<1>1. c \notin Aborters /\ c \in Clients
  BY WorkingFacts, Kinds
<1>2. ~QueueStep(c)
  <2>1. pc[c] \notin QueuePCs
    BY WorkingFacts DEF Claimed, AttachedExecute
  <2> QED
    BY <2>1 DEF QueuePCs, QueueStep, EnqueueAgentRun, MarkTurn, MarkRun, EmitQueued, Go
<1>3. CASE GiveUp(c)
  BY <1>3, WorkingFacts, RowStays, WorkReturns DEF GiveUp, Answers
<1> QED
  BY <1>1, <1>2, <1>3, PrepareHeld, ExecuteHeld, AgentHeld, AbortTurnHeld, CancelHeld DEF Step

\* Every statement of every actor keeps the conversation of c.
LEMMA StepHeld ==
  ASSUME Typed, Placed, Claimed, Backed, NEW c \in Clients, NEW r \in Runs, Sole(c, r), Held(c, r),
         NEW a \in Actors, Step(a) \/ GiveUp(a) \/ ContextDone(a)
  PROVE  Held(c, r)'
<1>1. Acts(a)
  BY StepActs
<1>2. CASE at[a].run # r
  BY <1>1, <1>2, OutsideHeld
<1>3. CASE at[a].run = r /\ a \in Aborters
  BY <1>3, AborterHeld
<1>4. CASE at[a].run = r /\ a \notin Aborters
  <2>1. a = c
    BY <1>1, <1>4 DEF Held, OnlyAborts, AtWork, Acts
  <2>2. Working(c, r)
    BY <1>1, <1>4, <2>1 DEF Working
  <2> QED
    BY <2>1, <2>2, WorkingHeld
<1> QED
  BY <1>2, <1>3, <1>4

\* The held conversations, as long as the calm lasts.
Keeps == Peace /\ (Calm => HeldRuns)

\* c submits a message to its run.
LEMMA SubmitHeld ==
  ASSUME Typed, Placed, Claimed, Backed, NEW c \in Clients, NEW r \in Runs, Sole(c, r), Held(c, r),
         NEW q \in Requests, RunOf[q] = r, Begins(c, q, r), pc'[c] = "load",
         UNCHANGED <<runs, turns, events, jobs, answer>>
  PROVE  Held(c, r)'
<1>0. ~AtWork(c, r) /\ c \in Actors
  BY Kinds DEF Begins, AtWork, Resting
<1>1. OnlyAborts(c, r)'
  BY DEF Held, OnlyAborts, Begins, AtWork
<1>2. NoQueue(r)' /\ RowHeld(r)'
  BY DEF Held, NoQueue, RowHeld
<1>3. Mine(c, r)'
  BY <1>0 DEF Held, Mine
<1>4. Free(c, r)'
  BY <1>0 DEF Held, Free, Undisturbed, IsBusy
<1>5. Tends(c)'
  <2>1. /\ at'[c] = NewLocal(q, r) /\ NewLocal(q, r).turn = NoTurn /\ ~NoTurn.job
        /\ NewLocal(q, r).want = "running"
    BY DEF Begins, NewLocal, NoTurn
  <2>2. ~at'[c].turn.job /\ at'[c].want = "running"
    BY <2>1
  <2> QED
    BY <2>2 DEF Tends, Fresh, Remembers, Starts, Ends, FreshPCs, AgentPCs
<1> QED
  BY <1>1, <1>2, <1>3, <1>4, <1>5 DEF Held

\* The steps that begin an operation.
LEMMA BeginHeld ==
  ASSUME Typed, Placed, Claimed, Backed, NEW c \in Clients, NEW r \in Runs, Sole(c, r), Held(c, r),
         \/ \E d \in Clients, q \in Requests : Submit(d, q)
         \/ \E w \in Workers, q \in Requests : Fetch(w, q)
         \/ \E a \in Aborters, s \in Runs : AbortRun(a, s)
  PROVE  Held(c, r)'
<1>1. ASSUME NEW a \in Actors, NEW q, NEW s, Begins(a, q, s),
             s # r \/ (a \in Aborters /\ pc'[a] = "abget" /\ runs[r].status # "absent"),
             UNCHANGED <<runs, turns, events, answer>>,
             \A p \in Requests : RunOf[p] = r => jobs'[p] = jobs[p]
      PROVE  Held(c, r)'
  <2>1. pc[a] = "idle" /\ at'[a].run = s
    BY <1>1 DEF Begins, NewLocal
  <2>2. \A b \in Actors : AtWork(b, r) \/ AtWork(b, r)' =>
          (pc'[b] = pc[b] /\ at'[b] = at[b])
          \/ (b \in Aborters /\ pc'[b] = "abget" /\ runs[r].status # "absent")
    BY <1>1, <2>1 DEF Begins, AtWork, Resting
  <2> QED
    BY <1>1, <2>2, StillHeld
<1>2. CASE \E d \in Clients, q \in Requests : Submit(d, q)
  <2>1. PICK d \in Clients, q \in Requests : Submit(d, q)
    BY <1>2
  <2>2. /\ d \in Actors /\ Begins(d, q, RunOf[q]) /\ pc'[d] = "load" /\ q \in Submits[d]
        /\ UNCHANGED <<runs, turns, events, jobs, answer>>
    BY <2>1, SubmitBegins DEF db
  <2>3. CASE RunOf[q] = r
    <3>1. d = c
      BY <2>2, <2>3 DEF Sole
    <3> QED
      BY <2>2, <2>3, <3>1, SubmitHeld
  <2>4. CASE RunOf[q] # r
    BY <1>1, <2>2, <2>4
  <2> QED
    BY <2>3, <2>4
<1>3. CASE \E w \in Workers, q \in Requests : Fetch(w, q)
  <2>1. PICK w \in Workers, q \in Requests : Fetch(w, q)
    BY <1>3
  <2>2. /\ w \in Actors /\ Begins(w, q, RunOf[q]) /\ jobs[q] = "available"
        /\ jobs' = [jobs EXCEPT ![q] = "running"]
        /\ UNCHANGED <<runs, turns, events, answer>>
    BY <2>1, FetchBegins
  <2>3. RunOf[q] # r
    BY <2>2 DEF Held, NoQueue
  <2>4. \A p \in Requests : RunOf[p] = r => jobs'[p] = jobs[p]
    BY <2>2, <2>3
  <2> QED
    BY <1>1, <2>2, <2>3, <2>4
<1>4. CASE \E a \in Aborters, s \in Runs : AbortRun(a, s)
  <2>1. PICK a \in Aborters, s \in Runs : AbortRun(a, s)
    BY <1>4
  <2>2. /\ a \in Actors /\ Begins(a, None, s) /\ pc'[a] = "abget" /\ runs[s].status # "absent"
        /\ UNCHANGED <<runs, turns, events, jobs, answer>>
    BY <2>1, AbortBegins DEF db
  <2> QED
    BY <1>1, <2>1, <2>2
<1> QED
  BY <1>2, <1>3, <1>4

\* Every step keeps the held conversations while the calm lasts.
LEMMA NextKeeps ==
  Typed /\ Placed /\ Claimed /\ Backed /\ Keeps /\ [Next]_vars => Keeps'
<1> SUFFICES ASSUME Typed, Placed, Claimed, Backed, Keeps, [Next]_vars, Calm'
             PROVE  ~cleaning' /\ (\A a \in Actors : pc'[a] # "dead") /\ HeldRuns'
  BY DEF Keeps, Peace
<1>0. crashes \in Nat /\ boots \in Nat
  BY BoundsAssumption DEF Typed, TypeOK
<1>1. ~Crash /\ ~StartServer
  BY <1>0 DEF Crash, StartServer, Calm
<1>2. ASSUME Calm PROVE ~cleaning /\ (\A a \in Actors : pc[a] # "dead") /\ HeldRuns
  BY <1>2 DEF Keeps, Peace
<1>3. CASE \E a \in Actors : Step(a) \/ GiveUp(a) \/ ContextDone(a)
  <2>1. PICK a \in Actors : Step(a) \/ GiveUp(a) \/ ContextDone(a)
    BY <1>3
  <2>2. Acts(a)
    BY <2>1, StepActs
  <2>3. ~cleaning' /\ HeldRuns /\ \A b \in Actors : pc[b] # "dead"
    BY <1>2, <2>2 DEF Acts, environment, Calm
  <2>4. \A b \in Actors : pc'[b] # "dead"
    BY <2>2, <2>3 DEF Acts, GoesOnAt, Resting
  <2> QED
    BY <2>1, <2>3, <2>4, StepHeld DEF HeldRuns, Sole
<1>4. CASE \/ \E c \in Clients, q \in Requests : Submit(c, q)
           \/ \E w \in Workers, q \in Requests : Fetch(w, q)
           \/ \E a \in Aborters, r \in Runs : AbortRun(a, r)
  <2>1. /\ UNCHANGED <<cleaning, crashes, boots>>
        /\ \E a \in Actors, q \in Requests \union {None}, r \in Runs : Begins(a, q, r)
    BY <1>4, SubmitBegins, FetchBegins, AbortBegins, RequestsAssumption DEF environment
  <2>2. ~cleaning' /\ HeldRuns /\ \A b \in Actors : pc[b] # "dead"
    BY <1>2, <2>1 DEF Calm
  <2>3. \A b \in Actors : pc'[b] # "dead"
    BY <2>1, <2>2 DEF Begins, Resting
  <2> QED
    BY <1>4, <2>2, <2>3, BeginHeld DEF HeldRuns, Sole
<1>5. CASE \E q \in Requests : Rescue(q)
  <2>1. PICK q \in Requests : Rescue(q)
    BY <1>5
  <2>2. /\ jobs[q] = "running" /\ jobs' = [jobs EXCEPT ![q] = "discarded"]
        /\ UNCHANGED <<runs, turns, events, answer, pc, at, cleaning, crashes, boots>>
    BY <2>1 DEF Rescue, environment
  <2>3. ~cleaning' /\ HeldRuns /\ \A b \in Actors : pc'[b] # "dead"
    BY <1>2, <2>2 DEF Calm
  <2>4. ASSUME NEW c \in Clients, NEW r \in Runs, Sole(c, r) PROVE Held(c, r)'
    <3>1. Held(c, r)
      BY <2>3, <2>4 DEF HeldRuns
    <3>2. \A p \in Requests : RunOf[p] = r => jobs'[p] = jobs[p]
      BY <2>2, <3>1 DEF Held, NoQueue
    <3> QED
      BY <2>2, <2>4, <3>1, <3>2, StillHeld
  <2> QED
    BY <2>3, <2>4 DEF HeldRuns, Sole
<1>6. CASE Restart
  <2>1. Calm
    BY <1>6 DEF Restart, Calm
  <2> QED
    BY <1>2, <1>6, <2>1, ActorsAssumption DEF Restart
<1>7. CASE MarkStaleAborted
  <2>1. Calm /\ cleaning
    BY <1>7 DEF MarkStaleAborted, Calm
  <2> QED
    BY <1>2, <2>1
<1>8. CASE UNCHANGED vars
  <2>1. UNCHANGED <<runs, turns, events, jobs, answer, pc, at, cleaning, crashes, boots>>
    BY <1>8 DEF vars
  <2>2. ~cleaning' /\ HeldRuns /\ \A b \in Actors : pc'[b] # "dead"
    BY <1>2, <2>1 DEF Calm
  <2>3. ASSUME NEW c \in Clients, NEW r \in Runs, Sole(c, r) PROVE Held(c, r)'
    BY <2>1, <2>2, <2>3, StillHeld DEF HeldRuns
  <2> QED
    BY <2>2, <2>3 DEF HeldRuns, Sole
<1> QED
  BY <1>1, <1>3, <1>4, <1>5, <1>6, <1>7, <1>8 DEF Next

\* At the start there is no row, no turn and no event.
LEMMA InitKeeps == Init => Keeps
<1> SUFFICES ASSUME Init PROVE Keeps
  OBVIOUS
<1>1. /\ \A a \in Actors : pc[a] = "idle"
      /\ \A q \in Requests : jobs[q] = "none" /\ turns[q] = NoTurn
      /\ \A r \in Runs : runs[r] = NoRun /\ events[r] = <<>>
      /\ cleaning = FALSE
  BY DEF Init
<1>2. /\ NoTurn.status = "absent" /\ ~NoTurn.job
      /\ NoRun.status = "absent" /\ NoRun.last = 0 /\ NoRun.active = None
      /\ Len(<<>>) = 0
  BY DEF NoTurn, NoRun
<1>3. Peace
  BY <1>1 DEF Peace
<1>4. ASSUME NEW c \in Clients, NEW r \in Runs PROVE Held(c, r)
  <2>1. \A a \in Actors : ~AtWork(a, r)
    BY <1>1 DEF AtWork, Resting
  <2>2. OnlyAborts(c, r) /\ NoQueue(r) /\ Mine(c, r)
    BY <1>1, <1>2, <2>1 DEF OnlyAborts, NoQueue, Mine
  <2>3. RowHeld(r)
    BY <1>1, <1>2 DEF RowHeld
  <2>4. Free(c, r)
    BY <1>1, <1>2 DEF Free, IsBusy, Live
  <2> QED
    BY <2>1, <2>2, <2>3, <2>4, Kinds DEF Held
<1> QED
  BY <1>3, <1>4 DEF Keeps, HeldRuns

\* A conversation that one CLI or REPL holds, executing its turns itself,
\* survives everything but a crash and a second server: aborts, cancelled
\* contexts and errors included, its stored conversation keeps the message
\* of every completed turn, its last_event_id is the last event's, and once
\* it is quiet it is busy for nobody.
THEOREM HeldConversations ==
  ASSUME \A r \in Runs : \E c \in Attached : Sole(c, r)
  PROVE  Spec => [](Calm => TranscriptKept /\ LastEventCurrent /\ BusyMeansActive)
<1> DEFINE Inv == Typed /\ Placed /\ Claimed /\ Backed /\ Keeps
<1>1. Init => Inv
  BY InitTyped, InitPlaced, InitClaimed, InitBacked, InitKeeps
<1>2. Inv /\ [Next]_vars => Inv'
  BY NextTyped, NextPlaced, NextClaimed, NextFollows, NextKeeps
<1>3. Inv => (Calm => TranscriptKept /\ LastEventCurrent /\ BusyMeansActive)
  <2> SUFFICES ASSUME Inv, Calm PROVE TranscriptKept /\ LastEventCurrent /\ BusyMeansActive
    OBVIOUS
  <2>1. \A r \in Runs : \E c \in Clients : Held(c, r)
    BY Kinds DEF Keeps, HeldRuns
  <2>2. TranscriptKept
    BY <2>1, RequestsAssumption DEF TranscriptKept, Held, RowHeld
  <2>3. LastEventCurrent
    BY <2>1 DEF LastEventCurrent, Held, RowHeld
  <2>4. BusyMeansActive
    <3> SUFFICES ASSUME NEW r \in Runs, Quiet(r), Undisturbed(r) PROVE ~IsBusy(runs[r])
      BY DEF BusyMeansActive
    <3>1. PICK c \in Clients : Held(c, r)
      BY <2>1
    <3>2. ~AtWork(c, r)
      BY Kinds DEF Quiet, AtWork, Resting
    <3> QED
      BY <3>1, <3>2 DEF Held, Free
  <2> QED
    BY <2>2, <2>3, <2>4
<1> QED
  BY <1>1, <1>2, <1>3, PTL DEF Spec

-----------------------------------------------------------------------------
(* A run marked running is tended.                                         *)

\* The deployments: every turn is queued for a worker, no job is given up
\* between two statements, and a run has one message or the queue one worker.
Queued ==
  /\ Attached = {}
  /\ Impatient \intersect Workers = {}
  /\ \/ \A p, q \in Requests : RunOf[p] = RunOf[q] => p = q
     \/ \A v, w \in Workers : v = w

\* Where a worker has marked its run running and is going to end it.
TendPCs == {"started"} \union AgentPCs \union {"execdone", "finalrun"}

TendedBy(w, r) == w \in Workers /\ pc[w] \in TendPCs /\ at[w].run = r

\* Somebody will end the run: its worker, or a server that starts.
Tended(r) ==
  \/ \E w \in Workers : TendedBy(w, r)
  \/ cleaning
  \/ Mortal \intersect Workers # {} /\ \E a \in Mortal : pc[a] = "dead"

AllTended == \A r \in Runs : runs[r].status = "running" => Tended(r)

\* A worker that is past the end of its execution leaves no running run.
Leaving(w) ==
  /\ pc[w] \in {"finish", "finalreload"} => Run(w).status # "running"
  /\ pc[w] = "execdone" /\ ~at[w].err => Run(w).status # "running"
  /\ pc[w] \in {"finalturn", "finalrow"} => at[w].row.status # "running"

AllLeave == \A w \in Workers : Leaving(w)

\* A run has one executor at a time.
SoleExecutor ==
  \A v, w \in Workers :
    pc[v] \in ExecutePCs /\ pc[w] \in ExecutePCs /\ at[v].run = at[w].run => v = w

\* In these deployments the exclusive claim makes the executor of a run unique.
LEMMA QueuedSole ==
  ASSUME Queued, Typed, Placed, Claimed PROVE SoleExecutor
<1> SUFFICES ASSUME NEW v \in Workers, NEW w \in Workers, pc[v] \in ExecutePCs,
                    pc[w] \in ExecutePCs, at[v].run = at[w].run
             PROVE  v = w
  BY DEF SoleExecutor
<1>1. /\ at[v].req \in Requests /\ at[w].req \in Requests
      /\ RunOf[at[v].req] = at[v].run /\ RunOf[at[w].req] = at[w].run
  BY Kinds, AwareTyped, AtWorkPlaces DEF Placed, AtItsRun
<1>2. CASE \A p, q \in Requests : RunOf[p] = RunOf[q] => p = q
  <2>1. at[v].req = at[w].req
    BY <1>1, <1>2
  <2> QED
    BY <2>1 DEF Claimed, SoleClaim
<1> QED
  BY <1>2 DEF Queued

\* The statuses that the writes of the code leave.
LEMMA WriteRunStatus ==
  ASSUME Typed, NEW a \in Actors, NEW s, NEW x, WriteRun(a, s, x), NEW r \in Runs
  PROVE  runs'[r].status = IF r = at[a].run THEN s ELSE runs[r].status
BY WriteRunTouches

\* An event changes no status.
LEMMA EmitStatusStays ==
  ASSUME Typed, NEW a, NEW kind, Emit(a, kind), NEW r \in Runs
  PROVE  runs'[r].status = runs[r].status
<1> DEFINE s == RunOf[at[a].req]
           row == [runs[s] EXCEPT !.last = Len(events[s]) + 1]
<1>1. runs' = [runs EXCEPT ![s] = row]
  BY DEF Emit
<1>2. CASE r = s
  <2>1. row.status = runs[r].status
    BY <1>2, RowsTyped DEF RunRow
  <2> HIDE DEF row
  <2>2. runs'[r] = row
    BY <1>1, <1>2, RowsTyped
  <2> QED
    BY <2>1, <2>2
<1>3. CASE r # s
  <2> HIDE DEF row, s
  <2> QED
    BY <1>1, <1>3, RowsTyped
<1> QED
  BY <1>2, <1>3

\* The statement of a marks run r running.
Marks(a, r) ==
  /\ a \in Workers /\ at[a].run = r /\ pc[a] \in ExecutePCs
  /\ pc'[a] \in TendPCs \/ (pc[a] = "finalrow" /\ at[a].row.status = "running")

\* A run becomes running only by a worker that is about to tend it.
LEMMA MarksRunning ==
  ASSUME Queued, Typed, Claimed, NEW a \in Actors, Step(a) \/ GiveUp(a) \/ ContextDone(a),
         NEW r \in Runs, runs'[r].status = "running"
  PROVE  runs[r].status = "running" \/ Marks(a, r)
<1>0. /\ \A to : pc' = [pc EXCEPT ![a] = to] => pc'[a] = to
      /\ a \notin Attached
  BY RowsTyped DEF Queued, LocalsTyped
<1>1. CASE a \in Clients /\ PrepareStep(a)
  <2>1. CASE CreateRun(a)
    <3>1. CASE /\ runs' = [runs EXCEPT ![at[a].run] = [NoRun EXCEPT !.status = ModeStatus(a)]]
      <4> DEFINE row == [NoRun EXCEPT !.status = "queued"]
      <4>1. row.status = "queued" /\ ModeStatus(a) = "queued"
        BY <1>0 DEF NoRun, ModeStatus
      <4>2. runs' = [runs EXCEPT ![at[a].run] = row]
        BY <3>1, <4>1
      <4> HIDE DEF row
      <4>3. runs'[r] = IF r = at[a].run THEN row ELSE runs[r]
        BY <4>2, RowsTyped
      <4> QED
        BY <4>1, <4>3
    <3>2. CASE runs' = runs
      BY <3>2
    <3> QED
      BY <2>1, <3>1, <3>2 DEF CreateRun
  <2>2. CASE ActivateTurn(a)
    BY <1>0, <2>2, WriteRunStatus DEF ActivateTurn, ModeStatus
  <2>3. CASE runs' = runs
    BY <2>3
  <2> QED
    BY <1>1, <2>1, <2>2, <2>3 DEF PrepareStep, LoadRun, FoundTurn, RefuseBusy, NoTurnYet,
       ReloadRun, CreateTurn, Prepared, db
<1>2. CASE a \in Clients /\ QueueStep(a)
  <2>1. CASE MarkRun(a)
    BY <2>1, WriteRunStatus DEF MarkRun
  <2>2. CASE EmitQueued(a)
    BY <2>2, EmitStatusStays DEF EmitQueued
  <2> QED
    BY <1>2, <2>1, <2>2 DEF QueueStep, EnqueueAgentRun, MarkTurn
<1>3. CASE AbortTurnStep(a)
  <2>1. CASE AbortRow(a)
    BY <2>1, WriteRunStatus DEF AbortRow
  <2>2. CASE EmitAborted(a)
    BY <2>2, EmitStatusStays DEF EmitAborted
  <2> QED
    BY <1>3, <2>1, <2>2 DEF AbortTurnStep, AbortTurn
<1>4. CASE a \in Aborters /\ AbortRunStep(a)
  <2>1. CASE RequestAbort(a)
    BY <2>1, RowsTyped DEF RequestAbort, RunRow
  <2>2. CASE AbortIdleRun(a)
    BY <2>2, WriteRunStatus DEF AbortIdleRun
  <2> QED
    BY <1>4, <2>1, <2>2 DEF AbortRunStep, CheckRun, RecheckRun, GetActiveTurn, db
<1>5. CASE WatchForAbort(a) \/ GiveUp(a) \/ ContextDone(a)
  BY <1>5 DEF WatchForAbort, GiveUp, ContextDone, db
<1>6. CASE a \in Clients \union Workers /\ (ExecuteStep(a) \/ AgentStep(a))
  <2>0. pc[a] \in ExecutePCs /\ a \in Workers
    <3>1. pc[a] \in StartPCs \union FinishPCs \union AgentPCs
      <4>1. ExecuteStep(a) => pc[a] \in StartPCs \union FinishPCs
        BY DEF StartPCs, FinishPCs, ExecuteStep, GetTurn, GetRun, SetTurn, SetRun, EmitStarted,
               GetFinished, FinalizeRun, ReloadFinal, FinalizeTurn, FinalizeRow, EmitStatus, Go
      <4>2. AgentStep(a) => pc[a] \in AgentPCs
        BY DEF AgentPCs, AgentStep, LoadConversation, ReadMeta, WriteMeta, InitialChunk,
               StreamChunk, PersistProgress, EndStream, FinishChunk, Go
      <4> QED
        BY <1>6, <4>1, <4>2
    <3> QED
      BY <1>0, <1>6, <3>1 DEF ExecutePCs, Claimed, AttachedExecute
  <2>1. CASE SetRun(a)
    BY <1>0, <2>0, <2>1, WriteRunStatus DEF SetRun, Go, Marks, TendPCs
  <2>2. CASE FinalizeRun(a)
    BY <2>2, WriteRunStatus DEF FinalizeRun
  <2>3. CASE FinalizeRow(a)
    BY <2>0, <2>3, WriteRunStatus DEF FinalizeRow, Go, Marks
  <2>4. CASE EmitStarted(a) \/ EmitStatus(a)
    BY <2>4, EmitStatusStays DEF EmitStarted, EmitStatus
  <2>5. CASE WriteMeta(a)
    <3> DEFINE row == [at[a].row EXCEPT !.status = at[a].want, !.trace = at[a].mem]
    <3>1. CASE runs' = runs
      BY <3>1
    <3>2. CASE /\ pc' = [pc EXCEPT ![a] = "initial"] \/ pc' = [pc EXCEPT ![a] = "stream"]
                  \/ (pc' = [pc EXCEPT ![a] = "finish"])
               /\ runs' = [runs EXCEPT ![at[a].run] = row]
      <4> HIDE DEF row
      <4>1. /\ runs'[r] = IF r = at[a].run THEN row ELSE runs[r]
            /\ pc'[a] \in {"initial", "stream", "finish"}
        BY <1>0, <3>2, RowsTyped
      <4> QED
        BY <2>0, <4>1 DEF Marks, TendPCs, AgentPCs
    <3> QED
      BY <2>5, <3>1, <3>2 DEF WriteMeta
  <2>6. CASE InitialChunk(a) \/ StreamChunk(a) \/ FinishChunk(a)
    BY <2>6, EmitStatusStays DEF InitialChunk, StreamChunk, FinishChunk
  <2>7. CASE runs' = runs
    BY <2>7
  <2> QED
    BY <1>6, <2>1, <2>2, <2>3, <2>4, <2>5, <2>6, <2>7
       DEF ExecuteStep, GetTurn, GetRun, SetTurn, GetFinished, ReloadFinal, FinalizeTurn,
           AgentStep, LoadConversation, ReadMeta, PersistProgress, EndStream, db
<1> QED
  BY <1>1, <1>2, <1>3, <1>4, <1>5, <1>6 DEF Step

\* The part of the program that a worker at the end of its execution is in.
LEMMA WorkerSteps ==
  ASSUME Queued, Typed, NEW w \in Workers, Step(w) \/ GiveUp(w) \/ ContextDone(w)
  PROVE  ExecuteStep(w) \/ AgentStep(w) \/ WatchForAbort(w) \/ AbortTurnStep(w)
BY Kinds DEF Step, Queued, GiveUp, ContextDone

\* A worker that tends its run goes on to do so, or has ended it.
LEMMA TendGoesOn ==
  ASSUME Queued, Typed, NEW w \in Workers, Step(w) \/ GiveUp(w) \/ ContextDone(w),
         pc[w] \in TendPCs, Leaving(w)
  PROVE  pc'[w] \in TendPCs \/ runs'[at[w].run].status # "running"
<1>0. /\ w \in Actors /\ at[w].run \in Runs
      /\ \A to : pc' = [pc EXCEPT ![w] = to] => pc'[w] = to
  BY Kinds, AwareTyped, RowsTyped DEF LocalsTyped
<1>1. TendPCs = {"started", "exec", "readmeta", "writemeta", "initial", "stream", "finish",
                 "execdone", "finalrun"}
  BY DEF TendPCs, AgentPCs
<1>2. CASE ExecuteStep(w)
  <2>1. CASE EmitStarted(w)
    BY <1>0, <1>1, <2>1 DEF EmitStarted, Go
  <2>2. CASE GetFinished(w)
    <3>1. /\ pc[w] = "execdone" /\ runs' = runs
          /\ pc'[w] = IF at[w].err /\ Run(w).status \in Live THEN "finalrun" ELSE "finalturn"
      BY <1>0, <2>2 DEF GetFinished, Go, db
    <3>2. CASE at[w].err
      BY <1>1, <3>1, <3>2 DEF Live, Run
    <3>3. CASE ~at[w].err
      BY <3>1, <3>3 DEF Leaving, Run
    <3> QED
      BY <3>2, <3>3
  <2>3. CASE FinalizeRun(w)
    BY <1>0, <2>3, WriteRunStatus DEF FinalizeRun
  <2>4. ~GetTurn(w) /\ ~GetRun(w) /\ ~SetTurn(w) /\ ~SetRun(w) /\ ~ReloadFinal(w)
        /\ ~FinalizeTurn(w) /\ ~FinalizeRow(w) /\ ~EmitStatus(w)
    BY <1>1 DEF GetTurn, GetRun, SetTurn, SetRun, ReloadFinal, FinalizeTurn, FinalizeRow,
                EmitStatus, Go
  <2> QED
    BY <1>2, <2>1, <2>2, <2>3, <2>4 DEF ExecuteStep
<1>3. CASE AgentStep(w)
  <2>1. CASE LoadConversation(w) \/ WriteMeta(w)
    BY <1>0, <1>1, <2>1 DEF LoadConversation, WriteMeta
  <2>2. CASE ReadMeta(w) \/ InitialChunk(w) \/ PersistProgress(w) \/ EndStream(w) \/ FinishChunk(w)
    BY <1>0, <1>1, <2>2 DEF ReadMeta, InitialChunk, PersistProgress, EndStream, FinishChunk, Go
  <2>3. CASE StreamChunk(w)
    BY <2>3 DEF StreamChunk
  <2> QED
    BY <1>3, <2>1, <2>2, <2>3 DEF AgentStep
<1>4. CASE WatchForAbort(w)
  BY <1>4 DEF WatchForAbort
<1>5. ~AbortTurnStep(w)
  BY <1>1 DEF AbortTurnStep, AbortTurn, AbortRow, EmitAborted, Go
<1> QED
  BY <1>2, <1>3, <1>4, <1>5, WorkerSteps

\* The end of an execution, statement by statement.
LEMMA OwnLeaving ==
  ASSUME Queued, Typed, NEW w \in Workers, Step(w) \/ GiveUp(w) \/ ContextDone(w), Leaving(w)
  PROVE  Leaving(w)'
<1> DEFINE lpcs == {"finish", "finalreload", "execdone", "finalturn", "finalrow"}
<1>0. /\ w \in Actors /\ at[w].run \in Runs /\ at[w] \in Local /\ at \in [Actors -> Local]
      /\ at[w].cancelled \in BOOLEAN /\ at[w].err \in BOOLEAN
      /\ \A to : pc' = [pc EXCEPT ![w] = to] => pc'[w] = to
  BY Kinds, AwareTyped, LocalFields, RowsTyped DEF LocalsTyped
<1>1. ASSUME pc'[w] \notin lpcs PROVE Leaving(w)'
  BY <1>1 DEF Leaving
<1>2. CASE ExecuteStep(w)
  <2>1. CASE \/ GetTurn(w) \/ GetRun(w) \/ SetTurn(w) \/ SetRun(w) \/ EmitStarted(w)
             \/ FinalizeRow(w) \/ EmitStatus(w)
    <3>1. pc'[w] \in {"getrun", "abturn", "setturn", "setrun", "started", "exec", "emitstatus", "idle"}
      BY <1>0, <2>1 DEF GetTurn, GetRun, SetTurn, SetRun, EmitStarted, FinalizeRow, EmitStatus,
                        Go, Return
    <3> QED
      BY <1>1, <3>1
  <2>2. CASE GetFinished(w)
    <3>1. /\ pc[w] = "execdone" /\ at'[w].row = Run(w)
          /\ pc'[w] = IF at[w].err /\ Run(w).status \in Live THEN "finalrun" ELSE "finalturn"
      BY <1>0, <2>2, RowRead DEF GetFinished, Go
    <3>2. pc'[w] = "finalturn" => Run(w).status # "running"
      <4>1. CASE at[w].err
        BY <3>1, <4>1 DEF Live
      <4>2. CASE ~at[w].err
        BY <3>1, <4>2 DEF Leaving
      <4> QED
        BY <4>1, <4>2
    <3>3. pc'[w] \in {"finalrun", "finalturn"}
      BY <3>1
    <3> QED
      BY <3>1, <3>2, <3>3 DEF Leaving
  <2>3. CASE FinalizeRun(w)
    <3>0. PICK s \in {"aborted", "failed"} : WriteRun(w, s, None)
      BY <2>3 DEF FinalizeRun
    <3>0a. runs'[at[w].run].status = s
      BY <3>0, <1>0, WriteRunStatus
    <3>0b. pc'[w] = "finalreload" /\ at' = at
      BY <1>0, <2>3 DEF FinalizeRun, Go
    <3>1. pc'[w] = "finalreload" /\ at' = at /\ runs'[at[w].run].status # "running"
      BY <3>0, <3>0a, <3>0b
    <3> QED
      BY <3>1 DEF Leaving, Run
  <2>4. CASE ReloadFinal(w)
    <3>1. pc[w] = "finalreload" /\ pc'[w] = "finalturn" /\ at'[w].row = Run(w)
      BY <1>0, <2>4, RowRead DEF ReloadFinal, Go
    <3> QED
      BY <3>1 DEF Leaving
  <2>5. CASE FinalizeTurn(w)
    <3>1. pc[w] = "finalturn" /\ pc'[w] = "finalrow" /\ at' = at
      BY <1>0, <2>5 DEF FinalizeTurn, Go
    <3> QED
      BY <3>1 DEF Leaving
  <2> QED
    BY <1>2, <2>1, <2>2, <2>3, <2>4, <2>5 DEF ExecuteStep
<1>3. CASE AgentStep(w)
  <2>1. CASE LoadConversation(w)
    <3>1. PICK ok \in {TRUE, FALSE} :
            /\ pc' = [pc EXCEPT ![w] = IF ok THEN "readmeta" ELSE "execdone"]
            /\ at' = [at EXCEPT ![w].mem = IF ok THEN Run(w).trace \union {at[w].req} ELSE @,
                                ![w].err = ~ok]
      BY <2>1 DEF LoadConversation
    <3>2. at'[w].err = ~ok
      BY <1>0, <3>1 DEF Local
    <3>3. CASE ok
      BY <1>0, <1>1, <3>1, <3>3
    <3>4. CASE ~ok
      BY <1>0, <3>1, <3>2, <3>4 DEF Leaving
    <3> QED
      BY <3>3, <3>4
  <2>2. CASE ReadMeta(w) \/ StreamChunk(w) \/ PersistProgress(w) \/ EndStream(w)
    <3>1. pc'[w] \in {"writemeta", "stream", "readmeta"}
      BY <1>0, <2>2 DEF ReadMeta, StreamChunk, PersistProgress, EndStream, Go
    <3> QED
      BY <1>1, <3>1
  <2>3. CASE WriteMeta(w)
    <3> DEFINE row == [at[w].row EXCEPT !.status = at[w].want, !.trace = at[w].mem]
               l == [at[w] EXCEPT !.err = TRUE]
    <3>1. \/ pc'[w] = "execdone" /\ at' = [at EXCEPT ![w] = l]
          \/ pc'[w] \in {"initial", "stream"}
          \/ /\ pc'[w] = "finish" /\ at' = at /\ at[w].want # "running"
             /\ runs' = [runs EXCEPT ![at[w].run] = row]
      BY <1>0, <2>3 DEF WriteMeta
    <3>2. row.status = at[w].want /\ l.err
      BY <1>0, AwareTyped DEF RunRow, Local
    <3> HIDE DEF row, l
    <3>3. CASE pc'[w] = "execdone" /\ at' = [at EXCEPT ![w] = l]
      <4>1. at'[w] = l
        BY <1>0, <3>3
      <4> QED
        BY <3>2, <3>3, <4>1 DEF Leaving
    <3>4. CASE /\ pc'[w] = "finish" /\ at' = at /\ at[w].want # "running"
               /\ runs' = [runs EXCEPT ![at[w].run] = row]
      <4>1. runs'[at[w].run] = row
        BY <1>0, <3>4, RowsTyped
      <4> QED
        BY <3>2, <3>4, <4>1 DEF Leaving, Run
    <3> QED
      BY <1>1, <3>1, <3>3, <3>4
  <2>4. CASE InitialChunk(w)
    <3> DEFINE l == [at[w] EXCEPT !.err = at[w].cancelled]
    <3>1. /\ pc'[w] = IF at[w].cancelled THEN "execdone" ELSE "stream"
          /\ at' = [at EXCEPT ![w] = l]
      BY <1>0, <2>4 DEF InitialChunk, Go
    <3>2. l.err = at[w].cancelled
      BY <1>0 DEF Local
    <3> HIDE DEF l
    <3>3. at'[w] = l
      BY <1>0, <3>1
    <3> QED
      BY <1>1, <3>1, <3>2, <3>3 DEF Leaving
  <2>5. CASE FinishChunk(w)
    <3> DEFINE l == [at[w] EXCEPT !.err = at[w].want # "completed" \/ at[w].cancelled]
    <3>1. /\ pc[w] = "finish" /\ pc'[w] = "execdone" /\ at' = [at EXCEPT ![w] = l]
          /\ runs' = runs \/ Emit(w, "trace_chunk")
      BY <1>0, <2>5 DEF FinishChunk, Go
    <3>2. l.run = at[w].run
      BY <1>0 DEF Local
    <3> HIDE DEF l
    <3>3. at'[w].run = at[w].run
      BY <1>0, <3>1, <3>2
    <3>4. runs'[at[w].run].status = runs[at[w].run].status
      BY <1>0, <3>1, EmitStatusStays
    <3> QED
      BY <3>1, <3>3, <3>4 DEF Leaving, Run
  <2> QED
    BY <1>3, <2>1, <2>2, <2>3, <2>4, <2>5 DEF AgentStep
<1>4. CASE WatchForAbort(w)
  <2> DEFINE l == [at[w] EXCEPT !.cancelled = TRUE]
  <2>1. pc' = pc /\ runs' = runs /\ at' = [at EXCEPT ![w] = l]
    BY <1>4 DEF WatchForAbort, db
  <2>2. l.run = at[w].run /\ l.err = at[w].err /\ l.row = at[w].row
    BY <1>0 DEF Local
  <2> HIDE DEF l
  <2>3. at'[w] = l
    BY <1>0, <2>1
  <2> QED
    BY <2>1, <2>2, <2>3 DEF Leaving, Run
<1>5. CASE AbortTurnStep(w)
  <2>1. pc'[w] \in {"abrow", "abemit", "idle"}
    BY <1>0, <1>5 DEF AbortTurnStep, AbortTurn, AbortRow, EmitAborted, Go, Return
  <2> QED
    BY <1>1, <2>1
<1> QED
  BY <1>2, <1>3, <1>4, <1>5, WorkerSteps

\* Every statement keeps the running runs tended.
LEMMA StepTended ==
  ASSUME Queued, Typed, Placed, Claimed, AllTended, AllLeave,
         NEW a \in Actors, Step(a) \/ GiveUp(a) \/ ContextDone(a)
  PROVE  AllTended' /\ AllLeave'
<1>1. Acts(a) /\ SoleExecutor
  BY StepActs, QueuedSole
<1>2. \A b \in Actors : b # a => pc'[b] = pc[b] /\ at'[b] = at[b]
  BY <1>1 DEF Acts
<1>3. pc'[a] # "idle" /\ a \in Workers => at'[a].run = at[a].run
  BY <1>1 DEF Acts, GoesOnAt
<1>4. AllLeave'
  <2> SUFFICES ASSUME NEW w \in Workers PROVE Leaving(w)'
    BY DEF AllLeave
  <2>0. w \in Actors /\ Leaving(w) /\ at[w].run \in Runs
    BY Kinds, AwareTyped DEF AllLeave
  <2>1. CASE w = a
    BY <2>0, <2>1, OwnLeaving
  <2>2. CASE w # a
    <3>1. pc'[w] = pc[w] /\ at'[w] = at[w]
      BY <1>2, <2>0, <2>2
    <3>2. ASSUME pc[w] \in ExecutePCs, Run(w).status # "running"
          PROVE  runs'[at[w].run].status # "running"
      <4>1. ~Marks(a, at[w].run)
        BY <1>1, <2>2, <3>2 DEF Marks, SoleExecutor
      <4> QED
        BY <2>0, <3>2, <4>1, MarksRunning DEF Run
    <3>3. {"finish", "finalreload", "execdone"} \subseteq ExecutePCs
      BY DEF ExecutePCs, AgentPCs, FinishPCs
    <3> QED
      BY <2>0, <3>1, <3>2, <3>3 DEF Leaving, Run
  <2> QED
    BY <2>1, <2>2
<1>5. AllTended'
  <2> SUFFICES ASSUME NEW r \in Runs, runs'[r].status = "running" PROVE Tended(r)'
    BY DEF AllTended
  <2>1. CASE runs[r].status = "running"
    <3>1. Tended(r)
      BY <2>1 DEF AllTended
    <3>2. ASSUME NEW w \in Workers, TendedBy(w, r) PROVE TendedBy(w, r)'
      <4>1. CASE w = a
        <5>1. pc'[a] \in TendPCs
          BY <3>2, <4>1, TendGoesOn DEF TendedBy, AllLeave
        <5>2. "idle" \notin TendPCs
          BY DEF TendPCs, AgentPCs
        <5> QED
          BY <1>3, <3>2, <4>1, <5>1, <5>2 DEF TendedBy
      <4>2. CASE w # a
        BY <1>2, <3>2, <4>2, Kinds DEF TendedBy
      <4> QED
        BY <4>1, <4>2
    <3>3. cleaning' = cleaning
      BY <1>1 DEF Acts, environment
    <3>4. ASSUME NEW b \in Mortal, pc[b] = "dead" PROVE pc'[b] = "dead"
      BY <1>1, <1>2, <3>4, ActorsAssumption DEF Acts, Resting
    <3> QED
      BY <3>1, <3>2, <3>3, <3>4 DEF Tended
  <2>2. CASE runs[r].status # "running"
    <3>1. Marks(a, r)
      BY <2>2, MarksRunning
    <3>2. pc'[a] \in TendPCs /\ a \in Workers /\ at[a].run = r
      BY <3>1 DEF Marks, AllLeave, Leaving
    <3>3. "idle" \notin TendPCs
      BY DEF TendPCs, AgentPCs
    <3>4. TendedBy(a, r)'
      BY <1>3, <3>2, <3>3 DEF TendedBy
    <3> QED
      BY <3>2, <3>4 DEF Tended
  <2> QED
    BY <2>1, <2>2
<1> QED
  BY <1>4, <1>5

\* A step that moves no worker at work and leaves the rows.
LEMMA StillTended ==
  ASSUME AllTended, AllLeave, runs' = runs,
         \A w \in Workers : (pc'[w] = pc[w] /\ at'[w] = at[w]) \/ pc[w] \in Resting,
         \A w \in Workers : pc'[w] = pc[w] \/ pc'[w] \in Resting \union {"getturn"},
         cleaning => cleaning',
         \A b \in Mortal : pc[b] = "dead" => pc'[b] = "dead" \/ cleaning' \/ Mortal \intersect Workers = {}
  PROVE  AllTended' /\ AllLeave'
<1>1. \A p \in TendPCs \union {"finish", "finalreload", "execdone", "finalturn", "finalrow"} :
        p \notin Resting /\ p # "getturn"
  BY DEF TendPCs, AgentPCs, Resting
<1>2. AllLeave'
  BY <1>1 DEF AllLeave, Leaving, Run
<1>3. AllTended'
  <2> SUFFICES ASSUME NEW r \in Runs, runs[r].status = "running" PROVE Tended(r)'
    BY DEF AllTended
  <2>1. Tended(r)
    BY DEF AllTended
  <2>2. \A w \in Workers : TendedBy(w, r) => TendedBy(w, r)'
    BY <1>1 DEF TendedBy
  <2> QED
    BY <2>1, <2>2 DEF Tended
<1> QED
  BY <1>2, <1>3

\* Every step keeps the running runs tended.
LEMMA NextTended ==
  ASSUME Queued PROVE Typed /\ Placed /\ Claimed /\ Backed /\ AllTended /\ AllLeave /\ [Next]_vars
                        => (AllTended /\ AllLeave)'
<1> SUFFICES ASSUME Typed, Placed, Claimed, Backed, AllTended, AllLeave, [Next]_vars
             PROVE  AllTended' /\ AllLeave'
  OBVIOUS
<1>0. \A w \in Workers : w \in Actors
  BY Kinds
<1>1. CASE \E a \in Actors : Step(a) \/ GiveUp(a) \/ ContextDone(a)
  BY <1>1, StepTended
<1>2. CASE \/ \E c \in Clients, q \in Requests : Submit(c, q)
           \/ \E w \in Workers, q \in Requests : Fetch(w, q)
           \/ \E a \in Aborters, r \in Runs : AbortRun(a, r)
  <2>1. /\ UNCHANGED <<runs, cleaning>>
        /\ \E a \in Actors, q \in Requests \union {None}, r \in Runs :
             Begins(a, q, r) /\ (a \in Workers => pc'[a] = "getturn")
    BY <1>2, Kinds, SubmitBegins, FetchBegins, AbortBegins, RequestsAssumption DEF environment, db
  <2>2. PICK a \in Actors, q \in Requests \union {None}, r \in Runs :
             Begins(a, q, r) /\ (a \in Workers => pc'[a] = "getturn")
    BY <2>1
  <2>3. /\ \A w \in Workers : (pc'[w] = pc[w] /\ at'[w] = at[w]) \/ pc[w] \in Resting
        /\ \A w \in Workers : pc'[w] = pc[w] \/ pc'[w] \in Resting \union {"getturn"}
        /\ \A b \in Mortal : pc[b] = "dead" => pc'[b] = "dead"
    BY <1>0, <2>2, ActorsAssumption DEF Begins, Resting
  <2> QED
    BY <2>1, <2>3, StillTended
<1>3. CASE \E q \in Requests : Rescue(q)
  BY <1>3, StillTended DEF Rescue, environment
<1>4. CASE Crash
  <2>1. /\ runs' = runs /\ cleaning' = cleaning
        /\ \A b \in Actors : IF b \in Mortal THEN pc'[b] = "dead"
                             ELSE pc'[b] = pc[b] /\ at'[b] = at[b]
    BY <1>4 DEF Crash, db
  <2>2. AllLeave'
    BY <1>0, <2>1 DEF AllLeave, Leaving, Run
  <2>3. AllTended'
    <3> SUFFICES ASSUME NEW r \in Runs, runs[r].status = "running" PROVE Tended(r)'
      BY <2>1 DEF AllTended
    <3>1. Tended(r)
      BY DEF AllTended
    <3>2. \A w \in Workers : TendedBy(w, r) => TendedBy(w, r)' \/ w \in Mortal
      BY <1>0, <2>1 DEF TendedBy
    <3>3. \A w \in Workers \intersect Mortal : Tended(r)'
      BY <1>0, <2>1 DEF Tended
    <3>4. \A b \in Mortal : pc'[b] = "dead"
      BY <2>1, ActorsAssumption
    <3> QED
      BY <2>1, <3>1, <3>2, <3>3, <3>4 DEF Tended
  <2> QED
    BY <2>2, <2>3
<1>5. CASE Restart
  <2>1. /\ runs' = runs /\ at' = at
        /\ cleaning' = (cleaning \/ Mortal \intersect Workers # {})
        /\ \A b \in Actors : IF b \in Mortal THEN pc'[b] = "idle" ELSE pc'[b] = pc[b]
        /\ \A b \in Mortal : pc[b] = "dead"
    BY <1>5 DEF Restart, db, Backed, DeadTogether
  <2>2. /\ \A w \in Workers : (pc'[w] = pc[w] /\ at'[w] = at[w]) \/ pc[w] \in Resting
        /\ \A w \in Workers : pc'[w] = pc[w] \/ pc'[w] \in Resting \union {"getturn"}
        /\ \A b \in Mortal : cleaning' \/ Mortal \intersect Workers = {}
    BY <1>0, <2>1 DEF Resting
  <2> QED
    BY <2>1, <2>2, StillTended
<1>6. CASE StartServer \/ UNCHANGED vars
  BY <1>6, StillTended DEF StartServer, db, vars
<1>7. CASE MarkStaleAborted
  <2>1. /\ \A r \in Runs : runs'[r].status # "running"
        /\ pc' = pc /\ at' = at
    BY <1>7, CleanupTouches
  <2>2. \A w \in Workers : at[w].run \in Runs
    BY <1>0, AwareTyped
  <2> QED
    BY <2>1, <2>2 DEF AllTended, AllLeave, Leaving, Run
<1> QED
  BY <1>1, <1>2, <1>3, <1>4, <1>5, <1>6, <1>7 DEF Next

\* In a deployment that queues every turn, a run marked running is tended:
\* a worker is going to end it, or a server that has started will, whatever
\* crashes, restarts and second servers come between.
THEOREM RunsAreTended ==
  ASSUME Queued PROVE Spec => []RunningIsTended
<1> DEFINE Inv == Typed /\ Placed /\ Claimed /\ Backed /\ AllTended /\ AllLeave
<1>1. Init => Inv
  <2>1. Init => AllTended /\ AllLeave
    BY Kinds DEF Init, AllTended, AllLeave, Leaving, NoRun
  <2> QED
    BY <2>1, InitTyped, InitPlaced, InitClaimed, InitBacked
<1>2. Inv /\ [Next]_vars => Inv'
  BY NextTyped, NextPlaced, NextClaimed, NextFollows, NextTended
<1>3. Inv => RunningIsTended
  <2> SUFFICES ASSUME AllTended, NEW r \in Runs, runs[r].status = "running", ~cleaning,
                      \A a \in Actors : pc[a] # "dead"
               PROVE  \E a \in Actors : pc[a] # "idle" /\ at[a].run = r
    BY DEF RunningIsTended
  <2>1. PICK w \in Workers : TendedBy(w, r)
    BY ActorsAssumption DEF AllTended, Tended
  <2>2. "idle" \notin TendPCs /\ w \in Actors
    BY Kinds DEF TendPCs, AgentPCs
  <2> QED
    BY <2>1, <2>2 DEF TendedBy
<1> QED
  BY <1>1, <1>2, <1>3, PTL DEF Spec
===============================================================================
