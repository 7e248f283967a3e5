---------------------------- MODULE EventStream ----------------------------
(***************************************************************************)
(* How the events of a run reach those who watch it.                       *)
(*                                                                         *)
(* The writers of AgentRuns are reduced here to what a watcher can see:    *)
(* rows appended to the log of agent_run_events, in one transaction with   *)
(* last_event_id, then published on the bus of the writer's process; and   *)
(* whole-row writes of agent_runs, which put an older last_event_id back.  *)
(* One turn is watched, and the late row write of MarkTurnQueued, which    *)
(* would make a finished run queued again, is left to AgentRuns.           *)
(*                                                                         *)
(* An event stream (SSE) reads the backlog, subscribes to the bus of the   *)
(* server's process and polls the log besides, since a full channel drops  *)
(* events and other processes have a bus of their own.  A client whose     *)
(* connection breaks comes back with the id of the last event it got.  The *)
(* CLI replays the log and reads the run's status, in turns.               *)
(*                                                                         *)
(* An action is one statement of the database, one critical section of the *)
(* bus or one turn of a select.  Ids are positions in the log of the run.  *)
(***************************************************************************)
EXTENDS Naturals, Sequences, FiniteSetsExt

CONSTANTS
  Executor,       \* the worker that executes the turn
  Others,         \* other writers: they emit one event each
  Remote,         \* writers in a process other than the server's
  Clients,        \* clients of the event stream
  MaxConnections, \* bound: connections of one client
  Capacity,       \* room in a subscriber's channel
  Batch           \* events read from the log at once

Writers == {Executor} \union Others

ASSUME StreamAssumption ==
  /\ Executor \notin Others
  /\ Remote \subseteq Writers
  /\ MaxConnections \in Nat
  /\ Capacity \in Nat \ {0}
  /\ Batch \in Nat \ {0}

VARIABLES
  log,     \* the run's rows of agent_run_events
  last,    \* last_event_id of the run
  over,    \* the run has a terminal status
  pos,     \* how far each writer has come in its program
  half,    \* it is between the two statements of an operation
  kept,    \* the last_event_id that it has read
  subs,    \* the connections registered on the server's bus
  chan,    \* their channels
  shut,    \* the channels that are closed
  gone,    \* the connections whose request context is done
  reader,  \* the next step of each client's handler
  conn,    \* the client's current connection
  after,   \* the last event id it was sent
  got,     \* all event ids it was sent
  live,    \* those of them that came through the bus
  cli,     \* the next step of the CLI that waits for the run
  cliAfter \* the last event it has replayed

writerVars == <<log, last, over, pos, half, kept>>
busVars == <<subs, chan, shut, gone>>
clientVars == <<reader, conn, after, got, live>>
vars == <<writerVars, busVars, clientVars, cli, cliAfter>>

-----------------------------------------------------------------------------
(* The writers.                                                            *)

Kinds == {"queued", "plan_ready", "trace_chunk", "status"}
Emit(kind) == [op |-> "emit", what |-> kind]
Rewrite(what) == [op |-> "rewrite", what |-> what]

\* MarkTurnQueued, beside ExecuteTurn with the agent.Run in it: the run's
\* row is terminal before the last events of the turn exist.  The event
\* plan_ready stands for all that a run emits before.
Program(w) ==
  IF w = Executor
    THEN <<Emit("plan_ready"), Rewrite("completed"), Emit("trace_chunk"), Rewrite("completed"),
           Emit("status")>>
    ELSE <<Emit("queued")>>

Does(w, op) == pos[w] <= Len(Program(w)) /\ Program(w)[pos[w]].op = op
What(w) == Program(w)[pos[w]].what
Proceed(w) == pos' = [pos EXCEPT ![w] = @ + 1] /\ half' = [half EXCEPT ![w] = FALSE]

\* store.CreateAgentRunEvent
CreateEvent(w) ==
  /\ Does(w, "emit") /\ ~half[w]
  /\ log' = Append(log, What(w))
  /\ last' = Len(log) + 1
  /\ kept' = [kept EXCEPT ![w] = Len(log) + 1]
  /\ half' = [half EXCEPT ![w] = TRUE]
  /\ UNCHANGED <<over, pos, busVars, clientVars, cli, cliAfter>>

\* Mutant: publishing does not look for room in the channel.
ReceivesAlways(w, x) == w \notin Remote /\ x \in subs

Receives(w, x) == w \notin Remote /\ x \in subs /\ Len(chan[x]) < Capacity

\* EventBus.Publish: a full channel misses the event.
Publish(w) ==
  /\ Does(w, "emit") /\ half[w]
  /\ chan' = [x \in DOMAIN chan |-> IF Receives(w, x) THEN Append(chan[x], kept[w]) ELSE chan[x]]
  /\ Proceed(w)
  /\ UNCHANGED <<log, last, over, kept, subs, shut, gone, clientVars, cli, cliAfter>>

\* store.UpdateAgentRun reads the row in one statement, writes it in another.
ReadRow(w) ==
  /\ Does(w, "rewrite") /\ ~half[w]
  /\ kept' = [kept EXCEPT ![w] = last]
  /\ half' = [half EXCEPT ![w] = TRUE]
  /\ UNCHANGED <<log, last, over, pos, busVars, clientVars, cli, cliAfter>>

WriteRow(w) ==
  /\ Does(w, "rewrite") /\ half[w]
  /\ last' = kept[w]
  /\ over' = (over \/ What(w) = "completed")
  /\ Proceed(w)
  /\ UNCHANGED <<log, kept, busVars, clientVars, cli, cliAfter>>

-----------------------------------------------------------------------------
(* The bus: what happens when a request's context is done.                 *)

Conns == Clients \X (1..MaxConnections)

\* Mutant: the channel is closed before the bus forgets it.
CloseFirst(x) ==
  /\ x \in gone /\ x \in subs
  /\ shut' = shut \union {x}
  /\ subs' = IF x \in shut THEN subs \ {x} ELSE subs
  /\ UNCHANGED <<writerVars, chan, gone, clientVars, cli, cliAfter>>

Unsubscribe(x) ==
  /\ x \in gone /\ x \in subs
  /\ subs' = subs \ {x}
  /\ UNCHANGED <<writerVars, chan, shut, gone, clientVars, cli, cliAfter>>

CloseChannel(x) ==
  /\ x \in gone /\ x \notin subs /\ x \notin shut
  /\ shut' = shut \union {x}
  /\ UNCHANGED <<writerVars, subs, chan, gone, clientVars, cli, cliAfter>>

-----------------------------------------------------------------------------
(* handleStreamAppRunEvents.                                               *)

Goto(c, from, to) == reader[c] = from /\ reader' = [reader EXCEPT ![c] = to]
Current(c) == <<c, conn[c]>>

\* The request carries after_event_id or Last-Event-ID.
Connect(c) ==
  /\ conn[c] < MaxConnections
  /\ Goto(c, "away", "subscribe")
  /\ conn' = [conn EXCEPT ![c] = @ + 1]
  /\ UNCHANGED <<writerVars, busVars, after, got, live, cli, cliAfter>>

Subscribe(c) ==
  /\ Goto(c, "subscribe", "flush")
  /\ subs' = subs \union {Current(c)}
  /\ UNCHANGED <<writerVars, chan, shut, gone, conn, after, got, live, cli, cliAfter>>

\* ListAgentRunEventsAfter(n): the ids of the next batch
Listed(n) == [i \in 1..Min({Batch, Len(log) - n}) |-> n + i]

Send(c, ids) ==
  /\ got' = [got EXCEPT ![c] = @ \o ids]
  /\ after' = [after EXCEPT ![c] = IF ids = <<>> THEN @ ELSE ids[Len(ids)]]

\* Mutant: after a batch the stream jumps to the run's last event.
FlushToLast(c) ==
  LET ids == Listed(after[c]) IN
    /\ reader[c] = "flush"
    /\ got' = [got EXCEPT ![c] = @ \o ids]
    /\ after' = [after EXCEPT ![c] = IF ids = <<>> THEN @ ELSE Len(log)]
    /\ reader' = [reader EXCEPT ![c] = IF Len(ids) < Batch THEN "check" ELSE "flush"]
    /\ UNCHANGED <<writerVars, busVars, conn, live, cli, cliAfter>>

\* flushBacklog, one batch
FlushBacklog(c) ==
  LET ids == Listed(after[c]) IN
    /\ reader[c] = "flush"
    /\ Send(c, ids)
    /\ reader' = [reader EXCEPT ![c] = IF Len(ids) < Batch THEN "check" ELSE "flush"]
    /\ UNCHANGED <<writerVars, busVars, conn, live, cli, cliAfter>>

\* Mutant: a stream waits for events beyond the last.
CloseBehindLast(c) ==
  /\ reader[c] = "check"
  /\ IF over /\ after[c] > last
       THEN Goto(c, "check", "away") /\ gone' = gone \union {Current(c)}
       ELSE Goto(c, "check", "select") /\ UNCHANGED gone
  /\ UNCHANGED <<writerVars, subs, chan, shut, conn, after, got, live, cli, cliAfter>>

\* shouldClose: the handler returns, which ends the request's context.
ShouldClose(c) ==
  /\ reader[c] = "check"
  /\ IF over /\ after[c] >= last
       THEN Goto(c, "check", "away") /\ gone' = gone \union {Current(c)}
       ELSE Goto(c, "check", "select") /\ UNCHANGED gone
  /\ UNCHANGED <<writerVars, subs, chan, shut, conn, after, got, live, cli, cliAfter>>

\* Mutant: an event from the bus is sent again after the backlog had it.
TakeAlways(c) ==
  LET x == Current(c) IN
    /\ reader[c] = "select" /\ chan[x] # <<>>
    /\ chan' = [chan EXCEPT ![x] = Tail(@)]
    /\ Send(c, <<Head(chan[x])>>)
    /\ live' = [live EXCEPT ![c] = @ \union {Head(chan[x])}]
    /\ reader' = [reader EXCEPT ![c] = "check"]
    /\ UNCHANGED <<writerVars, subs, shut, gone, conn, cli, cliAfter>>

TakeLive(c) ==
  LET x == Current(c)
      id == Head(chan[x]) IN
    /\ reader[c] = "select" /\ chan[x] # <<>>
    /\ chan' = [chan EXCEPT ![x] = Tail(@)]
    /\ IF id <= after[c]
         THEN UNCHANGED <<reader, after, got, live>>
         ELSE /\ Send(c, <<id>>)
              /\ live' = [live EXCEPT ![c] = @ \union {id}]
              /\ reader' = [reader EXCEPT ![c] = "check"]
    /\ UNCHANGED <<writerVars, subs, shut, gone, conn, cli, cliAfter>>

\* Mutant: a tick only looks whether the run is over.
PollStatus(c) ==
  /\ Goto(c, "select", "check")
  /\ UNCHANGED <<writerVars, busVars, conn, after, got, live, cli, cliAfter>>

Poll(c) ==
  /\ Goto(c, "select", "flush")
  /\ UNCHANGED <<writerVars, busVars, conn, after, got, live, cli, cliAfter>>

\* The connection breaks; a handler that has not subscribed has no channel.
Disconnect(c) ==
  /\ reader[c] # "away"
  /\ reader' = [reader EXCEPT ![c] = "away"]
  /\ gone' = gone \union {Current(c)}
  /\ UNCHANGED <<writerVars, subs, chan, shut, conn, after, got, live, cli, cliAfter>>

-----------------------------------------------------------------------------
(* waitForQueuedAgentRun: a batch of events, then the status.              *)

Replay ==
  /\ cli = "replay"
  /\ cliAfter' = cliAfter + Len(Listed(cliAfter))
  /\ cli' = "status"
  /\ UNCHANGED <<writerVars, busVars, clientVars>>

\* Mutant: the CLI waits for an event behind the last.
ReadStatusAtLast ==
  /\ cli = "status"
  /\ cli' = IF over /\ cliAfter > last THEN "done" ELSE "replay"
  /\ UNCHANGED <<writerVars, busVars, clientVars, cliAfter>>

ReadStatus ==
  /\ cli = "status"
  /\ cli' = IF over THEN "done" ELSE "replay"
  /\ UNCHANGED <<writerVars, busVars, clientVars, cliAfter>>

-----------------------------------------------------------------------------
(* The specification.  A behaviour has the CLI or the event streams: none  *)
(* of them changes what the other sees.                                    *)

Init ==
  /\ log = <<>> /\ last = 0 /\ over = FALSE
  /\ pos = [w \in Writers |-> 1]
  /\ half = [w \in Writers |-> FALSE]
  /\ kept = [w \in Writers |-> 0]
  /\ subs = {} /\ shut = {} /\ gone = {}
  /\ chan = [x \in Conns |-> <<>>]
  /\ reader = [c \in Clients |-> "away"]
  /\ cli \in {"absent", "replay"} /\ cliAfter = 0
  /\ conn = [c \in Clients |-> IF cli = "absent" THEN 0 ELSE MaxConnections]
  /\ after = [c \in Clients |-> 0]
  /\ got = [c \in Clients |-> <<>>]
  /\ live = [c \in Clients |-> {}]

WriterStep(w) == CreateEvent(w) \/ Publish(w) \/ ReadRow(w) \/ WriteRow(w)

StreamStep(c) ==
  \/ Subscribe(c) \/ FlushBacklog(c) \/ ShouldClose(c) \/ TakeLive(c) \/ Poll(c)

Next ==
  \/ \E w \in Writers : WriterStep(w)
  \/ \E x \in Conns : Unsubscribe(x) \/ CloseChannel(x)
  \/ \E c \in Clients : StreamStep(c) \/ Connect(c) \/ Disconnect(c)
  \/ Replay \/ ReadStatus

Spec == Init /\ [][Next]_vars

\* Writers, handlers and the CLI go on (the Go scheduler; the tickers make
\* every select turn).  Nothing makes a client connect or a connection break.
FairSpec ==
  /\ Spec
  /\ \A w \in Writers : WF_vars(WriterStep(w))
  /\ \A c \in Clients : WF_vars(StreamStep(c))
  /\ WF_vars(Replay \/ ReadStatus)

-----------------------------------------------------------------------------
(* Properties.                                                             *)

Ids == 0..Len(log)

WritersTyped ==
  /\ log \in Seq(Kinds) /\ last \in Ids /\ over \in BOOLEAN
  /\ \A w \in Writers : pos[w] \in 1..(Len(Program(w)) + 1)
  /\ DOMAIN pos = Writers
  /\ half \in [Writers -> BOOLEAN]
  /\ kept \in [Writers -> Ids]

BusTyped ==
  /\ subs \subseteq Conns /\ shut \subseteq Conns /\ gone \subseteq Conns
  /\ DOMAIN chan = Conns
  /\ \A x \in Conns : chan[x] \in Seq(Ids) /\ Len(chan[x]) <= Capacity

ReadersTyped ==
  /\ reader \in [Clients -> {"away", "subscribe", "flush", "check", "select"}]
  /\ conn \in [Clients -> 0..MaxConnections]

SentTyped ==
  /\ after \in [Clients -> Ids]
  /\ DOMAIN got = Clients /\ DOMAIN live = Clients
  /\ \A c \in Clients : got[c] \in Seq(Ids) /\ live[c] \subseteq Ids

CliTyped == cli \in {"absent", "replay", "status", "done"} /\ cliAfter \in Ids

\* Positions name events of the log, a channel holds no more than it has room
\* for, a client uses no more connections than it may.
TypeOK == WritersTyped /\ BusTyped /\ ReadersTyped /\ SentTyped /\ CliTyped

\* Publish never sends on a closed channel, which would panic: the bus has
\* forgotten a connection by the time its channel is closed.
NoSendOnClosed == subs \intersect shut = {}

\* A client gets each event once and in the order of the log, although it
\* comes from the backlog and from the bus, and over several connections.
InOrder ==
  \A c \in Clients : \A i, j \in DOMAIN got[c] : i < j => got[c][i] < got[c][j]

\* An event is only missed behind one that came through the bus: reading
\* the backlog, poll by poll and connection by connection, leaves no gap.
BacklogLeavesNoGap ==
  \A c \in Clients : \A id \in 1..after[c] :
    (\A i \in DOMAIN got[c] : got[c][i] # id)
      => LET next == {n \in {got[c][i] : i \in DOMAIN got[c]} : n > id} IN
           next # {} /\ Min(next) \in live[c]

\* Time and again a stream has sent all there is, also what the bus dropped
\* or another process wrote: a poll passes it.
EventsArrive ==
  \A c \in Clients : []<>(reader[c] = "away" \/ after[c] = Len(log))

\* The stream of a finished run ends by itself.
StreamsEnd == \A c \in Clients : over /\ reader[c] # "away" ~> reader[c] = "away"

\* The CLI returns once the run has ended.
CliReturns == over ~> cli \in {"absent", "done"}
=============================================================================
