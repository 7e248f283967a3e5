----------------------------- MODULE SubAgents -----------------------------
(***************************************************************************)
(* A root run and the child agents it spawns.                              *)
(*                                                                         *)
(* Every child has a goroutine, its loop, that takes messages from the     *)
(* child's queue and executes agent.Run for one after the other.  The tool *)
(* calls of the parent's model (spawn_agent, send_input, wait_agent,       *)
(* get_agent_result, close_agent) may run in parallel: a call is an actor  *)
(* of its own.  The two sides share the handle of the child, under its     *)
(* lock, a wake channel with room for one signal, and the notifications    *)
(* that the parent's next step shows to its model.                         *)
(*                                                                         *)
(* An action is one critical section, one channel operation or one         *)
(* statement of the database, with the computation around it.  A message   *)
(* is sent once, so that it also names the agent.Run that executes it and  *)
(* the context of that run.  Targets name children directly: task names    *)
(* are made unique under the manager's lock.                               *)
(***************************************************************************)
EXTENDS Naturals, Sequences, FiniteSets

CONSTANTS
  Calls,      \* tool calls of the parent that may be under way at once
  Children,   \* run ids of the children that may be spawned
  Messages,   \* messages to children
  Interrupts, \* the messages that are sent with interrupt
  MaxSteps,   \* bound: steps of the parent's model that have notifications to show
  None        \* no message, no child

ASSUME MessagesAssumption ==
  /\ Children # {}
  /\ Interrupts \subseteq Messages
  /\ None \notin Messages
  /\ None \notin Children
  /\ MaxSteps \in Nat

VARIABLES
  handle,     \* the lock-protected part of each child's subAgentHandle
  wake,       \* a signal is in the child's wake channel
  loop,       \* the next step of the child's goroutine
  cur,        \* the message it has taken
  cancelled,  \* the context of the agent.Run in progress is cancelled
  outcome,    \* what agent.Run returned
  row,        \* status of the child's row of agent_runs
  answered,   \* the messages whose answer is in the stored trace
  reported,   \* the message whose outcome the handle's status tells
  accepted,   \* the messages put in the queue, in their order
  notes,      \* the parent's pending notifications
  seen,       \* the notifications its model was shown
  checkpoint, \* the parent's conversation has been compacted
  steps,      \* how many such steps the parent's model has taken
  pc,         \* the next step of each tool call
  at          \* its local variables

childVars == <<loop, cur, cancelled, outcome, row, answered, reported>>
parentVars == <<seen, checkpoint, steps>>
vars == <<handle, wake, childVars, accepted, notes, parentVars, pc, at>>

-----------------------------------------------------------------------------
Live == {"queued", "running"}
Statuses == Live \union {"completed", "failed", "aborted", "closed"}

\* known: in the manager's map; cancel: currentCancel, named by its message
Handle == [known : BOOLEAN, closed : BOOLEAN, queue : Seq(Messages),
           status : Statuses, cancel : Messages \union {None}]

NoHandle == [known |-> FALSE, closed |-> FALSE, queue |-> <<>>,
             status |-> "queued", cancel |-> None]

\* The loop is inside agent.Run, or between it and onRunFinished.
RunPCs == {"load", "stream", "ended"}
LoopPCs == {"none", "dequeue", "sleep", "starting", "report",
            "exiting", "done"} \union RunPCs
CallPCs == {"idle", "persist", "launch", "announce", "send", "close", "cancel",
            "signal", "first", "second"}

Rows == {"absent", "queued", "running", "completed", "failed", "aborted"}
Outcomes == {"ok", "canceled", "failed"}
Note == [child : Children, what : {"spawned", "completed", "failed", "aborted", "closed"}]

Local == [child : Children, msg : Messages \union {None}, token : Messages \union {None},
          status : Statuses, reported : Messages \union {None}]

NewLocal(h, m) ==
  [child |-> h, msg |-> m, token |-> None, status |-> "queued", reported |-> None]

Blank == NewLocal(CHOOSE h \in Children : TRUE, None)

Init ==
  /\ handle = [h \in Children |-> NoHandle]
  /\ wake = [h \in Children |-> FALSE]
  /\ loop = [h \in Children |-> "none"]
  /\ cur = [h \in Children |-> None]
  /\ cancelled = [h \in Children |-> FALSE]
  /\ outcome = [h \in Children |-> "ok"]
  /\ row = [h \in Children |-> "absent"]
  /\ answered = [h \in Children |-> {}]
  /\ reported = [h \in Children |-> None]
  /\ accepted = [h \in Children |-> <<>>]
  /\ notes = <<>>
  /\ seen = {}
  /\ checkpoint = FALSE
  /\ steps = 0
  /\ pc = [t \in Calls |-> "idle"]
  /\ at = [t \in Calls |-> Blank]

-----------------------------------------------------------------------------
(* Steps that several operations share.                                    *)

Begin(t, first, h, m) ==
  /\ pc[t] = "idle"
  /\ pc' = [pc EXCEPT ![t] = first]
  /\ at' = [at EXCEPT ![t] = NewLocal(h, m)]

Go(t, from, to) == pc[t] = from /\ pc' = [pc EXCEPT ![t] = to]

\* The call returns to the model.
Return(t) ==
  /\ pc' = [pc EXCEPT ![t] = "idle"]
  /\ at' = [at EXCEPT ![t] = Blank]

\* A message that no call has used
Fresh(m) ==
  /\ \A h \in Children : \A i \in DOMAIN accepted[h] : accepted[h][i] # m
  /\ \A t \in Calls : pc[t] # "idle" => at[t].msg # m

\* A second signal is dropped.
Signal(h) == wake' = [wake EXCEPT ![h] = TRUE]

Cancels(h, m) ==
  cancelled' = [cancelled EXCEPT ![h] = @ \/ (m # None /\ cur[h] = m /\ loop[h] \in RunPCs)]

Notify(h, what) == notes' = Append(notes, [child |-> h, what |-> what])

-----------------------------------------------------------------------------
(* spawn_agent: the child is in the map before its row exists.             *)

Spawn(t, h, m) ==
  /\ accepted[h] = <<>>
  /\ Fresh(m)
  /\ Begin(t, "persist", h, m)
  /\ handle' = [handle EXCEPT ![h] = [NoHandle EXCEPT !.known = TRUE, !.queue = <<m>>]]
  /\ accepted' = [accepted EXCEPT ![h] = <<m>>]
  /\ UNCHANGED <<wake, childVars, notes, parentVars>>

PersistQueuedChildRun(t) ==
  LET h == at[t].child IN
  \/ /\ Go(t, "persist", "launch")
     /\ row' = [row EXCEPT ![h] = "queued"]
     /\ UNCHANGED <<handle, at, loop, cur, cancelled, outcome, answered, reported>>
     /\ UNCHANGED <<wake, accepted, notes, parentVars>>
  \/ /\ pc[t] = "persist"
     /\ Return(t)
     /\ handle' = [handle EXCEPT ![h].known = FALSE]
     /\ UNCHANGED <<wake, childVars, accepted, notes, parentVars>>

\* child.signal(), startSubAgentLoop
Launch(t) ==
  LET h == at[t].child IN
    /\ Go(t, "launch", "announce")
    /\ Signal(h)
    /\ loop' = [loop EXCEPT ![h] = "dequeue"]
    /\ UNCHANGED <<handle, cur, cancelled, outcome, row, answered, reported>>
    /\ UNCHANGED <<accepted, notes, parentVars, at>>

Announce(t) ==
  /\ pc[t] = "announce"
  /\ Notify(at[t].child, "spawned")
  /\ Return(t)
  /\ UNCHANGED <<handle, wake, childVars, accepted, parentVars>>

-----------------------------------------------------------------------------
(* send_input                                                              *)

SendInput(t, h, m) ==
  /\ handle[h].known
  /\ Fresh(m)
  /\ Begin(t, "send", h, m)
  /\ UNCHANGED <<handle, wake, childVars, accepted, notes, parentVars>>

RefuseClosed(t) ==
  /\ pc[t] = "send"
  /\ handle[at[t].child].closed
  /\ Return(t)
  /\ UNCHANGED <<handle, wake, childVars, accepted, notes, parentVars>>

\* Mutant: a message for a busy child leaves it marked as queued.
SendQueued(t) ==
  LET h == at[t].child
      m == at[t].msg IN
    /\ pc[t] = "send"
    /\ ~handle[h].closed
    /\ handle' = [handle EXCEPT ![h].queue = Append(@, m), ![h].status = "queued"]
    /\ accepted' = [accepted EXCEPT ![h] = Append(@, m)]
    /\ Signal(h)
    /\ Return(t)
    /\ UNCHANGED <<childVars, notes, parentVars>>

\* Mutant: the loop is not signalled.
SendSilently(t) ==
  LET h == at[t].child
      m == at[t].msg
      status == IF handle[h].status = "running" THEN "running" ELSE "queued" IN
    /\ pc[t] = "send"
    /\ ~handle[h].closed
    /\ handle' = [handle EXCEPT ![h].queue = Append(@, m), ![h].status = status]
    /\ accepted' = [accepted EXCEPT ![h] = Append(@, m)]
    /\ Return(t)
    /\ UNCHANGED <<wake, childVars, notes, parentVars>>

\* An interrupt empties the queue and cancels the run in progress.
Send(t) ==
  LET h == at[t].child
      m == at[t].msg
      kept == IF m \in Interrupts THEN <<>> ELSE handle[h].queue
      status == IF handle[h].status = "running" THEN "running" ELSE "queued" IN
    /\ pc[t] = "send"
    /\ ~handle[h].closed
    /\ handle' = [handle EXCEPT ![h].queue = Append(kept, m), ![h].status = status]
    /\ accepted' = [accepted EXCEPT ![h] = Append(@, m)]
    /\ IF m \in Interrupts THEN Cancels(h, handle[h].cancel) ELSE UNCHANGED cancelled
    /\ Signal(h)
    /\ Return(t)
    /\ UNCHANGED <<loop, cur, outcome, row, answered, reported, notes, parentVars>>

-----------------------------------------------------------------------------
(* wait_agent, get_agent_result                                            *)

WaitAgent(t, h) ==
  /\ handle[h].known
  /\ Begin(t, "first", h, None)
  /\ UNCHANGED <<handle, wake, childVars, accepted, notes, parentVars>>

\* result(): the status of the handle, then the output in the child's row,
\* which is missing while spawn has yet to create it.
Result(t) ==
  LET h == at[t].child IN
  \/ /\ Go(t, "first", "second")
     /\ at' = [at EXCEPT ![t].status = handle[h].status, ![t].reported = reported[h]]
     /\ UNCHANGED <<handle, wake, childVars, accepted, notes, parentVars>>
  \/ /\ Go(t, "second", "first")
     /\ row[h] # "absent" /\ at[t].status \in Live
     /\ at' = [at EXCEPT ![t] = NewLocal(h, None)]
     /\ UNCHANGED <<handle, wake, childVars, accepted, notes, parentVars>>
  \/ /\ pc[t] = "second"
     /\ ~(row[h] # "absent" /\ at[t].status \in Live)
     /\ Return(t)
     /\ UNCHANGED <<handle, wake, childVars, accepted, notes, parentVars>>

\* The deadline of the wait passes, or the parent's context is cancelled;
\* get_agent_result does not wait in the first place.
TimeOut(t) ==
  /\ pc[t] \in {"first", "second"}
  /\ Return(t)
  /\ UNCHANGED <<handle, wake, childVars, accepted, notes, parentVars>>

-----------------------------------------------------------------------------
(* close_agent: close, then a wait of five seconds.  A child has no children*)
(* of its own to close.                                                    *)

CloseAgent(t, h) ==
  /\ handle[h].known
  /\ Begin(t, "close", h, None)
  /\ UNCHANGED <<handle, wake, childVars, accepted, notes, parentVars>>

\* Mutant: only the run in progress is stopped, the queue is kept.
CloseKeeping(t) ==
  LET h == at[t].child IN
    /\ Go(t, "close", IF handle[h].closed THEN "first" ELSE "cancel")
    /\ handle' = [handle EXCEPT ![h].closed = TRUE]
    /\ at' = [at EXCEPT ![t].token = IF handle[h].closed THEN None ELSE handle[h].cancel]
    /\ UNCHANGED <<wake, childVars, accepted, notes, parentVars>>

Close(t) ==
  LET h == at[t].child IN
    /\ Go(t, "close", IF handle[h].closed THEN "first" ELSE "cancel")
    /\ handle' = [handle EXCEPT ![h].closed = TRUE,
                                ![h].queue = IF handle[h].closed THEN @ ELSE <<>>]
    /\ at' = [at EXCEPT ![t].token = IF handle[h].closed THEN None ELSE handle[h].cancel]
    /\ UNCHANGED <<wake, childVars, accepted, notes, parentVars>>

CancelWork(t) ==
  /\ Go(t, "cancel", "signal")
  /\ Cancels(at[t].child, at[t].token)
  /\ at' = [at EXCEPT ![t].token = None]
  /\ UNCHANGED <<handle, wake, loop, cur, outcome, row, answered, reported>>
  /\ UNCHANGED <<accepted, notes, parentVars>>

\* Mutant: close does not wake the loop.
CloseSilently(t) ==
  /\ Go(t, "signal", "first")
  /\ UNCHANGED <<handle, wake, childVars, accepted, notes, parentVars, at>>

SignalClosed(t) ==
  /\ Go(t, "signal", "first")
  /\ Signal(at[t].child)
  /\ UNCHANGED <<handle, childVars, accepted, notes, parentVars, at>>

-----------------------------------------------------------------------------
(* The loop of a child.                                                    *)

Advance(h, from, to) == loop[h] = from /\ loop' = [loop EXCEPT ![h] = to]

Dequeue(h) ==
  /\ Advance(h, "dequeue", "starting")
  /\ handle[h].queue # <<>>
  /\ cur' = [cur EXCEPT ![h] = Head(handle[h].queue)]
  /\ handle' = [handle EXCEPT ![h].queue = Tail(@)]
  /\ UNCHANGED <<wake, cancelled, outcome, row, answered, reported>>
  /\ UNCHANGED <<accepted, notes, parentVars, pc, at>>

Exit(h) ==
  /\ Advance(h, "dequeue", "exiting")
  /\ handle[h].queue = <<>>
  /\ handle[h].closed
  /\ UNCHANGED <<handle, wake, cur, cancelled, outcome, row, answered, reported>>
  /\ UNCHANGED <<accepted, notes, parentVars, pc, at>>

SetFinalClosed(h) ==
  /\ Advance(h, "exiting", "done")
  /\ handle' = [handle EXCEPT ![h].status = "closed"]
  /\ UNCHANGED <<wake, cur, cancelled, outcome, row, answered, reported>>
  /\ UNCHANGED <<accepted, notes, parentVars, pc, at>>

FindNothing(h) ==
  /\ Advance(h, "dequeue", "sleep")
  /\ handle[h].queue = <<>>
  /\ ~handle[h].closed
  /\ UNCHANGED <<handle, wake, cur, cancelled, outcome, row, answered, reported>>
  /\ UNCHANGED <<accepted, notes, parentVars, pc, at>>

WakeUp(h) ==
  /\ Advance(h, "sleep", "dequeue")
  /\ wake[h]
  /\ wake' = [wake EXCEPT ![h] = FALSE]
  /\ UNCHANGED <<handle, cur, cancelled, outcome, row, answered, reported>>
  /\ UNCHANGED <<accepted, notes, parentVars, pc, at>>

\* Mutant: the loop keeps one context for all its messages.
SetRunningAgain(h) ==
  /\ Advance(h, "starting", "load")
  /\ handle' = [handle EXCEPT ![h].cancel = cur[h], ![h].status = "running"]
  /\ UNCHANGED <<wake, cur, cancelled, outcome, row, answered, reported>>
  /\ UNCHANGED <<accepted, notes, parentVars, pc, at>>

\* A new context, whose cancel function the handle holds from now on.
SetRunning(h) ==
  /\ Advance(h, "starting", "load")
  /\ handle' = [handle EXCEPT ![h].cancel = cur[h], ![h].status = "running"]
  /\ cancelled' = [cancelled EXCEPT ![h] = FALSE]
  /\ UNCHANGED <<wake, cur, outcome, row, answered, reported>>
  /\ UNCHANGED <<accepted, notes, parentVars, pc, at>>

\* agent.Run up to its first write of the row: it may fail before.
LoadRun(h) ==
  /\ loop[h] = "load"
  /\ \/ /\ ~cancelled[h]
        /\ loop' = [loop EXCEPT ![h] = "stream"]
        /\ row' = [row EXCEPT ![h] = "running"]
        /\ UNCHANGED outcome
     \/ /\ loop' = [loop EXCEPT ![h] = "ended"]
        /\ outcome' = [outcome EXCEPT ![h] = IF cancelled[h] THEN "canceled" ELSE "failed"]
        /\ UNCHANGED row
  /\ UNCHANGED <<handle, wake, cur, cancelled, answered, reported>>
  /\ UNCHANGED <<accepted, notes, parentVars, pc, at>>

\* Mutant: the error of the last write is ignored.
CompleteAnyway(h) ==
  /\ Advance(h, "stream", "ended")
  /\ outcome' = [outcome EXCEPT ![h] = "ok"]
  /\ IF cancelled[h]
       THEN UNCHANGED <<row, answered>>
       ELSE /\ row' = [row EXCEPT ![h] = "completed"]
            /\ answered' = [answered EXCEPT ![h] = @ \union {cur[h]}]
  /\ UNCHANGED <<handle, wake, cur, cancelled, reported>>
  /\ UNCHANGED <<accepted, notes, parentVars, pc, at>>

\* The model has answered: the completed row is written with the context of
\* the run, and a cancelled one leaves the row as it is.
CompleteRun(h) ==
  /\ Advance(h, "stream", "ended")
  /\ IF cancelled[h]
       THEN /\ outcome' = [outcome EXCEPT ![h] = "canceled"]
            /\ UNCHANGED <<row, answered>>
       ELSE /\ outcome' = [outcome EXCEPT ![h] = "ok"]
            /\ row' = [row EXCEPT ![h] = "completed"]
            /\ answered' = [answered EXCEPT ![h] = @ \union {cur[h]}]
  /\ UNCHANGED <<handle, wake, cur, cancelled, reported>>
  /\ UNCHANGED <<accepted, notes, parentVars, pc, at>>

\* The stream ends in an error, which need not be the context's own.
FailRun(h) ==
  /\ Advance(h, "stream", "ended")
  /\ \E o \in {"failed"} \union (IF cancelled[h] THEN {"canceled"} ELSE {}) :
       outcome' = [outcome EXCEPT ![h] = o]
  /\ row' = [row EXCEPT ![h] = IF cancelled[h] THEN "aborted" ELSE "failed"]
  /\ UNCHANGED <<handle, wake, cur, cancelled, answered, reported>>
  /\ UNCHANGED <<accepted, notes, parentVars, pc, at>>

EndStatus(result, closed) ==
  CASE result = "failed" -> "failed"
    [] result # "failed" /\ closed -> "closed"
    [] result = "ok" /\ ~closed -> "completed"
    [] result = "canceled" /\ ~closed -> "aborted"

OnRunFinished(h) ==
  /\ Advance(h, "ended", "report")
  /\ handle' = [handle EXCEPT ![h].cancel = None,
                              ![h].status = EndStatus(outcome[h], handle[h].closed)]
  /\ reported' = [reported EXCEPT ![h] = cur[h]]
  /\ UNCHANGED <<wake, cur, cancelled, outcome, row, answered>>
  /\ UNCHANGED <<accepted, notes, parentVars, pc, at>>

\* Mutant: the notification tells the status of the moment.
ReportCurrent(h) ==
  /\ Advance(h, "report", "dequeue")
  /\ Notify(h, handle[h].status)
  /\ UNCHANGED <<handle, wake, cur, cancelled, outcome, row, answered, reported>>
  /\ UNCHANGED <<accepted, parentVars, pc, at>>

\* The notification tells the status that onRunFinished set under the lock;
\* only a send, which needs an open handle, can have changed it since.
ReportRun(h) ==
  LET status == handle[h].status IN
    /\ Advance(h, "report", "dequeue")
    /\ Notify(h, IF status = "queued" THEN EndStatus(outcome[h], FALSE) ELSE status)
    /\ UNCHANGED <<handle, wake, cur, cancelled, outcome, row, answered, reported>>
    /\ UNCHANGED <<accepted, parentVars, pc, at>>

-----------------------------------------------------------------------------
(* The parent's next step, once the tool calls of the last one have all    *)
(* returned: the pending notifications are appended to its messages, which *)
(* the checkpoint of a compacted conversation replaces.  A step with none  *)
(* pending can only compact, which the next step may just as well do.      *)

PrepareStep ==
  /\ steps < MaxSteps
  /\ \A t \in Calls : pc[t] = "idle"
  /\ notes # <<>>
  /\ steps' = steps + 1
  /\ notes' = <<>>
  /\ \E compacted \in {checkpoint, TRUE} :
       /\ checkpoint' = compacted
       /\ seen' = IF compacted THEN seen ELSE seen \union {notes[i] : i \in DOMAIN notes}
  /\ UNCHANGED <<handle, wake, childVars, accepted, pc, at>>

-----------------------------------------------------------------------------
(* The specification.                                                      *)

CallStep(t) ==
  \/ PersistQueuedChildRun(t) \/ Launch(t) \/ Announce(t)
  \/ RefuseClosed(t) \/ Send(t) \/ Result(t)
  \/ Close(t) \/ CancelWork(t) \/ SignalClosed(t)

LoopStep(h) ==
  \/ Dequeue(h) \/ Exit(h) \/ SetFinalClosed(h) \/ FindNothing(h) \/ WakeUp(h)
  \/ SetRunning(h) \/ LoadRun(h) \/ CompleteRun(h) \/ FailRun(h)
  \/ OnRunFinished(h) \/ ReportRun(h)

Next ==
  \/ \E t \in Calls : CallStep(t) \/ TimeOut(t)
  \/ \E t \in Calls, h \in Children :
       \/ CloseAgent(t, h)
       \/ WaitAgent(t, h)
       \/ \E m \in Messages : Spawn(t, h, m) \/ SendInput(t, h, m)
  \/ \E h \in Children : LoopStep(h)
  \/ PrepareStep

Spec == Init /\ [][Next]_vars

\* Tool calls and loops go on (the Go scheduler), and agent.Run returns: the
\* provider's stream ends.  Nothing makes the parent's model call a tool or
\* take another step.
FairSpec ==
  /\ Spec
  /\ \A t \in Calls : WF_vars(CallStep(t))
  /\ \A h \in Children : WF_vars(LoopStep(h))

-----------------------------------------------------------------------------
(* Properties.                                                             *)

TypeOK ==
  /\ handle \in [Children -> Handle]
  /\ wake \in [Children -> BOOLEAN]
  /\ loop \in [Children -> LoopPCs]
  /\ cur \in [Children -> Messages \union {None}]
  /\ cancelled \in [Children -> BOOLEAN]
  /\ outcome \in [Children -> Outcomes]
  /\ row \in [Children -> Rows]
  /\ answered \in [Children -> SUBSET Messages]
  /\ reported \in [Children -> Messages \union {None}]
  /\ accepted \in [Children -> Seq(Messages)]
  /\ notes \in Seq(Note)
  /\ seen \subseteq Note
  /\ checkpoint \in BOOLEAN
  /\ steps \in 0..MaxSteps
  /\ pc \in [Calls -> CallPCs]
  /\ at \in [Calls -> Local]

\* The handle says running exactly while agent.Run executes a message,
\* whatever is sent or closed meanwhile: wait_agent relies on it.
RunningIsReal ==
  \A h \in Children : handle[h].status = "running" <=> loop[h] \in RunPCs

\* Nothing waits in the queue of a closed child, and no send puts it there.
ClosedQueueEmpty ==
  \A h \in Children : handle[h].closed => handle[h].queue = <<>>

\* agent.Run is cancelled only by a close, or by an interrupt that was sent
\* after the message it executes: never the message an interrupt delivers.
OnlyInterruptedIsCancelled ==
  \A h \in Children :
    loop[h] \in RunPCs /\ cancelled[h] /\ ~handle[h].closed =>
      \E i, j \in DOMAIN accepted[h] :
        i < j /\ accepted[h][i] = cur[h] /\ accepted[h][j] \in Interrupts

\* A call that has read the status completed finds the answer to the message
\* that was completed in the row, which it reads later and without a lock.
CompletedHasOutput ==
  \A t \in Calls :
    pc[t] = "second" /\ at[t].status = "completed"
      => at[t].reported \in answered[at[t].child]

\* A message in the queue is taken, or dropped by an interrupt or a close:
\* no wake-up of the loop is lost.
MessagesLeaveQueue ==
  \A h \in Children, m \in Messages :
    loop[h] # "none" /\ (\E i \in DOMAIN handle[h].queue : handle[h].queue[i] = m)
      ~> ~\E i \in DOMAIN handle[h].queue : handle[h].queue[i] = m

\* A closed child comes to rest as closed.
ClosedEnds ==
  \A h \in Children :
    loop[h] # "none" /\ handle[h].closed ~> [](handle[h].status = "closed")

\* The orchestration skill lets the parent "continue and synthesize when
\* notifications arrive": the end of a child is pending or has been shown.
NotificationsArrive ==
  \A h \in Children :
    reported[h] # None /\ loop[h] # "report" =>
      \E note \in seen \union {notes[i] : i \in DOMAIN notes} :
        note.child = h /\ note.what # "spawned"
=============================================================================
