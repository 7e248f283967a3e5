-------------------------- MODULE SubAgentsProofs --------------------------
(***************************************************************************)
(* Proofs about SubAgents, for any number of children, of parallel tool    *)
(* calls and of messages.                                                  *)
(*                                                                         *)
(* What a reader of a child's status relies on (RunningIsReal,             *)
(* ClosedQueueEmpty, OnlyInterruptedIsCancelled) is inductive together     *)
(* with three facts: a child is launched once, by the call that spawned it *)
(* (SpawnOK); only a close that has closed the child cancels by token      *)
(* (CallOK); and every message in the queue or in execution was accepted   *)
(* earlier (SentOK).                                                       *)
(* CompletedHasOutput also follows a message through the loop: an          *)
(* execution that ends well has its answer (OutcomeAnswered), and so has a *)
(* status that reports it (StatusAnswered).                                *)
(***************************************************************************)
EXTENDS SubAgents, SequenceTheorems, TLAPS

Spawning(t) == pc[t] \in {"persist", "launch"}

SpawnOK ==
  /\ \A h \in Children : accepted[h] = <<>> => loop[h] = "none" /\ ~handle[h].known
  /\ \A t \in Calls : pc[t] # "idle" => accepted[at[t].child] # <<>>
  /\ \A t \in Calls : Spawning(t) => loop[at[t].child] = "none"
  /\ \A t, u \in Calls : Spawning(t) /\ Spawning(u) /\ at[t].child = at[u].child => t = u

CallOK ==
  \A t \in Calls :
    /\ pc[t] = "send" => at[t].msg \in Messages
    /\ pc[t] = "cancel" => handle[at[t].child].closed

Sent(messages, m) == \E i \in DOMAIN messages : messages[i] = m

Taken(h) == loop[h] \in {"starting"} \union RunPCs

AllSent(h) ==
  /\ \A k \in DOMAIN handle[h].queue : Sent(accepted[h], handle[h].queue[k])
  /\ Taken(h) => Sent(accepted[h], cur[h])

SentOK == \A h \in Children : AllSent(h)

\* The status completed of a handle, and the outcome ok before it, tell of an
\* answer that is in the trace.
StatusAnswered ==
  \A h \in Children : handle[h].status = "completed" => reported[h] \in answered[h]

OutcomeAnswered ==
  \A h \in Children : loop[h] = "ended" /\ outcome[h] = "ok" => cur[h] \in answered[h]

Inv ==
  /\ TypeOK
  /\ SpawnOK
  /\ CallOK
  /\ SentOK
  /\ RunningIsReal
  /\ ClosedQueueEmpty
  /\ OnlyInterruptedIsCancelled
  /\ StatusAnswered
  /\ OutcomeAnswered
  /\ CompletedHasOutput

-----------------------------------------------------------------------------
(* Types.                                                                  *)

LEMMA BlankTyped == Blank \in Local
BY MessagesAssumption DEF Blank, NewLocal, Local, Statuses, Live

LEMMA HandleTyped ==
  ASSUME TypeOK, NEW h \in Children
  PROVE  /\ handle[h].queue \in Seq(Messages)
         /\ handle[h].closed \in BOOLEAN
         /\ handle[h].known \in BOOLEAN
         /\ handle[h].status \in Statuses
         /\ handle[h].cancel \in Messages \union {None}
BY DEF TypeOK, Handle

LEMMA SetQueue ==
  ASSUME NEW r \in Handle, NEW q \in Seq(Messages)
  PROVE  /\ [r EXCEPT !.known = FALSE] \in Handle
         /\ [r EXCEPT !.queue = q] \in Handle
         /\ [r EXCEPT !.closed = TRUE, !.queue = q] \in Handle
BY DEF Handle

LEMMA SetHandleStatus ==
  ASSUME NEW r \in Handle, NEW s \in Statuses
  PROVE  /\ [r EXCEPT !.status = s] \in Handle
         /\ \A m \in Messages \union {None} : [r EXCEPT !.cancel = m, !.status = s] \in Handle
         /\ \A q \in Seq(Messages) : [r EXCEPT !.queue = q, !.status = s] \in Handle
BY DEF Handle

LEMMA NotifyTyped ==
  ASSUME TypeOK, NEW h \in Children,
         NEW what \in {"spawned", "completed", "failed", "aborted", "closed"}, Notify(h, what)
  PROVE  notes' \in Seq(Note)
<1>1. [child |-> h, what |-> what] \in Note
  BY DEF Note
<1> QED
  BY <1>1 DEF TypeOK, Notify

LEMMA EndStatusTyped ==
  ASSUME NEW result \in Outcomes, NEW closed \in BOOLEAN
  PROVE  EndStatus(result, closed) \in {"completed", "failed", "aborted", "closed"}
BY DEF EndStatus, Outcomes

LEMMA LocalTyped ==
  ASSUME TypeOK, NEW t \in Calls
  PROVE  /\ at[t] \in Local
         /\ at[t].child \in Children
         /\ at[t].msg \in Messages \union {None}
         /\ at[t].token \in Messages \union {None}
BY DEF TypeOK, Local

LEMMA NewLocalTyped ==
  ASSUME NEW h \in Children, NEW m \in Messages \union {None}
  PROVE  NewLocal(h, m) \in Local /\ NewLocal(h, m).child = h /\ NewLocal(h, m).msg = m
BY DEF NewLocal, Local, Statuses, Live

LEMMA SetToken ==
  ASSUME NEW r \in Local, NEW m \in Messages \union {None}
  PROVE  [r EXCEPT !.token = m] \in Local /\ [r EXCEPT !.token = m].child = r.child
BY DEF Local

LEMMA SetStatus ==
  ASSUME NEW r \in Local, NEW m \in Messages \union {None}, NEW s \in Statuses
  PROVE  /\ [r EXCEPT !.status = s, !.reported = m] \in Local
         /\ [r EXCEPT !.status = s, !.reported = m].child = r.child
BY DEF Local

LEMMA ReturnTyped ==
  ASSUME TypeOK, NEW t \in Calls, Return(t)
  PROVE  pc' \in [Calls -> CallPCs] /\ at' \in [Calls -> Local]
BY BlankTyped DEF TypeOK, Return, CallPCs

LEMMA CallTyped ==
  ASSUME TypeOK, CallOK, NEW t \in Calls, CallStep(t) \/ TimeOut(t)
  PROVE  TypeOK'
<1> DEFINE h == at[t].child
<1> USE LocalTyped, HandleTyped, ReturnTyped, BlankTyped DEF childVars, parentVars
<1>1. CASE PersistQueuedChildRun(t)
  <2>1. handle' \in [Children -> Handle]
    <3>1. [handle[h] EXCEPT !.known = FALSE] \in Handle
      BY SetQueue DEF TypeOK
    <3> QED
      BY <1>1, <3>1 DEF PersistQueuedChildRun, TypeOK
  <2>2. row' \in [Children -> Rows]
    BY <1>1 DEF PersistQueuedChildRun, TypeOK, Rows
  <2>3. pc' \in [Calls -> CallPCs] /\ at' \in [Calls -> Local]
    BY <1>1 DEF PersistQueuedChildRun, TypeOK, Go, CallPCs
  <2> QED
    BY <1>1, <2>1, <2>2, <2>3 DEF PersistQueuedChildRun, TypeOK
<1>2. CASE Launch(t)
  BY <1>2 DEF Launch, LoopPCs, TypeOK, Go, CallPCs, Signal
<1>3. CASE Announce(t)
  <2>1. notes' \in Seq(Note)
    BY <1>3, NotifyTyped DEF Announce
  <2> QED
    BY <1>3, <2>1 DEF Announce, TypeOK
<1>4. CASE RefuseClosed(t)
  BY <1>4 DEF RefuseClosed, TypeOK
<1>5. CASE Send(t)
  <2> DEFINE m == at[t].msg
             kept == IF m \in Interrupts THEN <<>> ELSE handle[h].queue
             status == IF handle[h].status = "running" THEN "running" ELSE "queued"
  <2>1. m \in Messages /\ status \in Statuses
    BY <1>5 DEF CallOK, Send, Statuses, Live
  <2>2. Append(kept, m) \in Seq(Messages) /\ Append(accepted[h], m) \in Seq(Messages)
    <3>1. kept \in Seq(Messages) /\ accepted[h] \in Seq(Messages)
      BY DEF TypeOK
    <3> QED
      BY <2>1, <3>1
  <2>3. [handle[h] EXCEPT !.queue = Append(kept, m), !.status = status] \in Handle
    BY <2>1, <2>2, SetHandleStatus DEF TypeOK
  <2>4. handle' \in [Children -> Handle]
    BY <1>5, <2>3 DEF Send, TypeOK
  <2>5. cancelled' \in [Children -> BOOLEAN]
    BY <1>5 DEF Send, Cancels, TypeOK
  <2> QED
    BY <1>5, <2>2, <2>4, <2>5 DEF Send, Signal, TypeOK
<1>6. CASE Result(t)
  <2>1. at' \in [Calls -> Local] /\ pc' \in [Calls -> CallPCs]
    <3>1. CASE Go(t, "first", "second")
               /\ at' = [at EXCEPT ![t].status = handle[h].status, ![t].reported = reported[h]]
      <4>1. [at[t] EXCEPT !.status = handle[h].status, !.reported = reported[h]] \in Local
        BY SetStatus DEF TypeOK
      <4> QED
        BY <3>1, <4>1 DEF TypeOK, Go, CallPCs
    <3>2. CASE Go(t, "second", "first") /\ at' = [at EXCEPT ![t] = NewLocal(h, None)]
      BY <3>2, NewLocalTyped DEF TypeOK, Go, CallPCs
    <3>3. CASE Return(t)
      BY <3>3
    <3> QED
      BY <1>6, <3>1, <3>2, <3>3 DEF Result
  <2> QED
    BY <1>6, <2>1 DEF Result, TypeOK
<1>7. CASE Close(t)
  <2> DEFINE q == IF handle[h].closed THEN handle[h].queue ELSE <<>>
             token == IF handle[h].closed THEN None ELSE handle[h].cancel
  <2>1. [handle[h] EXCEPT !.closed = TRUE, !.queue = q] \in Handle
    <3>1. q \in Seq(Messages)
      OBVIOUS
    <3> QED
      BY <3>1, SetQueue DEF TypeOK
  <2>2. handle' \in [Children -> Handle]
    BY <1>7, <2>1 DEF Close, TypeOK
  <2>3. [at[t] EXCEPT !.token = token] \in Local
    <3>1. token \in Messages \union {None}
      OBVIOUS
    <3> QED
      BY <3>1, SetToken
  <2> QED
    BY <1>7, <2>2, <2>3 DEF Close, TypeOK, Go, CallPCs
<1>8. CASE CancelWork(t)
  <2>1. [at[t] EXCEPT !.token = None] \in Local
    BY SetToken
  <2> QED
    BY <1>8, <2>1 DEF CancelWork, Cancels, TypeOK, Go, CallPCs
<1>9. CASE SignalClosed(t)
  BY <1>9 DEF SignalClosed, Signal, TypeOK, Go, CallPCs
<1>10. CASE TimeOut(t)
  BY <1>10 DEF TimeOut, TypeOK
<1> QED
  BY <1>1, <1>2, <1>3, <1>4, <1>5, <1>6, <1>7, <1>8, <1>9, <1>10 DEF CallStep

LEMMA LoopTyped ==
  ASSUME TypeOK, SentOK, RunningIsReal, NEW h \in Children, LoopStep(h)
  PROVE  TypeOK'
<1> USE HandleTyped DEF childVars, parentVars
<1>1. CASE Dequeue(h)
  <2>1. /\ Head(handle[h].queue) \in Messages
        /\ Tail(handle[h].queue) \in Seq(Messages)
    BY <1>1 DEF Dequeue
  <2>2. [handle[h] EXCEPT !.queue = Tail(handle[h].queue)] \in Handle
    BY <2>1, SetQueue DEF TypeOK
  <2> QED
    BY <1>1, <2>1, <2>2 DEF Dequeue, Advance, TypeOK, LoopPCs
<1>2. CASE Exit(h) \/ FindNothing(h) \/ WakeUp(h)
  BY <1>2 DEF Exit, FindNothing, WakeUp, Advance, TypeOK, LoopPCs
<1>3. CASE SetFinalClosed(h)
  <2>1. [handle[h] EXCEPT !.status = "closed"] \in Handle
    BY SetHandleStatus DEF TypeOK, Statuses
  <2> QED
    BY <1>3, <2>1 DEF SetFinalClosed, Advance, TypeOK, LoopPCs
<1>4. CASE SetRunning(h)
  <2>1. [handle[h] EXCEPT !.cancel = cur[h], !.status = "running"] \in Handle
    BY SetHandleStatus DEF TypeOK, Statuses, Live
  <2> QED
    BY <1>4, <2>1 DEF SetRunning, Advance, TypeOK, LoopPCs, RunPCs
<1>5. CASE LoadRun(h)
  BY <1>5 DEF LoadRun, Advance, TypeOK, LoopPCs, RunPCs, Rows, Outcomes
<1>6. CASE CompleteRun(h)
  <2>1. cur[h] \in Messages
    <3>1. PICK i \in DOMAIN accepted[h] : accepted[h][i] = cur[h]
      BY <1>6 DEF CompleteRun, Advance, SentOK, AllSent, Taken, Sent, RunPCs
    <3> QED
      BY <3>1 DEF TypeOK
  <2>2. answered' \in [Children -> SUBSET Messages]
    <3>1. answered[h] \union {cur[h]} \in SUBSET Messages
      BY <2>1 DEF TypeOK
    <3>2. answered' \in {answered, [answered EXCEPT ![h] = @ \union {cur[h]}]}
      BY <1>6 DEF CompleteRun
    <3> QED
      BY <3>1, <3>2 DEF TypeOK
  <2>3. row' \in [Children -> Rows] /\ outcome' \in [Children -> Outcomes]
    BY <1>6 DEF CompleteRun, TypeOK, Rows, Outcomes
  <2>4. loop' \in [Children -> LoopPCs]
    BY <1>6 DEF CompleteRun, Advance, TypeOK, LoopPCs, RunPCs
  <2> QED
    BY <1>6, <2>2, <2>3, <2>4 DEF CompleteRun, TypeOK
<1>7. CASE FailRun(h)
  BY <1>7 DEF FailRun, Advance, TypeOK, LoopPCs, RunPCs, Rows, Outcomes
<1>8. CASE OnRunFinished(h)
  <2> DEFINE status == EndStatus(outcome[h], handle[h].closed)
  <2>1. status \in Statuses
    BY EndStatusTyped DEF TypeOK, Statuses
  <2>2. [handle[h] EXCEPT !.cancel = None, !.status = status] \in Handle
    BY <2>1, SetHandleStatus DEF TypeOK
  <2> QED
    BY <1>8, <2>2 DEF OnRunFinished, Advance, TypeOK, LoopPCs, RunPCs
<1>9. CASE ReportRun(h)
  <2> DEFINE what == IF handle[h].status = "queued" THEN EndStatus(outcome[h], FALSE)
                                                    ELSE handle[h].status
  <2>1. handle[h].status # "running"
    BY <1>9 DEF ReportRun, Advance, RunningIsReal, RunPCs
  <2>2. what \in {"completed", "failed", "aborted", "closed"}
    BY <2>1, EndStatusTyped DEF TypeOK, Statuses, Live
  <2>3. notes' \in Seq(Note)
    BY <1>9, <2>2, NotifyTyped DEF ReportRun
  <2> QED
    BY <1>9, <2>3 DEF ReportRun, Advance, TypeOK, LoopPCs
<1> QED
  BY <1>1, <1>2, <1>3, <1>4, <1>5, <1>6, <1>7, <1>8, <1>9 DEF LoopStep

LEMMA ModelTyped ==
  ASSUME TypeOK, NEW t \in Calls, NEW h \in Children,
         \/ WaitAgent(t, h) \/ CloseAgent(t, h)
         \/ \E m \in Messages : Spawn(t, h, m) \/ SendInput(t, h, m)
  PROVE  TypeOK'
<1> USE NewLocalTyped DEF childVars, parentVars
<1>1. \A n \in Messages \union {None}, first \in CallPCs :
        Begin(t, first, h, n) => pc' \in [Calls -> CallPCs] /\ at' \in [Calls -> Local]
  BY DEF Begin, TypeOK
<1>2. ASSUME NEW m \in Messages, Spawn(t, h, m)
      PROVE  TypeOK'
  <2>0. <<m>> \in Seq(Messages)
    OBVIOUS
  <2>1. [NoHandle EXCEPT !.known = TRUE, !.queue = <<m>>] \in Handle
    <3>1. NoHandle \in Handle
      BY DEF NoHandle, Handle, Statuses, Live
    <3> QED
      BY <2>0, <3>1 DEF Handle
  <2>2. pc' \in [Calls -> CallPCs] /\ at' \in [Calls -> Local]
    BY <1>1, <1>2 DEF Spawn, CallPCs
  <2> QED
    BY <1>2, <2>0, <2>1, <2>2 DEF Spawn, TypeOK
<1>3. ASSUME \/ WaitAgent(t, h) \/ CloseAgent(t, h)
             \/ \E m \in Messages : SendInput(t, h, m)
      PROVE  TypeOK'
  <2>1. pc' \in [Calls -> CallPCs] /\ at' \in [Calls -> Local]
    BY <1>1, <1>3 DEF SendInput, WaitAgent, CloseAgent, CallPCs
  <2> QED
    BY <1>3, <2>1 DEF SendInput, WaitAgent, CloseAgent, TypeOK
<1> QED
  BY <1>2, <1>3

LEMMA PrepareStepTyped ==
  ASSUME TypeOK, PrepareStep
  PROVE  TypeOK'
<1>1. {notes[i] : i \in DOMAIN notes} \subseteq Note
  BY DEF TypeOK
<1>2. seen' \subseteq Note /\ checkpoint' \in BOOLEAN
  BY <1>1 DEF PrepareStep, TypeOK
<1>3. steps' \in 0..MaxSteps
  BY MessagesAssumption DEF PrepareStep, TypeOK
<1>4. notes' \in Seq(Note)
  BY DEF PrepareStep
<1> QED
  BY <1>2, <1>3, <1>4 DEF PrepareStep, TypeOK, childVars

-----------------------------------------------------------------------------
(* Each child is launched once.                                            *)

(* Tool calls never exchange their children, and a loop touches its own.   *)

LEMMA AcceptedGrows ==
  ASSUME TypeOK, CallOK, [Next]_vars, NEW h \in Children
  PROVE  \A i \in DOMAIN accepted[h] :
           i \in DOMAIN accepted'[h] /\ accepted'[h][i] = accepted[h][i]
<1> USE LocalTyped DEF childVars, parentVars
<1>1. CASE \E t \in Calls : Send(t)
  <2>1. PICK t \in Calls : Send(t)
    BY <1>1
  <2>2. at[t].msg \in Messages /\ accepted[h] \in Seq(Messages)
    BY <2>1 DEF Send, CallOK, TypeOK
  <2>3. accepted'[h] \in {accepted[h], Append(accepted[h], at[t].msg)}
    BY <2>1 DEF Send, TypeOK
  <2> QED
    BY SMTT(30), <2>2, <2>3
<1>2. CASE \E t \in Calls, c \in Children, m \in Messages : Spawn(t, c, m)
  BY <1>2 DEF Spawn, TypeOK
<1>3. CASE UNCHANGED accepted
  BY <1>3
<1>4. UNCHANGED accepted \/ (\E t \in Calls : Send(t))
        \/ \E t \in Calls, c \in Children, m \in Messages : Spawn(t, c, m)
  BY DEF Next, CallStep, LoopStep, PersistQueuedChildRun, Launch, Announce, RefuseClosed,
         Result, Close, CancelWork, SignalClosed, TimeOut, SendInput, WaitAgent, CloseAgent,
         Dequeue, Exit, SetFinalClosed, FindNothing, WakeUp, SetRunning, LoadRun, CompleteRun,
         FailRun, OnRunFinished, ReportRun, PrepareStep, vars
<1> QED
  BY <1>1, <1>2, <1>3, <1>4

LEMMA AcceptedStays ==
  ASSUME TypeOK, CallOK, [Next]_vars, NEW h \in Children
  PROVE  /\ accepted[h] # <<>> => accepted'[h] # <<>>
         /\ \A m : Sent(accepted[h], m) => Sent(accepted'[h], m)
<1>1. ASSUME accepted[h] # <<>>
      PROVE  accepted'[h] # <<>>
  <2>1. 1 \in DOMAIN accepted[h]
    BY <1>1, EmptySeq DEF TypeOK
  <2>2. 1 \in DOMAIN accepted'[h]
    BY <2>1, AcceptedGrows
  <2> QED
    BY <2>2
<1>2. \A m : Sent(accepted[h], m) => Sent(accepted'[h], m)
  BY AcceptedGrows DEF Sent
<1> QED
  BY <1>1, <1>2

LEMMA CallFrame ==
  ASSUME TypeOK, NEW t \in Calls, CallStep(t) \/ TimeOut(t)
  PROVE  /\ \A u \in Calls :
              /\ pc'[u] # "idle" => pc[u] # "idle" /\ at'[u].child = at[u].child
              /\ Spawning(u)' => Spawning(u)
              /\ pc'[u] = "send" => pc[u] = "send" /\ at'[u] = at[u]
         /\ \A h \in Children :
              /\ handle'[h].known => handle[h].known
              /\ handle[h].closed => handle'[h].closed
<1> USE LocalTyped DEF childVars, parentVars
<1>1. CASE PersistQueuedChildRun(t)
  <2>1. CASE Go(t, "persist", "launch") /\ UNCHANGED <<handle, at>>
    BY <2>1 DEF Go, Spawning, TypeOK
  <2>2. CASE Return(t) /\ handle' = [handle EXCEPT ![at[t].child].known = FALSE]
    <3>1. \A h \in Children : handle'[h].known => handle[h].known
      BY <2>2 DEF TypeOK, Handle
    <3>2. \A h \in Children : handle'[h].closed = handle[h].closed
      BY <2>2 DEF TypeOK, Handle
    <3> QED
      BY <2>2, <3>1, <3>2 DEF Return, Spawning, TypeOK
  <2> QED
    BY <1>1, <2>1, <2>2 DEF PersistQueuedChildRun
<1>2. CASE Launch(t) \/ SignalClosed(t)
  BY <1>2 DEF Launch, SignalClosed, Go, Spawning, TypeOK
<1>3. CASE Announce(t) \/ RefuseClosed(t) \/ TimeOut(t)
  BY <1>3 DEF Announce, RefuseClosed, TimeOut, Return, Spawning, TypeOK
<1>4. CASE Send(t)
  BY <1>4 DEF Send, Return, Spawning, TypeOK, Handle
<1>5. CASE Result(t)
  <2>1. CASE Go(t, "first", "second")
             /\ at' = [at EXCEPT ![t].status = handle[at[t].child].status,
                                 ![t].reported = reported[at[t].child]]
    BY <1>5, <2>1 DEF Result, Go, Spawning, TypeOK, Local
  <2>2. CASE Go(t, "second", "first") /\ at' = [at EXCEPT ![t] = NewLocal(at[t].child, None)]
    BY <1>5, <2>2, NewLocalTyped DEF Result, Go, Spawning, TypeOK
  <2>3. CASE Return(t)
    BY <1>5, <2>3 DEF Result, Return, Spawning, TypeOK
  <2> QED
    BY <1>5, <2>1, <2>2, <2>3 DEF Result
<1>6. CASE Close(t)
  BY <1>6 DEF Close, Go, Spawning, TypeOK, Handle, Local
<1>7. CASE CancelWork(t)
  BY <1>7 DEF CancelWork, Go, Spawning, TypeOK, Local
<1> QED
  BY <1>1, <1>2, <1>3, <1>4, <1>5, <1>6, <1>7 DEF CallStep

LEMMA BeginFrame ==
  ASSUME TypeOK, NEW t \in Calls, NEW h \in Children,
         \/ WaitAgent(t, h) \/ CloseAgent(t, h)
         \/ \E m \in Messages : SendInput(t, h, m)
  PROVE  /\ UNCHANGED <<handle, wake, childVars, accepted, notes, parentVars>>
         /\ handle[h].known /\ at'[t].child = h /\ ~Spawning(t)'
         /\ pc'[t] # "cancel"
         /\ pc'[t] = "send" => at'[t].msg \in Messages
         /\ \A u \in Calls \ {t} : pc'[u] = pc[u] /\ at'[u] = at[u]
BY NewLocalTyped DEF WaitAgent, CloseAgent, SendInput, Begin, Spawning, TypeOK

LEMMA SpawnFrame ==
  ASSUME TypeOK, SpawnOK, NEW t \in Calls, NEW h \in Children, NEW m \in Messages,
         Spawn(t, h, m)
  PROVE  /\ UNCHANGED <<wake, childVars, notes, parentVars>>
         /\ accepted[h] = <<>> /\ accepted'[h] = <<m>> /\ loop[h] = "none"
         /\ ~handle'[h].closed /\ handle'[h].queue = <<m>> /\ handle'[h].status = "queued"
         /\ \A c \in Children \ {h} : accepted'[c] = accepted[c] /\ handle'[c] = handle[c]
         /\ pc'[t] = "persist" /\ at'[t].child = h
         /\ \A u \in Calls \ {t} : pc'[u] = pc[u] /\ at'[u] = at[u]
         /\ \A u \in Calls : pc[u] # "idle" => at[u].child # h
<1>1. UNCHANGED <<wake, childVars, notes, parentVars>> /\ accepted[h] = <<>> /\ loop[h] = "none"
  BY DEF Spawn, SpawnOK
<1>2. /\ accepted'[h] = <<m>>
      /\ \A c \in Children \ {h} : accepted'[c] = accepted[c] /\ handle'[c] = handle[c]
  BY DEF Spawn, TypeOK
<1>3. ~handle'[h].closed /\ handle'[h].queue = <<m>> /\ handle'[h].status = "queued"
  BY DEF Spawn, TypeOK, NoHandle
<1>4. /\ pc'[t] = "persist" /\ at'[t].child = h
      /\ \A u \in Calls \ {t} : pc'[u] = pc[u] /\ at'[u] = at[u]
  BY NewLocalTyped DEF Spawn, Begin, TypeOK
<1>5. \A u \in Calls : pc[u] # "idle" => at[u].child # h
  BY <1>1 DEF SpawnOK
<1> QED
  BY <1>1, <1>2, <1>3, <1>4, <1>5

LEMMA LoopFrame ==
  ASSUME TypeOK, NEW h \in Children, LoopStep(h)
  PROVE  /\ UNCHANGED <<accepted, pc, at, parentVars>>
         /\ loop[h] # "none"
         /\ handle'[h].known = handle[h].known /\ handle'[h].closed = handle[h].closed
         /\ \A c \in Children \ {h} :
              /\ loop'[c] = loop[c] /\ handle'[c] = handle[c]
              /\ cur'[c] = cur[c] /\ cancelled'[c] = cancelled[c]
<1> USE DEF childVars, parentVars, Advance
<1>1. CASE Dequeue(h) \/ SetFinalClosed(h) \/ SetRunning(h) \/ OnRunFinished(h)
  BY <1>1 DEF Dequeue, SetFinalClosed, SetRunning, OnRunFinished, TypeOK, Handle
<1>2. CASE Exit(h) \/ FindNothing(h) \/ WakeUp(h) \/ ReportRun(h)
  BY <1>2 DEF Exit, FindNothing, WakeUp, ReportRun, TypeOK
<1>3. CASE LoadRun(h) \/ CompleteRun(h) \/ FailRun(h)
  BY <1>3 DEF LoadRun, CompleteRun, FailRun, TypeOK
<1> QED
  BY <1>1, <1>2, <1>3 DEF LoopStep

LEMMA SpawnKept ==
  ASSUME TypeOK, SpawnOK, CallOK, [Next]_vars
  PROVE  SpawnOK'
<1> USE LocalTyped, AcceptedStays DEF childVars, parentVars
<1>1. ASSUME NEW t \in Calls, CallStep(t) \/ TimeOut(t)
      PROVE  SpawnOK'
  <2> DEFINE h == at[t].child
  <2>1. \A u \in Calls : pc'[u] # "idle" => pc[u] # "idle" /\ at'[u].child = at[u].child
    BY <1>1, CallFrame
  <2>2. /\ \A u \in Calls : Spawning(u)' => Spawning(u) /\ pc'[u] # "idle"
        /\ \A c \in Children : handle'[c].known => handle[c].known
    BY <1>1, CallFrame DEF Spawning
  <2>3. CASE Launch(t)
    <3>1. /\ Spawning(t) /\ ~Spawning(t)'
          /\ \A c \in Children \ {h} : loop'[c] = loop[c]
      BY <2>3 DEF Launch, Go, Spawning, TypeOK
    <3>2. accepted[h] # <<>>
      BY <3>1 DEF SpawnOK, Spawning
    <3>3. \A u \in Calls : Spawning(u)' => at[u].child # h
      BY <2>2, <3>1 DEF SpawnOK
    <3> QED
      BY <2>1, <2>2, <3>1, <3>2, <3>3 DEF SpawnOK
  <2>4. CASE UNCHANGED loop
    BY <2>1, <2>2, <2>4 DEF SpawnOK
  <2>5. Launch(t) \/ UNCHANGED loop
    BY <1>1 DEF CallStep, PersistQueuedChildRun, Announce, RefuseClosed, Send, Result, Close,
                CancelWork, SignalClosed, TimeOut
  <2> QED
    BY <2>3, <2>4, <2>5
<1>2. ASSUME NEW t \in Calls, NEW h \in Children, NEW m \in Messages, Spawn(t, h, m)
      PROVE  SpawnOK'
  <2>1. \A u \in Calls : pc'[u] # "idle" /\ u # t =>
          /\ pc[u] = pc'[u] /\ at'[u] = at[u]
          /\ at[u].child \in Children \ {h}
    BY <1>2, SpawnFrame
  <2>2. \A c \in Children : accepted'[c] = <<>> => loop'[c] = "none" /\ ~handle'[c].known
    BY SMTT(30), <1>2, SpawnFrame DEF SpawnOK
  <2>3. \A u \in Calls : pc'[u] # "idle" => accepted'[at'[u].child] # <<>>
    <3>1. /\ accepted'[h] = <<m>> /\ at'[t].child = h
          /\ \A c \in Children \ {h} : accepted'[c] = accepted[c]
      BY <1>2, SpawnFrame
    <3>2. \A u \in Calls \ {t} : pc'[u] # "idle" => accepted'[at'[u].child] # <<>>
      BY <2>1, <3>1 DEF SpawnOK
    <3> QED
      BY SMTT(30), <3>1, <3>2
  <2>4. \A u \in Calls : Spawning(u)' => loop'[at'[u].child] = "none"
    BY <1>2, <2>1, SpawnFrame DEF SpawnOK, Spawning
  <2>5. \A u, v \in Calls : Spawning(u)' /\ Spawning(v)' /\ at'[u].child = at'[v].child => u = v
    BY <1>2, <2>1, SpawnFrame DEF SpawnOK, Spawning
  <2> QED
    BY <2>2, <2>3, <2>4, <2>5 DEF SpawnOK
<1>3. ASSUME NEW t \in Calls, NEW h \in Children,
             \/ WaitAgent(t, h) \/ CloseAgent(t, h)
             \/ \E m \in Messages : SendInput(t, h, m)
      PROVE  SpawnOK'
  BY <1>3, BeginFrame DEF SpawnOK, Spawning
<1>4. ASSUME NEW h \in Children, LoopStep(h)
      PROVE  SpawnOK'
  BY <1>4, LoopFrame DEF SpawnOK, Spawning
<1>5. CASE PrepareStep \/ UNCHANGED vars
  BY <1>5 DEF PrepareStep, vars, SpawnOK, Spawning
<1> QED
  BY <1>1, <1>2, <1>3, <1>4, <1>5 DEF Next

LEMMA CallKept ==
  ASSUME TypeOK, SpawnOK, CallOK, [Next]_vars
  PROVE  CallOK'
<1> USE LocalTyped DEF childVars, parentVars
<1>1. ASSUME NEW t \in Calls, CallStep(t) \/ TimeOut(t)
      PROVE  CallOK'
  <2>1. \A u \in Calls : pc'[u] = "cancel" => handle'[at'[u].child].closed
    <3>1. CASE Close(t)
      <4>1. handle'[at[t].child].closed /\ at'[t].child = at[t].child
        BY <3>1 DEF Close, TypeOK, Handle, Local
      <4>2. \A u \in Calls \ {t} : pc'[u] = pc[u] /\ at'[u] = at[u]
        BY <3>1 DEF Close, Go, TypeOK
      <4> QED
        BY <1>1, <4>1, <4>2, CallFrame DEF CallOK
    <3>2. CASE ~Close(t)
      <4>1. \A u \in Calls : pc'[u] = "cancel" => pc[u] = "cancel"
        BY <1>1, <3>2 DEF CallStep, PersistQueuedChildRun, Launch, Announce, RefuseClosed,
             Send, Result, CancelWork, SignalClosed, TimeOut, Go, Return, TypeOK
      <4> QED
        BY <1>1, <4>1, CallFrame DEF CallOK
    <3> QED
      BY <3>1, <3>2
  <2> QED
    BY <1>1, <2>1, CallFrame DEF CallOK
<1>2. ASSUME NEW t \in Calls, NEW h \in Children, NEW m \in Messages, Spawn(t, h, m)
      PROVE  CallOK'
  <2>1. \A u \in Calls : pc'[u] \in {"send", "cancel"} =>
          /\ pc[u] = pc'[u] /\ at'[u] = at[u]
          /\ at[u].child \in Children \ {h}
    BY <1>2, SpawnFrame
  <2>2. \A c \in Children \ {h} : handle'[c] = handle[c]
    BY <1>2, SpawnFrame
  <2> QED
    BY <2>1, <2>2 DEF CallOK
<1>3. ASSUME NEW t \in Calls, NEW h \in Children,
             \/ WaitAgent(t, h) \/ CloseAgent(t, h)
             \/ \E m \in Messages : SendInput(t, h, m)
      PROVE  CallOK'
  BY <1>3, BeginFrame DEF CallOK
<1>4. ASSUME NEW h \in Children, LoopStep(h)
      PROVE  CallOK'
  BY <1>4, LoopFrame DEF CallOK
<1>5. CASE PrepareStep \/ UNCHANGED vars
  BY <1>5 DEF PrepareStep, vars, CallOK
<1> QED
  BY <1>1, <1>2, <1>3, <1>4, <1>5 DEF Next

LEMMA SentFrame ==
  ASSUME TypeOK, CallOK, SentOK, [Next]_vars, NEW c \in Children,
         handle'[c].queue \in {<<>>, handle[c].queue},
         cur'[c] = cur[c],
         Taken(c)' => Taken(c)
  PROVE  AllSent(c)'
<1>1. \A m : Sent(accepted[c], m) => Sent(accepted'[c], m)
  BY AcceptedStays
<1>2. \A k \in DOMAIN handle'[c].queue : Sent(accepted'[c], handle'[c].queue[k])
  <2>1. CASE handle'[c].queue = <<>>
    BY <2>1
  <2>2. CASE handle'[c].queue = handle[c].queue
    BY <1>1, <2>2 DEF SentOK, AllSent
  <2> QED
    BY <2>1, <2>2
<1>3. Taken(c)' => Sent(accepted'[c], cur'[c])
  BY <1>1 DEF SentOK, AllSent
<1> QED
  BY <1>2, <1>3 DEF AllSent

LEMMA SentKept ==
  ASSUME TypeOK, SpawnOK, CallOK, SentOK, [Next]_vars
  PROVE  SentOK'
<1> USE LocalTyped, SentFrame DEF childVars, parentVars
<1>1. ASSUME NEW t \in Calls, CallStep(t) \/ TimeOut(t)
      PROVE  SentOK'
  <2> PICK h \in Children : h = at[t].child
    OBVIOUS
  <2>1. \A c \in Children : cur'[c] = cur[c] /\ (Taken(c)' => Taken(c))
    <3>1. CASE Launch(t)
      BY <3>1 DEF Launch, Taken, RunPCs, TypeOK
    <3>2. CASE UNCHANGED <<loop, cur>>
      BY <3>2 DEF Taken
    <3> QED
      BY <1>1, <3>1, <3>2 DEF CallStep, PersistQueuedChildRun, Announce, RefuseClosed, Send,
                              Result, Close, CancelWork, SignalClosed, TimeOut
  <2>2. CASE Send(t)
    <3> DEFINE m == at[t].msg
               kept == IF m \in Interrupts THEN <<>> ELSE handle[h].queue
    <3>1. m \in Messages /\ handle[h].queue \in Seq(Messages) /\ accepted[h] \in Seq(Messages)
      BY <2>2, HandleTyped DEF Send, CallOK, TypeOK
    <3>2. handle'[h].queue = Append(kept, m) /\ accepted'[h] = Append(accepted[h], m)
      BY SMTT(30), <2>2 DEF Send, TypeOK, Handle
    <3>3. Sent(accepted'[h], m)
      <4>1. Len(accepted[h]) + 1 \in DOMAIN accepted'[h]
            /\ accepted'[h][Len(accepted[h]) + 1] = m
        BY SMTT(30), <3>1, <3>2
      <4> QED
        BY <4>1 DEF Sent
    <3>4. \A n : Sent(accepted[h], n) => Sent(accepted'[h], n)
      BY AcceptedStays
    <3>5. \A k \in DOMAIN kept : Sent(accepted'[h], kept[k])
      <4>1. CASE kept = <<>>
        BY <4>1
      <4>2. CASE kept = handle[h].queue
        BY <3>4, <4>2 DEF SentOK, AllSent
      <4> QED
        BY <4>1, <4>2
    <3>6. \A k \in DOMAIN Append(kept, m) :
            Append(kept, m)[k] = m \/ (k \in DOMAIN kept /\ Append(kept, m)[k] = kept[k])
      <4>1. kept \in Seq(Messages)
        BY <3>1
      <4> QED
        BY <3>1, <4>1
    <3>7. \A k \in DOMAIN handle'[h].queue : Sent(accepted'[h], handle'[h].queue[k])
      <4> SUFFICES ASSUME NEW k \in DOMAIN Append(kept, m)
                   PROVE  Sent(accepted'[h], Append(kept, m)[k])
        BY <3>2
      <4>1. CASE Append(kept, m)[k] = m
        BY <3>3, <4>1
      <4>2. CASE k \in DOMAIN kept /\ Append(kept, m)[k] = kept[k]
        BY <3>5, <4>2
      <4> QED
        BY <3>6, <4>1, <4>2
    <3>8. Taken(h) => Sent(accepted'[h], cur[h])
      BY <3>4 DEF SentOK, AllSent
    <3>9. AllSent(h)'
      BY <2>1, <3>7, <3>8 DEF AllSent
    <3>10. \A c \in Children \ {h} : handle'[c] = handle[c]
      BY <2>2 DEF Send, TypeOK
    <3> QED
      BY <2>1, <3>9, <3>10 DEF SentOK
  <2>3. CASE ~Send(t)
    <3>1. \A c \in Children : handle'[c].queue \in {<<>>, handle[c].queue}
      <4>1. CASE handle' = [handle EXCEPT ![h].known = FALSE]
        BY <4>1 DEF TypeOK, Handle
      <4>2. CASE Close(t)
        BY <4>2 DEF Close, TypeOK, Handle
      <4>3. CASE UNCHANGED handle
        BY <4>3
      <4> QED
        BY <1>1, <2>3, <4>1, <4>2, <4>3 DEF CallStep, PersistQueuedChildRun, Launch, Announce,
                                            RefuseClosed, Result, CancelWork, SignalClosed, TimeOut
    <3> QED
      BY <2>1, <3>1 DEF SentOK
  <2> QED
    BY <2>2, <2>3
<1>2. ASSUME NEW t \in Calls, NEW h \in Children, NEW m \in Messages, Spawn(t, h, m)
      PROVE  SentOK'
  <2>1. UNCHANGED <<loop, cur>> /\ ~Taken(h)'
    BY <1>2, SpawnFrame DEF Taken, RunPCs
  <2>2. AllSent(h)'
    <3>1. handle'[h].queue = <<m>> /\ accepted'[h] = <<m>>
      BY <1>2, SpawnFrame
    <3> QED
      BY <2>1, <3>1 DEF AllSent, Sent
  <2>3. \A c \in Children \ {h} : handle'[c] = handle[c]
    BY <1>2, SpawnFrame
  <2>4. \A c \in Children \ {h} : AllSent(c)'
    BY <2>1, <2>3 DEF Taken
  <2> QED
    BY <2>2, <2>4 DEF SentOK
<1>3. CASE UNCHANGED <<handle, loop, cur>>
  BY <1>3 DEF SentOK, Taken
<1>4. ASSUME NEW h \in Children, LoopStep(h)
      PROVE  SentOK'
  <2>1. \A c \in Children \ {h} : AllSent(c)'
    BY <1>4, LoopFrame DEF Taken
  <2>2. CASE Dequeue(h)
    <3>1. handle[h].queue \in Seq(Messages) /\ handle[h].queue # <<>>
      BY <2>2, HandleTyped DEF Dequeue
    <3>2. /\ cur'[h] = handle[h].queue[1] /\ handle'[h].queue = Tail(handle[h].queue)
          /\ UNCHANGED accepted
      BY <2>2 DEF Dequeue, TypeOK, Handle
    <3>3. Sent(accepted'[h], cur'[h])
      BY <3>1, <3>2, EmptySeq DEF SentOK, AllSent
    <3>4. \A k \in DOMAIN handle'[h].queue : Sent(accepted'[h], handle'[h].queue[k])
      <4>1. \A k \in DOMAIN Tail(handle[h].queue) :
              k + 1 \in DOMAIN handle[h].queue /\ Tail(handle[h].queue)[k] = handle[h].queue[k + 1]
        BY <3>1
      <4> QED
        BY <3>2, <4>1 DEF SentOK, AllSent
    <3> QED
      BY <2>1, <3>3, <3>4 DEF SentOK, AllSent
  <2>3. CASE ~Dequeue(h)
    <3>1. UNCHANGED cur /\ handle'[h].queue = handle[h].queue
      <4>1. CASE SetFinalClosed(h) \/ SetRunning(h) \/ OnRunFinished(h)
        BY <4>1 DEF SetFinalClosed, SetRunning, OnRunFinished, TypeOK, Handle
      <4>2. CASE UNCHANGED <<handle, cur>>
        BY <4>2
      <4> QED
        BY <1>4, <2>3, <4>1, <4>2 DEF LoopStep, Exit, FindNothing, WakeUp, LoadRun, CompleteRun,
                                      FailRun, ReportRun
    <3>2. Taken(h)' => Taken(h)
      BY <1>4, <2>3 DEF LoopStep, Exit, SetFinalClosed, FindNothing, WakeUp, SetRunning, LoadRun,
                        CompleteRun, FailRun, OnRunFinished, ReportRun, Advance, TypeOK, Taken,
                        RunPCs
    <3> QED
      BY <2>1, <3>1, <3>2 DEF SentOK
  <2> QED
    BY <2>2, <2>3
<1> QED
  BY <1>1, <1>2, <1>3, <1>4, BeginFrame DEF Next, PrepareStep, vars

-----------------------------------------------------------------------------
(* What the handle tells.                                                  *)

LEMMA RunningKept ==
  ASSUME TypeOK, SpawnOK, RunningIsReal, [Next]_vars
  PROVE  RunningIsReal'
<1> USE LocalTyped DEF childVars, parentVars
<1>1. ASSUME NEW t \in Calls, CallStep(t) \/ TimeOut(t)
      PROVE  RunningIsReal'
  <2>1. \A c \in Children :
          \/ handle'[c].status = handle[c].status
          \/ handle[c].status # "running" /\ handle'[c].status = "queued"
    <3>1. CASE Send(t)
      BY <3>1 DEF Send, TypeOK, Handle
    <3>2. CASE Close(t)
      BY <3>2 DEF Close, TypeOK, Handle
    <3>3. CASE handle' = [handle EXCEPT ![at[t].child].known = FALSE]
      BY <3>3 DEF TypeOK, Handle
    <3>4. CASE UNCHANGED handle
      BY <3>4
    <3> QED
      BY <1>1, <3>1, <3>2, <3>3, <3>4 DEF CallStep, PersistQueuedChildRun, Launch, Announce,
                                          RefuseClosed, Result, CancelWork, SignalClosed, TimeOut
  <2>2. \A c \in Children : loop'[c] \in RunPCs <=> loop[c] \in RunPCs
    <3>1. CASE Launch(t)
      BY <3>1 DEF Launch, Go, SpawnOK, Spawning, RunPCs, TypeOK
    <3>2. CASE UNCHANGED loop
      BY <3>2
    <3> QED
      BY <1>1, <3>1, <3>2 DEF CallStep, PersistQueuedChildRun, Announce, RefuseClosed, Send,
                              Result, Close, CancelWork, SignalClosed, TimeOut
  <2> QED
    BY <2>1, <2>2 DEF RunningIsReal
<1>2. ASSUME NEW t \in Calls, NEW h \in Children, NEW m \in Messages, Spawn(t, h, m)
      PROVE  RunningIsReal'
  <2>1. handle'[h].status = "queued" /\ loop'[h] = "none" /\ UNCHANGED loop
    BY <1>2, SpawnFrame
  <2>2. \A c \in Children \ {h} : handle'[c] = handle[c]
    BY <1>2, SpawnFrame
  <2> QED
    BY <2>1, <2>2 DEF RunningIsReal, RunPCs
<1>3. CASE UNCHANGED <<handle, loop>>
  BY <1>3 DEF RunningIsReal
<1>4. ASSUME NEW h \in Children, LoopStep(h)
      PROVE  RunningIsReal'
  <2>1. \A c \in Children \ {h} : handle'[c] = handle[c] /\ loop'[c] = loop[c]
    BY <1>4, LoopFrame
  <2>2. handle'[h].status = "running" <=> loop'[h] \in RunPCs
    <3>1. CASE Dequeue(h) \/ SetFinalClosed(h) \/ SetRunning(h)
      <4>1. CASE Dequeue(h)
        <5>1. handle'[h].status = handle[h].status /\ loop[h] = "dequeue" /\ loop'[h] = "starting"
          BY <4>1 DEF Dequeue, Advance, TypeOK, Handle
        <5> QED
          BY <5>1 DEF RunningIsReal, RunPCs
      <4>2. CASE SetFinalClosed(h)
        <5>1. handle'[h].status = "closed" /\ loop'[h] = "done"
          BY <4>2 DEF SetFinalClosed, Advance, TypeOK, Handle
        <5> QED
          BY <5>1 DEF RunPCs
      <4>3. CASE SetRunning(h)
        <5>1. handle'[h].status = "running" /\ loop'[h] = "load"
          BY <4>3 DEF SetRunning, Advance, TypeOK, Handle
        <5> QED
          BY <5>1 DEF RunPCs
      <4> QED
        BY <3>1, <4>1, <4>2, <4>3
    <3>2. CASE Exit(h) \/ FindNothing(h) \/ WakeUp(h) \/ ReportRun(h)
      BY <3>2 DEF Exit, FindNothing, WakeUp, ReportRun, Advance, TypeOK, RunPCs, RunningIsReal
    <3>3. CASE LoadRun(h) \/ CompleteRun(h) \/ FailRun(h)
      BY <3>3 DEF LoadRun, CompleteRun, FailRun, Advance, TypeOK, RunPCs, RunningIsReal
    <3>4. CASE OnRunFinished(h)
      <4>1. handle'[h].status = EndStatus(outcome[h], handle[h].closed) /\ loop'[h] = "report"
        BY <3>4 DEF OnRunFinished, Advance, TypeOK, Handle
      <4>2. handle'[h].status # "running"
        BY <4>1, EndStatusTyped, HandleTyped DEF TypeOK
      <4> QED
        BY <4>1, <4>2 DEF RunPCs
    <3> QED
      BY <1>4, <3>1, <3>2, <3>3, <3>4 DEF LoopStep
  <2> QED
    BY <2>1, <2>2 DEF RunningIsReal
<1> QED
  BY <1>1, <1>2, <1>3, <1>4, BeginFrame DEF Next, PrepareStep, vars

LEMMA ClosedKept ==
  ASSUME TypeOK, SpawnOK, ClosedQueueEmpty, [Next]_vars
  PROVE  ClosedQueueEmpty'
<1> USE LocalTyped DEF childVars, parentVars
<1>1. ASSUME NEW t \in Calls, CallStep(t) \/ TimeOut(t)
      PROVE  ClosedQueueEmpty'
  <2>1. CASE Send(t)
    BY <2>1 DEF Send, TypeOK, Handle, ClosedQueueEmpty
  <2>2. CASE Close(t)
    BY <2>2 DEF Close, TypeOK, Handle, ClosedQueueEmpty
  <2>3. CASE handle' = [handle EXCEPT ![at[t].child].known = FALSE]
    BY <2>3 DEF TypeOK, Handle, ClosedQueueEmpty
  <2>4. CASE UNCHANGED handle
    BY <2>4 DEF ClosedQueueEmpty
  <2> QED
    BY <1>1, <2>1, <2>2, <2>3, <2>4 DEF CallStep, PersistQueuedChildRun, Launch, Announce,
                                        RefuseClosed, Result, CancelWork, SignalClosed, TimeOut
<1>2. ASSUME NEW t \in Calls, NEW h \in Children, NEW m \in Messages, Spawn(t, h, m)
      PROVE  ClosedQueueEmpty'
  <2>1. ~handle'[h].closed /\ \A c \in Children \ {h} : handle'[c] = handle[c]
    BY <1>2, SpawnFrame
  <2> QED
    BY <2>1 DEF ClosedQueueEmpty
<1>3. CASE UNCHANGED handle
  BY <1>3 DEF ClosedQueueEmpty
<1>4. ASSUME NEW h \in Children, LoopStep(h)
      PROVE  ClosedQueueEmpty'
  <2>1. handle[h].closed => handle'[h].queue = handle[h].queue
    <3>1. CASE Dequeue(h)
      BY <3>1 DEF Dequeue, ClosedQueueEmpty
    <3>2. CASE SetFinalClosed(h)
      BY <3>2 DEF SetFinalClosed, TypeOK, Handle
    <3>3. CASE SetRunning(h)
      BY <3>3 DEF SetRunning, TypeOK, Handle
    <3>4. CASE OnRunFinished(h)
      BY <3>4 DEF OnRunFinished, TypeOK, Handle
    <3>5. CASE UNCHANGED handle
      BY <3>5
    <3> QED
      BY <1>4, <3>1, <3>2, <3>3, <3>4, <3>5 DEF LoopStep, Exit, FindNothing, WakeUp, LoadRun,
                                                CompleteRun, FailRun, ReportRun
  <2>2. handle'[h].closed = handle[h].closed /\ \A c \in Children \ {h} : handle'[c] = handle[c]
    BY <1>4, LoopFrame
  <2> QED
    BY <2>1, <2>2 DEF ClosedQueueEmpty
<1> QED
  BY <1>1, <1>2, <1>3, <1>4, BeginFrame DEF Next, PrepareStep, vars

Justified(h) ==
  \E i, j \in DOMAIN accepted[h] :
    i < j /\ accepted[h][i] = cur[h] /\ accepted[h][j] \in Interrupts

LEMMA JustifiedStays ==
  ASSUME TypeOK, CallOK, [Next]_vars, NEW h \in Children, Justified(h), cur'[h] = cur[h]
  PROVE  Justified(h)'
BY AcceptedGrows DEF Justified

LEMMA CancelledKept ==
  ASSUME TypeOK, SpawnOK, CallOK, SentOK, OnlyInterruptedIsCancelled, [Next]_vars
  PROVE  OnlyInterruptedIsCancelled'
<1> DEFINE Owed(h) == loop[h] \in RunPCs /\ cancelled[h] /\ ~handle[h].closed
<1>1. (\A h \in Children : Owed(h)' => Justified(h)') => OnlyInterruptedIsCancelled'
  BY DEF OnlyInterruptedIsCancelled, Justified
<1>2. \A h \in Children : Owed(h) => Justified(h)
  BY DEF OnlyInterruptedIsCancelled, Justified
<1>3. \A h \in Children : (Owed(h)' => Owed(h)) /\ cur'[h] = cur[h] => (Owed(h)' => Justified(h)')
  BY <1>2, JustifiedStays
<1> USE LocalTyped DEF childVars, parentVars
<1> HIDE DEF Owed
<1>4. ASSUME NEW t \in Calls, CallStep(t) \/ TimeOut(t), ~Send(t)
      PROVE  OnlyInterruptedIsCancelled'
  <2>1. \A h \in Children : handle[h].closed => handle'[h].closed
    BY <1>4, CallFrame
  <2>2. CASE CancelWork(t)
    <3>1. \A h \in Children \ {at[t].child} : cancelled'[h] = cancelled[h]
      BY <2>2 DEF CancelWork, Cancels, TypeOK
    <3>2. handle[at[t].child].closed
      BY <2>2 DEF CancelWork, Go, CallOK
    <3>3. UNCHANGED <<loop, cur>>
      BY <2>2 DEF CancelWork
    <3> QED
      BY <1>1, <1>3, <2>1, <3>1, <3>2, <3>3 DEF Owed
  <2>3. CASE /\ UNCHANGED <<cancelled, cur>>
             /\ \A h \in Children : loop'[h] \in RunPCs => loop[h] \in RunPCs
    BY <1>1, <1>3, <2>1, <2>3 DEF Owed
  <2>4. CASE Launch(t)
    BY <2>3, <2>4 DEF Launch, RunPCs, TypeOK
  <2> QED
    BY <1>4, <2>2, <2>3, <2>4 DEF CallStep, PersistQueuedChildRun, Announce, RefuseClosed,
                                  Result, Close, SignalClosed, TimeOut
<1>5. ASSUME NEW t \in Calls, Send(t)
      PROVE  OnlyInterruptedIsCancelled'
  <2> PICK h \in Children : h = at[t].child
    OBVIOUS
  <2> DEFINE m == at[t].msg
  <2>1. /\ UNCHANGED <<loop, cur>>
        /\ \A c \in Children \ {h} : cancelled'[c] = cancelled[c] /\ handle'[c] = handle[c]
        /\ handle'[h].closed = handle[h].closed
        /\ accepted'[h] = Append(accepted[h], m)
    BY <1>5 DEF Send, Cancels, TypeOK, Handle
  <2>2. \A c \in Children \ {h} : Owed(c)' => Justified(c)'
    BY <1>3, <2>1 DEF Owed
  <2>3. CASE m \in Interrupts /\ loop[h] \in RunPCs
    <3>1. PICK i \in DOMAIN accepted[h] : accepted[h][i] = cur[h]
      BY <2>3 DEF SentOK, AllSent, Taken, Sent
    <3>2. accepted[h] \in Seq(Messages) /\ m \in Messages
      BY <1>5 DEF TypeOK, CallOK, Send
    <3>3. /\ i \in DOMAIN accepted'[h] /\ accepted'[h][i] = cur[h]
          /\ Len(accepted[h]) + 1 \in DOMAIN accepted'[h] /\ i < Len(accepted[h]) + 1
          /\ accepted'[h][Len(accepted[h]) + 1] = m
      BY <2>1, <3>1, <3>2
    <3>4. Justified(h)'
      BY <2>1, <2>3, <3>3 DEF Justified
    <3> QED
      BY <1>1, <2>2, <3>4
  <2>4. CASE ~(m \in Interrupts /\ loop[h] \in RunPCs)
    <3>1. cancelled'[h] = cancelled[h]
      BY <1>5, <2>4 DEF Send, Cancels, TypeOK
    <3> QED
      BY <1>1, <1>3, <2>1, <2>2, <3>1 DEF Owed
  <2> QED
    BY <2>3, <2>4
<1>6. ASSUME NEW t \in Calls, NEW h \in Children, NEW m \in Messages, Spawn(t, h, m)
      PROVE  OnlyInterruptedIsCancelled'
  <2>1. /\ UNCHANGED <<loop, cur, cancelled>> /\ loop[h] = "none"
        /\ \A c \in Children \ {h} : handle'[c] = handle[c]
    BY <1>6, SpawnFrame
  <2>2. ~Owed(h)'
    BY <2>1 DEF Owed, RunPCs
  <2> QED
    BY <1>1, <1>3, <2>1, <2>2 DEF Owed
<1>7. CASE UNCHANGED <<handle, loop, cur, cancelled>>
  BY <1>1, <1>3, <1>7 DEF Owed
<1>8. ASSUME NEW h \in Children, LoopStep(h)
      PROVE  OnlyInterruptedIsCancelled'
  <2>1. \A c \in Children \ {h} : Owed(c)' => Justified(c)'
    BY <1>3, <1>8, LoopFrame DEF Owed
  <2>2. CASE SetRunning(h)
    <3>1. ~cancelled'[h]
      BY <2>2 DEF SetRunning, TypeOK
    <3> QED
      BY <1>1, <2>1, <3>1 DEF Owed
  <2>3. CASE loop'[h] \notin RunPCs
    BY <1>1, <2>1, <2>3 DEF Owed
  <2>4. CASE LoadRun(h) \/ CompleteRun(h) \/ FailRun(h)
    <3>1. UNCHANGED <<handle, cur, cancelled>> /\ loop[h] \in RunPCs
      BY <2>4 DEF LoadRun, CompleteRun, FailRun, Advance, RunPCs
    <3> QED
      BY <1>1, <1>3, <2>1, <3>1 DEF Owed
  <2>5. SetRunning(h) \/ LoadRun(h) \/ CompleteRun(h) \/ FailRun(h) \/ loop'[h] \notin RunPCs
    BY <1>8 DEF LoopStep, Dequeue, Exit, SetFinalClosed, FindNothing, WakeUp, OnRunFinished,
                ReportRun, Advance, TypeOK, RunPCs
  <2> QED
    BY <2>2, <2>3, <2>4, <2>5
<1> QED
  BY <1>4, <1>5, <1>6, <1>7, <1>8, BeginFrame DEF Next, PrepareStep, vars

-----------------------------------------------------------------------------
(* The answer behind a status.                                             *)

\* No answer is ever taken out of the trace.
LEMMA AnswersStay ==
  ASSUME TypeOK, [Next]_vars, NEW h \in Children
  PROVE  answered[h] \subseteq answered'[h]
<1> USE DEF childVars, parentVars
<1>1. ASSUME NEW c \in Children, LoopStep(c)
      PROVE  answered[h] \subseteq answered'[h]
  <2>1. CASE CompleteRun(c)
    <3>1. CASE answered' = [answered EXCEPT ![c] = @ \union {cur[c]}]
      BY <3>1 DEF TypeOK
    <3> QED
      BY <2>1, <3>1 DEF CompleteRun
  <2> QED
    BY <1>1, <2>1 DEF LoopStep, Dequeue, Exit, SetFinalClosed, FindNothing, WakeUp, SetRunning,
                      LoadRun, FailRun, OnRunFinished, ReportRun
<1>2. ASSUME NEW t \in Calls, CallStep(t) \/ TimeOut(t)
      PROVE  UNCHANGED answered
  BY <1>2 DEF CallStep, PersistQueuedChildRun, Launch, Announce, RefuseClosed, Send, Result,
              Close, CancelWork, SignalClosed, TimeOut
<1> QED
  BY <1>1, <1>2 DEF Next, Spawn, SendInput, WaitAgent, CloseAgent, PrepareStep, vars

\* Only the loop of a child writes its outcome, or completes its status.
LEMMA OutcomeKept ==
  ASSUME TypeOK, SpawnOK, StatusAnswered, OutcomeAnswered, [Next]_vars
  PROVE  StatusAnswered' /\ OutcomeAnswered'
<1> DEFINE Fine(h) == /\ handle[h].status = "completed" => reported[h] \in answered[h]
                      /\ loop[h] = "ended" /\ outcome[h] = "ok" => cur[h] \in answered[h]
<1>1. (\A h \in Children : Fine(h)') => StatusAnswered' /\ OutcomeAnswered'
  BY DEF StatusAnswered, OutcomeAnswered
<1>2. \A h \in Children : Fine(h)
  BY DEF StatusAnswered, OutcomeAnswered
\* Where nothing of this changes but the set of answers, which grows
<1>3. ASSUME NEW h \in Children,
             handle'[h].status = "completed" => handle[h].status = "completed",
             loop'[h] = "ended" => loop[h] = "ended",
             cur'[h] = cur[h], outcome'[h] = outcome[h], reported'[h] = reported[h]
      PROVE  Fine(h)'
  <2>1. answered[h] \subseteq answered'[h]
    BY AnswersStay
  <2> QED
    BY <1>2, <1>3, <2>1
<1> HIDE DEF Fine
<1> USE LocalTyped DEF childVars, parentVars
<1>4. ASSUME NEW t \in Calls, CallStep(t) \/ TimeOut(t)
      PROVE  \A h \in Children : Fine(h)'
  <2>1. UNCHANGED <<cur, outcome, reported>>
    BY <1>4 DEF CallStep, PersistQueuedChildRun, Launch, Announce, RefuseClosed, Send, Result,
                Close, CancelWork, SignalClosed, TimeOut
  <2>2. \A h \in Children : loop'[h] = "ended" => loop[h] = "ended"
    <3>1. CASE Launch(t)
      BY <3>1 DEF Launch, TypeOK
    <3>2. CASE UNCHANGED loop
      BY <3>2
    <3> QED
      BY <1>4, <3>1, <3>2 DEF CallStep, PersistQueuedChildRun, Announce, RefuseClosed, Send,
                              Result, Close, CancelWork, SignalClosed, TimeOut
  <2>3. \A h \in Children : handle'[h].status = "completed" => handle[h].status = "completed"
    <3>1. CASE Send(t)
      BY <3>1 DEF Send, TypeOK, Handle
    <3>2. CASE Close(t)
      BY <3>2 DEF Close, TypeOK, Handle
    <3>3. CASE handle' = [handle EXCEPT ![at[t].child].known = FALSE]
      BY <3>3 DEF TypeOK, Handle
    <3>4. CASE UNCHANGED handle
      BY <3>4
    <3> QED
      BY <1>4, <3>1, <3>2, <3>3, <3>4 DEF CallStep, PersistQueuedChildRun, Launch, Announce,
                                          RefuseClosed, Result, CancelWork, SignalClosed, TimeOut
  <2> QED
    BY <1>3, <2>1, <2>2, <2>3
<1>5. ASSUME NEW t \in Calls, NEW h \in Children, NEW m \in Messages, Spawn(t, h, m)
      PROVE  \A c \in Children : Fine(c)'
  <2>1. /\ UNCHANGED <<loop, cur, outcome, reported>> /\ handle'[h].status = "queued"
        /\ \A c \in Children \ {h} : handle'[c] = handle[c]
    BY <1>5, SpawnFrame
  <2> QED
    BY <1>3, <2>1
<1>6. ASSUME UNCHANGED <<handle, loop, cur, outcome, reported>>, NEW h \in Children
      PROVE  Fine(h)'
  <2>1. handle' = handle /\ loop' = loop /\ cur' = cur /\ outcome' = outcome /\ reported' = reported
    BY <1>6
  <2>2. /\ handle'[h].status = handle[h].status /\ loop'[h] = loop[h] /\ cur'[h] = cur[h]
        /\ outcome'[h] = outcome[h] /\ reported'[h] = reported[h]
    BY <2>1
  <2> QED
    BY <1>3, <2>2
<1>7. ASSUME NEW h \in Children, LoopStep(h)
      PROVE  \A c \in Children : Fine(c)'
  <2>1. \A c \in Children \ {h} : Fine(c)'
    <3>1. \A c \in Children \ {h} : /\ handle'[c] = handle[c] /\ loop'[c] = loop[c]
                                   /\ cur'[c] = cur[c]
      BY <1>7, LoopFrame
    <3>2. \A c \in Children \ {h} : outcome'[c] = outcome[c] /\ reported'[c] = reported[c]
      BY <1>7 DEF LoopStep, Dequeue, Exit, SetFinalClosed, FindNothing, WakeUp, SetRunning,
                  LoadRun, CompleteRun, FailRun, OnRunFinished, ReportRun, TypeOK
    <3> QED
      BY <1>3, <3>1, <3>2
  <2>2. Fine(h)'
    <3>1. CASE Dequeue(h)
      <4>1. /\ handle'[h].status = handle[h].status /\ loop'[h] = "starting"
            /\ UNCHANGED <<reported, answered>>
        BY <3>1 DEF Dequeue, Advance, TypeOK, Handle
      <4> QED
        BY <1>2, <4>1 DEF Fine
    <3>2. CASE SetFinalClosed(h)
      <4>1. handle'[h].status = "closed" /\ loop'[h] = "done"
        BY <3>2 DEF SetFinalClosed, Advance, TypeOK, Handle
      <4> QED
        BY <4>1 DEF Fine
    <3>3. CASE SetRunning(h)
      <4>1. handle'[h].status = "running" /\ loop'[h] = "load"
        BY <3>3 DEF SetRunning, Advance, TypeOK, Handle
      <4> QED
        BY <4>1 DEF Fine
    <3>4. CASE Exit(h) \/ FindNothing(h) \/ WakeUp(h) \/ ReportRun(h)
      <4>1. /\ UNCHANGED <<handle, cur, outcome, reported>> /\ loop'[h] # "ended"
        BY <3>4 DEF Exit, FindNothing, WakeUp, ReportRun, Advance, TypeOK
      <4> QED
        BY <1>3, <4>1
    <3>5. CASE LoadRun(h) \/ FailRun(h)
      <4>1. /\ UNCHANGED <<handle, cur, reported, answered>>
            /\ loop'[h] = "ended" => outcome'[h] # "ok"
        BY <3>5 DEF LoadRun, FailRun, Advance, TypeOK
      <4> QED
        BY <1>2, <4>1 DEF Fine
    <3>6. CASE CompleteRun(h)
      <4>1. /\ UNCHANGED <<handle, cur, reported>>
            /\ outcome'[h] = "ok" => cur[h] \in answered'[h]
        BY <3>6 DEF CompleteRun, TypeOK
      <4>2. answered[h] \subseteq answered'[h]
        BY AnswersStay
      <4> QED
        BY <1>2, <4>1, <4>2 DEF Fine
    <3>7. CASE OnRunFinished(h)
      <4>1. /\ handle'[h].status = EndStatus(outcome[h], handle[h].closed)
            /\ loop[h] = "ended" /\ loop'[h] = "report" /\ reported'[h] = cur[h]
            /\ UNCHANGED answered
        BY <3>7 DEF OnRunFinished, Advance, TypeOK, Handle
      <4>2. EndStatus(outcome[h], handle[h].closed) = "completed" => outcome[h] = "ok"
        BY HandleTyped DEF EndStatus, Outcomes, TypeOK
      <4> QED
        BY <1>2, <4>1, <4>2 DEF Fine
    <3> QED
      BY <1>7, <3>1, <3>2, <3>3, <3>4, <3>5, <3>6, <3>7 DEF LoopStep
  <2> QED
    BY <2>1, <2>2
<1> QED
  BY <1>1, <1>4, <1>5, <1>6, <1>7, BeginFrame
  DEF Next, PrepareStep, SendInput, WaitAgent, CloseAgent, vars

\* A call copies status and message from the handle in one step, and reads the
\* row after it.
LEMMA OutputKept ==
  ASSUME TypeOK, StatusAnswered, CompletedHasOutput, [Next]_vars
  PROVE  CompletedHasOutput'
<1> DEFINE Told(t) == pc[t] = "second" /\ at[t].status = "completed"
                        => at[t].reported \in answered[at[t].child]
<1>1. (\A t \in Calls : Told(t)') => CompletedHasOutput'
  BY DEF CompletedHasOutput
<1>2. \A t \in Calls : Told(t)
  BY DEF CompletedHasOutput
<1>3. ASSUME NEW t \in Calls, pc'[t] # "second" \/ (pc[t] = "second" /\ at'[t] = at[t])
      PROVE  Told(t)'
  <2>1. answered[at[t].child] \subseteq answered'[at[t].child]
    BY AnswersStay, LocalTyped
  <2> QED
    BY <1>2, <1>3, <2>1
<1> HIDE DEF Told
<1> USE DEF childVars, parentVars
<1>4. ASSUME NEW t \in Calls, CallStep(t) \/ TimeOut(t)
      PROVE  \A u \in Calls : Told(u)'
  <2>1. \A u \in Calls \ {t} : pc'[u] = pc[u] /\ at'[u] = at[u]
    BY <1>4 DEF CallStep, PersistQueuedChildRun, Launch, Announce, RefuseClosed, Send, Result,
                Close, CancelWork, SignalClosed, TimeOut, Go, Return, TypeOK
  <2>2. Told(t)'
    <3>1. CASE /\ Go(t, "first", "second")
               /\ at' = [at EXCEPT ![t].status = handle[at[t].child].status,
                                   ![t].reported = reported[at[t].child]]
               /\ UNCHANGED answered
      <4>1. /\ at'[t].status = handle[at[t].child].status
            /\ at'[t].reported = reported[at[t].child]
            /\ at'[t].child = at[t].child
        BY <3>1 DEF TypeOK, Local
      <4>2. handle[at[t].child].status = "completed"
              => reported[at[t].child] \in answered[at[t].child]
        BY LocalTyped DEF StatusAnswered
      <4> QED
        BY <3>1, <4>1, <4>2 DEF Told
    <3>2. CASE pc'[t] # "second"
      BY <1>3, <3>2
    <3>3. Result(t) => \/ /\ Go(t, "first", "second")
                          /\ at' = [at EXCEPT ![t].status = handle[at[t].child].status,
                                              ![t].reported = reported[at[t].child]]
                          /\ UNCHANGED answered
                       \/ pc'[t] # "second"
      BY DEF Result, Go, Return, TypeOK
    <3>4. ~Result(t) => pc'[t] # "second"
      BY <1>4 DEF CallStep, PersistQueuedChildRun, Launch, Announce, RefuseClosed, Send,
                  Close, CancelWork, SignalClosed, TimeOut, Go, Return, TypeOK
    <3> QED
      BY <3>1, <3>2, <3>3, <3>4
  <2> QED
    BY <1>3, <2>1, <2>2
<1>5. ASSUME NEW t \in Calls, NEW h \in Children, NEW m \in Messages \union {None},
             NEW first \in {"persist", "send", "first", "close"}, Begin(t, first, h, m)
      PROVE  \A u \in Calls : Told(u)'
  <2>1. pc'[t] # "second" /\ \A u \in Calls \ {t} : pc'[u] = pc[u] /\ at'[u] = at[u]
    BY <1>5 DEF Begin, TypeOK
  <2> QED
    BY <1>3, <2>1
<1>6. ASSUME UNCHANGED <<pc, at>>, NEW u \in Calls
      PROVE  Told(u)'
  <2>1. pc'[u] = pc[u] /\ at'[u] = at[u]
    BY <1>6
  <2> QED
    BY <1>3, <2>1
<1>7. ASSUME NEW h \in Children, LoopStep(h)
      PROVE  UNCHANGED <<pc, at>>
  BY <1>7 DEF LoopStep, Dequeue, Exit, SetFinalClosed, FindNothing, WakeUp, SetRunning, LoadRun,
              CompleteRun, FailRun, OnRunFinished, ReportRun
<1>8. ASSUME NEW t \in Calls, NEW h \in Children,
             \/ CloseAgent(t, h) \/ WaitAgent(t, h)
             \/ \E m \in Messages : Spawn(t, h, m) \/ SendInput(t, h, m)
      PROVE  \A u \in Calls : Told(u)'
  BY <1>5, <1>8 DEF CloseAgent, WaitAgent, Spawn, SendInput
<1> QED
  BY <1>1, <1>4, <1>6, <1>7, <1>8 DEF Next, PrepareStep, vars

-----------------------------------------------------------------------------
(* The theorems.                                                           *)

LEMMA InitInv == Init => Inv
<1> SUFFICES ASSUME Init
             PROVE  Inv
  OBVIOUS
<1>1. NoHandle \in Handle
  BY DEF NoHandle, Handle, Statuses, Live
<1>2. TypeOK
  <2>1. /\ handle \in [Children -> Handle] /\ accepted \in [Children -> Seq(Messages)]
        /\ pc \in [Calls -> CallPCs] /\ at \in [Calls -> Local]
    BY <1>1, BlankTyped DEF Init, CallPCs
  <2>2. /\ wake \in [Children -> BOOLEAN] /\ cancelled \in [Children -> BOOLEAN]
        /\ loop \in [Children -> LoopPCs] /\ row \in [Children -> Rows]
        /\ outcome \in [Children -> Outcomes] /\ answered \in [Children -> SUBSET Messages]
        /\ cur \in [Children -> Messages \union {None}]
        /\ reported \in [Children -> Messages \union {None}]
    BY DEF Init, LoopPCs, Rows, Outcomes
  <2>3. notes = <<>> /\ seen = {} /\ checkpoint \in BOOLEAN
    BY Zenon DEF Init
  <2>4. steps \in 0..MaxSteps
    BY MessagesAssumption DEF Init
  <2> QED
    BY <2>1, <2>2, <2>3, <2>4 DEF TypeOK
<1>3. SpawnOK /\ CallOK /\ SentOK
  BY DEF Init, SpawnOK, Spawning, CallOK, SentOK, AllSent, Taken, RunPCs, NoHandle
<1>4. RunningIsReal /\ ClosedQueueEmpty /\ OnlyInterruptedIsCancelled
  BY DEF Init, RunningIsReal, ClosedQueueEmpty, OnlyInterruptedIsCancelled, RunPCs, NoHandle
<1>5. StatusAnswered /\ OutcomeAnswered /\ CompletedHasOutput
  BY DEF Init, StatusAnswered, OutcomeAnswered, CompletedHasOutput, NoHandle
<1> QED
  BY <1>2, <1>3, <1>4, <1>5 DEF Inv

LEMMA StepInv == Inv /\ [Next]_vars => Inv'
<1> SUFFICES ASSUME Inv, [Next]_vars
             PROVE  Inv'
  OBVIOUS
<1> USE DEF Inv
<1>1. TypeOK'
  <2>1. CASE UNCHANGED vars
    BY <2>1 DEF TypeOK, vars, childVars, parentVars
  <2> QED
    BY <2>1, CallTyped, LoopTyped, ModelTyped, PrepareStepTyped DEF Next
<1> QED
  BY <1>1, SpawnKept, CallKept, SentKept, RunningKept, ClosedKept, CancelledKept, OutcomeKept, OutputKept

LEMMA AlwaysInv == Spec => []Inv
BY InitInv, StepInv, PTL DEF Spec

\* The variables keep their types: no handle, queue, row or notification ever
\* has a value that the code of the two sides does not expect; in particular
\* the loop notifies only of an end, never of a status queued or running.
THEOREM TypeCorrect == Spec => []TypeOK
<1>1. Inv => TypeOK
  BY DEF Inv
<1> QED
  BY <1>1, AlwaysInv, PTL

\* The status running in a handle is the truth about the loop, whatever the
\* parallel calls of the parent send or close (setRunning, enqueue, close,
\* onRunFinished).
THEOREM StatusIsHonest == Spec => []RunningIsReal
<1>1. Inv => RunningIsReal
  BY DEF Inv
<1> QED
  BY <1>1, AlwaysInv, PTL

\* A closed child has nothing left to do: close empties the queue and enqueue
\* refuses from then on.
THEOREM ClosedStaysEmpty == Spec => []ClosedQueueEmpty
<1>1. Inv => ClosedQueueEmpty
  BY DEF Inv
<1> QED
  BY <1>1, AlwaysInv, PTL

\* A message whose agent.Run is cancelled was interrupted by a later message,
\* or its child was closed: the cancel function that enqueue and close read
\* in the handle never reaches a message that was sent after.
THEOREM CancelsAreJust == Spec => []OnlyInterruptedIsCancelled
<1>1. Inv => OnlyInterruptedIsCancelled
  BY DEF Inv
<1> QED
  BY <1>1, AlwaysInv, PTL

\* A wait_agent or get_agent_result that has read the status completed finds
\* the answer of the message that was completed, although it reads the child's
\* row later and without the lock: the row is written before onRunFinished
\* takes the lock, and nothing takes an answer out of the trace.
THEOREM OutputIsThere == Spec => []CompletedHasOutput
<1>1. Inv => CompletedHasOutput
  BY DEF Inv
<1> QED
  BY <1>1, AlwaysInv, PTL
=============================================================================
