--------------------------- MODULE TurnLifecycle ---------------------------
(***************************************************************************)
(* What the run service and its queue promise about one submitted message. *)
(* A request (a client_request_id within a run) becomes at most one turn,  *)
(* a turn is handed to at most one executor at a time, and a turn whose    *)
(* execution came to an end is never handed out again.  Only an execution  *)
(* that was lost (its worker died, or gave its job back with an error) may *)
(* be offered a second time.                                               *)
(*                                                                         *)
(* Nothing is said here about how the promise is kept: AgentRuns keeps it  *)
(* with a UNIQUE index, a unique job and a claim by the fetching worker.   *)
(***************************************************************************)
CONSTANTS Requests,   \* the client_request_ids, each meant for one run
          Executors,  \* who may execute a turn: workers and attached clients
          Nobody      \* the holder of a turn that nobody executes

VARIABLES stage,      \* how far the request has come
          holder      \* who executes its turn

lifecycle == <<stage, holder>>

Stages == {"new", "prepared", "pending", "executing", "done", "lost"}

LifecycleTypeOK ==
  /\ stage \in [Requests -> Stages]
  /\ holder \in [Requests -> Executors \union {Nobody}]

LifecycleInit ==
  /\ stage = [q \in Requests |-> "new"]
  /\ holder = [q \in Requests |-> Nobody]

Move(q, from, to, who) ==
  /\ stage[q] \in from
  /\ stage' = [stage EXCEPT ![q] = to]
  /\ holder' = [holder EXCEPT ![q] = who]

\* The turn row is written.
Prepare(q) == Move(q, {"new"}, "prepared", Nobody)

\* A job is offered to the workers, again only if an execution was lost.
Offer(q) == Move(q, {"prepared", "lost"}, "pending", Nobody)

\* Somebody takes the turn: a worker its job, an attached client its own turn.
Take(q, e) == Move(q, {"prepared", "pending"}, "executing", e)

\* The execution returns.
Settle(q) == Move(q, {"executing"}, "done", Nobody)

\* The execution is lost with its executor, or returns an error to the queue.
Lose(q) == Move(q, {"executing"}, "lost", Nobody)

\* A prepared turn is abandoned by the attached client that prepared it.
Abandon(q) == Move(q, {"prepared"}, "done", Nobody)

\* A crash loses several executions at once.
Crash(Q) ==
  /\ \A q \in Q : stage[q] \in {"executing", "prepared"}
  /\ \E Keep \in SUBSET Q :
       stage' = [q \in Requests |-> IF q \notin Q THEN stage[q]
                                    ELSE IF q \in Keep THEN "done" ELSE "lost"]
  /\ holder' = [q \in Requests |-> IF q \in Q THEN Nobody ELSE holder[q]]

LifecycleNext ==
  \/ \E q \in Requests :
       \/ Prepare(q) \/ Offer(q) \/ Settle(q) \/ Lose(q) \/ Abandon(q)
       \/ \E e \in Executors : Take(q, e)
  \/ \E Q \in SUBSET Requests : Crash(Q)

LifecycleSpec == LifecycleInit /\ [][LifecycleNext]_lifecycle
=============================================================================
