----------------------------- MODULE Compaction -----------------------------
(***************************************************************************)
(* The transcript of one agent run, its compaction and its truncation.     *)
(*                                                                         *)
(* An execution of the run works on a copy of the stored trace, adds its   *)
(* messages to it and stores it again and again.  Before every step of the *)
(* model the compaction manager may replace the oldest messages by a       *)
(* checkpoint: a summary and the number of messages from the start that it *)
(* covers.  The checkpoints are stored in the trace and restored by the    *)
(* next execution.  Meanwhile the web application may delete the messages  *)
(* from some user message on, in the stored trace and in the turns' table. *)
(*                                                                         *)
(* A message is identified by a number and has a role; a summary is the set*)
(* of the messages it was made from.  A tool's output may be spilled to a  *)
(* row of its own, which the message refers to.                            *)
(***************************************************************************)
EXTENDS Integers, Sequences, FiniteSets

CONSTANTS
  KeepRecent, AggressiveKeepRecent, \* messages a compaction leaves
  MaxCompactions,  \* agent.compaction.max_compactions_per_run
  MaxNudges,       \* maxTodoContinuations (5)
  MaxMessages,     \* bound: messages of the run
  MaxTurns,        \* bound: turns of the run
  MaxDeletes       \* bound: truncations

ASSUME CompactionAssumption ==
  /\ KeepRecent \in Nat \ {0} /\ AggressiveKeepRecent \in Nat \ {0}
  /\ MaxCompactions \in Nat /\ MaxNudges \in Nat
  /\ MaxMessages \in Nat /\ MaxTurns \in Nat /\ MaxDeletes \in Nat

VARIABLES
  stored,   \* agent_runs.trace: messages and compactions
  turnRows, \* agent_run_turns: the user message of each turn, oldest first
  phase,    \* what the execution does, or "idle"
  work,     \* builder.trace
  retried,  \* the reactive compaction was done
  nudges,   \* continuations of this execution
  created, deletes

compactionVars == <<stored, turnRows, phase, work, retried, nudges, created, deletes>>

Roles == {"user", "assistant", "tool"}

\* spilled: the tool's output is stored apart, and the message refers to it.
Message == [id : 1..MaxMessages, role : Roles, spilled : BOOLEAN]
Checkpoint == [covered : Nat, summary : SUBSET (1..MaxMessages), outputs : SUBSET (1..MaxMessages)]
Trace == [messages : Seq(Message), compactions : Seq(Checkpoint)]

NoCheckpoint == [covered |-> 0, summary |-> {}, outputs |-> {}]

CompactionInit ==
  /\ stored = [messages |-> <<>>, compactions |-> <<>>]
  /\ turnRows = <<>>
  /\ phase = "idle"
  /\ work = stored
  /\ retried = FALSE
  /\ nudges = 0
  /\ created = 0
  /\ deletes = 0

Ids(ms) == {ms[k].id : k \in 1..Len(ms)}
SpilledIn(ms) == {ms[k].id : k \in {j \in 1..Len(ms) : ms[j].spilled}}
From(ms, k) == SubSeq(ms, k, Len(ms))

\* The checkpoint of a trace: restoreCheckpoint takes the last one, and every
\* compaction of the execution replaces it.
LastCheckpoint(trace) ==
  IF trace.compactions = <<>> THEN NoCheckpoint ELSE trace.compactions[Len(trace.compactions)]

(***************************************************************************)
(* Compaction.                                                             *)
(***************************************************************************)
\* A tail that starts after k messages starts a turn or a step.
Boundary(ms, k) == ms[k + 1].role # "tool"

\* Mutant: the split is where the count says.
FindSplitAtTarget(ms, keep) == IF Len(ms) <= keep THEN 0 ELSE Len(ms) - keep

\* findCompactionSplitPoint: how many messages are compacted, at a boundary
\* before the target, or else at the first one after it.
FindSplitPoint(ms, keep) ==
  LET target == Len(ms) - keep
      before == {k \in 1..target : Boundary(ms, k)}
      after == {k \in (target + 1)..(Len(ms) - 1) : Boundary(ms, k)}
  IN  IF Len(ms) <= keep THEN 0
      ELSE IF before # {} THEN CHOOSE k \in before : \A j \in before : j <= k
      ELSE IF after # {} THEN CHOOSE k \in after : \A j \in after : k <= j
      ELSE 0

\* Mutant: a compaction covers what the last one has left, and forgets it.
SummarizeRest(trace, k) ==
  LET last == LastCheckpoint(trace)
      rest == SubSeq(trace.messages, last.covered + 1, k)
  IN  [covered |-> k, summary |-> Ids(rest), outputs |-> SpilledIn(rest)]

\* The new summary is made from the prefix and the checkpoint before it, and
\* keeps the references to the outputs of both.
Summarize(trace, k) ==
  LET prefix == SubSeq(trace.messages, 1, k)
      last == LastCheckpoint(trace)
  IN  [covered |-> k, summary |-> last.summary \union Ids(prefix),
       outputs |-> last.outputs \union SpilledIn(prefix)]

CanCompact(trace, keep) ==
  /\ Len(trace.compactions) < MaxCompactions
  /\ Len(trace.messages) > keep
  /\ FindSplitPoint(trace.messages, keep) > 0

Compacted(trace, keep) ==
  [trace EXCEPT !.compactions =
     Append(@, Summarize(trace, FindSplitPoint(trace.messages, keep)))]

\* applyToStep: what the model sees after the checkpoint.  A checkpoint that
\* covers more than there is leaves nothing.
VisibleTail(trace) ==
  IF LastCheckpoint(trace).covered >= Len(trace.messages) THEN <<>>
  ELSE From(trace.messages, LastCheckpoint(trace).covered + 1)

(***************************************************************************)
(* An execution.                                                           *)
(***************************************************************************)
NewMessage(k, role, spilled) == [id |-> created + k, role |-> role, spilled |-> spilled]

Add(trace, ms) == [trace EXCEPT !.messages = @ \o ms]

\* The turn's row, and the user message with which the execution starts.
StartRun ==
  LET begun == Add(stored, <<NewMessage(1, "user", FALSE)>>) IN
  /\ phase = "idle"
  /\ Len(turnRows) < MaxTurns /\ created < MaxMessages
  /\ turnRows' = Append(turnRows, created + 1)
  /\ work' = begun
  /\ stored' = begun
  /\ phase' = "step"
  /\ retried' = FALSE
  /\ nudges' = 0
  /\ created' = created + 1
  /\ UNCHANGED <<deletes>>

\* Proactive compaction, when the estimate asks for it; it may fail.
PrepareStep ==
  /\ phase = "step"
  /\ phase' = "model"
  /\ \/ UNCHANGED work
     \/ CanCompact(work, KeepRecent) /\ work' = Compacted(work, KeepRecent)
  /\ UNCHANGED <<stored, turnRows, retried, nudges, created, deletes>>

\* The model calls one or two tools; every result stores the trace.
CallTools(n, spilled) ==
  LET answer == <<NewMessage(1, "assistant", FALSE)>>
                  \o [k \in 1..n |-> NewMessage(k + 1, "tool", spilled)]
  IN  /\ phase = "model"
      /\ created + n < MaxMessages
      /\ work' = Add(work, answer)
      /\ stored' = work'
      /\ phase' = "step"
      /\ created' = created + n + 1
      /\ UNCHANGED <<turnRows, retried, nudges, deletes>>

\* The provider finds the context too large: one aggressive compaction.
Overflow ==
  /\ phase = "model" /\ ~retried
  /\ CanCompact(work, AggressiveKeepRecent)
  /\ work' = Compacted(work, AggressiveKeepRecent)
  /\ retried' = TRUE
  /\ phase' = "step"
  /\ UNCHANGED <<stored, turnRows, nudges, created, deletes>>

\* The model stops with todos left: it is nudged by a user message.
Nudge ==
  /\ phase = "model" /\ ~retried
  /\ nudges < MaxNudges /\ created + 1 < MaxMessages
  /\ work' = Add(work, <<NewMessage(1, "assistant", FALSE), NewMessage(2, "user", FALSE)>>)
  /\ stored' = work'
  /\ nudges' = nudges + 1
  /\ phase' = "step"
  /\ created' = created + 2
  /\ UNCHANGED <<turnRows, retried, deletes>>

\* The run ends, well or not, with what the assistant has said.
EndRun ==
  /\ phase \in {"step", "model"}
  /\ \/ created < MaxMessages
        /\ work' = Add(work, <<NewMessage(1, "assistant", FALSE)>>)
        /\ created' = created + 1
     \/ UNCHANGED <<work, created>>
  /\ stored' = work'
  /\ phase' = "idle"
  /\ UNCHANGED <<turnRows, retried, nudges, deletes>>

(***************************************************************************)
(* The web application.                                                    *)
(***************************************************************************)
UserMessages(ms) == {k \in 1..Len(ms) : ms[k].role = "user"}

\* The messages before the nth user message, counted from 0.
FirstTurns(ms, n) ==
  LET nth == {k \in UserMessages(ms) : Cardinality({j \in UserMessages(ms) : j < k}) = n}
  IN  IF nth = {} THEN ms ELSE SubSeq(ms, 1, (CHOOSE k \in nth : TRUE) - 1)

\* Messages and turns are cut at the same index; the compactions are kept.
\* Nothing asks whether the run is being executed.
DeleteMessagesFromUserIndex(n) ==
  /\ deletes < MaxDeletes
  /\ stored # [messages |-> <<>>, compactions |-> <<>>]
  /\ stored' = [stored EXCEPT !.messages = FirstTurns(@, n)]
  /\ turnRows' = IF n < Len(turnRows) THEN SubSeq(turnRows, 1, n) ELSE turnRows
  /\ deletes' = deletes + 1
  /\ UNCHANGED <<phase, work, retried, nudges, created>>

CompactionNext ==
  \/ StartRun \/ PrepareStep \/ Overflow \/ Nudge \/ EndRun
  \/ \E n \in 1..2, spilled \in BOOLEAN : CallTools(n, spilled)
  \/ \E n \in 0..MaxTurns : DeleteMessagesFromUserIndex(n)

CompactionSpec == CompactionInit /\ [][CompactionNext]_compactionVars

(***************************************************************************)
(* Properties.                                                             *)
(***************************************************************************)
CompactionTypeOK ==
  /\ stored \in Trace
  /\ work \in Trace
  /\ turnRows \in Seq(1..MaxMessages)
  /\ phase \in {"idle", "step", "model"}
  /\ retried \in BOOLEAN
  /\ nudges \in 0..MaxNudges
  /\ created \in 0..MaxMessages
  /\ deletes \in 0..MaxDeletes

\* "It ensures the split does not land inside an assistant+tool-result group":
\* through any series of compactions, proactive and reactive, of this and of
\* earlier executions, what the model sees never starts with a bare result.
TailIsWellFormed ==
  phase = "model" /\ deletes = 0 /\ VisibleTail(work) # <<>> => Head(VisibleTail(work)).role # "tool"

\* Nothing is lost: every message of the run is seen by the model or has gone
\* into the summary, and the summary refers to every spilled output that the
\* model does not see, also when a later compaction covers less.
SeenOrSummarized ==
  phase = "model" /\ deletes = 0 =>
    /\ Ids(work.messages) \subseteq LastCheckpoint(work).summary \union Ids(VisibleTail(work))
    /\ SpilledIn(work.messages) \subseteq LastCheckpoint(work).outputs \union Ids(VisibleTail(work))
=============================================================================
