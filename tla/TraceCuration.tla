---------------------------- MODULE TraceCuration ----------------------------
(***************************************************************************)
(* The review, curation and export of recorded traces                      *)
(* (src/internal/agenttrace, src/internal/knowledge/agent_trace_curation.go*)
(* and the commands of src/cmd/agent_traces.go).  A curation is an editable*)
(* copy of a run's trace.  Every command reads the whole row, changes its  *)
(* copy and writes the whole row back, an editor after as long as it takes;*)
(* what is approved is exported to a file of conversations.                *)
(***************************************************************************)
EXTENDS Integers, Sequences, FiniteSets, SequencesExt

CONSTANTS
  Reviewers,     \* who runs the commands
  ToolCalls,     \* the ids of tool calls
  BlankIds,      \* those of them that are only white space
  RawTraces,     \* the traces of the workspace's runs: sequences of messages
  EditedTraces,  \* what an editor may leave: any traces that parse
  MaxCurations,  \* bound: curations derived
  MaxReviews,      \* bound: commands begun
  MaxTraceLength, \* bound: messages of a curation
  NoToolCall

ASSUME TraceCurationAssumption ==
  /\ MaxCurations \in Nat /\ MaxReviews \in Nat /\ MaxTraceLength \in Nat
  /\ NoToolCall \notin ToolCalls /\ BlankIds \subseteq ToolCalls

VARIABLES
  curations,  \* agent_trace_curations, by id
  journal,    \* agent_trace_curation_events: [id, kind]
  reviewers,  \* [Reviewers -> the command each is in]
  exportFile, \* conversations.jsonl: the records of the last export
  reviews

curationVars == <<curations, journal, reviewers, exportFile, reviews>>

CurationStatuses == {"draft", "approved", "rejected"}

MessageIds == {"run", "curated"} \X Nat

\* A call of a tool: its function may be missing, or have no name.
TraceCall ==
  [id : ToolCalls \cup {NoToolCall}, function : {"none", "nameless", "named"}]

\* A message: an assistant's makes calls, a tool's answers one; text tells
\* whether it has any.  Its id is of the run, or was given by the curation.
TraceMessage ==
  {m \in [id : MessageIds, role : {"user", "assistant", "tool", "other"},
          calls : SUBSET TraceCall, answers : ToolCalls \cup {NoToolCall}, text : BOOLEAN] :
     (m.calls # {} => m.role = "assistant") /\ (m.answers # NoToolCall => m.role = "tool")}

\* No two messages have the same id, but for some ids.
IdsDiffer(ms, but) ==
  \A j, k \in DOMAIN ms : ms[j].id = ms[k].id => j = k \/ ms[j].id \in but

\* The trace builder numbers the messages in order (nextMessageID), and a trace is
\* only ever cut at its end.  An editor is under no such rule.
ASSUME TracesAssumption ==
  /\ \A ms \in RawTraces : ms \in Seq(TraceMessage) /\ IdsDiffer(ms, {})
  /\ EditedTraces \subseteq Seq(TraceMessage)

\* doubled is history: the ids that an editor gave to more than one message.
Row == [id : 1..MaxCurations, status : CurationStatuses, split : {"", "train"},
        messages : Seq(TraceMessage), doubled : SUBSET MessageIds]
NoCuration == [id |-> 0, status |-> "draft", split |-> "", messages |-> <<>>, doubled |-> {}]

AtTheDesk == [pc |-> "idle", row |-> NoCuration, kind |-> "", listed |-> {}]

TraceCurationInit ==
  /\ curations = <<>>
  /\ journal = {}
  /\ reviewers = [r \in Reviewers |-> AtTheDesk]
  /\ exportFile = {}
  /\ reviews = 0

(***************************************************************************)
(* Review: ReviewWarnings, and what verify-export asks of a record.        *)
(***************************************************************************)
\* The ids of a message's calls that have one.
CallIds(m) == {call.id : call \in m.calls} \ {NoToolCall}

\* Mutant: a result is looked up among all the calls of the trace.
PendingAnywhere(ms) ==
  LET all == UNION {CallIds(ms[k]) : k \in 1..Len(ms)}
      f[k \in 0..Len(ms)] == IF k = 0 THEN all ELSE f[k - 1] \ {ms[k].answers}
  IN  f

\* The calls without a result after each message: pendingCalls.
Pending(ms) ==
  LET f[k \in 0..Len(ms)] == IF k = 0 THEN {} ELSE (f[k - 1] \ {ms[k].answers}) \cup CallIds(ms[k])
  IN  f

\* A result that answers none of them, or names none.
Orphaned(ms) ==
  {k \in 1..Len(ms) : ms[k].role = "tool" /\ ms[k].answers \notin Pending(ms)[k - 1]}

\* lastAssistantContent: an answer that the user can see.
HasFinalAnswer(ms) == \E k \in 1..Len(ms) : ms[k].role = "assistant" /\ ms[k].text

NoReviewWarnings(ms) ==
  /\ HasFinalAnswer(ms) /\ Orphaned(ms) = {} /\ Pending(ms)[Len(ms)] = {}
  /\ \A k \in 1..Len(ms) : \A call \in ms[k].calls : call.id # NoToolCall

\* buildExportRecord: the system prompt and the messages of the known roles, each
\* at its place, without the calls that have no function.
ExportRecord(row) ==
  [id |-> row.id, status |-> row.status,
   messages |-> {[at |-> 0, role |-> "system", calls |-> {}, answers |-> NoToolCall]} \cup
     {[at |-> k, role |-> row.messages[k].role,
       calls |-> {call \in row.messages[k].calls : call.function # "none"},
       answers |-> row.messages[k].answers] :
        k \in {j \in DOMAIN row.messages : row.messages[j].role # "other"}}]

\* verifyTraceExportFile: every tool message names the call it answers and every
\* call its function.  The roles and the content that it asks for are there in
\* every record that buildExportRecord makes.
VerifyExport(record) ==
  \A m \in record.messages :
    /\ m.role = "tool" => m.answers \notin BlankIds \cup {NoToolCall}
    /\ \A call \in m.calls : call.function = "named"

(***************************************************************************)
(* Commands.                                                               *)
(***************************************************************************)
MayBegin(r) == reviewers[r].pc = "idle" /\ reviews < MaxReviews

\* Derive: a draft of the run's trace as it is now.
Derive(r) ==
  /\ MayBegin(r) /\ Len(curations) < MaxCurations
  /\ \E raw \in RawTraces :
        curations' = Append(curations, [id |-> Len(curations) + 1, status |-> "draft",
                                        split |-> "", messages |-> raw, doubled |-> {}])
  /\ journal' = journal \cup {[id |-> Len(curations) + 1, kind |-> "derive"]}
  /\ reviews' = reviews + 1
  /\ UNCHANGED <<reviewers, exportFile>>

\* A command has read row c and changed its copy.
ReadRow(r, c, row, kind) ==
  /\ MayBegin(r) /\ c \in 1..Len(curations)
  /\ reviewers' = [reviewers EXCEPT ![r] = [pc |-> "write", row |-> row, kind |-> kind,
                                            listed |-> {}]]
  /\ reviews' = reviews + 1
  /\ UNCHANGED <<curations, journal, exportFile>>

SetStatus(r, c) ==
  \E status \in {"approved", "rejected"} :
    ReadRow(r, c, [curations[c] EXCEPT !.status = status], status)

Label(r, c) == ReadRow(r, c, [curations[c] EXCEPT !.split = "train"], "label")

\* mutateTrace: what the messages become.
MutateTrace(r, c, ms, kind) == ReadRow(r, c, [curations[c] EXCEPT !.messages = ms], kind)

ReplaceMessage(r, c) ==
  \E k \in 1..Len(curations[c].messages), text \in BOOLEAN :
    MutateTrace(r, c, [curations[c].messages EXCEPT ![k].text = text], "replace_message")

DropMessage(r, c) ==
  LET ms == curations[c].messages IN
  \E k \in 1..Len(ms) :
    MutateTrace(r, c, RemoveAt(ms, k), "drop_message")

\* Mutant: the number of messages makes the next id.
NextIdOfLength(ms) == <<"curated", Len(ms) + 1>>

\* nextCuratedMessageID: the first number from there that no message has.
NextCuratedMessageID(ms) ==
  LET used == {ms[k].id : k \in 1..Len(ms)}
      free == {i \in (Len(ms) + 1)..(2 * Len(ms) + 1) : <<"curated", i>> \notin used}
  IN  <<"curated", CHOOSE i \in free : \A j \in free : i <= j>>

InsertMessage(r, c) ==
  LET ms == curations[c].messages IN
  /\ Len(ms) < MaxTraceLength
  /\ \E k \in 1..Len(ms) + 1, role \in {"user", "assistant", "tool"},
        call \in (ToolCalls \ BlankIds) \cup {NoToolCall} :
       /\ role # "tool" => call = NoToolCall
       /\ LET m == [id |-> NextCuratedMessageID(ms), role |-> role, calls |-> {},
                    answers |-> call, text |-> TRUE]
          IN MutateTrace(r, c, InsertAt(ms, k, m), "insert_message")

\* The ids that more than one message has.
DoubledIds(ms) ==
  {ms[k].id : k \in {j \in DOMAIN ms : \E i \in DOMAIN ms \ {j} : ms[i].id = ms[j].id}}

\* EditInEditor: what the editor left is taken whole if it parses.
EditInEditor(r, c) ==
  \E ms \in EditedTraces :
    ReadRow(r, c, [curations[c] EXCEPT !.messages = ms, !.doubled = DoubledIds(ms)], "edit")

\* UpdateAgentTraceCuration: all columns, as the copy has them.
WriteRow(r) ==
  /\ reviewers[r].pc = "write"
  /\ curations' = [curations EXCEPT ![reviewers[r].row.id] = reviewers[r].row]
  /\ journal' = journal \cup {[id |-> reviewers[r].row.id, kind |-> reviewers[r].kind]}
  /\ reviewers' = [reviewers EXCEPT ![r] = AtTheDesk]
  /\ UNCHANGED <<exportFile, reviews>>

\* The editor fails or is given up: nothing is written.
GiveUpEdit(r) ==
  /\ reviewers[r].pc = "write" /\ reviewers[r].kind = "edit"
  /\ reviewers' = [reviewers EXCEPT ![r] = AtTheDesk]
  /\ UNCHANGED <<curations, journal, exportFile, reviews>>

\* export without ids: the approved curations are listed, of one split or of all ...
ListForExport(r) ==
  /\ MayBegin(r)
  /\ \E split \in {"", "train"} :
       LET chosen == {c \in 1..Len(curations) : curations[c].status = "approved"
                                               /\ (split # "" => curations[c].split = split)}
       IN  /\ chosen # {}
           /\ reviewers' = [reviewers EXCEPT ![r].pc = "export", ![r].listed = chosen]
  /\ reviews' = reviews + 1
  /\ UNCHANGED <<curations, journal, exportFile>>

\* ... and each is read again when its record is made; the file is replaced.
ExportListed(r) ==
  /\ reviewers[r].pc = "export"
  /\ exportFile' = {ExportRecord(curations[c]) : c \in reviewers[r].listed}
  /\ reviewers' = [reviewers EXCEPT ![r] = AtTheDesk]
  /\ UNCHANGED <<curations, journal, reviews>>

CurationNext ==
  \E r \in Reviewers :
    \/ Derive(r) \/ WriteRow(r) \/ GiveUpEdit(r) \/ ListForExport(r) \/ ExportListed(r)
    \/ \E c \in 1..Len(curations) :
         \/ SetStatus(r, c) \/ Label(r, c)
         \/ ReplaceMessage(r, c) \/ DropMessage(r, c) \/ InsertMessage(r, c)
         \/ EditInEditor(r, c)

CurationSpec == TraceCurationInit /\ [][CurationNext]_curationVars

(***************************************************************************)
(* Properties.                                                             *)
(***************************************************************************)
\* The types of the rows, of the journal and of the commands.
CurationTypeOK ==
  /\ Len(curations) <= MaxCurations
  /\ \A c \in 1..Len(curations) : curations[c] \in Row /\ curations[c].id = c
  /\ \A e \in journal : e.id \in 1..Len(curations)
  /\ \A r \in Reviewers :
       /\ reviewers[r].pc \in {"idle", "write", "export"}
       /\ reviewers[r].row \in Row \cup {NoCuration}
       /\ reviewers[r].listed \subseteq 1..Len(curations)
  /\ reviews \in 0..MaxReviews

\* A message is referred to by its id (curation.go:314-331): whatever was
\* dropped, inserted or written back from an old copy, no id is that of two
\* messages that an editor did not give it to, so that the next command changes
\* the message that is meant.
MessageRefsAreUnambiguous ==
  \A c \in 1..Len(curations) : IdsDiffer(curations[c].messages, curations[c].doubled)

\* Every call of a record has a result after it.
CallsAreAnswered(record) ==
  \A m \in record.messages : \A call \in m.calls :
    \E n \in record.messages : n.at > m.at /\ n.role = "tool" /\ n.answers = call.id

\* Every result of a record is the first one since its call was made.
ResultsFollowCalls(record) ==
  \A m \in record.messages :
    m.role = "tool" =>
      \E n \in record.messages :
        /\ n.at < m.at /\ \E call \in n.calls : call.id = m.answers
        /\ \A o \in record.messages : n.at < o.at /\ o.at < m.at => o.answers # m.answers

\* What the review does not look at: the names of the functions, and ids that are
\* only white space.
WellNamed(ms) ==
  \A k \in DOMAIN ms : \A call \in ms[k].calls :
    call.function = "named" /\ call.id \notin BlankIds

\* What the review finds nothing to say of is fit to train on
\* (review.go:335-397): every call that is exported is answered after it was made;
\* and where every call has a named function and an id, the record passes the
\* verification of the export and every result is the first one since its call.
CleanReviewExports ==
  \A c \in 1..Len(curations) :
    LET ms == curations[c].messages
        record == ExportRecord(curations[c])
    IN  NoReviewWarnings(ms) =>
          /\ CallsAreAnswered(record)
          /\ WellNamed(ms) => VerifyExport(record) /\ ResultsFollowCalls(record)
=============================================================================
