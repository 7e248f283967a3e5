------------------------------ MODULE StoresProofs -----------------------------
(***************************************************************************)
(* What is kept beside the runs, for every value of the constants: the     *)
(* conversation a run continues with (Compaction), the repositories of the *)
(* Git server and the clones of it (GitRepos), the installed skills        *)
(* (SkillLibrary), the knowledge graph (KnowledgeGraph, with the lemmas of *)
(* GraphProofs), the configuration with the workspaces and the key pair    *)
(* (Configuration) and the curated traces (TraceCuration).  Of the trace   *)
(* of a call (LiveTrace) and of the stored outputs (ToolOutputs) a part is *)
(* proved.  Each part has an inductive invariant of its own; the last      *)
(* section puts the parts together as MCStores does.                       *)
(***************************************************************************)
EXTENDS MCStores, GraphProofs

-----------------------------------------------------------------------------
(* Compaction: what a run continues with.                                  *)

\* The last checkpoint of a trace covers messages that there are and ends where a
\* turn or a step begins, and its summary has whatever it covers.
GoodTrace(t) ==
  LET last == LastCheckpoint(t)
  IN /\ last.covered <= Len(t.messages)
     /\ last.covered < Len(t.messages) => Boundary(t.messages, last.covered)
     /\ \A j \in 1..last.covered :
          /\ t.messages[j].id \in last.summary
          /\ t.messages[j].spilled => t.messages[j].id \in last.outputs

CompactionInv ==
  /\ CompactionTypeOK
  /\ deletes = 0 => GoodTrace(stored) /\ GoodTrace(work)

-----------------------------------------------------------------------------
\* The identifiers of a part of the messages.
LEMMA PartOfMessages ==
  ASSUME NEW ms \in Seq(Message), NEW a \in Nat \ {0}, NEW b \in 0..Len(ms)
  PROVE  /\ SubSeq(ms, a, b) \in Seq(Message)
         /\ Ids(SubSeq(ms, a, b)) = {ms[j].id : j \in a..b}
         /\ SpilledIn(SubSeq(ms, a, b)) = {ms[j].id : j \in {i \in a..b : ms[i].spilled}}
<1> DEFINE piece == SubSeq(ms, a, b)
<1>1. Len(ms) \in Nat /\ b \in Nat /\ b <= Len(ms)
  BY LenProperties
<1>2. \A j \in a..b : ms[j] \in Message
  BY <1>1, ElementOfSeq
<1>3. /\ piece \in Seq(Message)
      /\ Len(piece) = IF a <= b THEN b - a + 1 ELSE 0
      /\ \A i \in 1..(b - a + 1) : piece[i] = ms[a + i - 1]
  BY <1>1, <1>2, SubSeqProperties
<1> HIDE DEF piece
<1>4. /\ \A i \in 1..Len(piece) : piece[i] = ms[a + i - 1] /\ a + i - 1 \in a..b
      /\ \A j \in a..b : j - a + 1 \in 1..Len(piece) /\ piece[j - a + 1] = ms[j]
  <2>1. \A i \in 1..Len(piece) : i \in 1..(b - a + 1) /\ a + i - 1 \in a..b
    BY <1>1, <1>3
  <2>2. \A j \in a..b : /\ j - a + 1 \in 1..(b - a + 1) /\ j - a + 1 \in 1..Len(piece)
                       /\ a + (j - a + 1) - 1 = j
    BY <1>1, <1>3
  <2>3. \A j \in a..b : piece[j - a + 1] = ms[a + (j - a + 1) - 1]
    BY <1>3, <2>2
  <2>4. \A j \in a..b : piece[j - a + 1] = ms[j]
    BY <2>2, <2>3
  <2>5. QED
    BY <1>3, <2>1, <2>2, <2>4
<1>5. Ids(piece) = {ms[j].id : j \in a..b}
  <2>1. ASSUME NEW x \in Ids(piece) PROVE x \in {ms[j].id : j \in a..b}
    <3>1. PICK i \in 1..Len(piece) : x = piece[i].id
      BY DEF Ids
    <3>2. QED
      BY <3>1, <1>4
  <2>2. ASSUME NEW j \in a..b PROVE ms[j].id \in Ids(piece)
    BY <1>4 DEF Ids
  <2>3. QED
    BY <2>1, <2>2
<1>6. SpilledIn(piece) = {ms[j].id : j \in {i \in a..b : ms[i].spilled}}
  <2>1. ASSUME NEW x \in SpilledIn(piece) PROVE x \in {ms[j].id : j \in {i \in a..b : ms[i].spilled}}
    <3>1. PICK i \in 1..Len(piece) : x = piece[i].id /\ piece[i].spilled
      BY DEF SpilledIn
    <3>2. QED
      BY <3>1, <1>4
  <2>2. ASSUME NEW j \in a..b, ms[j].spilled PROVE ms[j].id \in SpilledIn(piece)
    <3>1. j - a + 1 \in 1..Len(piece) /\ piece[j - a + 1] = ms[j]
      BY <1>4
    <3>2. QED
      BY <3>1, <2>2 DEF SpilledIn
  <2>3. QED
    BY <2>1, <2>2
<1>7. QED
  BY <1>3, <1>5, <1>6 DEF piece

LEMMA LastTyped ==
  ASSUME NEW t \in Trace
  PROVE  LastCheckpoint(t) \in Checkpoint
<1>1. t.compactions \in Seq(Checkpoint)
  BY DEF Trace
<1>2. CASE t.compactions = <<>>
  BY <1>2 DEF LastCheckpoint, NoCheckpoint, Checkpoint
<1>3. CASE t.compactions # <<>>
  <2>1. Len(t.compactions) \in Nat \ {0}
    BY <1>1, <1>3, EmptySeq
  <2>2. t.compactions[Len(t.compactions)] \in Checkpoint
    BY <1>1, <2>1, ElementOfSeq
  <2>3. QED
    BY <1>3, <2>2 DEF LastCheckpoint
<1>4. QED
  BY <1>2, <1>3

\* A split is at a boundary behind the first message and before the last one.
LEMMA SplitFacts ==
  ASSUME NEW ms \in Seq(Message), NEW keep \in Nat \ {0}, Len(ms) > keep,
         FindSplitPoint(ms, keep) > 0
  PROVE  /\ FindSplitPoint(ms, keep) \in 1..(Len(ms) - 1)
         /\ Boundary(ms, FindSplitPoint(ms, keep))
<1> DEFINE target == Len(ms) - keep
           before == {k \in 1..target : Boundary(ms, k)}
           after == {k \in (target + 1)..(Len(ms) - 1) : Boundary(ms, k)}
<1>1. Len(ms) \in Nat /\ target \in Nat /\ target < Len(ms)
  BY LenProperties
<1>2. CASE before # {}
  <2> DEFINE far == {d \in Nat : target - d \in before}
  <2>1. PICK some \in before : TRUE
    BY <1>2
  <2>2. target - some \in far
    <3>1. target - some \in Nat /\ target - (target - some) = some
      BY <1>1
    <3>2. QED
      BY <3>1, <2>1
  <2>3. PICK d \in far : \A e \in far : d <= e
    <3>1. far \subseteq Nat
      OBVIOUS
    <3> HIDE DEF far
    <3>2. QED
      BY <2>2, <3>1, LeastNumber
  <2>4. target - d \in before
    OBVIOUS
  <2>5. \A j \in before : j <= target - d
    <3> SUFFICES ASSUME NEW j \in before PROVE j <= target - d
      OBVIOUS
    <3>1. target - j \in Nat /\ target - (target - j) = j /\ j \in Nat
      BY <1>1
    <3>2. target - j \in far
      BY <3>1
    <3>3. d <= target - j /\ d \in Nat
      BY <2>3, <3>2
    <3>4. QED
      BY <3>1, <3>3, <1>1
  <2>6. \E k \in before : \A j \in before : j <= k
    BY <2>4, <2>5
  <2>7. FindSplitPoint(ms, keep) = CHOOSE k \in before : \A j \in before : j <= k
    BY <1>1, <1>2 DEF FindSplitPoint
  <2> HIDE DEF before
  <2>8. FindSplitPoint(ms, keep) \in before
    BY <2>6, <2>7
  <2>9. QED
    BY <2>8, <1>1 DEF before
<1>3. CASE before = {} /\ after # {}
  <2>1. \E k \in after : \A j \in after : k <= j
    <3>1. after \subseteq Nat
      BY <1>1
    <3> HIDE DEF after
    <3>2. QED
      BY <1>3, <3>1, LeastNumber
  <2>2. FindSplitPoint(ms, keep) = CHOOSE k \in after : \A j \in after : k <= j
    BY <1>1, <1>3 DEF FindSplitPoint
  <2> HIDE DEF after, before
  <2>3. FindSplitPoint(ms, keep) \in after
    BY <2>1, <2>2
  <2>4. QED
    BY <2>3, <1>1 DEF after
<1>4. CASE before = {} /\ after = {}
  <2>1. FindSplitPoint(ms, keep) = 0
    BY <1>4 DEF FindSplitPoint
  <2>2. QED
    BY <2>1
<1>5. QED
  BY <1>2, <1>3, <1>4

\* A compaction makes a good trace of any.
LEMMA CompactedIsGood ==
  ASSUME NEW t \in Trace, NEW keep \in Nat \ {0}, CanCompact(t, keep)
  PROVE  Compacted(t, keep) \in Trace /\ GoodTrace(Compacted(t, keep))
<1> DEFINE k == FindSplitPoint(t.messages, keep)
           after == Compacted(t, keep)
           last == LastCheckpoint(t)
           new == Summarize(t, k)
<1>1. t.messages \in Seq(Message) /\ t.compactions \in Seq(Checkpoint)
  BY DEF Trace
<1>2. k \in 1..(Len(t.messages) - 1) /\ Boundary(t.messages, k)
  BY <1>1, SplitFacts DEF CanCompact
<1>3. last \in Checkpoint
  BY LastTyped
<1>4. after.messages = t.messages /\ after.compactions = Append(t.compactions, new)
      /\ after = [messages |-> t.messages, compactions |-> Append(t.compactions, new)]
  <2>1. t = [messages |-> t.messages, compactions |-> t.compactions]
    BY DEF Trace
  <2>2. after = [t EXCEPT !.compactions = Append(t.compactions, new)]
    BY DEF Compacted
  <2> HIDE DEF after, new
  <2>3. QED
    BY <2>1, <2>2
<1> HIDE DEF k, after, last
<1>5. Len(t.messages) \in Nat
  BY <1>1, LenProperties
<1>6. /\ Ids(SubSeq(t.messages, 1, k)) = {t.messages[j].id : j \in 1..k}
      /\ SpilledIn(SubSeq(t.messages, 1, k)) = {t.messages[j].id : j \in {i \in 1..k : t.messages[i].spilled}}
  BY SMTT(30), <1>1, <1>2, <1>5, PartOfMessages
<1>7. new = [covered |-> k, summary |-> last.summary \union {t.messages[j].id : j \in 1..k},
             outputs |-> last.outputs \union {t.messages[j].id : j \in {i \in 1..k : t.messages[i].spilled}}]
  BY <1>6 DEF Summarize, last
<1> HIDE DEF new
<1>8. \A j \in 1..k : t.messages[j] \in Message
  BY <1>1, <1>2, <1>5, ElementOfSeq
<1>9. new \in Checkpoint
  BY <1>2, <1>3, <1>7, <1>8 DEF Checkpoint, Message
<1>10. /\ Append(t.compactions, new) \in Seq(Checkpoint)
       /\ Append(t.compactions, new) # <<>>
       /\ Append(t.compactions, new)[Len(Append(t.compactions, new))] = new
  BY <1>1, <1>9, AppendProperties, LenProperties
<1>11. LastCheckpoint(after) = new
  BY <1>4, <1>10 DEF LastCheckpoint
<1>12. after \in Trace
  BY <1>1, <1>4, <1>10 DEF Trace
<1>13. GoodTrace(after)
  <2>1. new.covered = k /\ k <= Len(t.messages) /\ k \in Nat
    BY <1>2, <1>5, <1>7
  <2>2. \A j \in 1..k : t.messages[j].id \in new.summary
    BY <1>7
  <2>3. \A j \in 1..k : t.messages[j].spilled => t.messages[j].id \in new.outputs
    BY <1>7
  <2>4. QED
    BY <1>2, <1>4, <1>11, <2>1, <2>2, <2>3 DEF GoodTrace
<1>14. QED
  BY <1>12, <1>13 DEF after

\* What is added behind a boundary does not touch what is covered.
LEMMA AddIsGood ==
  ASSUME NEW t \in Trace, NEW ms \in Seq(Message), ms # <<>> => ms[1].role # "tool"
  PROVE  Add(t, ms) \in Trace /\ (GoodTrace(t) => GoodTrace(Add(t, ms)))
<1>1. t.messages \in Seq(Message) /\ t.compactions \in Seq(Checkpoint)
  BY DEF Trace
<1> DEFINE all == t.messages \o ms
<1>2. /\ Add(t, ms) = [messages |-> all, compactions |-> t.compactions]
      /\ LastCheckpoint(Add(t, ms)) = LastCheckpoint(t)
  <2>1. t = [messages |-> t.messages, compactions |-> t.compactions]
    BY DEF Trace
  <2>2. Add(t, ms) = [t EXCEPT !.messages = all]
    BY DEF Add
  <2> HIDE DEF all
  <2>3. Add(t, ms) = [messages |-> all, compactions |-> t.compactions]
    BY <2>1, <2>2
  <2>4. LastCheckpoint(Add(t, ms)) = LastCheckpoint(t)
    BY <2>3 DEF LastCheckpoint
  <2>5. QED
    BY <2>3, <2>4
<1>3. /\ all \in Seq(Message) /\ Len(all) = Len(t.messages) + Len(ms)
      /\ \A i \in 1..Len(t.messages) : all[i] = t.messages[i]
      /\ Len(ms) > 0 => all[Len(t.messages) + 1] = ms[1]
      /\ Len(ms) \in Nat /\ Len(t.messages) \in Nat
  BY <1>1, ConcatProperties, LenProperties
<1>4. Add(t, ms) \in Trace
  BY <1>1, <1>2, <1>3 DEF Trace
<1>5. LastCheckpoint(t).covered \in Nat
  BY LastTyped DEF Checkpoint
<1>6. Len(ms) > 0 => ms # <<>>
  BY EmptySeq
<1> HIDE DEF all
<1>7. ASSUME GoodTrace(t) PROVE GoodTrace(Add(t, ms))
  <2> DEFINE c == LastCheckpoint(t).covered
  <2>1. c <= Len(t.messages)
    BY <1>7 DEF GoodTrace
  <2>2. c <= Len(all) /\ \A j \in 1..c : all[j] = t.messages[j]
    BY <1>3, <1>5, <2>1
  <2>3. ASSUME c < Len(all) PROVE Boundary(all, c)
    <3>1. CASE c < Len(t.messages)
      <4>3. c + 1 \in 1..Len(t.messages)
        BY <3>1, <1>3, <1>5
      <4>4. Boundary(t.messages, c)
        BY <3>1, <1>7 DEF GoodTrace
      <4>1. Boundary(t.messages, c) /\ all[c + 1] = t.messages[c + 1]
        BY <4>3, <4>4, <1>3
      <4>2. QED
        BY <4>1 DEF Boundary
    <3>2. CASE c = Len(t.messages)
      BY <3>2, <2>3, <1>3, <1>6 DEF Boundary
    <3>3. QED
      BY <2>1, <1>3, <1>5, <3>1, <3>2
  <2>4. \A j \in 1..c :
          /\ t.messages[j].id \in LastCheckpoint(t).summary
          /\ t.messages[j].spilled => t.messages[j].id \in LastCheckpoint(t).outputs
    BY <1>7 DEF GoodTrace
  <2>5. Add(t, ms).messages = all
    BY <1>2
  <2>6. QED
    BY <2>2, <2>3, <2>4, <2>5, <1>2 DEF GoodTrace
<1>8. QED
  BY <1>4, <1>7

-----------------------------------------------------------------------------
\* Of a good trace the model sees the messages behind the last checkpoint.
LEMMA VisibleFacts ==
  ASSUME NEW t \in Trace, GoodTrace(t)
  PROVE  /\ VisibleTail(t) # <<>> => Head(VisibleTail(t)).role # "tool"
         /\ Ids(t.messages) \subseteq LastCheckpoint(t).summary \union Ids(VisibleTail(t))
         /\ SpilledIn(t.messages) \subseteq LastCheckpoint(t).outputs \union Ids(VisibleTail(t))
<1> DEFINE c == LastCheckpoint(t).covered
           n == Len(t.messages)
<1>1. t.messages \in Seq(Message) /\ n \in Nat /\ c \in Nat
  BY LastTyped, LenProperties DEF Trace, Checkpoint
<1>2. c <= n
  BY DEF GoodTrace
<1>3. /\ Len(VisibleTail(t)) = n - c
      /\ c < n => VisibleTail(t) = SubSeq(t.messages, c + 1, n)
  <2>1. CASE c >= n
    BY <2>1, <1>1, <1>2, EmptySeq DEF VisibleTail
  <2>2. CASE c < n
    <3>0. ~(LastCheckpoint(t).covered >= Len(t.messages))
      BY <2>2, <1>1
    <3>1. VisibleTail(t) = SubSeq(t.messages, c + 1, n)
      BY <3>0, Zenon DEF VisibleTail, From
    <3>2. \A j \in (c + 1)..n : t.messages[j] \in Message
      BY <1>1, ElementOfSeq
    <3>3. Len(SubSeq(t.messages, c + 1, n)) = n - c
      BY <1>1, <2>2, <3>2, SubSeqProperties
    <3>4. QED
      BY <3>1, <3>3
  <2>3. QED
    BY <1>1, <2>1, <2>2
<1>4. /\ c < n => Ids(VisibleTail(t)) = {t.messages[j].id : j \in (c + 1)..n}
      /\ c < n => VisibleTail(t) \in Seq(Message)
  <2>1. c + 1 \in Nat \ {0} /\ n \in 0..Len(t.messages)
    BY <1>1
  <2> HIDE DEF c, n
  <2>2. /\ SubSeq(t.messages, c + 1, n) \in Seq(Message)
        /\ Ids(SubSeq(t.messages, c + 1, n)) = {t.messages[j].id : j \in (c + 1)..n}
    BY <1>1, <2>1, PartOfMessages
  <2>3. QED
    BY <1>3, <2>2
<1>5. ASSUME VisibleTail(t) # <<>> PROVE Head(VisibleTail(t)).role # "tool"
  <2>1. c < n
    <3>1. CASE c >= n
      BY <3>1, <1>5 DEF VisibleTail
    <3>2. QED
      BY <3>1, <1>1
  <2>2. VisibleTail(t) \in Seq(Message)
    BY <1>4, <2>1
  <2>3. Head(VisibleTail(t)) = VisibleTail(t)[1]
    BY <2>2, <1>5, HeadTailProperties
  <2>4. VisibleTail(t)[1] = t.messages[c + 1]
    <3>1. \A j \in (c + 1)..n : t.messages[j] \in Message
      BY <1>1, ElementOfSeq
    <3> HIDE DEF c, n
    <3>2. SubSeq(t.messages, c + 1, n)[1] = t.messages[c + 1 + 1 - 1]
      BY <1>1, <2>1, <3>1, SubSeqProperties
    <3>3. c + 1 + 1 - 1 = c + 1
      BY <1>1
    <3>4. QED
      BY <3>2, <3>3, <1>3, <2>1
  <2>5. Boundary(t.messages, c)
    BY <2>1 DEF GoodTrace
  <2>6. QED
    BY <2>3, <2>4, <2>5 DEF Boundary
<1>6. ASSUME NEW j \in 1..n
      PROVE  /\ t.messages[j].id \in LastCheckpoint(t).summary \union Ids(VisibleTail(t))
             /\ t.messages[j].spilled => t.messages[j].id \in LastCheckpoint(t).outputs \union Ids(VisibleTail(t))
  <2>1. CASE j <= c
    <3>1. j \in 1..c
      BY <1>1, <2>1
    <3>2. QED
      BY <3>1 DEF GoodTrace
  <2>2. CASE j > c
    <3>1. j \in (c + 1)..n /\ c < n
      BY <1>1, <2>2
    <3>2. QED
      BY <3>1, <1>4
  <2>3. QED
    BY <1>1, <2>1, <2>2
<1> HIDE DEF c
<1>7. Ids(t.messages) \subseteq LastCheckpoint(t).summary \union Ids(VisibleTail(t))
  BY <1>6 DEF Ids
<1>8. SpilledIn(t.messages) \subseteq LastCheckpoint(t).outputs \union Ids(VisibleTail(t))
  BY <1>6 DEF SpilledIn
<1>9. QED
  BY <1>5, <1>7, <1>8

\* What the invariant is for.
LEMMA CompactionTells == CompactionInv => TailIsWellFormed /\ SeenOrSummarized
<1> SUFFICES ASSUME CompactionInv, phase = "model", deletes = 0
             PROVE  /\ VisibleTail(work) # <<>> => Head(VisibleTail(work)).role # "tool"
                    /\ Ids(work.messages) \subseteq LastCheckpoint(work).summary \union Ids(VisibleTail(work))
                    /\ SpilledIn(work.messages) \subseteq LastCheckpoint(work).outputs \union Ids(VisibleTail(work))
  BY DEF TailIsWellFormed, SeenOrSummarized
<1>1. work \in Trace /\ GoodTrace(work)
  BY DEF CompactionInv, CompactionTypeOK
<1>2. QED
  BY <1>1, VisibleFacts

LEMMA EmptyIsGood ==
  LET empty == [messages |-> <<>>, compactions |-> <<>>]
  IN  empty \in Trace /\ GoodTrace(empty)
<1> DEFINE empty == [messages |-> <<>>, compactions |-> <<>>]
<1>1. empty \in Trace
  BY EmptySeq DEF Trace
<1>2. LastCheckpoint(empty) = NoCheckpoint
  BY DEF LastCheckpoint
<1>3. Len(empty.messages) = 0
  BY EmptySeq
<1>4. GoodTrace(empty)
  BY <1>2, <1>3 DEF GoodTrace, NoCheckpoint
<1>5. QED
  BY <1>1, <1>4

LEMMA CompactionStart == CompactionInit => CompactionInv
<1> SUFFICES ASSUME CompactionInit PROVE CompactionInv
  OBVIOUS
<1>1. stored \in Trace /\ GoodTrace(stored) /\ work = stored
  BY EmptyIsGood DEF CompactionInit
<1>2. CompactionTypeOK
  <2>1. turnRows = <<>> /\ phase = "idle" /\ retried = FALSE /\ nudges = 0 /\ created = 0 /\ deletes = 0
    BY DEF CompactionInit
  <2>2. turnRows \in Seq(1..MaxMessages)
    BY <2>1, EmptySeq
  <2>3. nudges \in 0..MaxNudges /\ created \in 0..MaxMessages /\ deletes \in 0..MaxDeletes
    BY <2>1, CompactionAssumption
  <2>4. work \in Trace
    BY <1>1
  <2>5. QED
    BY <1>1, <2>1, <2>2, <2>3, <2>4 DEF CompactionTypeOK
<1>3. QED
  BY <1>1, <1>2 DEF CompactionInv

\* The messages before a user message are messages.
LEMMA FirstTurnsTyped ==
  ASSUME NEW ms \in Seq(Message), NEW n
  PROVE  FirstTurns(ms, n) \in Seq(Message)
<1> DEFINE nth == {k \in UserMessages(ms) : Cardinality({j \in UserMessages(ms) : j < k}) = n}
           first == CHOOSE k \in nth : TRUE
<1>1. CASE nth = {}
  BY <1>1 DEF FirstTurns
<1>2. CASE nth # {}
  <2>1. FirstTurns(ms, n) = SubSeq(ms, 1, first - 1)
    BY <1>2 DEF FirstTurns
  <2>2. first \in nth
    BY <1>2
  <2>3. nth \subseteq 1..Len(ms)
    BY DEF UserMessages
  <2> HIDE DEF nth, first
  <2>4. Len(ms) \in Nat
    BY LenProperties
  <2>5. first - 1 \in 0..Len(ms)
    BY <2>2, <2>3, <2>4
  <2>6. QED
    BY <2>1, <2>5, PartOfMessages
<1>3. QED
  BY <1>1, <1>2

LEMMA NewTyped ==
  ASSUME NEW k \in Nat \ {0}, created \in Nat, created + k <= MaxMessages, NEW role \in Roles, NEW spilled \in BOOLEAN
  PROVE  NewMessage(k, role, spilled) \in Message
<1>1. created + k \in 1..MaxMessages
  BY CompactionAssumption
<1>2. QED
  BY <1>1 DEF NewMessage, Message

LEMMA StartRunKeeps == CompactionInv /\ StartRun => CompactionInv'
<1> SUFFICES ASSUME CompactionInv, StartRun PROVE CompactionInv'
  OBVIOUS
<1> DEFINE ms == <<NewMessage(1, "user", FALSE)>>
<1>1. NewMessage(1, "user", FALSE) \in Message /\ created \in Nat /\ created + 1 \in 1..MaxMessages
  <2>1. created \in 0..MaxMessages /\ created < MaxMessages
    BY DEF CompactionInv, CompactionTypeOK, StartRun
  <2>2. created \in Nat /\ created + 1 \in 1..MaxMessages
    BY <2>1, CompactionAssumption
  <2>3. QED
    BY <2>2 DEF NewMessage, Message, Roles
<1>2. ms \in Seq(Message) /\ ms[1].role # "tool"
  BY <1>1 DEF NewMessage
<1>3. stored \in Trace /\ turnRows \in Seq(1..MaxMessages)
  BY DEF CompactionInv, CompactionTypeOK
<1>4. Add(stored, ms) \in Trace /\ (GoodTrace(stored) => GoodTrace(Add(stored, ms)))
  BY <1>2, <1>3, AddIsGood
<1>5. stored' = Add(stored, ms) /\ work' = Add(stored, ms)
  BY DEF StartRun
<1>6. turnRows' \in Seq(1..MaxMessages)
  BY <1>1, <1>3, AppendProperties DEF StartRun
<1> HIDE DEF ms
<1>7. CompactionTypeOK'
  <2>1. work' \in Trace /\ stored' \in Trace
    BY <1>4, <1>5
  <2>2. phase' = "step" /\ retried' = FALSE /\ nudges' = 0 /\ created' = created + 1 /\ deletes' = deletes
    BY DEF StartRun
  <2>3. created' \in 0..MaxMessages /\ nudges' \in 0..MaxNudges
    BY <1>1, <2>2, CompactionAssumption
  <2>4. QED
    BY <1>6, <2>1, <2>2, <2>3 DEF CompactionInv, CompactionTypeOK
<1>8. deletes' = deletes
  BY DEF StartRun
<1>9. (deletes = 0 => GoodTrace(stored) /\ GoodTrace(work))'
  BY <1>4, <1>5, <1>8 DEF CompactionInv
<1>10. QED
  BY <1>7, <1>9 DEF CompactionInv

\* A compaction of the execution's copy.
LEMMA CompactionOfWork ==
  ASSUME CompactionInv, NEW keep \in Nat \ {0}, CanCompact(work, keep), work' = Compacted(work, keep)
  PROVE  work' \in Trace /\ GoodTrace(work')
<1>1. work \in Trace
  BY DEF CompactionInv, CompactionTypeOK
<1>2. Compacted(work, keep) \in Trace /\ GoodTrace(Compacted(work, keep))
  BY <1>1, CompactedIsGood
<1>3. QED
  BY <1>2

LEMMA PrepareStepKeeps == CompactionInv /\ PrepareStep => CompactionInv'
<1> SUFFICES ASSUME CompactionInv, PrepareStep PROVE CompactionInv'
  OBVIOUS
<1>1. KeepRecent \in Nat \ {0}
  BY CompactionAssumption
<1>2. work' = work \/ (work' \in Trace /\ GoodTrace(work'))
  BY <1>1, CompactionOfWork DEF PrepareStep
<1>3. work' \in Trace /\ (GoodTrace(work) => GoodTrace(work'))
  BY <1>2 DEF CompactionInv, CompactionTypeOK
<1>4. stored' = stored /\ deletes' = deletes
  BY DEF PrepareStep
<1>5. CompactionTypeOK'
  BY <1>3 DEF CompactionInv, CompactionTypeOK, PrepareStep
<1>6. QED
  BY <1>3, <1>4, <1>5 DEF CompactionInv

LEMMA OverflowKeeps == CompactionInv /\ Overflow => CompactionInv'
<1> SUFFICES ASSUME CompactionInv, Overflow PROVE CompactionInv'
  OBVIOUS
<1>1. AggressiveKeepRecent \in Nat \ {0}
  BY CompactionAssumption
<1>2. work' \in Trace /\ GoodTrace(work')
  BY <1>1, CompactionOfWork DEF Overflow
<1>3. stored' = stored /\ deletes' = deletes
  BY DEF Overflow
<1>4. CompactionTypeOK'
  BY <1>2 DEF CompactionInv, CompactionTypeOK, Overflow
<1>5. QED
  BY <1>2, <1>3, <1>4 DEF CompactionInv

\* The execution adds messages and stores the trace.
LEMMA SaidKeeps ==
  ASSUME CompactionInv, NEW ms \in Seq(Message), ms # <<>> => ms[1].role # "tool",
         work' = Add(work, ms), stored' = work', deletes' = deletes
  PROVE  /\ stored' \in Trace /\ work' \in Trace
         /\ (deletes = 0 => GoodTrace(stored) /\ GoodTrace(work))'
<1>1. work \in Trace
  BY DEF CompactionInv, CompactionTypeOK
<1>2. Add(work, ms) \in Trace /\ (GoodTrace(work) => GoodTrace(Add(work, ms)))
  BY <1>1, AddIsGood
<1>3. QED
  BY <1>2 DEF CompactionInv

LEMMA CallToolsKeeps ==
  ASSUME CompactionInv, NEW n \in 1..2, NEW spilled \in BOOLEAN, CallTools(n, spilled)
  PROVE  CompactionInv'
<1> DEFINE first == <<NewMessage(1, "assistant", FALSE)>>
           results == [k \in 1..n |-> NewMessage(k + 1, "tool", spilled)]
<1>1. created \in Nat /\ created + n < MaxMessages
  BY DEF CompactionInv, CompactionTypeOK, CallTools
<1>2. NewMessage(1, "assistant", FALSE) \in Message
  <2>1. created + 1 \in 1..MaxMessages
    BY <1>1, CompactionAssumption
  <2>2. QED
    BY <2>1 DEF NewMessage, Message, Roles
<1>3. \A k \in 1..n : NewMessage(k + 1, "tool", spilled) \in Message
  BY <1>1, NewTyped, CompactionAssumption DEF Roles
<1>4. results \in Seq(Message)
  BY <1>3
<1>5. first \in Seq(Message) /\ Len(first) = 1 /\ first[1].role # "tool"
  BY <1>2 DEF NewMessage
<1> HIDE DEF first, results
<1>6. first \o results \in Seq(Message) /\ (first \o results)[1] = first[1]
  <2>1. 1 \in 1..Len(first)
    BY <1>5
  <2>2. first \o results \in Seq(Message)
    BY <1>4, <1>5, ConcatProperties
  <2>3. \A i \in 1..Len(first) : (first \o results)[i] = first[i]
    <3>1. \A i \in 1..(Len(first) + Len(results)) :
            (first \o results)[i] = IF i <= Len(first) THEN first[i] ELSE results[i - Len(first)]
      BY <1>4, <1>5, ConcatProperties
    <3>2. Len(first) \in Nat /\ Len(results) \in Nat
      BY <1>4, <1>5, LenProperties
    <3>3. QED
      BY <3>1, <3>2
  <2>4. QED
    BY <2>1, <2>2, <2>3
<1>7. work' = Add(work, first \o results) /\ stored' = work' /\ deletes' = deletes
  BY DEF CallTools, first, results
<1>8. /\ stored' \in Trace /\ work' \in Trace
      /\ (deletes = 0 => GoodTrace(stored) /\ GoodTrace(work))'
  BY <1>5, <1>6, <1>7, SaidKeeps
<1>9. created' \in 0..MaxMessages
  BY <1>1, CompactionAssumption DEF CallTools
<1>10. CompactionTypeOK'
  BY <1>8, <1>9 DEF CompactionInv, CompactionTypeOK, CallTools
<1>11. QED
  BY <1>8, <1>10 DEF CompactionInv

LEMMA NudgeKeeps == CompactionInv /\ Nudge => CompactionInv'
<1> SUFFICES ASSUME CompactionInv, Nudge PROVE CompactionInv'
  OBVIOUS
<1> DEFINE ms == <<NewMessage(1, "assistant", FALSE), NewMessage(2, "user", FALSE)>>
<1>1. created \in Nat /\ created + 1 < MaxMessages
  BY DEF CompactionInv, CompactionTypeOK, Nudge
<1>2. NewMessage(1, "assistant", FALSE) \in Message /\ NewMessage(2, "user", FALSE) \in Message
  <2>1. created + 1 <= MaxMessages /\ created + 2 <= MaxMessages
    BY <1>1, CompactionAssumption
  <2>2. created + 1 \in 1..MaxMessages /\ created + 2 \in 1..MaxMessages
    BY <1>1, <2>1, CompactionAssumption
  <2>3. QED
    BY <2>2 DEF NewMessage, Message, Roles
<1>3. ms \in Seq(Message) /\ ms[1].role # "tool"
  BY <1>2 DEF NewMessage
<1>4. work' = Add(work, ms) /\ stored' = work' /\ deletes' = deletes
  BY DEF Nudge
<1> HIDE DEF ms
<1>5. /\ stored' \in Trace /\ work' \in Trace
      /\ (deletes = 0 => GoodTrace(stored) /\ GoodTrace(work))'
  BY <1>3, <1>4, SaidKeeps
<1>6. created' \in 0..MaxMessages /\ nudges' \in 0..MaxNudges
  BY <1>1, CompactionAssumption DEF Nudge, CompactionInv, CompactionTypeOK
<1>7. CompactionTypeOK'
  BY <1>5, <1>6 DEF CompactionInv, CompactionTypeOK, Nudge
<1>8. QED
  BY <1>5, <1>7 DEF CompactionInv

LEMMA EndRunKeeps == CompactionInv /\ EndRun => CompactionInv'
<1> SUFFICES ASSUME CompactionInv, EndRun PROVE CompactionInv'
  OBVIOUS
<1> DEFINE ms == <<NewMessage(1, "assistant", FALSE)>>
<1>1. created \in 0..MaxMessages /\ work \in Trace
  BY DEF CompactionInv, CompactionTypeOK
<1>2. stored' = work' /\ deletes' = deletes
  BY DEF EndRun
<1>3. CASE created < MaxMessages /\ work' = Add(work, ms) /\ created' = created + 1
  <2>1. NewMessage(1, "assistant", FALSE) \in Message
    <3>1. created + 1 \in 1..MaxMessages
      BY <1>1, <1>3, CompactionAssumption
    <3>2. QED
      BY <3>1 DEF NewMessage, Message, Roles
  <2>2. ms \in Seq(Message) /\ ms[1].role # "tool"
    BY <2>1 DEF NewMessage
  <2> HIDE DEF ms
  <2>3. /\ stored' \in Trace /\ work' \in Trace
        /\ (deletes = 0 => GoodTrace(stored) /\ GoodTrace(work))'
    BY <2>2, <1>2, <1>3, SaidKeeps
  <2>4. created' \in 0..MaxMessages
    BY <1>1, <1>3, CompactionAssumption
  <2>5. CompactionTypeOK'
    BY <2>3, <2>4 DEF CompactionInv, CompactionTypeOK, EndRun
  <2>6. QED
    BY <2>3, <2>5 DEF CompactionInv
<1>4. CASE work' = work /\ created' = created
  <2>1. CompactionTypeOK'
    BY <1>1, <1>2, <1>4 DEF CompactionInv, CompactionTypeOK, EndRun
  <2>2. QED
    BY <2>1, <1>2, <1>4 DEF CompactionInv
<1>5. QED
  BY <1>3, <1>4 DEF EndRun

\* Whoever deletes messages takes the run out of the promise.
LEMMA DeleteKeeps ==
  ASSUME CompactionInv, NEW n \in 0..MaxTurns, DeleteMessagesFromUserIndex(n)
  PROVE  CompactionInv'
<1>1. /\ stored \in Trace /\ turnRows \in Seq(1..MaxMessages) /\ deletes \in 0..MaxDeletes
      /\ n \in Nat
  BY CompactionAssumption DEF CompactionInv, CompactionTypeOK
<1>2. stored.messages \in Seq(Message) /\ stored.compactions \in Seq(Checkpoint)
  BY <1>1 DEF Trace
<1> DEFINE cut == FirstTurns(stored.messages, n)
<1>3. cut \in Seq(Message)
  BY <1>2, FirstTurnsTyped
<1>4. stored' = [stored EXCEPT !.messages = cut]
  BY DEF DeleteMessagesFromUserIndex
<1> HIDE DEF cut
<1>5. stored' \in Trace
  BY <1>1, <1>3, <1>4 DEF Trace
<1>6. turnRows' \in Seq(1..MaxMessages)
  <2>1. CASE n < Len(turnRows)
    <3>1. \A j \in 1..n : turnRows[j] \in 1..MaxMessages
      <4> SUFFICES ASSUME NEW j \in 1..n PROVE turnRows[j] \in 1..MaxMessages
        OBVIOUS
      <4>1. Len(turnRows) \in Nat /\ j \in 1..Len(turnRows)
        BY <1>1, <2>1, LenProperties
      <4>2. QED
        BY <1>1, <4>1, ElementOfSeq
    <3>2. SubSeq(turnRows, 1, n) \in Seq(1..MaxMessages)
      BY <1>1, <3>1, SubSeqProperties
    <3>3. QED
      BY <2>1, <3>2 DEF DeleteMessagesFromUserIndex
  <2>2. CASE ~(n < Len(turnRows))
    BY <1>1, <2>2 DEF DeleteMessagesFromUserIndex
  <2>3. QED
    BY <2>1, <2>2
<1>7. deletes' \in 0..MaxDeletes /\ deletes' # 0
  BY <1>1, CompactionAssumption DEF DeleteMessagesFromUserIndex
<1>8. CompactionTypeOK'
  BY <1>5, <1>6, <1>7 DEF CompactionInv, CompactionTypeOK, DeleteMessagesFromUserIndex
<1>9. QED
  BY <1>7, <1>8 DEF CompactionInv

LEMMA CompactionStep == CompactionInv /\ [CompactionNext]_compactionVars => CompactionInv'
<1> SUFFICES ASSUME CompactionInv, [CompactionNext]_compactionVars PROVE CompactionInv'
  OBVIOUS
<1>1. CASE UNCHANGED compactionVars
  BY <1>1 DEF compactionVars, CompactionInv, CompactionTypeOK
<1>2. CASE CompactionNext
  BY <1>2, StartRunKeeps, PrepareStepKeeps, OverflowKeeps, NudgeKeeps, EndRunKeeps, CallToolsKeeps,
     DeleteKeeps DEF CompactionNext
<1>3. QED
  BY <1>1, <1>2

-----------------------------------------------------------------------------
(* GitRepos: the repositories and the clones.                              *)

GitSteps == {"idle", "create", "delete", "inspect", "answer", "wipe", "cloned", "push", "hosts", "run"}
OnRepo == {"create", "delete", "inspect", "answer", "wipe", "cloned", "push"}
OnBranch == {"inspect", "answer", "push"}

BranchSet == [BranchNames -> Seq(Nat)]
HostedRepo == [dir : {"absent", "partial", "whole"}, branches : BranchSet]
Copy == [state : {"absent", "files", "repo"}, of : Repos \union {""}, branches : BranchSet, files : BOOLEAN]
GitJob == [at : GitSteps, repo : Repos \union {""}, clone : Clones \union {""},
           branch : BranchNames \union {""}, seen : Seq(Nat), steady : BOOLEAN]

\* What a call knows is so, unless it was disturbed.
JobRight(j, on, hosts) ==
  /\ j.at \in OnRepo => j.repo \in Repos
  /\ j.at \in OnBranch => j.branch \in BranchNames
  /\ j.at = "wipe" => j.clone \in Clones
  /\ j.at = "inspect" /\ j.steady =>
       on[j.repo].branches[j.branch] # <<>> \/ Existing(on[j.repo].branches) = {}
  /\ j.at = "answer" /\ j.seen = <<>> /\ j.steady => Existing(on[j.repo].branches) = {}
  /\ j.at = "run" /\ j.steady => hosts = "whole"

\* The types of the git server and its tools.
GitTyped ==
  /\ hosted \in [Repos -> HostedRepo]
  /\ copies \in [Clones -> Copy]
  /\ \A w \in Clones : copies[w].state = "repo" => copies[w].of \in Repos
  /\ job \in [Callers -> GitJob]
  /\ knownHosts \in {"absent", "empty", "whole"}
  /\ accepted \in [Repos -> [BranchNames -> SUBSET Nat]]
  /\ commits \in 0..MaxCommits /\ gitCalls \in 0..MaxGitCalls /\ gitCrashes \in 0..MaxGitCrashes

GitInv ==
  /\ GitTyped
  /\ \A c \in Callers : JobRight(job[c], hosted, knownHosts)
  /\ AcceptedCommitsStay

-----------------------------------------------------------------------------
\* A branch that is resolved is there if any is.
LEMMA ResolvedIsThere ==
  ASSUME NEW branches \in BranchSet
  PROVE  LET b == ResolveRepoBranchName(branches)
         IN  b \in BranchNames /\ (branches[b] # <<>> \/ Existing(branches) = {})
<1> DEFINE there == Existing(branches)
           places == {i \in DOMAIN Branches : Branches[i] \in there}
           b == ResolveRepoBranchName(branches)
<1>1. there \subseteq BranchNames /\ \A x \in there : branches[x] # <<>>
  BY DEF Existing
<1>2. InitialHead \in BranchNames
  BY GitAssumption DEF BranchNames
<1>3. CASE InitialHead \in there \/ there = {}
  <2>1. b = InitialHead
    BY <1>3 DEF ResolveRepoBranchName
  <2>2. QED
    BY <2>1, <1>1, <1>2, <1>3
<1>4. CASE ~(InitialHead \in there \/ there = {})
  <2>1. places # {} /\ places \subseteq Nat
    <3>1. PICK x \in there : TRUE
      BY <1>4
    <3>2. PICK i \in DOMAIN Branches : Branches[i] = x
      BY <1>1, <3>1 DEF BranchNames, Range
    <3>3. DOMAIN Branches \subseteq Nat
      BY GitAssumption, LenProperties
    <3>4. QED
      BY <3>1, <3>2, <3>3
  <2>2. (CHOOSE i \in places : \A j \in places : i <= j) \in places
    <3> HIDE DEF places
    <3>1. \E i \in places : \A j \in places : i <= j
      BY <2>1, LeastNumber
    <3>2. QED
      BY <3>1
  <2>3. Branches[CHOOSE i \in places : \A j \in places : i <= j] \in there
    BY <2>2
  <2>4. (CHOOSE x \in there : TRUE) \in there
    BY <1>4
  <2>5. b \in there
    BY <1>4, <2>3, <2>4, Zenon DEF ResolveRepoBranchName
  <2>6. QED
    BY <2>5, <1>1
<1>5. QED
  BY <1>3, <1>4

\* A sequence has what each of its beginnings has.
LEMMA PrefixRange ==
  ASSUME NEW s \in Seq(Nat), NEW t \in Seq(Nat), IsPrefix(s, t)
  PROVE  Range(s) \subseteq Range(t)
<1>1. Len(s) \in Nat /\ Len(t) \in Nat /\ Len(s) <= Len(t) /\ DOMAIN s = 1..Len(s) /\ DOMAIN t = 1..Len(t)
  BY LenProperties DEF IsPrefix
<1>2. SubSeq(s, 1, Len(s)) = SubSeq(t, 1, Len(s))
  BY DEF IsPrefix
<1>3. ASSUME NEW i \in 1..Len(s) PROVE s[i] = t[i]
  <2>1. \A k \in 1..Len(s) : s[k] \in Nat /\ t[k] \in Nat
    BY <1>1, ElementOfSeq
  <2>2. \A k \in 1..(Len(s) - 1 + 1) : SubSeq(s, 1, Len(s))[k] = s[1 + k - 1]
    BY <1>1, <2>1, SubSeqProperties
  <2>3. \A k \in 1..(Len(s) - 1 + 1) : SubSeq(t, 1, Len(s))[k] = t[1 + k - 1]
    BY <1>1, <2>1, SubSeqProperties
  <2>4. i \in 1..(Len(s) - 1 + 1) /\ 1 + i - 1 = i
    BY <1>1
  <2>5. QED
    BY <1>2, <2>2, <2>3, <2>4
<1>4. QED
  BY <1>1, <1>3 DEF Range

\* The record of a call.
LEMMA JobShape ==
  ASSUME NEW j \in GitJob
  PROVE  j = [at |-> j.at, repo |-> j.repo, clone |-> j.clone, branch |-> j.branch,
              seen |-> j.seen, steady |-> j.steady]
BY DEF GitJob

\* No call, and one that was disturbed, know nothing.
LEMMA NothingKnown ==
  ASSUME NEW on, NEW hosts
  PROVE  NoJob \in GitJob /\ JobRight(NoJob, on, hosts)
<1>1. NoJob \in GitJob
  BY EmptySeq DEF NoJob, GitJob, GitSteps
<1>2. NoJob.at = "idle"
  BY DEF NoJob
<1>3. QED
  BY <1>1, <1>2 DEF JobRight, OnRepo, OnBranch

LEMMA DisturbedIsRight ==
  ASSUME NEW j \in GitJob, NEW on, NEW hosts, NEW later, NEW since, JobRight(j, on, hosts)
  PROVE  /\ [j EXCEPT !.steady = FALSE] \in GitJob
         /\ JobRight([j EXCEPT !.steady = FALSE], later, since)
<1> DEFINE d == [j EXCEPT !.steady = FALSE]
<1>1. /\ d \in GitJob
      /\ d.at = j.at /\ d.repo = j.repo /\ d.clone = j.clone /\ d.branch = j.branch
      /\ d.seen = j.seen /\ d.steady = FALSE
  BY DEF GitJob
<1> HIDE DEF d
<1>2. JobRight(d, later, since)
  BY <1>1 DEF JobRight
<1>3. QED
  BY <1>1, <1>2 DEF d

\* A call whose repository and known_hosts are as they were.
LEMMA SameIsRight ==
  ASSUME NEW j \in GitJob, NEW on, NEW hosts, NEW later, NEW since, JobRight(j, on, hosts),
         j.repo \in Repos => later[j.repo].branches = on[j.repo].branches,
         j.at = "run" /\ j.steady /\ hosts = "whole" => since = "whole"
  PROVE  JobRight(j, later, since)
BY DEF JobRight, OnRepo, OnBranch

\* The other calls, after a step of one call that changes one repository or none.
LEMMA DisturbedTyped ==
  ASSUME GitTyped, NEW r
  PROVE  /\ Disturbed(job, r) \in [Callers -> GitJob]
         /\ \A k \in Callers :
              Disturbed(job, r)[k] = IF job[k] # NoJob /\ job[k].repo = r
                                     THEN [job[k] EXCEPT !.steady = FALSE] ELSE job[k]
<1>1. \A k \in Callers : [job[k] EXCEPT !.steady = FALSE] \in GitJob
  BY DEF GitTyped, GitJob
<1>2. QED
  BY <1>1 DEF Disturbed, GitTyped

\* A step that leaves the branches and known_hosts alone, and changes one call.
LEMMA OneJobMoves ==
  ASSUME GitInv, NEW c \in Callers, NEW j \in GitJob, job' = [job EXCEPT ![c] = j],
         \A r \in Repos : hosted'[r].branches = hosted[r].branches,
         knownHosts = "whole" => knownHosts' = "whole",
         JobRight(j, hosted', knownHosts')
  PROVE  /\ job' \in [Callers -> GitJob]
         /\ \A k \in Callers : JobRight(job'[k], hosted', knownHosts')
<1>1. job \in [Callers -> GitJob]
  BY DEF GitInv, GitTyped
<1>2. job' \in [Callers -> GitJob]
  BY <1>1
<1>3. ASSUME NEW k \in Callers PROVE JobRight(job'[k], hosted', knownHosts')
  <2>1. CASE k = c
    BY <2>1, <1>1
  <2>2. CASE k # c
    <3>1. job'[k] = job[k] /\ job[k] \in GitJob /\ JobRight(job[k], hosted, knownHosts)
      BY <2>2, <1>1 DEF GitInv
    <3>2. job[k].repo \in Repos => hosted'[job[k].repo].branches = hosted[job[k].repo].branches
      OBVIOUS
    <3>3. JobRight(job[k], hosted', knownHosts')
      BY <3>1, <3>2, SameIsRight
    <3>4. QED
      BY <3>1, <3>3
  <2>3. QED
    BY <2>1, <2>2
<1>4. QED
  BY <1>2, <1>3

\* The counts stay within their bounds.
LEMMA CountsTyped ==
  ASSUME GitTyped
  PROVE  /\ gitCalls < MaxGitCalls => gitCalls + 1 \in 0..MaxGitCalls
         /\ commits < MaxCommits => commits + 1 \in 0..MaxCommits /\ commits + 1 \in Nat
         /\ gitCrashes < MaxGitCrashes => gitCrashes + 1 \in 0..MaxGitCrashes
BY GitAssumption DEF GitTyped

\* What a step leaves alone that only begins, moves or ends a call.
LEMMA OnlyJobs ==
  ASSUME GitInv, NEW c \in Callers, NEW j \in GitJob, job' = [job EXCEPT ![c] = j],
         UNCHANGED <<hosted, copies, accepted, commits>>,
         knownHosts' \in {"absent", "empty", "whole"},
         knownHosts = "whole" => knownHosts' = "whole",
         gitCalls' \in 0..MaxGitCalls, gitCrashes' \in 0..MaxGitCrashes,
         JobRight(j, hosted, knownHosts')
  PROVE  GitInv'
<1>1. hosted' = hosted /\ copies' = copies /\ accepted' = accepted /\ commits' = commits
  OBVIOUS
<1>2. JobRight(j, hosted', knownHosts')
  BY <1>1
<1>3. /\ job' \in [Callers -> GitJob]
      /\ \A k \in Callers : JobRight(job'[k], hosted', knownHosts')
  BY <1>1, <1>2, OneJobMoves
<1>4. GitTyped'
  BY <1>1, <1>3 DEF GitInv, GitTyped
<1>5. AcceptedCommitsStay'
  BY <1>1 DEF GitInv, AcceptedCommitsStay
<1>6. QED
  BY <1>3, <1>4, <1>5 DEF GitInv

\* The end of a call.
LEMMA EndsKeep ==
  ASSUME GitInv, NEW c \in Callers, JobEnds(c),
         UNCHANGED <<hosted, copies, knownHosts, accepted, commits, gitCalls>>,
         gitCrashes' \in 0..MaxGitCrashes
  PROVE  GitInv'
<1>1. NoJob \in GitJob /\ JobRight(NoJob, hosted, knownHosts')
  BY NothingKnown
<1>2. job' = [job EXCEPT ![c] = NoJob]
  BY DEF JobEnds
<1>3. knownHosts' = knownHosts /\ gitCalls' = gitCalls
  OBVIOUS
<1>4. knownHosts' \in {"absent", "empty", "whole"} /\ gitCalls' \in 0..MaxGitCalls
  BY <1>3 DEF GitInv, GitTyped
<1>5. QED
  BY <1>1, <1>2, <1>3, <1>4, OnlyJobs

LEMMA EndingsKeep ==
  ASSUME GitInv, NEW c \in Callers,
         Answer(c) \/ CheckoutEnds(c) \/ PushFails(c) \/ RunGit(c) \/ GitCrash(c)
  PROVE  GitInv'
<1>1. JobEnds(c) /\ UNCHANGED <<hosted, copies, knownHosts, accepted, commits, gitCalls>>
  BY DEF Answer, CheckoutEnds, PushFails, RunGit, GitCrash
<1>2. gitCrashes' \in 0..MaxGitCrashes
  <2>1. CASE GitCrash(c)
    BY <2>1, CountsTyped DEF GitCrash, GitInv
  <2>2. CASE ~GitCrash(c)
    BY <2>2 DEF Answer, CheckoutEnds, PushFails, RunGit, GitInv, GitTyped
  <2>3. QED
    BY <2>1, <2>2
<1>3. QED
  BY <1>1, <1>2, EndsKeep

LEMMA BeginInspectKeeps ==
  ASSUME GitInv, NEW c \in Callers, NEW r \in Repos, BeginInspect(c, r)
  PROVE  GitInv'
<1> DEFINE b == ResolveRepoBranchName(hosted[r].branches)
           j == [NoJob EXCEPT !.at = "inspect", !.repo = r, !.branch = b]
<1>1. hosted[r].branches \in BranchSet
  BY DEF GitInv, GitTyped, HostedRepo
<1>2. b \in BranchNames /\ (hosted[r].branches[b] # <<>> \/ Existing(hosted[r].branches) = {})
  BY <1>1, ResolvedIsThere
<1>3. job' = [job EXCEPT ![c] = j]
  BY DEF BeginInspect, JobBegins
<1> HIDE DEF b
<1>4. /\ j \in GitJob /\ j.at = "inspect" /\ j.repo = r /\ j.branch = b
  BY <1>2, NothingKnown DEF NoJob, GitJob, GitSteps
<1> HIDE DEF j
<1>5. JobRight(j, hosted, knownHosts')
  BY <1>2, <1>4 DEF JobRight
<1>6. /\ UNCHANGED <<hosted, copies, accepted, commits>> /\ knownHosts' = knownHosts
      /\ gitCrashes' = gitCrashes /\ gitCalls < MaxGitCalls /\ gitCalls' = gitCalls + 1
  BY DEF BeginInspect, JobBegins
<1>7. gitCalls' \in 0..MaxGitCalls /\ gitCrashes' \in 0..MaxGitCrashes /\ knownHosts' \in {"absent", "empty", "whole"}
  BY <1>6, CountsTyped DEF GitInv, GitTyped
<1>8. QED
  BY <1>3, <1>4, <1>5, <1>6, <1>7, OnlyJobs

LEMMA ReadCommitKeeps ==
  ASSUME GitInv, NEW c \in Callers, ReadCommit(c)
  PROVE  GitInv'
<1> DEFINE commit == hosted[job[c].repo].branches[job[c].branch]
           j == [job[c] EXCEPT !.at = "answer", !.seen = commit]
<1>1. job[c] \in GitJob /\ job[c].at = "inspect" /\ JobRight(job[c], hosted, knownHosts)
  BY DEF GitInv, GitTyped, ReadCommit
<1>2. job[c].repo \in Repos /\ job[c].branch \in BranchNames
  BY <1>1 DEF JobRight, OnRepo, OnBranch
<1>3. commit \in Seq(Nat)
  BY <1>2 DEF GitInv, GitTyped, HostedRepo, BranchSet
<1>4. job' = [job EXCEPT ![c] = j]
  BY DEF ReadCommit
<1>5. job[c].steady => commit # <<>> \/ Existing(hosted[job[c].repo].branches) = {}
  BY <1>1 DEF JobRight
<1> HIDE DEF commit
<1>6. /\ j \in GitJob /\ j.at = "answer" /\ j.repo = job[c].repo /\ j.branch = job[c].branch
      /\ j.seen = commit /\ j.steady = job[c].steady
  BY <1>1, <1>3 DEF GitJob, GitSteps
<1> HIDE DEF j
<1>7. JobRight(j, hosted, knownHosts')
  BY <1>2, <1>5, <1>6 DEF JobRight
<1>8. /\ UNCHANGED <<hosted, copies, accepted, commits>> /\ knownHosts' = knownHosts
      /\ gitCrashes' = gitCrashes /\ gitCalls' = gitCalls
  BY DEF ReadCommit
<1>9. gitCalls' \in 0..MaxGitCalls /\ gitCrashes' \in 0..MaxGitCrashes /\ knownHosts' \in {"absent", "empty", "whole"}
  BY <1>8 DEF GitInv, GitTyped
<1>10. QED
  BY <1>4, <1>6, <1>7, <1>8, <1>9, OnlyJobs

LEMMA PushRepoKeeps ==
  ASSUME GitInv, NEW c \in Callers, NEW w \in Clones, NEW b \in BranchNames, PushRepo(c, w, b)
  PROVE  GitInv'
<1> DEFINE j == [NoJob EXCEPT !.at = "push", !.repo = copies[w].of, !.clone = w, !.branch = b,
                              !.seen = copies[w].branches[b]]
<1>1. copies[w].of \in Repos /\ copies[w].branches[b] \in Seq(Nat)
  BY DEF PushRepo, GitInv, GitTyped, Copy, BranchSet
<1>2. job' = [job EXCEPT ![c] = j]
  BY DEF PushRepo, JobBegins
<1>3. j \in GitJob /\ j.at = "push" /\ j.repo = copies[w].of /\ j.branch = b
  BY <1>1 DEF NoJob, GitJob, GitSteps
<1> HIDE DEF j
<1>4. JobRight(j, hosted, knownHosts')
  BY <1>1, <1>3 DEF JobRight
<1>5. /\ UNCHANGED <<hosted, copies, accepted, commits>> /\ knownHosts' = knownHosts
      /\ gitCrashes' = gitCrashes /\ gitCalls < MaxGitCalls /\ gitCalls' = gitCalls + 1
  BY DEF PushRepo, JobBegins
<1>6. gitCalls' \in 0..MaxGitCalls /\ gitCrashes' \in 0..MaxGitCrashes /\ knownHosts' \in {"absent", "empty", "whole"}
  BY <1>5, CountsTyped DEF GitInv, GitTyped
<1>7. QED
  BY <1>2, <1>3, <1>4, <1>5, <1>6, OnlyJobs

LEMMA WriteKnownHostsKeeps ==
  ASSUME GitInv, NEW c \in Callers, WriteKnownHosts(c)
  PROVE  GitInv'
<1> DEFINE j == [job[c] EXCEPT !.at = "run"]
<1>1. job[c] \in GitJob
  BY DEF GitInv, GitTyped
<1>2. job' = [job EXCEPT ![c] = j]
  BY DEF WriteKnownHosts, JobGoes
<1>3. j \in GitJob /\ j.at = "run"
  BY <1>1 DEF GitJob, GitSteps
<1> HIDE DEF j
<1>4. /\ UNCHANGED <<hosted, copies, accepted, commits>> /\ knownHosts' = "whole"
      /\ gitCrashes' = gitCrashes /\ gitCalls' = gitCalls
  BY DEF WriteKnownHosts
<1>5. JobRight(j, hosted, knownHosts')
  BY <1>3, <1>4 DEF JobRight, OnRepo, OnBranch
<1>6. gitCalls' \in 0..MaxGitCalls /\ gitCrashes' \in 0..MaxGitCrashes
  BY <1>4 DEF GitInv, GitTyped
<1>7. QED
  BY <1>2, <1>3, <1>4, <1>5, <1>6, OnlyJobs

\* The one step after which known_hosts is not whole: whoever runs is told.
LEMMA EnsureKnownHostsFileKeeps ==
  ASSUME GitInv, NEW c \in Callers, EnsureKnownHostsFile(c)
  PROVE  GitInv'
<1> DEFINE j == [NoJob EXCEPT !.at = "hosts"]
<1>1. job \in [Callers -> GitJob] /\ \A k \in Callers : JobRight(job[k], hosted, knownHosts)
  BY DEF GitInv, GitTyped
<1>2. j \in GitJob /\ j.at = "hosts"
  BY EmptySeq DEF NoJob, GitJob, GitSteps
<1>3. job' = [k \in Callers |-> IF k = c THEN j
                                ELSE IF job[k].at = "run" THEN [job[k] EXCEPT !.steady = FALSE] ELSE job[k]]
  BY DEF EnsureKnownHostsFile
<1> HIDE DEF j
<1>4. hosted' = hosted /\ copies' = copies /\ accepted' = accepted /\ commits' = commits
      /\ gitCrashes' = gitCrashes /\ gitCalls < MaxGitCalls /\ gitCalls' = gitCalls + 1
      /\ knownHosts' = "empty"
  BY DEF EnsureKnownHostsFile
<1>5. ASSUME NEW k \in Callers PROVE job'[k] \in GitJob /\ JobRight(job'[k], hosted, knownHosts')
  <2>1. CASE k = c
    <3>1. job'[k] = j
      BY <2>1, <1>3
    <3>2. QED
      BY <3>1, <1>2 DEF JobRight, OnRepo, OnBranch
  <2>2. CASE k # c /\ job[k].at = "run"
    <3>1. job'[k] = [job[k] EXCEPT !.steady = FALSE]
      BY <2>2, <1>3
    <3>2. QED
      BY <3>1, <1>1, DisturbedIsRight
  <2>3. CASE k # c /\ job[k].at # "run"
    <3>1. job'[k] = job[k]
      BY <2>3, <1>3
    <3>2. job[k] \in GitJob /\ JobRight(job[k], hosted, knownHosts')
      BY <2>3, <1>1 DEF JobRight
    <3>3. QED
      BY <3>1, <3>2
  <2>4. QED
    BY <2>1, <2>2, <2>3
<1>6. job' \in [Callers -> GitJob]
  BY <1>3, <1>5
<1>7. gitCalls' \in 0..MaxGitCalls
  BY <1>4, CountsTyped DEF GitInv
<1>8. GitTyped'
  BY <1>4, <1>6, <1>7 DEF GitInv, GitTyped
<1>9. AcceptedCommitsStay'
  BY <1>4 DEF GitInv, AcceptedCommitsStay
<1>10. QED
  BY <1>4, <1>5, <1>8, <1>9 DEF GitInv

-----------------------------------------------------------------------------
\* Steps of a call that change the state of directories, but no branch.
LEMMA DirectoriesChange ==
  ASSUME GitInv, NEW c \in Callers, NEW j \in GitJob, job' = [job EXCEPT ![c] = j],
         NEW r \in Repos, NEW dir \in {"absent", "partial", "whole"},
         hosted' = [hosted EXCEPT ![r].dir = dir],
         UNCHANGED <<copies, knownHosts, accepted, commits, gitCrashes>>,
         gitCalls' \in 0..MaxGitCalls,
         JobRight(j, hosted, knownHosts)
  PROVE  GitInv'
<1>1. /\ hosted' \in [Repos -> HostedRepo]
      /\ \A q \in Repos : hosted'[q].branches = hosted[q].branches
  BY DEF GitInv, GitTyped, HostedRepo
<1>2. JobRight(j, hosted', knownHosts')
  <2>1. j.repo \in Repos => hosted'[j.repo].branches = hosted[j.repo].branches
    BY <1>1
  <2>2. j.at = "run" /\ j.steady /\ knownHosts = "whole" => knownHosts' = "whole"
    OBVIOUS
  <2>3. QED
    BY <2>1, <2>2 DEF JobRight, OnRepo, OnBranch
<1>3. /\ job' \in [Callers -> GitJob]
      /\ \A k \in Callers : JobRight(job'[k], hosted', knownHosts')
  BY <1>1, <1>2, OneJobMoves
<1>4. copies' = copies /\ knownHosts' = knownHosts /\ accepted' = accepted
      /\ commits' = commits /\ gitCrashes' = gitCrashes
  OBVIOUS
<1>5. GitTyped'
  BY <1>1, <1>3, <1>4 DEF GitInv, GitTyped
<1>6. AcceptedCommitsStay'
  BY <1>1, <1>4 DEF GitInv, AcceptedCommitsStay
<1>7. QED
  BY <1>3, <1>5, <1>6 DEF GitInv

LEMMA CreateBareRepoKeeps ==
  ASSUME GitInv, NEW c \in Callers, NEW r \in Repos, CreateBareRepo(c, r)
  PROVE  GitInv'
<1> DEFINE j == [NoJob EXCEPT !.at = "create", !.repo = r]
<1>1. j \in GitJob /\ j.at = "create" /\ j.repo = r
  BY EmptySeq DEF NoJob, GitJob, GitSteps
<1>2. job' = [job EXCEPT ![c] = j] /\ hosted' = [hosted EXCEPT ![r].dir = "partial"]
  BY DEF CreateBareRepo, JobBegins
<1> HIDE DEF j
<1>3. JobRight(j, hosted, knownHosts)
  BY <1>1 DEF JobRight, OnBranch
<1>4. UNCHANGED <<copies, knownHosts, accepted, commits, gitCrashes>>
  BY DEF CreateBareRepo
<1>5. gitCalls' \in 0..MaxGitCalls
  BY CountsTyped DEF CreateBareRepo, JobBegins, GitInv
<1>6. QED
  BY <1>1, <1>2, <1>3, <1>4, <1>5, DirectoriesChange

LEMMA FinishRepoKeeps ==
  ASSUME GitInv, NEW c \in Callers, FinishRepo(c)
  PROVE  GitInv'
<1> DEFINE r == job[c].repo
           dir == IF hosted[r].dir = "partial" THEN "whole" ELSE hosted[r].dir
<1>1. job[c] \in GitJob /\ job[c].at = "create" /\ JobRight(job[c], hosted, knownHosts)
  BY DEF GitInv, GitTyped, FinishRepo
<1>2. r \in Repos
  BY <1>1 DEF JobRight, OnRepo
<1>3. dir \in {"absent", "partial", "whole"}
  BY <1>2 DEF GitInv, GitTyped, HostedRepo
<1>4. job' = [job EXCEPT ![c] = NoJob] /\ hosted' = [hosted EXCEPT ![r].dir = dir]
  BY <1>2 DEF FinishRepo, JobEnds, GitInv, GitTyped
<1>5. NoJob \in GitJob /\ JobRight(NoJob, hosted, knownHosts)
  BY NothingKnown
<1>6. UNCHANGED <<copies, knownHosts, accepted, commits, gitCrashes>> /\ gitCalls' \in 0..MaxGitCalls
  BY DEF FinishRepo, GitInv, GitTyped
<1> HIDE DEF r, dir
<1>7. QED
  BY <1>2, <1>3, <1>4, <1>5, <1>6, DirectoriesChange

-----------------------------------------------------------------------------
(* Steps that change branches.                                             *)

LEMMA NothingThere ==
  /\ NoBranches \in BranchSet /\ Existing(NoBranches) = {}
  /\ NoRepo \in HostedRepo
  /\ NoAccepted \in [BranchNames -> SUBSET Nat]
  /\ \A b \in BranchNames : NoAccepted[b] = {}
<1>1. NoBranches \in BranchSet
  BY EmptySeq DEF NoBranches, BranchSet
<1>2. \A b \in BranchNames : NoBranches[b] = <<>>
  BY DEF NoBranches
<1>3. Existing(NoBranches) = {}
  BY <1>2 DEF Existing
<1>4. NoRepo \in HostedRepo
  BY <1>1 DEF NoRepo, HostedRepo
<1>5. QED
  BY <1>1, <1>3, <1>4 DEF NoAccepted

\* Whatever becomes of one repository, the other calls are right when those on it
\* are disturbed.
LEMMA DisturbedAreRight ==
  ASSUME GitInv, NEW r \in Repos, NEW k \in Callers,
         \A q \in Repos \ {r} : hosted'[q] = hosted[q], knownHosts' = knownHosts
  PROVE  /\ Disturbed(job, r)[k] \in GitJob
         /\ JobRight(Disturbed(job, r)[k], hosted', knownHosts')
<1>1. job[k] \in GitJob /\ JobRight(job[k], hosted, knownHosts)
  BY DEF GitInv, GitTyped
<1>2. CASE job[k] # NoJob /\ job[k].repo = r
  <2>1. Disturbed(job, r)[k] = [job[k] EXCEPT !.steady = FALSE]
    BY <1>2, DisturbedTyped DEF GitInv
  <2>2. QED
    BY <2>1, <1>1, DisturbedIsRight
<1>3. CASE job[k] = NoJob
  <2>1. Disturbed(job, r)[k] = NoJob
    BY <1>3, DisturbedTyped DEF GitInv
  <2>2. QED
    BY <2>1, NothingKnown
<1>4. CASE job[k].repo # r
  <2>1. Disturbed(job, r)[k] = job[k]
    BY <1>4, DisturbedTyped DEF GitInv
  <2>2. job[k].repo \in Repos => hosted'[job[k].repo].branches = hosted[job[k].repo].branches
    BY <1>4
  <2>3. JobRight(job[k], hosted', knownHosts')
    BY <1>1, <2>2, SameIsRight
  <2>4. QED
    BY <1>1, <2>1, <2>3
<1>5. QED
  BY <1>2, <1>3, <1>4

\* One repository changes and the calls on it are disturbed.
LEMMA OneRepoChanges ==
  ASSUME GitInv, NEW c \in Callers, NEW r \in Repos, NEW j \in GitJob,
         job' = [Disturbed(job, r) EXCEPT ![c] = j],
         NEW repo \in HostedRepo, hosted' = [hosted EXCEPT ![r] = repo],
         NEW told \in [BranchNames -> SUBSET Nat], accepted' = [accepted EXCEPT ![r] = told],
         \A b \in BranchNames : told[b] \subseteq Range(repo.branches[b]),
         UNCHANGED <<copies, knownHosts, commits, gitCrashes>>, gitCalls' \in 0..MaxGitCalls,
         \A on, hosts : JobRight(j, on, hosts) \/ (j.at = "delete" /\ j.repo = r)
  PROVE  GitInv'
<1>1. hosted' \in [Repos -> HostedRepo] /\ \A q \in Repos : hosted'[q] = IF q = r THEN repo ELSE hosted[q]
  BY DEF GitInv, GitTyped
<1>2. copies' = copies /\ knownHosts' = knownHosts /\ commits' = commits /\ gitCrashes' = gitCrashes
  OBVIOUS
<1>3. JobRight(j, hosted', knownHosts')
  BY DEF JobRight, OnBranch
<1>4. Disturbed(job, r) \in [Callers -> GitJob]
  BY DisturbedTyped DEF GitInv
<1>5. job' \in [Callers -> GitJob]
  BY <1>4
<1>6. ASSUME NEW k \in Callers PROVE JobRight(job'[k], hosted', knownHosts')
  <2>1. CASE k = c
    BY <2>1, <1>3, <1>4
  <2>2. CASE k # c
    <3>1. job'[k] = Disturbed(job, r)[k]
      BY <2>2, <1>4
    <3>2. \A q \in Repos \ {r} : hosted'[q] = hosted[q]
      BY <1>1
    <3>3. JobRight(Disturbed(job, r)[k], hosted', knownHosts')
      BY <3>2, <1>2, DisturbedAreRight
    <3>4. QED
      BY <3>1, <3>3
  <2>3. QED
    BY <2>1, <2>2
<1>7. /\ accepted' \in [Repos -> [BranchNames -> SUBSET Nat]]
      /\ \A q \in Repos : accepted'[q] = IF q = r THEN told ELSE accepted[q]
  BY DEF GitInv, GitTyped
<1>8. GitTyped'
  BY <1>1, <1>2, <1>5, <1>7 DEF GitInv, GitTyped
<1>9. AcceptedCommitsStay'
  BY <1>1, <1>7 DEF GitInv, AcceptedCommitsStay
<1>10. QED
  BY <1>6, <1>8, <1>9 DEF GitInv

LEMMA DeleteBareRepoKeeps ==
  ASSUME GitInv, NEW c \in Callers, NEW r \in Repos, DeleteBareRepo(c, r)
  PROVE  GitInv'
<1> DEFINE j == [NoJob EXCEPT !.at = "delete", !.repo = r]
           repo == [dir |-> "partial", branches |-> NoBranches]
<1>1. j \in GitJob /\ j.at = "delete" /\ j.repo = r
  BY EmptySeq DEF NoJob, GitJob, GitSteps
<1>2. repo \in HostedRepo /\ repo.branches = NoBranches
  BY NothingThere DEF HostedRepo
<1>3. job' = [Disturbed(job, r) EXCEPT ![c] = j] /\ hosted' = [hosted EXCEPT ![r] = repo]
      /\ accepted' = [accepted EXCEPT ![r] = NoAccepted]
  BY DEF DeleteBareRepo
<1>4. UNCHANGED <<copies, knownHosts, commits, gitCrashes>>
  BY DEF DeleteBareRepo
<1>5. gitCalls' \in 0..MaxGitCalls
  BY CountsTyped DEF DeleteBareRepo, GitInv
<1> HIDE DEF j, repo
<1>6. \A b \in BranchNames : NoAccepted[b] \subseteq Range(repo.branches[b])
  BY NothingThere
<1>7. NoAccepted \in [BranchNames -> SUBSET Nat]
  BY NothingThere
<1>8. QED
  BY <1>1, <1>2, <1>3, <1>4, <1>5, <1>6, <1>7, OneRepoChanges

LEMMA ReceivePackKeeps ==
  ASSUME GitInv, NEW c \in Callers, ReceivePack(c)
  PROVE  GitInv'
<1> DEFINE r == job[c].repo
           b == job[c].branch
           seen == job[c].seen
           repo == [hosted[r] EXCEPT !.branches[b] = seen]
           told == [accepted[r] EXCEPT ![b] = @ \cup Range(seen)]
<1>1. job[c] \in GitJob /\ job[c].at = "push" /\ JobRight(job[c], hosted, knownHosts)
  BY DEF GitInv, GitTyped, ReceivePack
<1>2. r \in Repos /\ b \in BranchNames /\ seen \in Seq(Nat)
  BY <1>1 DEF JobRight, OnRepo, OnBranch, GitJob
<1>3. hosted[r] \in HostedRepo /\ hosted[r].branches \in BranchSet /\ hosted[r].branches[b] \in Seq(Nat)
  BY <1>2 DEF GitInv, GitTyped, HostedRepo, BranchSet
<1>4. Range(hosted[r].branches[b]) \subseteq Range(seen)
  BY <1>2, <1>3, PrefixRange DEF ReceivePack
<1>5. Range(seen) \subseteq Nat
  <2>1. DOMAIN seen = 1..Len(seen) /\ \A i \in 1..Len(seen) : seen[i] \in Nat
    BY <1>2, LenProperties, ElementOfSeq
  <2>2. QED
    BY <2>1 DEF Range
<1>6. accepted[r] \in [BranchNames -> SUBSET Nat]
      /\ \A x \in BranchNames : accepted[r][x] \subseteq Range(hosted[r].branches[x])
  BY <1>2 DEF GitInv, GitTyped, AcceptedCommitsStay
<1>7. job' = [Disturbed(job, r) EXCEPT ![c] = NoJob]
      /\ hosted' = [hosted EXCEPT ![r].branches[b] = seen]
      /\ accepted' = [accepted EXCEPT ![r][b] = @ \cup Range(seen)]
      /\ UNCHANGED <<copies, knownHosts, commits, gitCalls, gitCrashes>>
  BY DEF ReceivePack, Stored
<1> HIDE DEF r, b, seen
<1>8. hosted' = [hosted EXCEPT ![r] = repo] /\ accepted' = [accepted EXCEPT ![r] = told]
  BY <1>2, <1>7 DEF GitInv, GitTyped
<1>9. repo \in HostedRepo /\ \A x \in BranchNames : repo.branches[x] = IF x = b THEN seen ELSE hosted[r].branches[x]
  BY <1>2, <1>3 DEF HostedRepo, BranchSet
<1>10. told \in [BranchNames -> SUBSET Nat]
       /\ \A x \in BranchNames : told[x] = IF x = b THEN accepted[r][x] \cup Range(seen) ELSE accepted[r][x]
  BY <1>2, <1>5, <1>6
<1> HIDE DEF repo, told
<1>11. \A x \in BranchNames : told[x] \subseteq Range(repo.branches[x])
  BY <1>4, <1>6, <1>9, <1>10
<1>12. NoJob \in GitJob /\ \A on, hosts : JobRight(NoJob, on, hosts)
  BY NothingKnown
<1>13. gitCalls' \in 0..MaxGitCalls
  BY <1>7 DEF GitInv, GitTyped
<1>14. QED
  BY <1>2, <1>7, <1>8, <1>9, <1>10, <1>11, <1>12, <1>13, OneRepoChanges

\* A deletion takes the repositories below with it.
LEMMA FinishDeleteKeeps ==
  ASSUME GitInv, NEW c \in Callers, FinishDelete(c)
  PROVE  GitInv'
<1> DEFINE gone == {job[c].repo} \cup {r \in Repos : <<r, job[c].repo>> \in NestedIn}
<1>1. /\ hosted' = [r \in Repos |-> IF r \in gone THEN NoRepo ELSE hosted[r]]
      /\ accepted' = [r \in Repos |-> IF r \in gone THEN NoAccepted ELSE accepted[r]]
      /\ job' = [k \in Callers |-> IF k = c THEN NoJob
                                   ELSE IF job[k].repo \in gone THEN [job[k] EXCEPT !.steady = FALSE] ELSE job[k]]
      /\ UNCHANGED <<copies, knownHosts, commits, gitCalls, gitCrashes>>
  BY DEF FinishDelete
<1> HIDE DEF gone
<1>2. hosted' \in [Repos -> HostedRepo] /\ accepted' \in [Repos -> [BranchNames -> SUBSET Nat]]
  BY <1>1, NothingThere DEF GitInv, GitTyped
<1>3. copies' = copies /\ knownHosts' = knownHosts /\ commits' = commits /\ gitCalls' = gitCalls
      /\ gitCrashes' = gitCrashes
  BY <1>1
<1>4. ASSUME NEW k \in Callers PROVE job'[k] \in GitJob /\ JobRight(job'[k], hosted', knownHosts')
  <2>1. job[k] \in GitJob /\ JobRight(job[k], hosted, knownHosts)
    BY DEF GitInv, GitTyped
  <2>2. CASE k = c
    <3>1. job'[k] = NoJob
      BY <2>2, <1>1
    <3>2. QED
      BY <3>1, NothingKnown
  <2>3. CASE k # c /\ job[k].repo \in gone
    <3>1. job'[k] = [job[k] EXCEPT !.steady = FALSE]
      BY <2>3, <1>1
    <3>2. QED
      BY <3>1, <2>1, DisturbedIsRight
  <2>4. CASE k # c /\ job[k].repo \notin gone
    <3>1. job'[k] = job[k]
      BY <2>4, <1>1
    <3>2. job[k].repo \in Repos => hosted'[job[k].repo].branches = hosted[job[k].repo].branches
      BY <2>4, <1>1
    <3>3. JobRight(job[k], hosted', knownHosts')
      BY <2>1, <3>2, <1>3, SameIsRight
    <3>4. QED
      BY <3>1, <3>3, <2>1
  <2>5. QED
    BY <2>2, <2>3, <2>4
<1>5. job' \in [Callers -> GitJob]
  BY <1>1, <1>4
<1>6. GitTyped'
  BY <1>2, <1>3, <1>5 DEF GitInv, GitTyped
<1>7. AcceptedCommitsStay'
  <2>1. ASSUME NEW r \in Repos, NEW b \in BranchNames
        PROVE  accepted'[r][b] \subseteq Range(hosted'[r].branches[b])
    <3>1. CASE r \in gone
      BY <3>1, <1>1, NothingThere
    <3>2. CASE r \notin gone
      BY <3>2, <1>1 DEF GitInv, AcceptedCommitsStay
    <3>3. QED
      BY <3>1, <3>2
  <2>2. QED
    BY <2>1 DEF AcceptedCommitsStay
<1>8. QED
  BY <1>4, <1>6, <1>7 DEF GitInv

-----------------------------------------------------------------------------
(* Steps on clones.                                                        *)

\* A clone changes, and perhaps a call.
LEMMA CopiesChange ==
  ASSUME GitInv, NEW jobs \in [Callers -> GitJob], job' = jobs,
         \A k \in Callers : JobRight(jobs[k], hosted, knownHosts),
         copies' \in [Clones -> Copy], \A w \in Clones : copies'[w].state = "repo" => copies'[w].of \in Repos,
         UNCHANGED <<hosted, knownHosts, accepted, gitCrashes>>,
         gitCalls' \in 0..MaxGitCalls, commits' \in 0..MaxCommits
  PROVE  GitInv'
<1>1. hosted' = hosted /\ knownHosts' = knownHosts /\ accepted' = accepted /\ gitCrashes' = gitCrashes
  OBVIOUS
<1>2. GitTyped'
  BY <1>1 DEF GitInv, GitTyped
<1>3. AcceptedCommitsStay'
  BY <1>1 DEF GitInv, AcceptedCommitsStay
<1>4. \A k \in Callers : JobRight(job'[k], hosted', knownHosts')
  BY <1>1
<1>5. QED
  BY <1>2, <1>3, <1>4 DEF GitInv

LEMMA CheckoutRepoKeeps ==
  ASSUME GitInv, NEW c \in Callers, NEW r \in Repos, NEW w \in Clones, CheckoutRepo(c, r, w)
  PROVE  GitInv'
<1> DEFINE empty == Existing(hosted[r].branches) = {}
           at == IF empty THEN "wipe" ELSE "cloned"
           j == [NoJob EXCEPT !.at = at, !.repo = r, !.clone = w]
           jobs == [job EXCEPT ![c] = j]
<1>1. job \in [Callers -> GitJob] /\ copies \in [Clones -> Copy] /\ hosted[r].branches \in BranchSet
  BY DEF GitInv, GitTyped, HostedRepo
<1>2. /\ job' = jobs /\ gitCalls < MaxGitCalls /\ gitCalls' = gitCalls + 1
      /\ copies' = IF empty THEN copies
                   ELSE [copies EXCEPT ![w].state = "repo", ![w].of = r, ![w].branches = hosted[r].branches]
      /\ UNCHANGED <<hosted, knownHosts, accepted, commits, gitCrashes>>
  BY DEF CheckoutRepo, JobBegins
<1>3. at \in {"wipe", "cloned"}
  OBVIOUS
<1> HIDE DEF at, empty
<1>4. j \in GitJob /\ j.at = at /\ j.repo = r /\ j.clone = w
  BY <1>3, EmptySeq DEF NoJob, GitJob, GitSteps
<1> HIDE DEF j
<1>5. JobRight(j, hosted, knownHosts)
  BY <1>3, <1>4 DEF JobRight, OnBranch
<1>6. jobs \in [Callers -> GitJob] /\ \A k \in Callers : jobs[k] = IF k = c THEN j ELSE job[k]
  BY <1>1, <1>4
<1> HIDE DEF jobs
<1>7. \A k \in Callers : JobRight(jobs[k], hosted, knownHosts)
  BY <1>5, <1>6 DEF GitInv
<1>8. copies' \in [Clones -> Copy] /\ \A v \in Clones : copies'[v].state = "repo" => copies'[v].of \in Repos
  <2>1. CASE empty
    BY <2>1, <1>2 DEF GitInv, GitTyped
  <2>2. CASE ~empty
    <3>1. copies' = [copies EXCEPT ![w].state = "repo", ![w].of = r, ![w].branches = hosted[r].branches]
      BY <2>2, <1>2
    <3>2. copies' \in [Clones -> Copy] /\ copies'[w].of = r /\ \A v \in Clones \ {w} : copies'[v] = copies[v]
      BY <3>1, <1>1 DEF Copy
    <3>3. QED
      BY <3>2 DEF GitInv, GitTyped
  <2>3. QED
    BY <2>1, <2>2
<1>9. gitCalls' \in 0..MaxGitCalls /\ commits' \in 0..MaxCommits
  BY <1>2, CountsTyped DEF GitInv, GitTyped
<1>10. QED
  BY <1>2, <1>6, <1>7, <1>8, <1>9, CopiesChange

LEMMA InitCheckoutKeeps ==
  ASSUME GitInv, NEW c \in Callers, InitCheckoutForEmptyRemote(c)
  PROVE  GitInv'
<1> DEFINE w == job[c].clone
           new == [NoClone EXCEPT !.state = "repo", !.of = job[c].repo]
           jobs == [job EXCEPT ![c] = NoJob]
<1>1. job \in [Callers -> GitJob] /\ copies \in [Clones -> Copy] /\ job[c].at = "wipe"
      /\ JobRight(job[c], hosted, knownHosts)
  BY DEF GitInv, GitTyped, InitCheckoutForEmptyRemote
<1>2. job[c].repo \in Repos /\ w \in Clones
  BY <1>1 DEF JobRight, OnRepo
<1>3. new \in Copy /\ new.of = job[c].repo
  BY <1>2, NothingThere DEF NoClone, Copy
<1>4. job' = jobs /\ copies' = [copies EXCEPT ![w] = new]
      /\ UNCHANGED <<hosted, knownHosts, accepted, commits, gitCalls, gitCrashes>>
  BY DEF InitCheckoutForEmptyRemote, JobEnds
<1> HIDE DEF w, new
<1>5. copies' \in [Clones -> Copy] /\ \A v \in Clones : copies'[v].state = "repo" => copies'[v].of \in Repos
  BY <1>1, <1>2, <1>3, <1>4 DEF GitInv, GitTyped
<1>6. jobs \in [Callers -> GitJob] /\ \A k \in Callers : jobs[k] = IF k = c THEN NoJob ELSE job[k]
  BY <1>1, NothingKnown
<1> HIDE DEF jobs
<1>7. \A k \in Callers : JobRight(jobs[k], hosted, knownHosts)
  BY <1>6, NothingKnown DEF GitInv
<1>8. gitCalls' \in 0..MaxGitCalls /\ commits' \in 0..MaxCommits
  BY <1>4 DEF GitInv, GitTyped
<1>9. QED
  BY <1>4, <1>5, <1>6, <1>7, <1>8, CopiesChange

LEMMA CommitRepoKeeps ==
  ASSUME GitInv, NEW w \in Clones, NEW b \in BranchNames, CommitRepo(w, b)
  PROVE  GitInv'
<1> DEFINE grown == Append(copies[w].branches[b], commits + 1)
<1>1. copies \in [Clones -> Copy] /\ copies[w].branches \in BranchSet /\ job \in [Callers -> GitJob]
      /\ copies[w].branches[b] \in Seq(Nat)
  BY DEF GitInv, GitTyped, Copy, BranchSet
<1>2. commits' = commits + 1 /\ commits < MaxCommits
      /\ copies' = [copies EXCEPT ![w].branches[b] = grown]
      /\ UNCHANGED <<hosted, job, knownHosts, accepted, gitCalls, gitCrashes>>
  BY DEF CommitRepo
<1>3. commits' \in 0..MaxCommits /\ commits + 1 \in Nat
  BY <1>2, CountsTyped DEF GitInv
<1>4. grown \in Seq(Nat)
  BY <1>1, <1>3, AppendProperties
<1> HIDE DEF grown
<1>5. [copies[w].branches EXCEPT ![b] = grown] \in BranchSet
  BY <1>1, <1>4 DEF BranchSet
<1>6. copies' = [copies EXCEPT ![w].branches = [copies[w].branches EXCEPT ![b] = grown]]
  BY <1>1, <1>2
<1>7. copies' \in [Clones -> Copy]
      /\ \A v \in Clones : copies'[v].state = copies[v].state /\ copies'[v].of = copies[v].of
  BY <1>1, <1>5, <1>6 DEF Copy
<1>8. \A v \in Clones : copies'[v].state = "repo" => copies'[v].of \in Repos
  BY <1>7 DEF GitInv, GitTyped
<1>9. gitCalls' \in 0..MaxGitCalls /\ job' = job
  BY <1>2 DEF GitInv, GitTyped
<1>10. \A k \in Callers : JobRight(job[k], hosted, knownHosts)
  BY DEF GitInv
<1>11. QED
  BY <1>1, <1>2, <1>3, <1>7, <1>8, <1>9, <1>10, CopiesChange

-----------------------------------------------------------------------------
LEMMA GitStart == GitInit => GitInv
<1> SUFFICES ASSUME GitInit PROVE GitInv
  OBVIOUS
<1>1. hosted = [r \in Repos |-> NoRepo] /\ job = [c \in Callers |-> NoJob]
      /\ accepted = [r \in Repos |-> NoAccepted] /\ knownHosts = "absent"
      /\ commits = 0 /\ gitCalls = 0 /\ gitCrashes = 0
      /\ copies = [w \in Clones |-> IF w \in Occupied
                     THEN [NoClone EXCEPT !.state = "files", !.files = TRUE] ELSE NoClone]
  BY DEF GitInit
<1>2. hosted \in [Repos -> HostedRepo] /\ accepted \in [Repos -> [BranchNames -> SUBSET Nat]]
  BY <1>1, NothingThere
<1>3. job \in [Callers -> GitJob] /\ \A c \in Callers : JobRight(job[c], hosted, knownHosts)
  BY <1>1, NothingKnown
<1>4. NoClone \in Copy /\ NoClone.state = "absent"
      /\ [NoClone EXCEPT !.state = "files", !.files = TRUE] \in Copy
      /\ [NoClone EXCEPT !.state = "files", !.files = TRUE].state = "files"
  BY NothingThere DEF NoClone, Copy
<1>5. copies \in [Clones -> Copy] /\ \A w \in Clones : copies[w].state # "repo"
  BY <1>1, <1>4
<1>6. commits \in 0..MaxCommits /\ gitCalls \in 0..MaxGitCalls /\ gitCrashes \in 0..MaxGitCrashes
  BY <1>1, GitAssumption
<1>7. GitTyped
  BY <1>1, <1>2, <1>3, <1>5, <1>6 DEF GitTyped
<1>8. AcceptedCommitsStay
  BY <1>1, NothingThere DEF AcceptedCommitsStay
<1>9. QED
  BY <1>3, <1>7, <1>8 DEF GitInv

LEMMA GitStep == GitInv /\ [GitNext]_gitVars => GitInv'
<1> SUFFICES ASSUME GitInv, [GitNext]_gitVars PROVE GitInv'
  OBVIOUS
<1>1. CASE UNCHANGED gitVars
  BY <1>1 DEF gitVars, GitInv, GitTyped, AcceptedCommitsStay
<1>2. CASE GitNext
  <2>1. PICK c \in Callers :
          \/ \E r \in Repos :
               \/ CreateBareRepo(c, r) \/ DeleteBareRepo(c, r) \/ BeginInspect(c, r)
               \/ \E w \in Clones : CheckoutRepo(c, r, w)
          \/ FinishRepo(c) \/ FinishDelete(c) \/ ReadCommit(c)
          \/ Answer(c) \/ CheckoutEnds(c) \/ PushFails(c) \/ RunGit(c) \/ GitCrash(c)
          \/ InitCheckoutForEmptyRemote(c)
          \/ \E w \in Clones, b \in BranchNames : CommitRepo(w, b) \/ PushRepo(c, w, b)
          \/ ReceivePack(c)
          \/ EnsureKnownHostsFile(c) \/ WriteKnownHosts(c)
    BY <1>2 DEF GitNext
  <2>2. QED
    BY <2>1, CreateBareRepoKeeps, DeleteBareRepoKeeps, BeginInspectKeeps, CheckoutRepoKeeps,
       FinishRepoKeeps, FinishDeleteKeeps, ReadCommitKeeps, EndingsKeep, InitCheckoutKeeps,
       CommitRepoKeeps, PushRepoKeeps, ReceivePackKeeps, EnsureKnownHostsFileKeeps,
       WriteKnownHostsKeeps
<1>3. QED
  BY <1>1, <1>2

LEMMA GitTells == GitInv => GitTypeOK /\ AcceptedCommitsStay /\ EmptyMeansEmpty /\ KnownHostsAreThere
<1> SUFFICES ASSUME GitInv PROVE GitTypeOK /\ AcceptedCommitsStay /\ EmptyMeansEmpty /\ KnownHostsAreThere
  OBVIOUS
<1>1. GitTypeOK
  <2>1. \A r \in Repos : hosted[r].dir \in {"absent", "partial", "whole"}
    BY DEF GitInv, GitTyped, HostedRepo
  <2>2. \A w \in Clones : copies[w].state \in {"absent", "files", "repo"}
    BY DEF GitInv, GitTyped, Copy
  <2>3. \A c \in Callers : job[c].at \in GitSteps
    BY DEF GitInv, GitTyped, GitJob
  <2>4. QED
    BY <2>1, <2>2, <2>3 DEF GitInv, GitTyped, GitTypeOK, GitSteps
<1>2. EmptyMeansEmpty
  BY DEF GitInv, JobRight, EmptyMeansEmpty
<1>3. KnownHostsAreThere
  BY DEF GitInv, JobRight, KnownHostsAreThere
<1>4. QED
  BY <1>1, <1>2, <1>3 DEF GitInv

-----------------------------------------------------------------------------
(* SkillLibrary: the skills on disk.                                       *)

\* A client that is in an operation has a directory, and with an install or a create a
\* name for the skill.
Naming == {"stat", "clear", "copy", "copying"}
ClientsPlaced ==
  \A c \in Clients :
    /\ clients[c].pc # "idle" => clients[c].dir \in Slugs
    /\ clients[c].pc \in Naming => clients[c].name \in SkillNames

\* A file that is torn is being written by the last one who began to, or was left so
\* by a process that ended.
TornExplained ==
  \A d \in Slugs :
    /\ skillDirs[d].md = "torn" =>
         d \in halfMade \/ \E c \in Clients : /\ clients[c].dir = d /\ clients[c].pc = "copying"
                                              /\ skillDirs[d].writer = c
    /\ skillDirs[d].manifest = "torn" =>
         d \in halfMade \/ \E c \in Clients : clients[c].dir = d /\ clients[c].pc = "writing"

LibraryInv == LibraryTypeOK /\ ClientsPlaced /\ TornExplained

LEMMA SelectedIsNamed ==
  ASSUME NEW source \in SkillSources, NEW subpath, NEW wanted,
         SelectDiscoveredSkill(source, subpath, wanted) # NoSkill
  PROVE  SelectDiscoveredSkill(source, subpath, wanted) \in SkillNames
<1> DEFINE found == {i \in DOMAIN source : /\ subpath = "" \/ source[i].below = subpath
                                           /\ wanted = NoSkill \/ source[i].name = wanted}
           first == CHOOSE i \in found : \A j \in found : i <= j
<1>1. found # {} /\ SelectDiscoveredSkill(source, subpath, wanted) = source[first].name
  BY DEF SelectDiscoveredSkill
<1>2. source \in Seq([name : SkillNames, below : STRING])
  BY SkillLibraryAssumption
<1>3. DOMAIN source = 1..Len(source) /\ Len(source) \in Nat
  BY <1>2, LenProperties
<1>4. found \subseteq 1..Len(source) /\ found \subseteq Nat
  <2>1. found \subseteq DOMAIN source
    OBVIOUS
  <2> HIDE DEF found
  <2>2. QED
    BY <2>1, <1>3
<1> HIDE DEF found
<1>5. first \in found
  <2>1. \E i \in found : \A j \in found : i <= j
    BY <1>1, <1>4, LeastNumber
  <2>2. QED
    BY <2>1
<1>6. source[first] \in [name : SkillNames, below : STRING]
  BY <1>2, <1>3, <1>4, <1>5, ElementOfSeq
<1>7. QED
  BY <1>1, <1>6

LEMMA LoadedIsSlug ==
  ASSUME NEW n, LoadManagedSkillByName(n) # NoSkill
  PROVE  LoadManagedSkillByName(n) \in Slugs
<1> DEFINE orders == {SlugOrder[d] : d \in Named(n)}
<1>1. Named(n) # {} /\ Named(n) \subseteq Slugs
  BY DEF LoadManagedSkillByName, Named
<1>2. LoadManagedSkillByName(n) = CHOOSE d \in Named(n) : \A e \in Named(n) : SlugOrder[d] <= SlugOrder[e]
  BY DEF LoadManagedSkillByName
<1>3. orders # {} /\ orders \subseteq Nat
  BY <1>1, SkillLibraryAssumption
<1>4. \E x \in orders : \A y \in orders : x <= y
  <2> HIDE DEF orders
  <2>1. QED
    BY <1>3, LeastNumber
<1>5. \E d \in Named(n) : \A e \in Named(n) : SlugOrder[d] <= SlugOrder[e]
  BY <1>4
<1>6. QED
  BY <1>1, <1>2, <1>5

LEMMA LibraryStart == LibraryInit => LibraryInv
<1> SUFFICES ASSUME LibraryInit PROVE LibraryInv
  OBVIOUS
<1>1. NoDir \in SkillDir /\ NoDir.md = "none" /\ NoDir.manifest = "none"
  BY DEF NoDir, SkillDir, FileStates
<1>2. AtRest \in Client /\ AtRest.pc = "idle"
  BY DEF AtRest, Client, LibraryPCs
<1>3. LibraryTypeOK
  BY <1>1, <1>2, SkillLibraryAssumption DEF LibraryInit, LibraryTypeOK
<1>4. ClientsPlaced
  <2>1. \A c \in Clients : clients[c].pc = "idle"
    BY <1>2 DEF LibraryInit
  <2>2. QED
    BY <2>1 DEF ClientsPlaced, Naming
<1>6. TornExplained
  <2>1. \A d \in Slugs : skillDirs[d].md = "none" /\ skillDirs[d].manifest = "none"
    BY <1>1 DEF LibraryInit
  <2>2. QED
    BY <2>1 DEF TornExplained
<1>5. QED
  BY <1>3, <1>4, <1>6 DEF LibraryInv

\* What a step of a client has to show when the others keep their places: its new
\* place, and for its directory who tears what.
LEMMA ClientMoves ==
  ASSUME LibraryInv, NEW c \in Clients, NEW d \in Slugs, NEW at \in Client, NEW dir \in SkillDir,
         clients' = [clients EXCEPT ![c] = at], skillDirs' = [skillDirs EXCEPT ![d] = dir],
         clients[c].pc \in {"copying", "writing"} => clients[c].dir = d,
         halfMade' \subseteq Slugs, \A e \in Slugs \ {d} : e \in halfMade => e \in halfMade',
         libraryOps' \in 0..MaxLibraryOps, libraryFaults' \in 0..MaxLibraryFaults,
         at.pc # "idle" => at.dir \in Slugs, at.pc \in Naming => at.name \in SkillNames,
         dir.md = "torn" =>
           d \in halfMade' \/ \E k \in Clients : /\ clients'[k].dir = d /\ clients'[k].pc = "copying"
                                                 /\ dir.writer = k,
         dir.manifest = "torn" =>
           d \in halfMade' \/ \E k \in Clients : clients'[k].dir = d /\ clients'[k].pc = "writing"
  PROVE  LibraryInv'
<1>1. clients \in [Clients -> Client] /\ skillDirs \in [Slugs -> SkillDir]
  BY DEF LibraryInv, LibraryTypeOK
<1>2. \A k \in Clients : clients'[k] = IF k = c THEN at ELSE clients[k]
  BY <1>1
<1>3. \A e \in Slugs : skillDirs'[e] = IF e = d THEN dir ELSE skillDirs[e]
  BY <1>1
<1>4. LibraryTypeOK'
  BY <1>1 DEF LibraryTypeOK
<1>5. ClientsPlaced'
  BY <1>2 DEF LibraryInv, ClientsPlaced
<1>6. ASSUME NEW e \in Slugs
      PROVE  /\ skillDirs'[e].md = "torn" =>
                  e \in halfMade' \/ \E k \in Clients : /\ clients'[k].dir = e /\ clients'[k].pc = "copying"
                                                       /\ skillDirs'[e].writer = k
             /\ skillDirs'[e].manifest = "torn" =>
                  e \in halfMade' \/ \E k \in Clients : clients'[k].dir = e /\ clients'[k].pc = "writing"
  <2>1. CASE e = d
    BY <2>1, <1>3
  <2>2. CASE e # d
    <3>1. skillDirs'[e] = skillDirs[e] /\ (e \in halfMade => e \in halfMade')
      BY <2>2, <1>3
    <3>2. \A k \in Clients : clients[k].dir = e /\ clients[k].pc \in {"copying", "writing"} => k # c
      BY <2>2
    <3>3. QED
      BY <3>1, <3>2, <1>2 DEF LibraryInv, TornExplained
  <2>3. QED
    BY <2>1, <2>2
<1>7. TornExplained'
  BY <1>6 DEF TornExplained
<1>8. QED
  BY <1>4, <1>5, <1>7 DEF LibraryInv

\* A step that writes nothing, of a client that is not in a write.
LEMMA NothingWritten ==
  ASSUME LibraryInv, NEW c \in Clients, NEW at \in Client, clients' = [clients EXCEPT ![c] = at],
         clients[c].pc \notin {"copying", "writing"},
         UNCHANGED <<skillDirs, halfMade>>,
         libraryOps' \in 0..MaxLibraryOps, libraryFaults' \in 0..MaxLibraryFaults,
         at.pc # "idle" => at.dir \in Slugs, at.pc \in Naming => at.name \in SkillNames
  PROVE  LibraryInv'
<1>1. clients \in [Clients -> Client] /\ skillDirs' = skillDirs /\ halfMade' = halfMade
  BY DEF LibraryInv, LibraryTypeOK
<1>2. \A k \in Clients : clients'[k] = IF k = c THEN at ELSE clients[k]
  BY <1>1
<1>3. LibraryTypeOK'
  BY <1>1 DEF LibraryInv, LibraryTypeOK
<1>4. ClientsPlaced'
  BY <1>2 DEF LibraryInv, ClientsPlaced
<1>5. TornExplained'
  <2>1. \A k \in Clients : clients[k].pc \in {"copying", "writing"} => clients'[k] = clients[k]
    BY <1>2
  <2>2. QED
    BY <1>1, <2>1 DEF LibraryInv, TornExplained
<1>6. QED
  BY <1>3, <1>4, <1>5 DEF LibraryInv

\* Only one client moves, and no directory becomes half made.
OnlyMoves(c) == halfMade' = halfMade /\ \A k \in Clients \ {c} : clients'[k] = clients[k]

\* What another client tears stays explained when one client moves.
LEMMA OthersTear ==
  ASSUME LibraryInv, NEW c \in Clients, NEW d \in Slugs, OnlyMoves(c)
  PROVE  /\ skillDirs[d].manifest = "torn" /\ clients[c].pc # "writing" =>
              d \in halfMade' \/ \E k \in Clients : clients'[k].dir = d /\ clients'[k].pc = "writing"
         /\ skillDirs[d].md = "torn" /\ (clients[c].pc # "copying" \/ skillDirs[d].writer # c) =>
              d \in halfMade' \/ \E k \in Clients : /\ clients'[k].dir = d /\ clients'[k].pc = "copying"
                                                    /\ skillDirs[d].writer = k
<1>1. ASSUME skillDirs[d].manifest = "torn", clients[c].pc # "writing", d \notin halfMade
      PROVE  \E k \in Clients : clients'[k].dir = d /\ clients'[k].pc = "writing"
  <2>1. PICK k \in Clients : clients[k].dir = d /\ clients[k].pc = "writing"
    BY <1>1 DEF LibraryInv, TornExplained
  <2>2. k # c
    BY <1>1, <2>1
  <2>3. QED
    BY <2>1, <2>2 DEF OnlyMoves
<1>2. ASSUME skillDirs[d].md = "torn", clients[c].pc # "copying" \/ skillDirs[d].writer # c, d \notin halfMade
      PROVE  \E k \in Clients : /\ clients'[k].dir = d /\ clients'[k].pc = "copying"
                                 /\ skillDirs[d].writer = k
  <2>1. PICK k \in Clients : clients[k].dir = d /\ clients[k].pc = "copying" /\ skillDirs[d].writer = k
    BY <1>2 DEF LibraryInv, TornExplained
  <2>2. k # c
    BY <1>2, <2>1
  <2>3. QED
    BY <2>1, <2>2 DEF OnlyMoves
<1>3. QED
  BY <1>1, <1>2 DEF OnlyMoves

LEMMA BeginOpKeeps ==
  ASSUME LibraryInv, NEW c \in Clients, NEW begun \in Client, BeginOp(c, begun),
         begun.dir \in Slugs, begun.pc \in Naming => begun.name \in SkillNames
  PROVE  LibraryInv'
<1>1. /\ clients' = [clients EXCEPT ![c] = begun] /\ clients[c].pc = "idle"
      /\ UNCHANGED <<skillDirs, halfMade>> /\ libraryOps < MaxLibraryOps
      /\ libraryOps' = libraryOps + 1 /\ libraryFaults' = libraryFaults
  BY DEF BeginOp
<1>2. libraryOps' \in 0..MaxLibraryOps /\ libraryFaults' \in 0..MaxLibraryFaults
  BY <1>1, SkillLibraryAssumption DEF LibraryInv, LibraryTypeOK
<1>3. QED
  BY <1>1, <1>2, NothingWritten

LEMMA OpsBegin ==
  ASSUME LibraryInv, NEW c \in Clients,
         InstallManagedSkill(c) \/ CreateManagedSkill(c) \/ ModifyManagedSkill(c)
  PROVE  LibraryInv'
<1>1. CASE InstallManagedSkill(c)
  <2>1. PICK source \in SkillSources, subpath \in {"", "a"}, wanted \in SkillNames \cup {NoSkill},
             replace \in BOOLEAN :
          LET n == SelectDiscoveredSkill(source, subpath, wanted)
          IN  /\ n # NoSkill
              /\ BeginOp(c, [AtRest EXCEPT !.pc = "stat", !.dir = Slug[n], !.name = n,
                                            !.replace = replace, !.third = TRUE])
    BY <1>1 DEF InstallManagedSkill
  <2> DEFINE n == SelectDiscoveredSkill(source, subpath, wanted)
             begun == [AtRest EXCEPT !.pc = "stat", !.dir = Slug[n], !.name = n,
                                     !.replace = replace, !.third = TRUE]
  <2>2. n \in SkillNames /\ BeginOp(c, begun)
    BY <2>1, SelectedIsNamed
  <2> HIDE DEF n
  <2>3. Slug[n] \in Slugs
    BY <2>2, SkillLibraryAssumption
  <2>4. begun \in Client /\ begun.dir = Slug[n] /\ begun.name = n
    BY <2>2, <2>3 DEF AtRest, Client, LibraryPCs
  <2> HIDE DEF begun
  <2>5. QED
    BY <2>2, <2>3, <2>4, BeginOpKeeps
<1>2. CASE CreateManagedSkill(c)
  <2>1. PICK n \in SkillNames \cap Slugs, replace \in BOOLEAN :
          BeginOp(c, [AtRest EXCEPT !.pc = "stat", !.dir = n, !.name = n, !.replace = replace])
    BY <1>2 DEF CreateManagedSkill
  <2> DEFINE begun == [AtRest EXCEPT !.pc = "stat", !.dir = n, !.name = n, !.replace = replace]
  <2>2. begun \in Client /\ begun.dir = n /\ begun.name = n
    BY DEF AtRest, Client, LibraryPCs
  <2>3. BeginOp(c, begun)
    BY <2>1
  <2> HIDE DEF begun
  <2>4. QED
    BY <2>2, <2>3, BeginOpKeeps
<1>3. CASE ModifyManagedSkill(c)
  <2>1. PICK n \in SkillNames, to \in SkillNames \cup {NoSkill} :
          LET d == LoadManagedSkillByName(n)
          IN  /\ d # NoSkill
              /\ BeginOp(c, [AtRest EXCEPT !.pc = "edit", !.dir = d, !.name = to])
    BY <1>3 DEF ModifyManagedSkill
  <2> DEFINE d == LoadManagedSkillByName(n)
             begun == [AtRest EXCEPT !.pc = "edit", !.dir = d, !.name = to]
  <2>2. d \in Slugs /\ BeginOp(c, begun)
    BY <2>1, LoadedIsSlug
  <2> HIDE DEF d
  <2>3. begun \in Client /\ begun.dir = d /\ begun.pc = "edit"
    BY <2>2 DEF AtRest, Client, LibraryPCs
  <2> HIDE DEF begun
  <2>4. QED
    BY <2>2, <2>3, BeginOpKeeps DEF Naming
<1>4. QED
  BY <1>1, <1>2, <1>3

LEMMA ClientFacts ==
  ASSUME LibraryInv, NEW c \in Clients
  PROVE  /\ clients[c] \in Client /\ AtRest \in Client /\ AtRest.pc = "idle"
         /\ \A pc \in LibraryPCs :
              LET at == [clients[c] EXCEPT !.pc = pc]
              IN  at \in Client /\ at.pc = pc /\ at.dir = clients[c].dir /\ at.name = clients[c].name
         /\ libraryOps \in 0..MaxLibraryOps /\ libraryFaults \in 0..MaxLibraryFaults
         /\ halfMade \subseteq Slugs
         /\ clients[c].pc # "idle" => clients[c].dir \in Slugs /\ skillDirs[clients[c].dir] \in SkillDir
<1>1. clients[c] \in Client /\ AtRest \in Client /\ AtRest.pc = "idle"
  BY DEF LibraryInv, LibraryTypeOK, AtRest, Client, LibraryPCs
<1>2. \A pc \in LibraryPCs :
        LET at == [clients[c] EXCEPT !.pc = pc]
        IN  at \in Client /\ at.pc = pc /\ at.dir = clients[c].dir /\ at.name = clients[c].name
  BY <1>1 DEF Client
<1>3. QED
  BY <1>1, <1>2 DEF LibraryInv, LibraryTypeOK, ClientsPlaced

\* The steps that only look.
LEMMA LooksKeep ==
  ASSUME LibraryInv, NEW c \in Clients, StatDestination(c) \/ ReadManifest(c)
  PROVE  LibraryInv'
<1> DEFINE marked == [clients[c] EXCEPT !.pc = "write", !.third = skillDirs[clients[c].dir].third,
                                        !.modified = TRUE]
<1>5. (\E pc \in {"copy", "clear"} : clients' = [clients EXCEPT ![c] = [clients[c] EXCEPT !.pc = pc]])
        => clients[c].name \in SkillNames
  <2>1. CASE StatDestination(c)
    BY <2>1 DEF StatDestination, LibraryInv, ClientsPlaced, Naming
  <2>2. CASE ReadManifest(c)
    <3>1. clients \in [Clients -> Client] /\ AtRest.pc = "idle" /\ clients[c].pc = "mark"
      BY <2>2 DEF LibraryInv, LibraryTypeOK, AtRest, ReadManifest
    <3>2. clients' = [clients EXCEPT ![c] = AtRest] \/ clients' = [clients EXCEPT ![c] = marked]
      BY <2>2, <3>1 DEF ReadManifest, Done
    <3>3. clients[c] \in Client
      BY <3>1
    <3>4. marked.pc = "write" /\ \A pc \in {"copy", "clear"} : [clients[c] EXCEPT !.pc = pc].pc = pc
      BY <3>3 DEF Client
    <3> HIDE DEF marked
    <3>5. clients'[c] = AtRest \/ clients'[c] = marked
      BY <3>1, <3>2
    <3>6. clients'[c].pc \in {"idle", "write"}
      BY <3>1, <3>4, <3>5
    <3>7. ASSUME NEW pc \in {"copy", "clear"}, clients' = [clients EXCEPT ![c] = [clients[c] EXCEPT !.pc = pc]]
          PROVE  FALSE
      <4>1. clients'[c] = [clients[c] EXCEPT !.pc = pc]
        BY <3>1, <3>7
      <4>2. clients'[c].pc = pc
        BY <4>1, <3>4
      <4>3. QED
        BY <4>2, <3>6
    <3>8. QED
      BY <3>7
  <2>3. QED
    BY <2>1, <2>2
<1>1. /\ clients[c].pc \in {"stat", "mark"} /\ UNCHANGED <<skillDirs, halfMade, libraryOps, libraryFaults>>
      /\ \/ \E pc \in {"copy", "clear"} : clients' = [clients EXCEPT ![c] = [clients[c] EXCEPT !.pc = pc]]
         \/ clients' = [clients EXCEPT ![c] = AtRest]
         \/ clients' = [clients EXCEPT ![c] = marked]
  <2>1. clients \in [Clients -> Client]
    BY DEF LibraryInv, LibraryTypeOK
  <2>2. CASE StatDestination(c)
    BY <2>1, <2>2 DEF StatDestination, ClientGoes, Done
  <2>3. CASE ReadManifest(c)
    BY <2>1, <2>3 DEF ReadManifest, Done
  <2>4. QED
    BY <2>2, <2>3
<1>2. clients[c].dir \in Slugs /\ skillDirs[clients[c].dir] \in SkillDir /\ clients[c] \in Client
  BY <1>1, ClientFacts
<1>3. marked \in Client /\ marked.dir = clients[c].dir /\ marked.pc = "write"
  BY <1>2 DEF Client, SkillDir, LibraryPCs
<1> HIDE DEF marked
<1>4. PICK at \in Client : /\ clients' = [clients EXCEPT ![c] = at]
                           /\ at.pc # "idle" => at.dir \in Slugs
                           /\ at.pc \in Naming => at.name \in SkillNames
  <2>1. CASE \E pc \in {"copy", "clear"} : clients' = [clients EXCEPT ![c] = [clients[c] EXCEPT !.pc = pc]]
    <3>1. PICK pc \in {"copy", "clear"} : clients' = [clients EXCEPT ![c] = [clients[c] EXCEPT !.pc = pc]]
      BY <2>1
    <3>2. pc \in LibraryPCs
      BY DEF LibraryPCs
    <3>3. clients[c].name \in SkillNames
      BY <2>1, <1>5
    <3>4. QED
      BY <3>1, <3>2, <3>3, <1>2, ClientFacts
  <2>2. CASE clients' = [clients EXCEPT ![c] = AtRest]
    BY <2>2, ClientFacts DEF Naming
  <2>3. CASE clients' = [clients EXCEPT ![c] = marked]
    BY <2>3, <1>2, <1>3 DEF Naming
  <2>4. QED
    BY <1>1, <2>1, <2>2, <2>3
<1>6. libraryOps' \in 0..MaxLibraryOps /\ libraryFaults' \in 0..MaxLibraryFaults
  BY <1>1 DEF LibraryInv, LibraryTypeOK
<1>7. QED
  BY <1>1, <1>4, <1>6, NothingWritten

LEMMA ClearDestinationKeeps ==
  ASSUME LibraryInv, NEW c \in Clients, ClearDestination(c)
  PROVE  LibraryInv'
<1> DEFINE d == clients[c].dir
           at == [clients[c] EXCEPT !.pc = "copy"]
<1>1. clients[c].pc = "clear" /\ skillDirs' = [skillDirs EXCEPT ![d] = NoDir]
      /\ halfMade' = halfMade \ {d} /\ clients' = [clients EXCEPT ![c].pc = "copy"]
      /\ UNCHANGED <<libraryOps, libraryFaults>>
  BY DEF ClearDestination, ClientGoes
<1>2. d \in Slugs
  BY <1>1, ClientFacts
<1>3. at \in Client /\ at.pc = "copy" /\ at.dir = d /\ at.name \in SkillNames
  BY <1>1, ClientFacts DEF LibraryPCs, LibraryInv, ClientsPlaced, Naming
<1>4. clients' = [clients EXCEPT ![c] = at]
  BY <1>1 DEF LibraryInv, LibraryTypeOK
<1>5. NoDir \in SkillDir /\ NoDir.md = "none" /\ NoDir.manifest = "none"
  BY DEF NoDir, SkillDir, FileStates
<1>6. /\ halfMade' \subseteq Slugs /\ \A e \in Slugs \ {d} : e \in halfMade => e \in halfMade'
      /\ libraryOps' \in 0..MaxLibraryOps /\ libraryFaults' \in 0..MaxLibraryFaults
  BY <1>1 DEF LibraryInv, LibraryTypeOK
<1> HIDE DEF d, at
<1>7. QED
  BY <1>1, <1>2, <1>3, <1>4, <1>5, <1>6, ClientMoves

LEMMA CopyMarkdownKeeps ==
  ASSUME LibraryInv, NEW c \in Clients, CopyMarkdown(c)
  PROVE  LibraryInv'
<1> DEFINE d == clients[c].dir
           at == [clients[c] EXCEPT !.pc = "copying"]
           dir == [skillDirs[d] EXCEPT !.there = TRUE, !.md = "torn", !.writer = c]
<1>1. clients[c].pc = "copy"
      /\ skillDirs' = [skillDirs EXCEPT ![d].there = TRUE, ![d].md = "torn", ![d].writer = c]
      /\ clients' = [clients EXCEPT ![c].pc = "copying"]
      /\ UNCHANGED <<halfMade, libraryOps, libraryFaults>>
  BY DEF CopyMarkdown, ClientGoes
<1>2. d \in Slugs /\ skillDirs[d] \in SkillDir
  BY <1>1, ClientFacts
<1>3. at \in Client /\ at.pc = "copying" /\ at.dir = d /\ at.name \in SkillNames
  BY <1>1, ClientFacts DEF LibraryPCs, LibraryInv, ClientsPlaced, Naming
<1>4. clients' = [clients EXCEPT ![c] = at] /\ clients'[c] = at
  BY <1>1 DEF LibraryInv, LibraryTypeOK
<1>5. skillDirs' = [skillDirs EXCEPT ![d] = dir]
  BY <1>1, <1>2 DEF LibraryInv, LibraryTypeOK
<1>6. dir \in SkillDir /\ dir.md = "torn" /\ dir.manifest = skillDirs[d].manifest /\ dir.writer = c
  BY <1>2 DEF SkillDir, FileStates
<1>7. /\ halfMade' = halfMade /\ halfMade' \subseteq Slugs
      /\ libraryOps' \in 0..MaxLibraryOps /\ libraryFaults' \in 0..MaxLibraryFaults
  BY <1>1 DEF LibraryInv, LibraryTypeOK
<1> HIDE DEF d, at, dir
<1>8. OnlyMoves(c)
  BY <1>7, <1>4 DEF LibraryInv, LibraryTypeOK, OnlyMoves
<1>9. dir.manifest = "torn" =>
        d \in halfMade' \/ \E k \in Clients : clients'[k].dir = d /\ clients'[k].pc = "writing"
  <2>1. d \in Slugs /\ clients[c].pc # "writing"
    BY <1>1, <1>2
  <2>2. skillDirs[d].manifest = "torn" =>
          d \in halfMade' \/ \E k \in Clients : clients'[k].dir = d /\ clients'[k].pc = "writing"
    BY <2>1, <1>8, OthersTear
  <2>3. QED
    BY <2>2, <1>6
<1>10. clients[c].pc \notin {"copying", "writing"} /\ at.pc # "idle" /\ at.pc \in Naming
  BY <1>1, <1>3 DEF Naming
<1>11. d \in halfMade' \/ \E k \in Clients : /\ clients'[k].dir = d /\ clients'[k].pc = "copying"
                                             /\ dir.writer = k
  BY <1>3, <1>4, <1>6
<1>12. QED
  BY <1>2, <1>3, <1>4, <1>5, <1>6, <1>7, <1>9, <1>10, <1>11, ClientMoves

LEMMA CopyResourcesKeeps ==
  ASSUME LibraryInv, NEW c \in Clients, CopyResources(c)
  PROVE  LibraryInv'
<1> DEFINE d == clients[c].dir
           at == [clients[c] EXCEPT !.pc = "write"]
<1>1. clients[c].pc = "copying" /\ clients' = [clients EXCEPT ![c].pc = "write"]
      /\ UNCHANGED <<halfMade, libraryOps, libraryFaults>>
  BY DEF CopyResources, ClientGoes
<1>2. d \in Slugs /\ skillDirs[d] \in SkillDir /\ clients[c].name \in SkillNames
  BY <1>1, ClientFacts DEF LibraryInv, ClientsPlaced, Naming
<1>3. at \in Client /\ at.pc = "write" /\ at.dir = d
  BY ZenonT(30), ClientFacts DEF LibraryPCs
<1>4. clients' = [clients EXCEPT ![c] = at]
  BY <1>1 DEF LibraryInv, LibraryTypeOK
<1>5. PICK resources \in BOOLEAN :
        skillDirs' = [skillDirs EXCEPT ![d].there = @ \/ resources,
                        ![d].md = IF skillDirs[d].writer = c THEN "whole" ELSE @,
                        ![d].name = IF skillDirs[d].writer = c THEN clients[c].name ELSE @]
  BY ZenonT(30) DEF CopyResources
<1> DEFINE dir == [skillDirs[d] EXCEPT
                     !.there = @ \/ resources,
                     !.md = IF skillDirs[d].writer = c THEN "whole" ELSE @,
                     !.name = IF skillDirs[d].writer = c THEN clients[c].name ELSE @]
<1>6. skillDirs' = [skillDirs EXCEPT ![d] = dir]
  BY <1>2, <1>5 DEF LibraryInv, LibraryTypeOK
<1>7. /\ dir \in SkillDir /\ dir.manifest = skillDirs[d].manifest /\ dir.writer = skillDirs[d].writer
      /\ dir.md = IF skillDirs[d].writer = c THEN "whole" ELSE skillDirs[d].md
  BY <1>2 DEF SkillDir, FileStates
<1>8. /\ halfMade' = halfMade /\ halfMade' \subseteq Slugs
      /\ libraryOps' \in 0..MaxLibraryOps /\ libraryFaults' \in 0..MaxLibraryFaults
  BY <1>1 DEF LibraryInv, LibraryTypeOK
<1> HIDE DEF d, at, dir
<1>9. OnlyMoves(c)
  BY <1>8, <1>4 DEF LibraryInv, LibraryTypeOK, OnlyMoves
<1>10. dir.manifest = "torn" =>
         d \in halfMade' \/ \E k \in Clients : clients'[k].dir = d /\ clients'[k].pc = "writing"
  <2>1. d \in Slugs /\ clients[c].pc # "writing"
    BY <1>1, <1>2
  <2>2. skillDirs[d].manifest = "torn" =>
          d \in halfMade' \/ \E k \in Clients : clients'[k].dir = d /\ clients'[k].pc = "writing"
    BY <2>1, <1>9, OthersTear
  <2>3. QED
    BY <2>2, <1>7
<1>11. dir.md = "torn" =>
         d \in halfMade' \/ \E k \in Clients : /\ clients'[k].dir = d /\ clients'[k].pc = "copying"
                                               /\ dir.writer = k
  BY <1>2, <1>7, <1>8, <1>9, OthersTear
<1>12. clients[c].dir = d /\ at.pc \notin Naming
  BY <1>3 DEF d, Naming
<1>13. QED
  BY <1>2, <1>3, <1>4, <1>6, <1>7, <1>8, <1>10, <1>11, <1>12, ClientMoves

LEMMA WriteManagedSkillFileKeeps ==
  ASSUME LibraryInv, NEW c \in Clients, WriteManagedSkillFile(c)
  PROVE  LibraryInv'
<1> DEFINE d == clients[c].dir
           at == [clients[c] EXCEPT !.pc = "mark"]
           dir == IF clients[c].name = NoSkill THEN [skillDirs[d] EXCEPT !.there = TRUE]
                  ELSE [skillDirs[d] EXCEPT !.there = TRUE, !.md = "whole", !.name = clients[c].name,
                                            !.writer = c]
<1>1. clients[c].pc = "edit" /\ clients' = [clients EXCEPT ![c].pc = "mark"]
      /\ UNCHANGED <<halfMade, libraryOps, libraryFaults>>
      /\ skillDirs' = IF clients[c].name = NoSkill THEN [skillDirs EXCEPT ![d].there = TRUE]
                      ELSE [skillDirs EXCEPT ![d].there = TRUE, ![d].md = "whole",
                                             ![d].name = clients[c].name, ![d].writer = c]
  BY DEF WriteManagedSkillFile, ClientGoes
<1>2. d \in Slugs /\ skillDirs[d] \in SkillDir /\ clients[c].name \in SkillNames \cup {NoSkill}
  BY <1>1, ClientFacts DEF Client
<1>3. at \in Client /\ at.pc = "mark" /\ at.dir = d
  BY ClientFacts DEF LibraryPCs
<1>4. clients' = [clients EXCEPT ![c] = at]
  BY <1>1 DEF LibraryInv, LibraryTypeOK
<1>5. skillDirs' = [skillDirs EXCEPT ![d] = dir]
  BY <1>1, <1>2 DEF LibraryInv, LibraryTypeOK
<1>6. /\ dir \in SkillDir /\ dir.manifest = skillDirs[d].manifest
      /\ dir.md = "torn" => skillDirs[d].md = "torn" /\ dir.writer = skillDirs[d].writer
  BY <1>2 DEF SkillDir, FileStates
<1>7. /\ halfMade' = halfMade /\ halfMade' \subseteq Slugs
      /\ libraryOps' \in 0..MaxLibraryOps /\ libraryFaults' \in 0..MaxLibraryFaults
  BY <1>1 DEF LibraryInv, LibraryTypeOK
<1> HIDE DEF d, at, dir
<1>8. OnlyMoves(c)
  BY <1>7, <1>4 DEF LibraryInv, LibraryTypeOK, OnlyMoves
<1>9. dir.manifest = "torn" =>
        d \in halfMade' \/ \E k \in Clients : clients'[k].dir = d /\ clients'[k].pc = "writing"
  <2>1. d \in Slugs /\ clients[c].pc # "writing"
    BY <1>1, <1>2
  <2>2. skillDirs[d].manifest = "torn" =>
          d \in halfMade' \/ \E k \in Clients : clients'[k].dir = d /\ clients'[k].pc = "writing"
    BY <2>1, <1>8, OthersTear
  <2>3. QED
    BY <2>2, <1>6
<1>10. dir.md = "torn" =>
         d \in halfMade' \/ \E k \in Clients : /\ clients'[k].dir = d /\ clients'[k].pc = "copying"
                                               /\ dir.writer = k
  <2>1. d \in Slugs /\ clients[c].pc # "copying"
    BY <1>1, <1>2
  <2>2. skillDirs[d].md = "torn" =>
          d \in halfMade' \/ \E k \in Clients : /\ clients'[k].dir = d /\ clients'[k].pc = "copying"
                                                 /\ skillDirs[d].writer = k
    BY <2>1, <1>8, OthersTear
  <2>3. QED
    BY <2>2, <1>6
<1>11. at.pc \notin Naming /\ clients[c].pc \notin {"copying", "writing"}
  BY <1>1, <1>3 DEF Naming
<1>12. QED
  BY <1>2, <1>3, <1>4, <1>5, <1>6, <1>7, <1>9, <1>10, <1>11, ClientMoves

LEMMA WriteManifestKeeps ==
  ASSUME LibraryInv, NEW c \in Clients, WriteManifest(c)
  PROVE  LibraryInv'
<1> DEFINE d == clients[c].dir
           at == [clients[c] EXCEPT !.pc = "writing"]
           dir == [skillDirs[d] EXCEPT !.manifest = "torn"]
<1>1. clients[c].pc = "write" /\ UNCHANGED <<halfMade, libraryOps, libraryFaults>>
  BY DEF WriteManifest
<1>2. d \in Slugs /\ skillDirs[d] \in SkillDir
  BY <1>1, ClientFacts
<1>3. /\ halfMade' = halfMade /\ halfMade' \subseteq Slugs
      /\ libraryOps' \in 0..MaxLibraryOps /\ libraryFaults' \in 0..MaxLibraryFaults
  BY <1>1 DEF LibraryInv, LibraryTypeOK
<1>4. CASE ~skillDirs[d].there
  <2>1. skillDirs' = skillDirs /\ clients' = [clients EXCEPT ![c] = AtRest]
    BY <1>4 DEF WriteManifest, Done
  <2>2. AtRest \in Client /\ AtRest.pc = "idle"
    BY ClientFacts
  <2>3. QED
    BY <1>1, <1>3, <2>1, <2>2, NothingWritten DEF Naming
<1>5. CASE skillDirs[d].there
  <2>1. skillDirs' = [skillDirs EXCEPT ![d].manifest = "torn"] /\ clients' = [clients EXCEPT ![c].pc = "writing"]
    BY <1>5 DEF WriteManifest, ClientGoes
  <2>2. at \in Client /\ at.pc = "writing" /\ at.dir = d
    BY ClientFacts DEF LibraryPCs
  <2>3. clients' = [clients EXCEPT ![c] = at] /\ clients'[c] = at
    BY <2>1 DEF LibraryInv, LibraryTypeOK
  <2>4. skillDirs' = [skillDirs EXCEPT ![d] = dir]
    BY <2>1, <1>2 DEF LibraryInv, LibraryTypeOK
  <2>5. dir \in SkillDir /\ dir.md = skillDirs[d].md /\ dir.writer = skillDirs[d].writer
    BY <1>2 DEF SkillDir, FileStates
  <2> HIDE DEF d, at, dir
  <2>6. OnlyMoves(c)
    BY <1>3, <2>3 DEF LibraryInv, LibraryTypeOK, OnlyMoves
  <2>7. dir.md = "torn" =>
          d \in halfMade' \/ \E k \in Clients : /\ clients'[k].dir = d /\ clients'[k].pc = "copying"
                                                /\ dir.writer = k
    <3>1. d \in Slugs /\ clients[c].pc # "copying"
      BY <1>1, <1>2
    <3>2. skillDirs[d].md = "torn" =>
            d \in halfMade' \/ \E k \in Clients : /\ clients'[k].dir = d /\ clients'[k].pc = "copying"
                                                   /\ skillDirs[d].writer = k
      BY <3>1, <2>6, OthersTear
    <3>3. QED
      BY <3>2, <2>5
  <2>8. \E k \in Clients : clients'[k].dir = d /\ clients'[k].pc = "writing"
    BY <2>2, <2>3
  <2>9. at.pc \notin Naming /\ clients[c].pc \notin {"copying", "writing"}
    BY <1>1, <2>2 DEF Naming
  <2>10. QED
    BY <1>2, <1>3, <2>2, <2>3, <2>4, <2>5, <2>7, <2>8, <2>9, ClientMoves
<1>6. QED
  BY <1>4, <1>5

LEMMA FinishManifestKeeps ==
  ASSUME LibraryInv, NEW c \in Clients, FinishManifest(c)
  PROVE  LibraryInv'
<1> DEFINE d == clients[c].dir
           dir == IF skillDirs[d].manifest = "none" THEN skillDirs[d]
                  ELSE [skillDirs[d] EXCEPT !.manifest = "whole", !.third = clients[c].third,
                                            !.modified = clients[c].modified]
<1>1. clients[c].pc = "writing" /\ UNCHANGED <<halfMade, libraryOps, libraryFaults>>
      /\ clients' = [clients EXCEPT ![c] = AtRest]
      /\ skillDirs' = IF skillDirs[d].manifest = "none" THEN skillDirs
                      ELSE [skillDirs EXCEPT ![d].manifest = "whole", ![d].third = clients[c].third,
                                             ![d].modified = clients[c].modified]
  BY DEF FinishManifest, Done
<1>2. d \in Slugs /\ skillDirs[d] \in SkillDir /\ clients[c] \in Client
  BY <1>1, ClientFacts
<1>3. skillDirs' = [skillDirs EXCEPT ![d] = dir]
  BY <1>1, <1>2 DEF LibraryInv, LibraryTypeOK
<1>4. /\ dir \in SkillDir /\ dir.manifest # "torn" /\ dir.md = skillDirs[d].md
      /\ dir.writer = skillDirs[d].writer
  BY <1>2 DEF SkillDir, FileStates, Client
<1>5. /\ halfMade' = halfMade /\ halfMade' \subseteq Slugs
      /\ libraryOps' \in 0..MaxLibraryOps /\ libraryFaults' \in 0..MaxLibraryFaults
  BY <1>1 DEF LibraryInv, LibraryTypeOK
<1>6. AtRest \in Client /\ AtRest.pc = "idle" /\ clients[c].dir = d
  BY ClientFacts
<1> HIDE DEF d, dir
<1>7. OnlyMoves(c)
  BY <1>5, <1>1 DEF LibraryInv, LibraryTypeOK, OnlyMoves
<1>8. dir.md = "torn" =>
        d \in halfMade' \/ \E k \in Clients : /\ clients'[k].dir = d /\ clients'[k].pc = "copying"
                                              /\ dir.writer = k
  <2>1. d \in Slugs /\ clients[c].pc # "copying"
    BY <1>1, <1>2
  <2>2. skillDirs[d].md = "torn" =>
          d \in halfMade' \/ \E k \in Clients : /\ clients'[k].dir = d /\ clients'[k].pc = "copying"
                                                 /\ skillDirs[d].writer = k
    BY <2>1, <1>7, OthersTear
  <2>3. QED
    BY <2>2, <1>4
<1>9. AtRest.pc \notin Naming /\ (clients[c].pc \in {"copying", "writing"} => clients[c].dir = d)
  BY <1>6 DEF Naming
<1>10. \A e \in Slugs \ {d} : e \in halfMade => e \in halfMade'
  BY <1>5
<1>11. clients' = [clients EXCEPT ![c] = AtRest]
  BY <1>1
<1>12. (AtRest.pc # "idle" => AtRest.dir \in Slugs) /\ (AtRest.pc \in Naming => AtRest.name \in SkillNames)
  BY <1>6, <1>9
<1>13. dir.manifest = "torn" =>
         d \in halfMade' \/ \E k \in Clients : clients'[k].dir = d /\ clients'[k].pc = "writing"
  BY <1>4
<1>14. dir \in SkillDir /\ AtRest \in Client
  BY <1>4, <1>6
<1>15. QED
  BY <1>2, <1>3, <1>5, <1>8, <1>9, <1>10, <1>11, <1>12, <1>13, <1>14, ClientMoves

LEMMA EndsEarlyKeeps ==
  ASSUME LibraryInv, NEW c \in Clients, EndsEarly(c)
  PROVE  LibraryInv'
<1>1. /\ clients[c].pc # "idle" /\ clients' = [clients EXCEPT ![c] = AtRest]
      /\ halfMade' = IF clients[c].pc \in {"copying", "writing"} THEN halfMade \cup {clients[c].dir}
                     ELSE halfMade
      /\ skillDirs' = skillDirs /\ libraryOps' = libraryOps
      /\ libraryFaults < MaxLibraryFaults /\ libraryFaults' = libraryFaults + 1
  BY DEF EndsEarly, Done
<1>2. AtRest \in Client /\ AtRest.pc = "idle" /\ clients[c].dir \in Slugs
  BY <1>1, ClientFacts
<1>3. clients \in [Clients -> Client] /\ \A k \in Clients : clients'[k] = IF k = c THEN AtRest ELSE clients[k]
  BY <1>1 DEF LibraryInv, LibraryTypeOK
<1>4. libraryFaults' \in 0..MaxLibraryFaults
  BY <1>1, SkillLibraryAssumption DEF LibraryInv, LibraryTypeOK
<1>5. LibraryTypeOK'
  BY <1>1, <1>2, <1>3, <1>4 DEF LibraryInv, LibraryTypeOK
<1>6. ClientsPlaced'
  BY <1>2, <1>3 DEF LibraryInv, ClientsPlaced, Naming
<1>7. ASSUME NEW d \in Slugs, NEW k \in Clients, clients[k].dir = d, clients[k].pc \in {"copying", "writing"}
      PROVE  d \in halfMade' \/ clients'[k] = clients[k]
  BY <1>1, <1>3, <1>7
<1>8. \A d \in Slugs : d \in halfMade => d \in halfMade'
  BY <1>1
<1>9. TornExplained'
  BY <1>1, <1>7, <1>8 DEF LibraryInv, TornExplained
<1>10. QED
  BY <1>5, <1>6, <1>9 DEF LibraryInv

LEMMA LibraryStep == LibraryInv /\ [LibraryNext]_libraryVars => LibraryInv'
<1> SUFFICES ASSUME LibraryInv, [LibraryNext]_libraryVars PROVE LibraryInv'
  OBVIOUS
<1>1. CASE UNCHANGED libraryVars
  BY <1>1 DEF libraryVars, LibraryInv, LibraryTypeOK, ClientsPlaced, TornExplained
<1>2. CASE LibraryNext
  BY <1>2, OpsBegin, LooksKeep, ClearDestinationKeeps, CopyMarkdownKeeps, CopyResourcesKeeps,
     WriteManagedSkillFileKeeps, WriteManifestKeeps, FinishManifestKeeps, EndsEarlyKeeps DEF LibraryNext
<1>3. QED
  BY <1>1, <1>2

LEMMA LibraryTells == LibraryInv => LibraryTypeOK /\ OnlyUnfinishedIsBroken
<1> SUFFICES ASSUME LibraryInv PROVE OnlyUnfinishedIsBroken
  BY DEF LibraryInv
<1>1. QED
  BY DEF LibraryInv, TornExplained, OnlyUnfinishedIsBroken, Warned

-----------------------------------------------------------------------------
(* Configuration: the document, the workspaces and the key pair.           *)

(* The settings of a provider.                                             *)

ProviderTypes == {"openai", "openai_compat", "anthropic", "vertex"}

Shaped(p) ==
  p = [type |-> p.type, base |-> p.base, key |-> p.key, model |-> p.model,
       project |-> p.project, location |-> p.location, effort |-> p.effort]

\* What "provider add" hands on is ready, however it was called.
LEMMA AddedIsReady ==
  ASSUME NEW in \in Settings, ProviderAdd(in) # None
  PROVE  ProviderIsComplete(ProviderAdd(in))
<1> DEFINE p == NormalizeProviderConfig(in)
           route == OpenCodeGoRouteForModel(p.model)
           routed == p.model \in GoModels
           q == IF routed /\ p.model \in DOMAIN GoBackend
                THEN [p EXCEPT !.type = route.type, !.base = route.base] ELSE p
           refused == \/ routed /\ \/ p.model \notin DOMAIN GoBackend
                                   \/ in.type # "unset" /\ p.type # route.type
                                   \/ p.base \notin {"", route.base}
                      \/ q.type \notin DOMAIN Efforts
                      \/ q.type = "openai_compat" /\ q.base = ""
                      \/ q.type = "vertex" /\ (q.project = "" \/ q.location = "")
                      \/ q.model = "" \/ ~ValidEffort(q)
                      \/ q.type # "vertex" /\ q.key = ""
           added == IF q.type = "vertex" THEN [q EXCEPT !.key = ""] ELSE q
<1>1. Shaped(p)
  <2> DEFINE base == IF in.type = "mistral" /\ in.base = "" THEN "mistral url" ELSE in.base
             model == IF in.type = "mistral" /\ in.model = "" THEN "mistral model" ELSE in.model
             type == ProviderType(in.type)
  <2>1. Shaped(in)
    BY DEF Settings, Shaped
  <2>2. p = [in EXCEPT !.type = type, !.base = base, !.model = model]
    BY DEF NormalizeProviderConfig
  <2> HIDE DEF p, base, model, type
  <2>3. QED
    BY <2>1, <2>2 DEF Shaped
<1>3. ProviderAdd(in) = IF refused THEN None ELSE added
  BY DEF ProviderAdd
<1> HIDE DEF p, route
<1>4. Shaped(q)
  BY <1>1 DEF Shaped
<1> HIDE DEF q
<1>5. ~refused /\ ProviderAdd(in) = added
  <2> HIDE DEF refused, added
  <2>1. QED
    BY <1>3
<1>7. /\ q.type \in ProviderTypes /\ q.model # ""
      /\ q.type = "openai_compat" => q.base # ""
      /\ q.type = "vertex" => q.project # "" /\ q.location # ""
      /\ q.type # "vertex" => q.key # ""
  BY <1>5, ConfigurationAssumption DEF ProviderTypes
<1>8. ProviderIsComplete(added)
  <2>1. CASE q.type = "vertex"
    <3>1. added = [q EXCEPT !.key = ""]
      BY <2>1
    <3>2. added.type = "vertex" /\ added.model = q.model /\ added.project = q.project
          /\ added.location = q.location
      BY <3>1, <2>1, <1>4 DEF Shaped
    <3> HIDE DEF added
    <3>3. QED
      BY <3>2, <1>7, <2>1 DEF ProviderIsComplete
  <2>2. CASE q.type # "vertex"
    <3>1. added = q
      BY <2>2
    <3>2. QED
      BY <3>1, <1>7, <2>2 DEF ProviderIsComplete, ProviderTypes
  <2>3. QED
    BY <2>1, <2>2
<1>9. QED
  BY <1>5, <1>8

-----------------------------------------------------------------------------
(* Documents.                                                              *)

IsDocument(d) ==
  /\ d \in [Entries -> Contents]
  /\ \A s \in Servers : d[s] = None \/ d[s] \in ServerEntries
AllReady(d) == \A p \in Providers : d[p] # None => ProviderIsComplete(d[p])

Saves == {"switch", "slack", "provider", "mcp add", "mcp remove", "mcp auth"}

LEMMA JobFacts ==
  ASSUME NEW j \in Jobs
  PROVE  /\ j.kind \in {"switch", "create", "delete", "open"} => j.name \in Workspaces
         /\ j.kind = "slack" => j.name = "slack"
         /\ j.kind = "provider" => j.name \in Providers /\ j.input \in ProviderInputs
         /\ j.kind \in {"mcp add", "mcp remove", "mcp auth"} => j.name \in Servers
         /\ j.kind \in Saves \cup {"create", "delete", "open"}
         /\ j.kind \in Saves => Entry(j) \in Entries
<1>1. /\ j.kind \in {"switch", "create", "delete", "open"} => j.name \in Workspaces
      /\ j.kind = "slack" => j.name = "slack"
      /\ j.kind = "provider" => j.name \in Providers /\ j.input \in ProviderInputs
      /\ j.kind \in {"mcp add", "mcp remove", "mcp auth"} => j.name \in Servers
      /\ j.kind \in Saves \cup {"create", "delete", "open"}
  <2>1. CASE j \in [kind : {"switch", "create", "delete", "open"}, name : Workspaces]
    BY <2>1 DEF Saves
  <2>2. CASE j \in [kind : {"slack"}, name : {"slack"}]
    BY <2>2 DEF Saves
  <2>3. CASE j \in [kind : {"provider"}, name : Providers, input : ProviderInputs, overwrite : BOOLEAN]
    BY <2>3 DEF Saves
  <2>4. CASE j \in [kind : {"mcp add"}, name : Servers, overwrite : BOOLEAN]
    BY <2>4 DEF Saves
  <2>5. CASE j \in [kind : {"mcp remove", "mcp auth"}, name : Servers]
    BY <2>5 DEF Saves
  <2>6. QED
    BY <2>1, <2>2, <2>3, <2>4, <2>5 DEF Jobs
<1>2. QED
  BY <1>1, ConfigurationAssumption DEF Entry, Entries, Saves

LEMMA Documents ==
  /\ IsDocument(NoDocument) /\ AllReady(NoDocument) /\ \A e \in Entries : NoDocument[e] = None
  /\ \A d : IsDocument(d) => d # Garbage
<1>1. NoDocument \in [Entries -> Contents] /\ \A e \in Entries : NoDocument[e] = None
  BY DEF NoDocument, Contents
<1>2. Servers \subseteq Entries /\ Providers \subseteq Entries
  BY DEF Entries
<1>3. QED
  BY <1>1, <1>2, ConfigurationAssumption, DocumentsAssumption DEF IsDocument, AllReady

\* One entry of a document is given a value.
LEMMA OneEntry ==
  ASSUME NEW d, IsDocument(d), NEW e \in Entries, NEW v \in Contents,
         e \in Servers => v = None \/ v \in ServerEntries
  PROVE  /\ IsDocument([d EXCEPT ![e] = v])
         /\ [d EXCEPT ![e] = v][e] = v
         /\ \A x \in Entries \ {e} : [d EXCEPT ![e] = v][x] = d[x]
BY DEF IsDocument, Entries

\* What a saving command makes of the document it read: it changes its own entry and
\* no other, a switch names a workspace that has a database, and a provider is ready.
LEMMA EditsOneEntry ==
  ASSUME NEW j \in Jobs, j.kind \in Saves, NEW d, IsDocument(d), AllReady(d), NEW live,
         Edited(j, d, live) # None
  PROVE  /\ IsDocument(Edited(j, d, live)) /\ AllReady(Edited(j, d, live))
         /\ \A e \in Entries \ {Entry(j)} : Edited(j, d, live)[e] = d[e]
         /\ j.kind = "switch" => Edited(j, d, live)["current"] = j.name /\ j.name \in db
<1> DEFINE new == Edited(j, d, live)
<1>1. SUFFICES ASSUME NEW v \in Contents, new = [d EXCEPT ![Entry(j)] = v],
                      Entry(j) \in Servers => v = None \/ v \in ServerEntries,
                      Entry(j) \in Providers => v = None \/ ProviderIsComplete(v),
                      j.kind = "switch" => v = j.name /\ j.name \in db
               PROVE  /\ IsDocument(new) /\ AllReady(new)
                      /\ \A e \in Entries \ {Entry(j)} : new[e] = d[e]
                      /\ j.kind = "switch" => new["current"] = j.name /\ j.name \in db
  <2> DEFINE Fits(v) == /\ v \in Contents /\ new = [d EXCEPT ![Entry(j)] = v]
                        /\ Entry(j) \in Servers => v = None \/ v \in ServerEntries
                        /\ Entry(j) \in Providers => v = None \/ ProviderIsComplete(v)
                        /\ j.kind = "switch" => v = j.name /\ j.name \in db
  <2>1. CASE j.kind = "switch"
    <3>1. new = SaveWorkspaceCurrent(j, d) /\ Entry(j) = "current" /\ j.name \in Workspaces
      BY <2>1, JobFacts DEF Edited, Entry
    <3>2. Fits(j.name)
      BY <3>1, <2>1, ConfigurationAssumption DEF SaveWorkspaceCurrent, Contents
    <3>3. QED
      BY <3>2, <1>1
  <2>2. CASE j.kind = "slack"
    <3>1. new = SaveSlackUserToken(j, d) /\ Entry(j) = "slack"
      BY <2>2, JobFacts DEF Edited, Entry
    <3>2. Fits("token")
      BY <3>1, <2>2, ConfigurationAssumption DEF SaveSlackUserToken, Contents
    <3>3. QED
      BY <3>2, <1>1
  <2>3. CASE j.kind = "provider"
    <3>1. new = SaveProvider(j, d) /\ Entry(j) = j.name /\ j.name \in Providers /\ j.input \in ProviderInputs
      BY <2>3, JobFacts DEF Edited, Entry
    <3>2. ProviderAdd(j.input) # None /\ new = [d EXCEPT ![j.name] = ProviderAdd(j.input)]
      BY <3>1 DEF SaveProvider
    <3>3. ProviderAdd(j.input) \in Contents /\ ProviderIsComplete(ProviderAdd(j.input))
      BY <3>1, <3>2, AddedIsReady, ConfigurationAssumption DEF Contents
    <3>4. Fits(ProviderAdd(j.input))
      BY <3>1, <3>2, <3>3, <2>3, ConfigurationAssumption
    <3>5. QED
      BY <3>4, <1>1
  <2>4. CASE j.kind = "mcp add"
    <3>1. new = SaveMCPServer(j, d) /\ Entry(j) = j.name /\ j.name \in Servers
      BY <2>4, JobFacts DEF Edited, Entry
    <3>2. new = [d EXCEPT ![j.name] = [enabled |-> FALSE, env |-> TRUE]]
      BY <3>1 DEF SaveMCPServer
    <3>3. [enabled |-> FALSE, env |-> TRUE] \in ServerEntries
      BY DEF ServerEntries
    <3>4. Fits([enabled |-> FALSE, env |-> TRUE])
      BY <3>1, <3>2, <3>3, <2>4, ConfigurationAssumption DEF Contents
    <3>5. QED
      BY <3>4, <1>1
  <2>5. CASE j.kind = "mcp remove"
    <3>1. new = DeleteMCPServer(j, d) /\ Entry(j) = j.name /\ j.name \in Servers
      BY <2>5, JobFacts DEF Edited, Entry
    <3>2. new = [d EXCEPT ![j.name] = None]
      BY <3>1 DEF DeleteMCPServer
    <3>3. Fits(None)
      BY <3>1, <3>2, <2>5, ConfigurationAssumption DEF Contents
    <3>4. QED
      BY <3>3, <1>1
  <2>6. CASE j.kind = "mcp auth"
    <3>1. new = AuthMCPServer(j, d, live) /\ Entry(j) = j.name /\ j.name \in Servers
      BY <2>6, JobFacts DEF Edited, Entry
    <3>2. new = EnableMCPServer(j, d, live)
      BY <3>1 DEF AuthMCPServer
    <3>3. \/ d[j.name] # None /\ new = [d EXCEPT ![j.name].enabled = TRUE]
          \/ new = [d EXCEPT ![j.name] = [enabled |-> TRUE, env |-> FALSE]]
      BY <3>2 DEF EnableMCPServer
    <3>4. CASE d[j.name] # None /\ new = [d EXCEPT ![j.name].enabled = TRUE]
      <4> DEFINE v == [d[j.name] EXCEPT !.enabled = TRUE]
      <4>1. d[j.name] \in ServerEntries
        BY <3>1, <3>4 DEF IsDocument
      <4>2. v \in ServerEntries
        BY <4>1 DEF ServerEntries
      <4>3. new = [d EXCEPT ![j.name] = v]
        BY <3>4
      <4> HIDE DEF v
      <4>4. Fits(v)
        BY <4>2, <4>3, <3>1, <2>6, ConfigurationAssumption DEF Contents
      <4>5. QED
        BY <4>4, <1>1
    <3>5. CASE new = [d EXCEPT ![j.name] = [enabled |-> TRUE, env |-> FALSE]]
      <4>1. [enabled |-> TRUE, env |-> FALSE] \in ServerEntries
        BY DEF ServerEntries
      <4>2. Fits([enabled |-> TRUE, env |-> FALSE])
        BY <4>1, <3>1, <3>5, <2>6, ConfigurationAssumption DEF Contents
      <4>3. QED
        BY <4>2, <1>1
    <3>6. QED
      BY <3>3, <3>4, <3>5
  <2>7. QED
    BY <2>1, <2>2, <2>3, <2>4, <2>5, <2>6 DEF Saves
<1> HIDE DEF new
<1>2. Entry(j) \in Entries
  BY JobFacts
<1>3. IsDocument(new) /\ new[Entry(j)] = v /\ \A e \in Entries \ {Entry(j)} : new[e] = d[e]
  <2> DEFINE e == Entry(j)
  <2>1. e \in Entries /\ v \in Contents /\ (e \in Servers => v = None \/ v \in ServerEntries)
    BY <1>1, <1>2
  <2>2. new = [d EXCEPT ![e] = v]
    BY <1>1
  <2> HIDE DEF e
  <2>3. /\ IsDocument([d EXCEPT ![e] = v]) /\ [d EXCEPT ![e] = v][e] = v
        /\ \A x \in Entries \ {e} : [d EXCEPT ![e] = v][x] = d[x]
    BY <2>1, OneEntry
  <2>4. QED
    BY <2>2, <2>3 DEF e
<1>4. AllReady(new)
  <2>1. ASSUME NEW p \in Providers, new[p] # None PROVE ProviderIsComplete(new[p])
    <3>1. p \in Entries
      BY DEF Entries
    <3>2. CASE p = Entry(j)
      BY <3>2, <2>1, <1>1, <1>3
    <3>3. CASE p # Entry(j)
      BY <3>1, <3>3, <2>1, <1>3 DEF AllReady
    <3>4. QED
      BY <3>2, <3>3
  <2>2. QED
    BY <2>1 DEF AllReady
<1>5. j.kind = "switch" => new["current"] = j.name /\ j.name \in db
  BY <1>1, <1>3 DEF Entry
<1>6. QED
  BY <1>3, <1>4, <1>5

-----------------------------------------------------------------------------
(* Commands.                                                               *)

Places == {"idle", "key", "fill key", "public key", "run", "truncate", "write", "database",
           "remove db", "remove dir"}
Drafting(c) == cmd[c].at \in {"truncate", "write"}
CommandShaped(r) ==
  r = [at |-> r.at, job |-> r.job, cfg |-> r.cfg, draft |-> r.draft, seen |-> r.seen,
       stale |-> r.stale]

\* Each command: the ones at rest have nothing, and where one is fits what it is for.
CommandPlaced(c) ==
  /\ CommandShaped(cmd[c]) /\ cmd[c].at \in Places
  /\ cmd[c].at = "idle" <=> cmd[c] = Idle
  /\ cmd[c].at # "idle" => cmd[c].job \in Jobs
  /\ cmd[c].seen \subseteq {"db", "dir"} /\ cmd[c].stale \subseteq Entries
  /\ Drafting(c) => Saving(c)
  /\ cmd[c].at = "database" => Job(c).kind \in {"open", "create"}
  /\ cmd[c].at \in {"remove db", "remove dir"} => Job(c).kind = "delete"
CommandsPlaced == DOMAIN cmd = Commands /\ \A c \in Commands : CommandPlaced(c)

\* The bounds, and what no property says more of.
BoundsHold ==
  /\ db \subseteq Workspaces /\ dirs \subseteq Workspaces /\ raced \subseteq Workspaces
  /\ misled \subseteq Workspaces
  /\ key \in [private : Commands \cup {None, Garbage}, public : Commands \cup {None}]
  /\ started \in 0..MaxJobs /\ crashes \in 0..MaxCrashes

\* What a command is about to write is what was saved, in the entries that it does
\* not change, that are not lost, and that nobody saved since it read the document.
DraftIsCurrent(c) ==
  Drafting(c) =>
    /\ IsDocument(cmd[c].draft) /\ AllReady(cmd[c].draft)
    /\ \A e \in Entries \ (lost \cup cmd[c].stale \cup {Entry(Job(c))}) : cmd[c].draft[e] = saved[e]
    /\ Job(c).kind = "switch" => cmd[c].draft["current"] = Job(c).name

FileReads == file = Garbage \/ (IsDocument(file) /\ AllReady(file))

\* The document holds what was saved, but while it is emptied.
DocumentsKept ==
  /\ saved \in [Entries -> {saved[e] : e \in Entries}] /\ lost \subseteq Entries
  /\ FileReads
  /\ file # NoDocument \/ ~Writing => \A e \in Entries \ lost : file # Garbage /\ file[e] = saved[e]
  /\ \A c \in Commands : DraftIsCurrent(c)

\* A command that deletes a workspace, beside another command on it, is a race.
RacesKnown ==
  \A c, o \in Commands :
    c # o /\ cmd[c].at # "idle" /\ cmd[o].at # "idle" /\ Job(c).kind = "delete"
      /\ Job(o).name = Job(c).name => Job(c).name \in raced

\* What each command knows of the workspace it is on.
PlaceIsKnown(c) ==
  /\ cmd[c].at = "database" => Job(c).name \in dirs \cup raced
  /\ cmd[c].at = "remove dir" => Job(c).name \notin db \/ Job(c).name \in raced
  /\ Drafting(c) /\ Job(c).kind = "switch" => Job(c).name \in db \cup raced
  /\ cmd[c].at \in {"remove db", "remove dir"} => Job(c).name # CurrentOf(cmd[c].cfg)
  /\ cmd[c].at # "idle" /\ Job(c).kind = "delete" =>
       \/ Job(c).name \in raced \cup misled \/ "current" \in lost
       \/ saved["current"] # Job(c).name \/ CurrentOf(cmd[c].cfg) = Job(c).name
PlacesKept ==
  /\ RacesKnown
  /\ \A w \in db : w \in dirs \cup raced
  /\ "current" \notin lost /\ saved["current"] # None =>
       saved["current"] \in db \cup raced \cup misled
  /\ \A c \in Commands : PlaceIsKnown(c)

\* At most one command makes the first key, unless two do so at the same time.
KeyIsMade(c) ==
  /\ cmd[c].at = "fill key" => key.public = None /\ key.private = Garbage
  /\ cmd[c].at = "public key" => key.private = c
KeysKept ==
  ~keyRace =>
    /\ key.private = None => key.public = None
    /\ \A c \in Commands : cmd[c].at \in {"fill key", "public key"} => key.private # None
    /\ \A c, o \in Commands :
         cmd[c].at \in {"fill key", "public key"} /\ cmd[o].at \in {"fill key", "public key"} => c = o
    /\ \A c \in Commands : KeyIsMade(c)
    /\ key.public \in Commands => key.private = key.public

ConfigInv == BoundsHold /\ CommandsPlaced /\ DocumentsKept /\ PlacesKept /\ KeysKept

LEMMA ConfigStart == ConfigurationInit => ConfigInv
<1> SUFFICES ASSUME ConfigurationInit PROVE ConfigInv
  OBVIOUS
<1>1. Idle.at = "idle" /\ CommandShaped(Idle) /\ Idle.seen = {} /\ Idle.stale = {}
  BY DEF Idle, CommandShaped
<1>2. \A c \in Commands : cmd[c] = Idle
  BY DEF ConfigurationInit
<1>3. CommandsPlaced
  BY <1>1, <1>2 DEF ConfigurationInit, CommandsPlaced, CommandPlaced, Places, Drafting
<1>4. BoundsHold
  BY ConfigurationAssumption DEF ConfigurationInit, BoundsHold
<1>5. "current" \in Entries /\ saved = NoDocument /\ file = NoDocument /\ lost = {} /\ db = {}
  BY DEF Entries, ConfigurationInit
<1>6. DocumentsKept
  <2>1. \A c \in Commands : ~Drafting(c)
    BY <1>1, <1>2 DEF Drafting
  <2>2. file # Garbage
    BY <1>5, Documents
  <2>3. saved \in [Entries -> {saved[e] : e \in Entries}]
    BY <1>5 DEF NoDocument
  <2>4. QED
    BY <1>5, <2>1, <2>2, <2>3, Documents DEF DocumentsKept, FileReads, DraftIsCurrent
<1>7. PlacesKept
  <2>1. saved["current"] = None
    BY <1>5, Documents
  <2>5. \A c \in Commands : cmd[c].at = "idle"
    BY <1>1, <1>2
  <2>2. RacesKnown
    BY <2>5 DEF RacesKnown
  <2>3. \A c \in Commands : PlaceIsKnown(c)
    BY <1>1, <1>2 DEF PlaceIsKnown, Drafting
  <2>4. QED
    BY <1>5, <2>1, <2>2, <2>3 DEF PlacesKept
<1>8. KeysKept
  BY <1>1, <1>2, ConfigurationAssumption DEF ConfigurationInit, KeysKept, KeyIsMade
<1>9. QED
  BY <1>3, <1>4, <1>6, <1>7, <1>8 DEF ConfigInv

\* Only command c moves, to place at, and keeps what it is for.
Moves(c, at) ==
  /\ cmd[c].at # "idle" /\ DOMAIN cmd' = Commands
  /\ \A o \in Commands \ {c} : cmd'[o] = cmd[o]
  /\ IF at = "idle" THEN cmd'[c] = Idle
     ELSE /\ cmd'[c].at = at /\ cmd'[c].job = cmd[c].job /\ cmd'[c].cfg = cmd[c].cfg
          /\ cmd'[c].draft = cmd[c].draft /\ cmd'[c].seen = cmd[c].seen
          /\ cmd'[c].stale = cmd[c].stale /\ CommandShaped(cmd'[c])

LEMMA GoMoves ==
  ASSUME CommandsPlaced, NEW c \in Commands, NEW at, Go(c, at), cmd[c].at # "idle"
  PROVE  Moves(c, at)
<1>1. CommandShaped(cmd[c]) /\ c \in DOMAIN cmd /\ DOMAIN cmd = Commands
  BY DEF CommandsPlaced, CommandPlaced
<1>2. DOMAIN cmd' = Commands /\ \A o \in Commands \ {c} : cmd'[o] = cmd[o]
  BY <1>1 DEF Go
<1>3. CASE at = "idle"
  BY <1>1, <1>2, <1>3 DEF Go, Moves
<1>4. CASE at # "idle"
  <2>1. cmd'[c] = [cmd[c] EXCEPT !.at = at]
    BY <1>1, <1>4 DEF Go
  <2> DEFINE r == cmd[c]
  <2>2. CommandShaped(r) /\ cmd'[c] = [r EXCEPT !.at = at]
    BY <1>1, <2>1
  <2> HIDE DEF r
  <2>3. cmd'[c] = [at |-> at, job |-> r.job, cfg |-> r.cfg, draft |-> r.draft, seen |-> r.seen,
                   stale |-> r.stale]
    BY <2>2 DEF CommandShaped
  <2>4. cmd'[c].at = at /\ cmd'[c].job = r.job /\ cmd'[c].cfg = r.cfg /\ cmd'[c].draft = r.draft
        /\ cmd'[c].seen = r.seen /\ cmd'[c].stale = r.stale /\ CommandShaped(cmd'[c])
    BY <2>3 DEF CommandShaped
  <2>5. QED
    BY <1>2, <1>4, <2>4 DEF Moves, r
<1>5. QED
  BY <1>3, <1>4

LEMMA WhereMoved ==
  ASSUME NEW c \in Commands, NEW at, Moves(c, at)
  PROVE  /\ \A o \in Commands : cmd'[o].at = IF o = c THEN at ELSE cmd[o].at
         /\ \A o \in Commands : cmd'[o].at # "idle" =>
              /\ cmd[o].at # "idle" /\ cmd'[o].job = cmd[o].job /\ cmd'[o].cfg = cmd[o].cfg
              /\ cmd'[o].draft = cmd[o].draft /\ cmd'[o].stale = cmd[o].stale
<1>1. Idle.at = "idle"
  BY DEF Idle
<1>2. cmd'[c].at = at
  BY <1>1 DEF Moves
<1>3. \A o \in Commands : o # c => cmd'[o] = cmd[o]
  BY DEF Moves
<1>4. at # "idle" => /\ cmd'[c].job = cmd[c].job /\ cmd'[c].cfg = cmd[c].cfg
                     /\ cmd'[c].draft = cmd[c].draft /\ cmd'[c].stale = cmd[c].stale
  BY DEF Moves
<1>5. cmd[c].at # "idle"
  BY DEF Moves
<1>6. ASSUME NEW o \in Commands
      PROVE  /\ cmd'[o].at = IF o = c THEN at ELSE cmd[o].at
             /\ cmd'[o].at # "idle" =>
                  /\ cmd[o].at # "idle" /\ cmd'[o].job = cmd[o].job /\ cmd'[o].cfg = cmd[o].cfg
                  /\ cmd'[o].draft = cmd[o].draft /\ cmd'[o].stale = cmd[o].stale
  <2>1. CASE o = c
    BY <2>1, <1>2, <1>4, <1>5
  <2>2. CASE o # c
    BY <2>2, <1>3
  <2>3. QED
    BY <2>1, <2>2
<1>7. QED
  BY <1>6

\* A command moves to a place that fits what it is for.
LEMMA MovesPlaced ==
  ASSUME CommandsPlaced, NEW c \in Commands, NEW at \in Places, Moves(c, at),
         at \in {"truncate", "write"} => Saving(c),
         at = "database" => Job(c).kind \in {"open", "create"},
         at \in {"remove db", "remove dir"} => Job(c).kind = "delete"
  PROVE  CommandsPlaced'
<1>1. ASSUME NEW o \in Commands PROVE CommandPlaced(o)'
  <2>1. CASE o # c
    <3>1. cmd'[o] = cmd[o] /\ CommandPlaced(o)
      BY <2>1 DEF Moves, CommandsPlaced
    <3>2. QED
      BY <3>1 DEF CommandPlaced, Drafting, Saving, Job
  <2>2. CASE o = c /\ at = "idle"
    <3>1. cmd'[o] = Idle
      BY <2>2 DEF Moves
    <3>2. Idle.at = "idle" /\ CommandShaped(Idle) /\ Idle.seen = {} /\ Idle.stale = {}
      BY DEF Idle, CommandShaped
    <3>3. QED
      BY <3>1, <3>2 DEF CommandPlaced, Drafting, Places
  <2>3. CASE o = c /\ at # "idle"
    <3>1. CommandPlaced(c) /\ cmd[c].at # "idle"
      BY DEF Moves, CommandsPlaced
    <3>2. cmd'[c].at = at /\ cmd'[c].job = cmd[c].job /\ cmd'[c].seen = cmd[c].seen
          /\ cmd'[c].stale = cmd[c].stale /\ CommandShaped(cmd'[c])
      BY <2>3 DEF Moves
    <3>3. Idle.at = "idle"
      BY DEF Idle
    <3>4. cmd'[c] # Idle
      BY <2>3, <3>2, <3>3
    <3>5. QED
      BY <2>3, <3>1, <3>2, <3>4 DEF CommandPlaced, Drafting, Saving, Job
  <2>4. QED
    BY <2>1, <2>2, <2>3
<1>2. QED
  BY <1>1 DEF CommandsPlaced, Moves

\* What a move leaves of the documents, the places and the keys.
LEMMA MovesKeepDocuments ==
  ASSUME ConfigInv, NEW c \in Commands, NEW at, Moves(c, at), UNCHANGED docVars,
         at # "truncate", at = "write" <=> cmd[c].at = "write"
  PROVE  DocumentsKept'
<1>1. file' = file /\ saved' = saved /\ lost' = lost
  BY DEF docVars
<1>2. \A o \in Commands : cmd'[o].at = "write" <=> cmd[o].at = "write"
  BY WhereMoved
<1>3. Writing' <=> Writing
  BY <1>2 DEF Writing, At
<1>4. ASSUME NEW o \in Commands PROVE DraftIsCurrent(o)'
  <2>1. DraftIsCurrent(o)
    BY DEF ConfigInv, DocumentsKept, FileReads
  <2>2. cmd'[o].at \in {"truncate", "write"} =>
          /\ cmd[o].at \in {"truncate", "write"} /\ cmd'[o].draft = cmd[o].draft
          /\ cmd'[o].stale = cmd[o].stale /\ cmd'[o].job = cmd[o].job
    BY WhereMoved
  <2>3. QED
    BY <1>1, <2>1, <2>2 DEF DraftIsCurrent, Drafting, Job
<1>5. QED
  BY <1>1, <1>3, <1>4 DEF ConfigInv, DocumentsKept, FileReads

LEMMA MovesKeepPlaces ==
  ASSUME ConfigInv, NEW c \in Commands, NEW at, Moves(c, at), UNCHANGED <<saved, lost, placeVars>>,
         at \notin {"database", "remove db", "remove dir", "truncate"},
         at = "write" => cmd[c].at = "truncate"
  PROVE  PlacesKept'
<1>1. saved' = saved /\ lost' = lost /\ db' = db /\ dirs' = dirs /\ raced' = raced /\ misled' = misled
  BY DEF placeVars
<1>2. \A o \in Commands : cmd'[o].at # "idle" =>
        cmd[o].at # "idle" /\ cmd'[o].job = cmd[o].job /\ cmd'[o].cfg = cmd[o].cfg
  BY WhereMoved
<1>3. RacesKnown'
  BY <1>1, <1>2 DEF ConfigInv, PlacesKept, RacesKnown, Job
<1>4. ASSUME NEW o \in Commands PROVE PlaceIsKnown(o)'
  <2>1. PlaceIsKnown(o)
    BY DEF ConfigInv, PlacesKept
  <2>2. cmd'[o].at \in {"database", "remove db", "remove dir"} => cmd'[o].at = cmd[o].at
    BY WhereMoved
  <2>3. cmd'[o].at \in {"truncate", "write"} => cmd[o].at \in {"truncate", "write"}
    BY ZenonT(60), WhereMoved
  <2>4. QED
    BY <1>1, <1>2, <2>1, <2>2, <2>3 DEF PlaceIsKnown, Drafting, Job
<1>5. QED
  BY <1>1, <1>3, <1>4 DEF ConfigInv, PlacesKept

LEMMA MovesKeepKeys ==
  ASSUME ConfigInv, NEW c \in Commands, NEW at, Moves(c, at), UNCHANGED keyVars,
         at \notin {"fill key", "public key"}
  PROVE  KeysKept'
<1>1. key' = key /\ keyRace' = keyRace
  BY DEF keyVars
<1>2. \A o \in Commands : cmd'[o].at \in {"fill key", "public key"} => cmd'[o].at = cmd[o].at
  BY ZenonT(60), WhereMoved
<1>3. \A o \in Commands : KeyIsMade(o) => KeyIsMade(o)'
  BY <1>1, <1>2 DEF KeyIsMade
<1>4. QED
  BY <1>1, <1>2, <1>3 DEF ConfigInv, KeysKept

LEMMA IdleFacts == /\ Idle.at = "idle" /\ CommandShaped(Idle) /\ Idle.seen = {} /\ Idle.stale = {}
                   /\ \A r : r.at # "idle" => r # Idle
<1>1. Idle.at = "idle" /\ CommandShaped(Idle) /\ Idle.seen = {} /\ Idle.stale = {}
  BY DEF Idle, CommandShaped
<1>2. QED
  BY <1>1

LEMMA StartKeeps ==
  ASSUME ConfigInv, NEW c \in Commands, Start(c)
  PROVE  ConfigInv'
<1>1. PICK j \in Jobs, env \in Workspaces \cup {None} :
        /\ raced' = IF DeletedMeanwhile(j) \/ (j.kind = "delete" /\ Writing)
                    THEN raced \cup {j.name} ELSE raced
        /\ misled' = IF j.kind = "delete" /\ CurrentOf(Loaded) = j.name
                          /\ CurrentOf(LoadedWith(env)) # j.name
                     THEN misled \cup {j.name} ELSE misled
        /\ cmd' = [cmd EXCEPT ![c] =
                     [Idle EXCEPT !.at = FirstStep, !.job = j, !.cfg = LoadedWith(env)]]
  BY DEF Start
<1> DEFINE r == [Idle EXCEPT !.at = FirstStep, !.job = j, !.cfg = LoadedWith(env)]
<1>2. /\ cmd[c].at = "idle" /\ started < MaxJobs /\ started' = started + 1
      /\ file' = file /\ saved' = saved /\ lost' = lost /\ db' = db /\ dirs' = dirs
      /\ key' = key /\ keyRace' = keyRace /\ crashes' = crashes
  BY DEF Start, At, docVars, keyVars
<1>3. FirstStep \in {"key", "run"}
  BY DEF FirstStep
<1>4. r.at = FirstStep /\ r.job = j /\ r.cfg = LoadedWith(env) /\ r.seen = {} /\ r.stale = {} /\ CommandShaped(r)
  <2> DEFINE old == Idle
             first == FirstStep
             loaded == LoadedWith(env)
  <2>1. CommandShaped(old) /\ old.seen = {} /\ old.stale = {}
    BY IdleFacts
  <2>2. r = [old EXCEPT !.at = first, !.job = j, !.cfg = loaded]
    OBVIOUS
  <2> HIDE DEF r, old, first, loaded
  <2>3. r = [at |-> first, job |-> j, cfg |-> loaded, draft |-> old.draft, seen |-> old.seen,
             stale |-> old.stale]
    BY <2>1, <2>2 DEF CommandShaped
  <2>4. QED
    BY <2>1, <2>3 DEF CommandShaped, first, loaded
<1> HIDE DEF r
<1>5. DOMAIN cmd' = Commands /\ \A o \in Commands : cmd'[o] = IF o = c THEN r ELSE cmd[o]
  BY <1>1 DEF ConfigInv, CommandsPlaced, r
<1>6. \A o \in Commands : /\ cmd'[o].at = IF o = c THEN FirstStep ELSE cmd[o].at
                          /\ cmd'[o].job = IF o = c THEN j ELSE cmd[o].job
                          /\ cmd'[o].cfg = IF o = c THEN LoadedWith(env) ELSE cmd[o].cfg
  BY <1>4, <1>5
<1>7. raced \subseteq raced' /\ misled \subseteq misled'
  BY <1>1
<1>8. CommandsPlaced'
  <2>1. CommandPlaced(c)'
    <3>1. cmd'[c] = r
      BY <1>5
    <3>2. r # Idle
      BY <1>3, <1>4, IdleFacts
    <3>3. QED
      BY <3>1, <3>2, <1>3, <1>4 DEF CommandPlaced, Places, Drafting
  <2>2. ASSUME NEW o \in Commands, o # c PROVE CommandPlaced(o)'
    <3>1. cmd'[o] = cmd[o] /\ CommandPlaced(o)
      BY <2>2, <1>5 DEF ConfigInv, CommandsPlaced
    <3>2. QED
      BY <3>1 DEF CommandPlaced, Drafting, Saving, Job
  <2>3. QED
    BY <2>1, <2>2, <1>5 DEF CommandsPlaced
<1>9. j.kind = "delete" => j.name \in Workspaces
  BY JobFacts
<1>10. raced' \subseteq Workspaces /\ misled' \subseteq Workspaces
  <2>1. DeletedMeanwhile(j) => j.name \in Workspaces
    <3>1. SUFFICES ASSUME DeletedMeanwhile(j), j.kind # "delete" PROVE j.name \in Workspaces
      BY <1>9
    <3>2. PICK o \in Commands : Running(o) /\ Job(o).kind = "delete" /\ Job(o).name = j.name
      BY <3>1 DEF DeletedMeanwhile
    <3>3. Job(o) \in Jobs
      BY <3>2 DEF ConfigInv, CommandsPlaced, CommandPlaced, Job, Running
    <3>4. QED
      BY <3>2, <3>3, JobFacts
  <2>2. raced \subseteq Workspaces /\ misled \subseteq Workspaces
    BY DEF ConfigInv, BoundsHold
  <2>3. QED
    BY <2>1, <2>2, <1>1, <1>9
<1>11. BoundsHold'
  BY <1>2, <1>10, ConfigurationAssumption DEF ConfigInv, BoundsHold
<1>12. DocumentsKept'
  <2>1. \A o \in Commands : cmd'[o].at = "write" <=> cmd[o].at = "write"
    BY <1>2, <1>3, <1>6
  <2>2. Writing' <=> Writing
    BY <2>1 DEF Writing, At
  <2>3. ASSUME NEW o \in Commands PROVE DraftIsCurrent(o)'
    <3>1. CASE o = c
      BY <3>1, <1>3, <1>6 DEF DraftIsCurrent, Drafting
    <3>2. CASE o # c
      <4>1. cmd'[o] = cmd[o] /\ DraftIsCurrent(o)
        BY <3>2, <1>5 DEF ConfigInv, DocumentsKept, FileReads
      <4>2. QED
        BY <4>1, <1>2 DEF DraftIsCurrent, Drafting, Job
    <3>3. QED
      BY <3>1, <3>2
  <2>4. QED
    BY <1>2, <2>2, <2>3 DEF ConfigInv, DocumentsKept, FileReads
<1>13. RacesKnown'
  <2>1. ASSUME NEW a \in Commands, NEW o \in Commands, a # o, cmd'[a].at # "idle", cmd'[o].at # "idle",
               cmd'[a].job.kind = "delete", cmd'[o].job.name = cmd'[a].job.name
        PROVE  cmd'[a].job.name \in raced'
    <3>1. CASE a # c /\ o # c
      <4>1. cmd'[a] = cmd[a] /\ cmd'[o] = cmd[o]
        BY <3>1, <1>5
      <4>2. cmd[a].job.name \in raced
        BY <2>1, <4>1 DEF ConfigInv, PlacesKept, RacesKnown, Job
      <4>3. QED
        BY <4>1, <4>2, <1>7
    <3>2. ASSUME NEW b \in Commands, b # c, cmd'[b].at # "idle", cmd'[b].job.name = j.name,
                 j.kind = "delete" \/ cmd'[b].job.kind = "delete"
          PROVE  j.name \in raced'
      <4>1. cmd'[b] = cmd[b] /\ cmd[b] # Idle
        BY <3>2, <1>5, IdleFacts
      <4>2. DeletedMeanwhile(j)
        BY <3>2, <4>1 DEF DeletedMeanwhile, Running, Job
      <4>3. QED
        BY <4>2, <1>1
    <3>3. CASE a = c
      BY <3>3, <3>2, <2>1, <1>6
    <3>4. CASE o = c
      BY <3>4, <3>2, <2>1, <1>6
    <3>5. QED
      BY <3>1, <3>3, <3>4
  <2>2. QED
    BY <2>1 DEF RacesKnown, Job
<1>14. ASSUME NEW o \in Commands PROVE PlaceIsKnown(o)'
  <2>1. CASE o # c
    <3>1. cmd'[o] = cmd[o] /\ PlaceIsKnown(o)
      BY <2>1, <1>5 DEF ConfigInv, PlacesKept
    <3>2. QED
      BY <3>1, <1>2, <1>7 DEF PlaceIsKnown, Drafting, Job
  <2>2. CASE o = c
    <3>1. cmd'[o].at \in {"key", "run"} /\ cmd'[o].job = j /\ cmd'[o].cfg = LoadedWith(env)
      BY <2>2, <1>3, <1>6
    <3>2. ASSUME j.kind = "delete", j.name \notin raced' \cup misled', "current" \notin lost,
                 saved["current"] = j.name
          PROVE  CurrentOf(LoadedWith(env)) = j.name
      <4>1. ~Writing
        BY <3>2, <1>1
      <4>2. "current" \in Entries
        BY DEF Entries
      <4>3. file # Garbage /\ file["current"] = saved["current"]
        BY <3>2, <4>1, <4>2 DEF ConfigInv, DocumentsKept, FileReads
      <4>4. j.name # None
        BY <3>2, <1>9, ConfigurationAssumption
      <4>5. CurrentOf(Loaded) = j.name
        BY <3>2, <4>3, <4>4 DEF Loaded, CurrentOf
      <4>6. QED
        BY <3>2, <4>5, <1>1
    <3>3. QED
      BY <3>1, <3>2, <1>2 DEF PlaceIsKnown, Drafting, Job
  <2>3. QED
    BY <2>1, <2>2
<1>15. PlacesKept'
  BY <1>2, <1>7, <1>13, <1>14 DEF ConfigInv, PlacesKept
<1>16. KeysKept'
  <2>1. \A o \in Commands : cmd'[o].at \in {"fill key", "public key"} => o # c /\ cmd'[o] = cmd[o]
    BY <1>3, <1>5, <1>6
  <2>2. \A o \in Commands : KeyIsMade(o) => KeyIsMade(o)'
    BY <1>2, <2>1 DEF KeyIsMade
  <2>3. QED
    BY <1>2, <2>1, <2>2 DEF ConfigInv, KeysKept
<1>17. QED
  BY <1>8, <1>11, <1>12, <1>15, <1>16 DEF ConfigInv

\* The steps that make the key.
LEMMA KeyStepsKeep ==
  ASSUME ConfigInv, NEW c \in Commands, CreateKey(c) \/ FillKey(c) \/ WritePublicKey(c)
  PROVE  ConfigInv'
<1>1. UNCHANGED <<docVars, placeVars, boundVars>> /\ cmd[c].at \in {"key", "fill key", "public key"}
  BY DEF CreateKey, FillKey, WritePublicKey, At
<1>2. PICK at \in {"fill key", "public key", "run"} :
        /\ Go(c, at)
        /\ at = "fill key" => CreateKey(c)
        /\ at = "public key" => FillKey(c)
        /\ at = "run" => WritePublicKey(c)
  BY DEF CreateKey, FillKey, WritePublicKey
<1>3. Moves(c, at)
  BY <1>1, <1>2, GoMoves DEF ConfigInv
<1>4. CommandsPlaced'
  BY <1>3, MovesPlaced DEF ConfigInv, Places
<1>5. DocumentsKept'
  BY <1>1, <1>3, MovesKeepDocuments
<1>6. PlacesKept'
  BY <1>1, <1>3, MovesKeepPlaces DEF docVars
<1>7. \A o \in Commands : cmd'[o].at = IF o = c THEN at ELSE cmd[o].at
  BY <1>3, WhereMoved
<1>8. key' \in [private : Commands \cup {None, Garbage}, public : Commands \cup {None}] /\ KeysKept'
  <2>1. key \in [private : Commands \cup {None, Garbage}, public : Commands \cup {None}]
    BY DEF ConfigInv, BoundsHold
  <2>2. CASE CreateKey(c) /\ at = "fill key"
    <3>1. keyRace' = (keyRace \/ key.private # None) /\ key' = [key EXCEPT !.private = Garbage]
      BY <2>2 DEF CreateKey
    <3>2. /\ key'.private = Garbage /\ key'.public = key.public
          /\ key' \in [private : Commands \cup {None, Garbage}, public : Commands \cup {None}]
      BY <2>1, <3>1
    <3>3. SUFFICES ASSUME ~keyRace' PROVE KeysKept'
      BY <3>2 DEF KeysKept
    <3>4. /\ key.private = None /\ key.public = None /\ ~keyRace
          /\ \A o \in Commands : cmd[o].at \notin {"fill key", "public key"}
      BY <3>1, <3>3 DEF ConfigInv, KeysKept
    <3>5. \A o \in Commands : cmd'[o].at \in {"fill key", "public key"} => o = c /\ cmd'[o].at = "fill key"
      BY <3>4, <1>7, <2>2
    <3>6. QED
      BY <3>2, <3>4, <3>5, ConfigurationAssumption DEF KeysKept, KeyIsMade
  <2>3. CASE FillKey(c) /\ at = "public key"
    <3>1. cmd[c].at = "fill key" /\ keyRace' = keyRace /\ key' = [key EXCEPT !.private = c]
      BY <2>3 DEF FillKey, At
    <3>2. /\ key'.private = c /\ key'.public = key.public
          /\ key' \in [private : Commands \cup {None, Garbage}, public : Commands \cup {None}]
      BY <2>1, <3>1
    <3>3. SUFFICES ASSUME ~keyRace' PROVE KeysKept'
      BY <3>2 DEF KeysKept
    <3>4. /\ key.public = None
          /\ \A o \in Commands : cmd[o].at \in {"fill key", "public key"} => o = c
      BY <3>1, <3>3 DEF ConfigInv, KeysKept, KeyIsMade
    <3>5. \A o \in Commands : cmd'[o].at \in {"fill key", "public key"} => o = c /\ cmd'[o].at = "public key"
      BY <3>4, <1>7, <2>3
    <3>6. QED
      BY <3>2, <3>4, <3>5, ConfigurationAssumption DEF KeysKept, KeyIsMade
  <2>4. CASE WritePublicKey(c) /\ at = "run"
    <3>1. cmd[c].at = "public key" /\ keyRace' = keyRace /\ key' = [key EXCEPT !.public = c]
      BY <2>4 DEF WritePublicKey, At
    <3>2. /\ key'.private = key.private /\ key'.public = c
          /\ key' \in [private : Commands \cup {None, Garbage}, public : Commands \cup {None}]
      BY <2>1, <3>1
    <3>3. SUFFICES ASSUME ~keyRace' PROVE KeysKept'
      BY <3>2 DEF KeysKept
    <3>4. /\ key.private = c
          /\ \A o \in Commands : cmd[o].at \in {"fill key", "public key"} => o = c
      BY <3>1, <3>3 DEF ConfigInv, KeysKept, KeyIsMade
    <3>5. \A o \in Commands : cmd'[o].at \notin {"fill key", "public key"}
      BY <3>4, <1>7, <2>4
    <3>6. QED
      BY <3>2, <3>4, <3>5, ConfigurationAssumption DEF KeysKept, KeyIsMade
  <2>5. QED
    BY <1>2, <2>2, <2>3, <2>4
<1>9. BoundsHold'
  BY <1>1, <1>8 DEF ConfigInv, BoundsHold, placeVars, boundVars
<1>10. QED
  BY <1>4, <1>5, <1>6, <1>8, <1>9 DEF ConfigInv

\* A command reads the document, and fails or has a draft.
LEMMA ReadDocumentKeeps ==
  ASSUME ConfigInv, NEW c \in Commands, ReadDocument(c)
  PROVE  ConfigInv'
<1> DEFINE new == IF file = Garbage THEN None ELSE Edited(Job(c), file, cmd[c].cfg)
           stale == IF Writing THEN Entries ELSE {}
           r == [cmd[c] EXCEPT !.at = "truncate", !.draft = new, !.stale = stale]
<1>1. /\ cmd[c].at = "run" /\ Saving(c)
      /\ cmd' = [cmd EXCEPT ![c] = IF new = None THEN Idle ELSE r]
      /\ file' = file /\ saved' = saved /\ lost' = lost /\ db' = db /\ dirs' = dirs
      /\ raced' = raced /\ misled' = misled
      /\ key' = key /\ keyRace' = keyRace /\ started' = started /\ crashes' = crashes
  BY DEF ReadDocument, At, docVars, placeVars, keyVars, boundVars
<1>2. CommandPlaced(c) /\ DOMAIN cmd = Commands
  BY DEF ConfigInv, CommandsPlaced
<1>3. Job(c) \in Jobs /\ Job(c).kind \in Saves
  BY <1>1, <1>2 DEF CommandPlaced, Job, Saving, Saves
<1>4. BoundsHold'
  BY <1>1 DEF ConfigInv, BoundsHold
<1>5. CASE new = None
  <2>1. Moves(c, "idle")
    <3>1. cmd' = [cmd EXCEPT ![c] = Idle]
      BY <1>1, <1>5
    <3>2. QED
      BY <3>1, <1>1, <1>2 DEF Moves
  <2>2. CommandsPlaced'
    BY <2>1, MovesPlaced DEF ConfigInv, Places
  <2>3. DocumentsKept' /\ PlacesKept' /\ KeysKept'
    BY <2>1, <1>1, MovesKeepDocuments, MovesKeepPlaces, MovesKeepKeys DEF docVars, placeVars, keyVars
  <2>4. QED
    BY <1>4, <2>2, <2>3 DEF ConfigInv
<1>6. CASE new # None
  <2>1. file # Garbage /\ new = Edited(Job(c), file, cmd[c].cfg)
    BY <1>6
  <2>2. IsDocument(file) /\ AllReady(file)
    BY <2>1 DEF ConfigInv, DocumentsKept, FileReads
  <2>3. /\ IsDocument(new) /\ AllReady(new)
        /\ \A e \in Entries \ {Entry(Job(c))} : new[e] = file[e]
        /\ Job(c).kind = "switch" => new["current"] = Job(c).name /\ Job(c).name \in db
    BY <1>3, <1>6, <2>1, <2>2, EditsOneEntry
  <2>5. stale \subseteq Entries /\ (~Writing => stale = {}) /\ (Writing => stale = Entries)
    OBVIOUS
  <2> HIDE DEF new, stale
  <2>4. /\ r.at = "truncate" /\ r.job = Job(c) /\ r.cfg = cmd[c].cfg /\ r.draft = new
        /\ r.seen = cmd[c].seen /\ r.stale = stale /\ CommandShaped(r)
    <3> DEFINE old == cmd[c]
    <3>1. CommandShaped(old) /\ r = [old EXCEPT !.at = "truncate", !.draft = new, !.stale = stale]
      BY <1>2 DEF CommandPlaced
    <3> HIDE DEF old, r
    <3>2. r = [at |-> "truncate", job |-> old.job, cfg |-> old.cfg, draft |-> new, seen |-> old.seen,
               stale |-> stale]
      BY <3>1 DEF CommandShaped
    <3>3. QED
      BY <3>2 DEF CommandShaped, old, Job
  <2>6. cmd' = [cmd EXCEPT ![c] = r]
    BY <1>1, <1>6
  <2> HIDE DEF r
  <2>7. DOMAIN cmd' = Commands /\ cmd'[c] = r /\ \A o \in Commands \ {c} : cmd'[o] = cmd[o]
    BY <2>6, <1>2
  <2>8. CommandsPlaced'
    <3>1. CommandPlaced(c)'
      <4>1. r # Idle
        BY <2>4, IdleFacts
      <4>2. QED
        BY <4>1, <2>4, <2>5, <2>7, <1>1, <1>2, <1>3 DEF CommandPlaced, Drafting, Saving, Job, Places
    <3>2. ASSUME NEW o \in Commands, o # c PROVE CommandPlaced(o)'
      <4>1. cmd'[o] = cmd[o] /\ CommandPlaced(o)
        BY <3>2, <2>7 DEF ConfigInv, CommandsPlaced
      <4>2. QED
        BY <4>1 DEF CommandPlaced, Drafting, Saving, Job
    <3>3. QED
      BY <3>1, <3>2, <2>7 DEF CommandsPlaced
  <2>9. DocumentsKept'
    <3>1. \A o \in Commands : cmd'[o].at = "write" <=> cmd[o].at = "write"
      BY <1>1, <2>4, <2>7
    <3>2. Writing' <=> Writing
      BY <3>1 DEF Writing, At
    <3>3. DraftIsCurrent(c)'
      <4>1. \A e \in Entries \ (lost \cup stale \cup {Entry(Job(c))}) : new[e] = saved[e]
        <5>1. CASE Writing
          BY <5>1, <2>5
        <5>2. CASE ~Writing
          <6>1. \A e \in Entries \ lost : file[e] = saved[e]
            BY <5>2 DEF ConfigInv, DocumentsKept, FileReads
          <6>2. QED
            BY <6>1, <2>3
        <5>3. QED
          BY <5>1, <5>2
      <4>2. QED
        BY <4>1, <2>3, <2>4, <2>7, <1>1 DEF DraftIsCurrent, Job
    <3>4. ASSUME NEW o \in Commands, o # c PROVE DraftIsCurrent(o)'
      <4>1. cmd'[o] = cmd[o] /\ DraftIsCurrent(o)
        BY <3>4, <2>7 DEF ConfigInv, DocumentsKept, FileReads
      <4>2. QED
        BY <4>1, <1>1 DEF DraftIsCurrent, Drafting, Job
    <3>5. QED
      BY <1>1, <3>2, <3>3, <3>4 DEF ConfigInv, DocumentsKept, FileReads
  <2>10. \A o \in Commands : /\ cmd'[o].at # "idle" => cmd[o].at # "idle"
                             /\ cmd'[o].job = cmd[o].job /\ cmd'[o].cfg = cmd[o].cfg
    BY <1>1, <2>4, <2>7 DEF Job
  <2>11. PlacesKept'
    <3>1. RacesKnown'
      BY <1>1, <2>10 DEF ConfigInv, PlacesKept, RacesKnown, Job
    <3>2. ASSUME NEW o \in Commands PROVE PlaceIsKnown(o)'
      <4>1. CASE o # c
        <5>1. cmd'[o] = cmd[o] /\ PlaceIsKnown(o)
          BY <4>1, <2>7 DEF ConfigInv, PlacesKept
        <5>2. saved' = saved /\ lost' = lost /\ db' = db /\ dirs' = dirs /\ raced' = raced /\ misled' = misled
          BY <1>1
        <5>3. QED
          BY <5>1, <5>2 DEF PlaceIsKnown, Drafting, Job
      <4>2. CASE o = c
        <5>1. cmd'[c].at = "truncate" /\ cmd'[c].job = Job(c) /\ Job(c).kind # "delete"
          BY <2>4, <2>7, <1>3 DEF Saves
        <5>2. QED
          BY <4>2, <5>1, <2>3, <1>1 DEF PlaceIsKnown, Drafting, Job
      <4>3. QED
        BY <4>1, <4>2
    <3>3. QED
      BY <1>1, <3>1, <3>2 DEF ConfigInv, PlacesKept
  <2>12. KeysKept'
    <3>1. \A o \in Commands : cmd'[o].at \in {"fill key", "public key"} => cmd'[o].at = cmd[o].at
      BY <1>1, <2>4, <2>7
    <3>2. \A o \in Commands : KeyIsMade(o) => KeyIsMade(o)'
      BY <1>1, <3>1 DEF KeyIsMade
    <3>3. QED
      BY <1>1, <3>1, <3>2 DEF ConfigInv, KeysKept
  <2>13. QED
    BY <1>4, <2>8, <2>9, <2>11, <2>12 DEF ConfigInv
<1>7. QED
  BY <1>5, <1>6

\* The emptying of the document.
LEMMA TruncateKeeps ==
  ASSUME ConfigInv, NEW c \in Commands, Truncate(c)
  PROVE  ConfigInv'
<1>1. /\ cmd[c].at = "truncate" /\ Go(c, "write") /\ file' = NoDocument
      /\ saved' = saved /\ lost' = lost /\ UNCHANGED <<placeVars, keyVars, boundVars>>
  BY DEF Truncate, At
<1>2. Moves(c, "write")
  BY <1>1, GoMoves DEF ConfigInv
<1>3. CommandsPlaced'
  <2>1. Saving(c)
    BY <1>1 DEF ConfigInv, CommandsPlaced, CommandPlaced, Drafting
  <2>2. QED
    BY <1>2, <2>1, MovesPlaced DEF ConfigInv, Places
<1>4. PlacesKept' /\ KeysKept'
  BY <1>1, <1>2, MovesKeepPlaces, MovesKeepKeys
<1>5. BoundsHold'
  BY <1>1 DEF ConfigInv, BoundsHold, placeVars, keyVars, boundVars
<1>6. DocumentsKept'
  <2>1. Writing'
    BY <1>2, WhereMoved DEF Writing, At
  <2>2. ASSUME NEW o \in Commands PROVE DraftIsCurrent(o)'
    <3>1. DraftIsCurrent(o)
      BY DEF ConfigInv, DocumentsKept, FileReads
    <3>2. cmd'[o].at \in {"truncate", "write"} =>
            /\ cmd[o].at \in {"truncate", "write"} /\ cmd'[o].draft = cmd[o].draft
            /\ cmd'[o].stale = cmd[o].stale /\ cmd'[o].job = cmd[o].job
      BY <1>1, <1>2, WhereMoved
    <3>3. QED
      BY <1>1, <3>1, <3>2 DEF DraftIsCurrent, Drafting, Job
  <2>3. QED
    BY <1>1, <2>1, <2>2, Documents DEF ConfigInv, DocumentsKept, FileReads
<1>7. QED
  BY <1>3, <1>4, <1>5, <1>6 DEF ConfigInv

\* A command fills the document: what it saved is there, what the others saved since
\* it read the document is lost, and the others know that its entry is new.
LEMMA WriteKeeps ==
  ASSUME ConfigInv, NEW c \in Commands, Write(c)
  PROVE  ConfigInv'
<1> DEFINE e == Entry(Job(c))
           d == cmd[c].draft
           Later(o) == [cmd[o] EXCEPT !.stale = @ \cup {e}]
<1>1. /\ cmd[c].at = "write" /\ saved' = [saved EXCEPT ![e] = d[e]]
      /\ cmd' = [o \in Commands |->
                   IF o = c THEN Idle
                   ELSE IF cmd[o].at \in {"truncate", "write"} THEN Later(o) ELSE cmd[o]]
      /\ \/ file' = d /\ lost' = (lost \cup cmd[c].stale) \ {e}
         \/ file # NoDocument /\ file' = Garbage /\ lost' = Entries
  BY DEF Write, At
<1>2. /\ db' = db /\ dirs' = dirs /\ raced' = raced /\ misled' = misled /\ key' = key /\ keyRace' = keyRace
      /\ started' = started /\ crashes' = crashes
  BY DEF Write, placeVars, keyVars, boundVars
<1>3. /\ CommandPlaced(c) /\ DraftIsCurrent(c) /\ PlaceIsKnown(c) /\ DOMAIN cmd = Commands
  BY DEF ConfigInv, CommandsPlaced, DocumentsKept, PlacesKept
<1>4. Drafting(c) /\ Job(c) \in Jobs /\ Job(c).kind \in Saves
  BY <1>1, <1>3 DEF CommandPlaced, Drafting, Saving, Saves, Job
<1>5. e \in Entries
  BY <1>4, JobFacts
<1>6. /\ IsDocument(d) /\ AllReady(d)
      /\ \A x \in Entries \ (lost \cup cmd[c].stale \cup {e}) : d[x] = saved[x]
      /\ Job(c).kind = "switch" => d["current"] = Job(c).name /\ Job(c).name \in db \cup raced
  BY <1>3, <1>4 DEF DraftIsCurrent, PlaceIsKnown
<1>7. Job(c).kind = "switch" <=> e = "current"
  <2>1. Job(c).kind # "switch" => e \in Providers \cup Servers \cup {"slack"}
    BY <1>4, JobFacts DEF Entry, Saves
  <2>2. QED
    BY <2>1, ConfigurationAssumption DEF Entry
<1> HIDE DEF e, d
<1>8. /\ saved \in [Entries -> {saved[x] : x \in Entries}] /\ lost \subseteq Entries
      /\ cmd[c].stale \subseteq Entries
  BY <1>3 DEF ConfigInv, DocumentsKept, FileReads, CommandPlaced
<1>9. /\ \A x \in Entries : saved'[x] = IF x = e THEN d[e] ELSE saved[x]
      /\ saved' \in [Entries -> {saved'[x] : x \in Entries}]
  BY <1>1, <1>5, <1>8
<1>10. ASSUME NEW o \in Commands
       PROVE  /\ cmd'[o].at = IF o = c THEN "idle" ELSE cmd[o].at
              /\ o # c => /\ cmd'[o].job = cmd[o].job /\ cmd'[o].cfg = cmd[o].cfg
                          /\ cmd'[o].draft = cmd[o].draft /\ cmd'[o].seen = cmd[o].seen
                          /\ CommandShaped(cmd'[o])
                          /\ cmd'[o].stale = IF cmd[o].at \in {"truncate", "write"} THEN cmd[o].stale \cup {e}
                                             ELSE cmd[o].stale
  <2>1. CASE o = c
    BY <2>1, <1>1, IdleFacts
  <2>2. CASE o # c /\ cmd[o].at \notin {"truncate", "write"}
    <3>1. cmd'[o] = cmd[o]
      BY <2>2, <1>1
    <3>2. CommandShaped(cmd[o])
      BY DEF ConfigInv, CommandsPlaced, CommandPlaced
    <3>3. QED
      BY <2>2, <3>1, <3>2
  <2>3. CASE o # c /\ cmd[o].at \in {"truncate", "write"}
    <3> DEFINE r == cmd[o]
    <3>1. cmd'[o] = [r EXCEPT !.stale = r.stale \cup {e}] /\ CommandShaped(r)
      BY <2>3, <1>1 DEF ConfigInv, CommandsPlaced, CommandPlaced
    <3> HIDE DEF r
    <3>2. cmd'[o] = [at |-> r.at, job |-> r.job, cfg |-> r.cfg, draft |-> r.draft, seen |-> r.seen,
                     stale |-> r.stale \cup {e}]
      BY <3>1 DEF CommandShaped
    <3>3. QED
      BY <2>3, <3>2 DEF CommandShaped, r
  <2>4. QED
    BY <2>1, <2>2, <2>3
<1>11. BoundsHold'
  BY <1>2 DEF ConfigInv, BoundsHold
<1>12. CommandsPlaced'
  <2>1. CommandPlaced(c)'
    <3>1. cmd'[c] = Idle
      BY <1>1
    <3>2. QED
      BY <3>1, IdleFacts DEF CommandPlaced, Drafting, Places
  <2>2. ASSUME NEW o \in Commands, o # c PROVE CommandPlaced(o)'
    <3>1. CommandPlaced(o)
      BY DEF ConfigInv, CommandsPlaced
    <3>2. CASE cmd[o].at = "idle"
      <4>1. cmd'[o] = cmd[o]
        BY <2>2, <3>2, <1>1
      <4>2. QED
        BY <3>1, <4>1 DEF CommandPlaced, Drafting, Saving, Job
    <3>3. CASE cmd[o].at # "idle"
      <4>3. cmd'[o].at = cmd[o].at /\ cmd'[o].job = cmd[o].job /\ cmd'[o].seen = cmd[o].seen
            /\ CommandShaped(cmd'[o]) /\ cmd'[o].stale \subseteq cmd[o].stale \cup {e}
        BY <2>2, <1>10
      <4>4. cmd'[o] # Idle
        BY <3>3, <4>3, IdleFacts
      <4>5. cmd'[o].stale \subseteq Entries
        BY <3>1, <4>3, <1>5 DEF CommandPlaced
      <4>1. cmd'[o] # Idle /\ cmd'[o].at = cmd[o].at /\ cmd'[o].job = cmd[o].job /\ cmd'[o].seen = cmd[o].seen
            /\ cmd'[o].stale \subseteq Entries /\ CommandShaped(cmd'[o])
        BY <4>3, <4>4, <4>5
      <4>2. QED
        BY <3>1, <3>3, <4>1 DEF CommandPlaced, Drafting, Saving, Job
    <3>4. QED
      BY <3>2, <3>3
  <2>3. QED
    BY <2>1, <2>2, <1>1 DEF CommandsPlaced
<1>13. DocumentsKept'
  <2>1. lost' \subseteq Entries /\ FileReads'
    <3>1. CASE file' = d /\ lost' = (lost \cup cmd[c].stale) \ {e}
      <4>1. lost' \subseteq Entries
        BY <3>1, <1>8
      <4>2. FileReads'
        BY <3>1, <1>6 DEF FileReads
      <4>3. QED
        BY <4>1, <4>2
    <3>2. CASE file' = Garbage /\ lost' = Entries
      <4>1. lost' \subseteq Entries
        BY <3>2
      <4>2. FileReads'
        BY <3>2 DEF FileReads
      <4>3. QED
        BY <4>1, <4>2
    <3>3. QED
      BY <1>1, <3>1, <3>2
  <2>2. \A x \in Entries \ lost' : file' # Garbage /\ file'[x] = saved'[x]
    <3>1. CASE file' = d /\ lost' = (lost \cup cmd[c].stale) \ {e}
      BY <3>1, <1>6, <1>9, Documents
    <3>2. CASE lost' = Entries
      BY <3>2
    <3>3. QED
      BY <1>1, <3>1, <3>2
  <2>3. ASSUME NEW o \in Commands PROVE DraftIsCurrent(o)'
    <3>1. CASE cmd'[o].at \notin {"truncate", "write"}
      BY <3>1 DEF DraftIsCurrent, Drafting
    <3>2. CASE cmd'[o].at \in {"truncate", "write"}
      <4>1. o # c /\ cmd[o].at \in {"truncate", "write"} /\ cmd'[o].job = cmd[o].job
            /\ cmd'[o].draft = cmd[o].draft /\ cmd'[o].stale = cmd[o].stale \cup {e}
        BY <3>2, <1>10
      <4>2. DraftIsCurrent(o)
        BY DEF ConfigInv, DocumentsKept, FileReads
      <4>3. \A x \in Entries \ (lost' \cup cmd'[o].stale) : x \notin lost /\ x # e /\ saved'[x] = saved[x]
        BY <4>1, <1>1, <1>9
      <4>4. \A x \in Entries \ (lost' \cup cmd'[o].stale \cup {Entry(Job(o))}) : cmd[o].draft[x] = saved'[x]
        BY <4>1, <4>2, <4>3 DEF DraftIsCurrent, Drafting
      <4>5. QED
        BY <4>1, <4>2, <4>4 DEF DraftIsCurrent, Drafting, Job
    <3>3. QED
      BY <3>1, <3>2
  <2>4. QED
    BY <1>9, <2>1, <2>2, <2>3 DEF DocumentsKept
<1>14. "current" \notin lost' => \/ e = "current" /\ saved'["current"] = Job(c).name /\ Job(c).name \in db \cup raced
                                 \/ "current" \notin lost /\ saved'["current"] = saved["current"]
  <2>1. "current" \in Entries
    BY DEF Entries
  <2>2. CASE e = "current"
    BY <2>1, <2>2, <1>6, <1>7, <1>9
  <2>3. CASE e # "current"
    BY <2>1, <2>3, <1>1, <1>9
  <2>4. QED
    BY <2>2, <2>3
<1>15. \A o \in Commands : cmd'[o].at # "idle" =>
         o # c /\ cmd'[o].at = cmd[o].at /\ cmd'[o].job = cmd[o].job /\ cmd'[o].cfg = cmd[o].cfg
  BY <1>10
<1>16. PlacesKept'
  <2>1. RacesKnown'
    BY <1>2, <1>15 DEF ConfigInv, PlacesKept, RacesKnown, Job
  <2>2. ASSUME NEW o \in Commands PROVE PlaceIsKnown(o)'
    <3>1. CASE cmd'[o].at = "idle"
      BY <3>1 DEF PlaceIsKnown, Drafting
    <3>2. CASE cmd'[o].at # "idle"
      <4>1. PlaceIsKnown(o) /\ o # c /\ cmd'[o].at = cmd[o].at /\ cmd'[o].job = cmd[o].job
            /\ cmd'[o].cfg = cmd[o].cfg /\ cmd[o].at # "idle"
        BY <3>2, <1>15 DEF ConfigInv, PlacesKept
      <4>2. ASSUME Job(o).kind = "delete"
            PROVE  \/ Job(o).name \in raced \cup misled \/ "current" \in lost'
                   \/ saved'["current"] # Job(o).name \/ CurrentOf(cmd[o].cfg) = Job(o).name
        <5>1. \/ Job(o).name \in raced \cup misled \/ "current" \in lost
              \/ saved["current"] # Job(o).name \/ CurrentOf(cmd[o].cfg) = Job(o).name
          BY <4>1, <4>2 DEF PlaceIsKnown
        <5>2. Job(c).name = Job(o).name => Job(o).name \in raced
          BY <4>1, <4>2, <1>1 DEF ConfigInv, PlacesKept, RacesKnown
        <5>3. QED
          BY <5>1, <5>2, <1>14
      <4>3. QED
        BY <4>1, <4>2, <1>2 DEF PlaceIsKnown, Drafting, Job
    <3>3. QED
      BY <3>1, <3>2
  <2>3. "current" \notin lost' /\ saved'["current"] # None =>
          saved'["current"] \in db \cup raced \cup misled
    BY <1>14 DEF ConfigInv, PlacesKept
  <2>4. QED
    BY <1>2, <2>1, <2>2, <2>3 DEF ConfigInv, PlacesKept
<1>17. KeysKept'
  <2>1. \A o \in Commands : KeyIsMade(o) => KeyIsMade(o)'
    BY <1>2, <1>15 DEF KeyIsMade
  <2>2. QED
    BY <1>2, <1>15, <2>1 DEF ConfigInv, KeysKept
<1>18. QED
  BY <1>11, <1>12, <1>13, <1>16, <1>17 DEF ConfigInv

-----------------------------------------------------------------------------
(* The workspaces.                                                         *)

\* A move of a command that keeps the documents, the key and the bounds.
LEMMA MovesKeepTheRest ==
  ASSUME ConfigInv, NEW c \in Commands, NEW at, Moves(c, at),
         UNCHANGED <<docVars, raced, misled, keyVars, boundVars>>,
         at \in {"idle", "database", "remove db", "remove dir"},
         cmd[c].at \in {"run", "database", "remove db", "remove dir"}
  PROVE  /\ DocumentsKept' /\ KeysKept' /\ RacesKnown'
         /\ \A o \in Commands \ {c} : cmd'[o] = cmd[o] /\ PlaceIsKnown(o)
         /\ saved' = saved /\ lost' = lost /\ raced' = raced /\ misled' = misled
         /\ raced' \subseteq Workspaces /\ misled' \subseteq Workspaces
         /\ started' \in 0..MaxJobs /\ crashes' \in 0..MaxCrashes
         /\ key' \in [private : Commands \cup {None, Garbage}, public : Commands \cup {None}]
<1>1. saved' = saved /\ lost' = lost /\ raced' = raced /\ misled' = misled
  BY DEF docVars
<1>2. DocumentsKept' /\ KeysKept'
  BY MovesKeepDocuments, MovesKeepKeys
<1>3. \A o \in Commands : cmd'[o].at # "idle" => cmd[o].at # "idle" /\ cmd'[o].job = cmd[o].job
  BY WhereMoved
<1>4. RacesKnown'
  BY <1>1, <1>3 DEF ConfigInv, PlacesKept, RacesKnown, Job
<1>5. \A o \in Commands \ {c} : cmd'[o] = cmd[o] /\ PlaceIsKnown(o)
  BY DEF Moves, ConfigInv, PlacesKept
<1>6. /\ raced' \subseteq Workspaces /\ misled' \subseteq Workspaces
      /\ started' \in 0..MaxJobs /\ crashes' \in 0..MaxCrashes
      /\ key' \in [private : Commands \cup {None, Garbage}, public : Commands \cup {None}]
  BY <1>1 DEF ConfigInv, BoundsHold, keyVars, boundVars
<1>7. QED
  BY <1>1, <1>2, <1>4, <1>5, <1>6

\* The directory of a workspace is there before its database.
LEMMA MakeDirectoryKeeps ==
  ASSUME ConfigInv, NEW c \in Commands, MakeDirectory(c)
  PROVE  ConfigInv'
<1> DEFINE w == Job(c).name
<1>1. /\ cmd[c].at = "run" /\ db' = db /\ UNCHANGED <<docVars, raced, misled, keyVars, boundVars>>
      /\ Job(c).kind \in {"open", "create"}
      /\ \/ dirs' = dirs \cup {w} /\ Go(c, "database")
         \/ dirs' = dirs /\ Go(c, "idle")
  BY DEF MakeDirectory, At
<1>2. PICK at \in {"idle", "database"} :
        /\ Go(c, at)
        /\ at = "database" => dirs' = dirs \cup {w}
        /\ at = "idle" => dirs' = dirs
  BY <1>1
<1>3. Moves(c, at)
  BY <1>1, <1>2, GoMoves DEF ConfigInv
<1>4. CommandsPlaced'
  BY <1>1, <1>3, MovesPlaced DEF ConfigInv, Places
<1>5. /\ DocumentsKept' /\ KeysKept' /\ RacesKnown'
      /\ \A o \in Commands \ {c} : cmd'[o] = cmd[o] /\ PlaceIsKnown(o)
      /\ saved' = saved /\ lost' = lost /\ raced' = raced /\ misled' = misled
      /\ raced' \subseteq Workspaces /\ misled' \subseteq Workspaces
      /\ started' \in 0..MaxJobs /\ crashes' \in 0..MaxCrashes
      /\ key' \in [private : Commands \cup {None, Garbage}, public : Commands \cup {None}]
  BY <1>1, <1>3, MovesKeepTheRest
<1>6. w \in Workspaces
  <2>1. Job(c) \in Jobs
    BY <1>1 DEF ConfigInv, CommandsPlaced, CommandPlaced, Job
  <2>2. QED
    BY <1>1, <2>1, JobFacts
<1>7. dirs \subseteq dirs' /\ dirs' \subseteq dirs \cup {w}
  BY <1>2
<1>8. BoundsHold'
  BY <1>1, <1>5, <1>6, <1>7 DEF ConfigInv, BoundsHold
<1>9. ASSUME NEW o \in Commands PROVE PlaceIsKnown(o)'
  <2>1. CASE o # c
    BY <2>1, <1>1, <1>5, <1>7 DEF PlaceIsKnown, Drafting, Job
  <2>2. CASE o = c /\ at = "idle"
    <3>1. cmd'[c].at = "idle"
      BY <2>2, <1>3, WhereMoved
    <3>2. QED
      BY <2>2, <3>1 DEF PlaceIsKnown, Drafting
  <2>3. CASE o = c /\ at = "database"
    <3>1. cmd'[c].at = "database" /\ cmd'[c].job = cmd[c].job
      BY <2>3, <1>3, WhereMoved
    <3>2. w \in dirs'
      BY <2>3, <1>2
    <3>3. QED
      BY <2>3, <3>1, <3>2, <1>1 DEF PlaceIsKnown, Drafting, Job
  <2>4. QED
    BY <2>1, <2>2, <2>3
<1>10. PlacesKept'
  BY <1>1, <1>5, <1>7, <1>9 DEF ConfigInv, PlacesKept
<1>11. QED
  BY <1>4, <1>5, <1>8, <1>10 DEF ConfigInv

LEMMA MakeDatabaseKeeps ==
  ASSUME ConfigInv, NEW c \in Commands, MakeDatabase(c)
  PROVE  ConfigInv'
<1> DEFINE w == Job(c).name
<1>1. /\ cmd[c].at = "database" /\ Go(c, "idle") /\ db' = db \cup {w} /\ dirs' = dirs
      /\ UNCHANGED <<docVars, raced, misled, keyVars, boundVars>>
  BY DEF MakeDatabase, At
<1>2. Moves(c, "idle")
  BY <1>1, GoMoves DEF ConfigInv
<1>3. CommandsPlaced'
  BY <1>2, MovesPlaced DEF ConfigInv, Places
<1>4. /\ DocumentsKept' /\ KeysKept' /\ RacesKnown'
      /\ \A o \in Commands \ {c} : cmd'[o] = cmd[o] /\ PlaceIsKnown(o)
      /\ saved' = saved /\ lost' = lost /\ raced' = raced /\ misled' = misled
      /\ raced' \subseteq Workspaces /\ misled' \subseteq Workspaces
      /\ started' \in 0..MaxJobs /\ crashes' \in 0..MaxCrashes
      /\ key' \in [private : Commands \cup {None, Garbage}, public : Commands \cup {None}]
  BY <1>1, <1>2, MovesKeepTheRest
<1>5. Job(c) \in Jobs /\ Job(c).kind \in {"open", "create"} /\ PlaceIsKnown(c)
  BY <1>1 DEF ConfigInv, CommandsPlaced, CommandPlaced, PlacesKept, Job
<1>6. w \in Workspaces /\ w \in dirs \cup raced
  BY <1>1, <1>5, JobFacts DEF PlaceIsKnown
<1>7. BoundsHold'
  BY <1>1, <1>4, <1>6 DEF ConfigInv, BoundsHold
<1>8. ASSUME NEW o \in Commands PROVE PlaceIsKnown(o)'
  <2>1. CASE o # c
    <3>1. cmd'[o] = cmd[o] /\ PlaceIsKnown(o)
      BY <2>1, <1>4
    <3>2. cmd[o].at = "remove dir" => Job(o).name \notin db' \/ Job(o).name \in raced
      <4>1. SUFFICES ASSUME cmd[o].at = "remove dir", Job(o).name = w PROVE w \in raced
        BY <3>1, <1>1 DEF PlaceIsKnown
      <4>2. Job(o).kind = "delete"
        BY <4>1 DEF ConfigInv, CommandsPlaced, CommandPlaced
      <4>3. QED
        BY <2>1, <4>1, <4>2, <1>1 DEF ConfigInv, PlacesKept, RacesKnown
    <3>3. QED
      BY <3>1, <3>2, <1>1, <1>4 DEF PlaceIsKnown, Drafting, Job
  <2>2. CASE o = c
    <3>1. cmd'[c].at = "idle"
      BY <1>2, WhereMoved
    <3>2. QED
      BY <2>2, <3>1 DEF PlaceIsKnown, Drafting
  <2>3. QED
    BY <2>1, <2>2
<1>9. PlacesKept'
  BY <1>1, <1>4, <1>6, <1>8 DEF ConfigInv, PlacesKept
<1>10. QED
  BY <1>3, <1>4, <1>7, <1>9 DEF ConfigInv

\* A deletion looks at the workspace: it takes away what it found of it, unless the
\* document it loaded names the workspace as the current one.
LEMMA InspectKeeps ==
  ASSUME ConfigInv, NEW c \in Commands, Inspect(c)
  PROVE  ConfigInv'
<1> DEFINE w == Job(c).name
           found == IF w = CurrentOf(cmd[c].cfg) THEN {}
                    ELSE {what \in {"db", "dir"} : w \in IF what = "db" THEN db ELSE dirs}
           at == IF "db" \in found THEN "remove db" ELSE "remove dir"
           r == [cmd[c] EXCEPT !.seen = found, !.at = at]
<1>1. /\ cmd[c].at = "run" /\ Job(c).kind = "delete"
      /\ cmd' = [cmd EXCEPT ![c] = IF found = {} THEN Idle ELSE r]
      /\ file' = file /\ saved' = saved /\ lost' = lost /\ db' = db /\ dirs' = dirs
      /\ raced' = raced /\ misled' = misled
      /\ key' = key /\ keyRace' = keyRace /\ started' = started /\ crashes' = crashes
  BY DEF Inspect, At, docVars, placeVars, keyVars, boundVars
<1>2. CommandPlaced(c) /\ DOMAIN cmd = Commands /\ PlaceIsKnown(c)
  BY DEF ConfigInv, CommandsPlaced, PlacesKept
<1>3. BoundsHold'
  BY <1>1 DEF ConfigInv, BoundsHold
<1>4. CASE found = {}
  <2>1. Moves(c, "idle")
    <3>1. cmd' = [cmd EXCEPT ![c] = Idle]
      BY <1>1, <1>4
    <3>2. QED
      BY <3>1, <1>1, <1>2 DEF Moves
  <2>2. CommandsPlaced'
    BY <2>1, MovesPlaced DEF ConfigInv, Places
  <2>3. DocumentsKept' /\ PlacesKept' /\ KeysKept'
    BY <2>1, <1>1, MovesKeepDocuments, MovesKeepPlaces, MovesKeepKeys DEF docVars, placeVars, keyVars
  <2>4. QED
    BY <1>3, <2>2, <2>3 DEF ConfigInv
<1>5. CASE found # {}
  <2>1. /\ found \subseteq {"db", "dir"} /\ w # CurrentOf(cmd[c].cfg)
        /\ "db" \notin found => w \notin db
    BY <1>5
  <2>2. at \in {"remove db", "remove dir"} /\ (at = "remove dir" => w \notin db)
    BY <2>1
  <2> HIDE DEF found, at
  <2>3. /\ r.at = at /\ r.job = Job(c) /\ r.cfg = cmd[c].cfg
        /\ r.seen = found /\ r.stale = cmd[c].stale /\ CommandShaped(r)
    <3> DEFINE old == cmd[c]
    <3>1. CommandShaped(old) /\ r = [old EXCEPT !.seen = found, !.at = at]
      BY <1>2 DEF CommandPlaced
    <3> HIDE DEF old, r
    <3>2. r = [at |-> at, job |-> old.job, cfg |-> old.cfg, draft |-> old.draft, seen |-> found,
               stale |-> old.stale]
      BY <3>1 DEF CommandShaped
    <3>3. QED
      BY <3>2 DEF CommandShaped, old, Job
  <2>4. cmd' = [cmd EXCEPT ![c] = r]
    BY <1>1, <1>5
  <2> HIDE DEF r
  <2>5. DOMAIN cmd' = Commands /\ cmd'[c] = r /\ \A o \in Commands \ {c} : cmd'[o] = cmd[o]
    BY <2>4, <1>2
  <2>6. CommandsPlaced'
    <3>1. CommandPlaced(c)'
      <4>1. r # Idle
        BY <2>2, <2>3, IdleFacts
      <4>2. cmd[c].job \in Jobs
        BY <1>1, <1>2 DEF CommandPlaced
      <4>3. QED
        BY <4>1, <4>2, <2>1, <2>2, <2>3, <2>5, <1>1, <1>2 DEF CommandPlaced, Drafting, Saving, Job, Places
    <3>2. ASSUME NEW o \in Commands, o # c PROVE CommandPlaced(o)'
      <4>1. cmd'[o] = cmd[o] /\ CommandPlaced(o)
        BY <3>2, <2>5 DEF ConfigInv, CommandsPlaced
      <4>2. QED
        BY <4>1 DEF CommandPlaced, Drafting, Saving, Job
    <3>3. QED
      BY <3>1, <3>2, <2>5 DEF CommandsPlaced
  <2>7. DocumentsKept'
    <3>1. \A o \in Commands : cmd'[o].at = "write" <=> cmd[o].at = "write"
      BY <1>1, <2>2, <2>3, <2>5
    <3>2. Writing' <=> Writing
      BY <3>1 DEF Writing, At
    <3>3. DraftIsCurrent(c)'
      BY <2>2, <2>3, <2>5 DEF DraftIsCurrent, Drafting
    <3>4. ASSUME NEW o \in Commands, o # c PROVE DraftIsCurrent(o)'
      <4>1. cmd'[o] = cmd[o] /\ DraftIsCurrent(o)
        BY <3>4, <2>5 DEF ConfigInv, DocumentsKept, FileReads
      <4>2. QED
        BY <4>1, <1>1 DEF DraftIsCurrent, Drafting, Job
    <3>5. QED
      BY <1>1, <3>2, <3>3, <3>4 DEF ConfigInv, DocumentsKept, FileReads
  <2>8. \A o \in Commands : /\ cmd'[o].at # "idle" => cmd[o].at # "idle"
                            /\ cmd'[o].job = cmd[o].job /\ cmd'[o].cfg = cmd[o].cfg
    BY <1>1, <2>3, <2>5 DEF Job
  <2>9. PlacesKept'
    <3>1. RacesKnown'
      BY <1>1, <2>8 DEF ConfigInv, PlacesKept, RacesKnown, Job
    <3>2. ASSUME NEW o \in Commands PROVE PlaceIsKnown(o)'
      <4>1. CASE o # c
        <5>1. cmd'[o] = cmd[o] /\ PlaceIsKnown(o)
          BY <4>1, <2>5 DEF ConfigInv, PlacesKept
        <5>2. saved' = saved /\ lost' = lost /\ db' = db /\ dirs' = dirs /\ raced' = raced /\ misled' = misled
          BY <1>1
        <5>3. QED
          BY <5>1, <5>2 DEF PlaceIsKnown, Drafting, Job
      <4>2. CASE o = c
        <5>1. cmd'[c].at = at /\ cmd'[c].job = cmd[c].job /\ cmd'[c].cfg = cmd[c].cfg
          BY <2>3, <2>5 DEF Job
        <5>2. saved' = saved /\ lost' = lost /\ db' = db /\ dirs' = dirs /\ raced' = raced /\ misled' = misled
          BY <1>1
        <5>3. QED
          BY <4>2, <5>1, <5>2, <2>1, <2>2, <1>1, <1>2 DEF PlaceIsKnown, Drafting, Job
      <4>3. QED
        BY <4>1, <4>2
    <3>3. QED
      BY <1>1, <3>1, <3>2 DEF ConfigInv, PlacesKept
  <2>10. KeysKept'
    <3>1. \A o \in Commands : cmd'[o].at \in {"fill key", "public key"} => cmd'[o].at = cmd[o].at
      BY <1>1, <2>2, <2>3, <2>5
    <3>2. \A o \in Commands : KeyIsMade(o) => KeyIsMade(o)'
      BY <1>1, <3>1 DEF KeyIsMade
    <3>3. QED
      BY <1>1, <3>1, <3>2 DEF ConfigInv, KeysKept
  <2>11. QED
    BY <1>3, <2>6, <2>7, <2>9, <2>10 DEF ConfigInv
<1>6. QED
  BY <1>4, <1>5

\* The workspace a deletion takes away is not the current one, but where it overlapped
\* another command.
LEMMA RemoveDatabaseKeeps ==
  ASSUME ConfigInv, NEW c \in Commands, RemoveDatabase(c)
  PROVE  ConfigInv'
<1> DEFINE w == Job(c).name
<1>1. /\ cmd[c].at = "remove db" /\ db' = db \ {w} /\ dirs' = dirs
      /\ UNCHANGED <<docVars, raced, misled, keyVars, boundVars>>
      /\ Go(c, IF w \in db /\ "dir" \in cmd[c].seen THEN "remove dir" ELSE "idle")
  BY DEF RemoveDatabase, At
<1>2. PICK at \in {"idle", "remove dir"} : Go(c, at)
  BY <1>1
<1>3. Moves(c, at)
  BY <1>1, <1>2, GoMoves DEF ConfigInv
<1>4. Job(c).kind = "delete" /\ PlaceIsKnown(c)
  BY <1>1 DEF ConfigInv, CommandsPlaced, CommandPlaced, PlacesKept
<1>5. CommandsPlaced'
  BY <1>3, <1>4, MovesPlaced DEF ConfigInv, Places
<1>6. /\ DocumentsKept' /\ KeysKept' /\ RacesKnown'
      /\ \A o \in Commands \ {c} : cmd'[o] = cmd[o] /\ PlaceIsKnown(o)
      /\ saved' = saved /\ lost' = lost /\ raced' = raced /\ misled' = misled
      /\ raced' \subseteq Workspaces /\ misled' \subseteq Workspaces
      /\ started' \in 0..MaxJobs /\ crashes' \in 0..MaxCrashes
      /\ key' \in [private : Commands \cup {None, Garbage}, public : Commands \cup {None}]
  BY <1>1, <1>3, MovesKeepTheRest
<1>7. BoundsHold'
  BY <1>1, <1>6 DEF ConfigInv, BoundsHold
<1>8. ASSUME NEW o \in Commands, o # c, cmd[o].at # "idle", Job(o).name = w PROVE w \in raced
  BY <1>1, <1>4, <1>8 DEF ConfigInv, PlacesKept, RacesKnown
<1>9. w \in raced \cup misled \/ "current" \in lost \/ saved["current"] # w
  BY <1>1, <1>4 DEF PlaceIsKnown
<1>10. ASSUME NEW o \in Commands PROVE PlaceIsKnown(o)'
  <2>1. CASE o # c
    <3>1. cmd'[o] = cmd[o] /\ PlaceIsKnown(o)
      BY <2>1, <1>6
    <3>2. Drafting(o) /\ Job(o).kind = "switch" => Job(o).name \in db' \cup raced
      BY <2>1, <3>1, <1>1, <1>8 DEF PlaceIsKnown, Drafting
    <3>3. QED
      BY <3>1, <3>2, <1>1, <1>6 DEF PlaceIsKnown, Drafting, Job
  <2>2. CASE o = c /\ at = "idle"
    <3>1. cmd'[c].at = "idle"
      BY <2>2, <1>3, WhereMoved
    <3>2. QED
      BY <2>2, <3>1 DEF PlaceIsKnown, Drafting
  <2>3. CASE o = c /\ at = "remove dir"
    <3>1. cmd'[c].at = "remove dir" /\ cmd'[c].job = cmd[c].job /\ cmd'[c].cfg = cmd[c].cfg
      BY <2>3, <1>3, WhereMoved
    <3>2. w \notin db' /\ w # CurrentOf(cmd[c].cfg)
      BY <1>1, <1>4 DEF PlaceIsKnown
    <3>3. QED
      BY <2>3, <3>1, <3>2, <1>6, <1>9 DEF PlaceIsKnown, Drafting, Job
  <2>4. QED
    BY <2>1, <2>2, <2>3
<1>11. PlacesKept'
  BY <1>1, <1>6, <1>9, <1>10 DEF ConfigInv, PlacesKept
<1>12. QED
  BY <1>5, <1>6, <1>7, <1>11 DEF ConfigInv

LEMMA RemoveDirectoryKeeps ==
  ASSUME ConfigInv, NEW c \in Commands, RemoveDirectory(c)
  PROVE  ConfigInv'
<1> DEFINE w == Job(c).name
<1>1. /\ cmd[c].at = "remove dir" /\ Go(c, "idle") /\ dirs' = dirs \ {w} /\ db' = db
      /\ UNCHANGED <<docVars, raced, misled, keyVars, boundVars>>
  BY DEF RemoveDirectory, At
<1>2. Moves(c, "idle")
  BY <1>1, GoMoves DEF ConfigInv
<1>3. CommandsPlaced'
  BY <1>2, MovesPlaced DEF ConfigInv, Places
<1>4. /\ DocumentsKept' /\ KeysKept' /\ RacesKnown'
      /\ \A o \in Commands \ {c} : cmd'[o] = cmd[o] /\ PlaceIsKnown(o)
      /\ saved' = saved /\ lost' = lost /\ raced' = raced /\ misled' = misled
      /\ raced' \subseteq Workspaces /\ misled' \subseteq Workspaces
      /\ started' \in 0..MaxJobs /\ crashes' \in 0..MaxCrashes
      /\ key' \in [private : Commands \cup {None, Garbage}, public : Commands \cup {None}]
  BY <1>1, <1>2, MovesKeepTheRest
<1>5. Job(c).kind = "delete" /\ (w \notin db \/ w \in raced)
  BY <1>1 DEF ConfigInv, CommandsPlaced, CommandPlaced, PlacesKept, PlaceIsKnown
<1>6. BoundsHold'
  BY <1>1, <1>4 DEF ConfigInv, BoundsHold
<1>7. ASSUME NEW o \in Commands PROVE PlaceIsKnown(o)'
  <2>1. CASE o # c
    <3>1. cmd'[o] = cmd[o] /\ PlaceIsKnown(o)
      BY <2>1, <1>4
    <3>2. cmd[o].at = "database" => Job(o).name \in dirs' \cup raced
      <4>1. cmd[o].at = "database" /\ Job(o).name = w => w \in raced
        BY <2>1, <1>1, <1>5 DEF ConfigInv, PlacesKept, RacesKnown
      <4>2. QED
        BY <3>1, <4>1, <1>1 DEF PlaceIsKnown
    <3>3. QED
      BY <3>1, <3>2, <1>1, <1>4 DEF PlaceIsKnown, Drafting, Job
  <2>2. CASE o = c
    <3>1. cmd'[c].at = "idle"
      BY <1>2, WhereMoved
    <3>2. QED
      BY <2>2, <3>1 DEF PlaceIsKnown, Drafting
  <2>3. QED
    BY <2>1, <2>2
<1>8. PlacesKept'
  BY <1>1, <1>4, <1>5, <1>7 DEF ConfigInv, PlacesKept
<1>9. QED
  BY <1>3, <1>4, <1>6, <1>8 DEF ConfigInv

\* A command that dies between the emptying and the filling loses every entry; at any
\* other place it loses none.
LEMMA CommandCrashKeeps ==
  ASSUME ConfigInv, NEW c \in Commands, CommandCrash(c)
  PROVE  ConfigInv'
<1>1. /\ cmd[c] # Idle /\ crashes < MaxCrashes /\ crashes' = crashes + 1 /\ Go(c, "idle")
      /\ lost' = IF cmd[c].at = "write" /\ file = NoDocument THEN Entries ELSE lost
      /\ file' = file /\ saved' = saved /\ db' = db /\ dirs' = dirs
      /\ raced' = raced /\ misled' = misled
      /\ key' = key /\ keyRace' = keyRace /\ started' = started
  BY DEF CommandCrash, Running, At, placeVars, keyVars
<1>2. Moves(c, "idle")
  <2>1. cmd[c].at # "idle"
    BY <1>1 DEF ConfigInv, CommandsPlaced, CommandPlaced
  <2>2. QED
    BY <1>1, <2>1, GoMoves DEF ConfigInv
<1>3. CommandsPlaced'
  BY <1>2, MovesPlaced DEF ConfigInv, Places
<1>4. KeysKept'
  BY <1>1, <1>2, MovesKeepKeys DEF keyVars
<1>5. BoundsHold'
  BY <1>1, ConfigurationAssumption DEF ConfigInv, BoundsHold
<1>6. lost \subseteq lost' /\ lost' \subseteq Entries
  BY <1>1 DEF ConfigInv, DocumentsKept, FileReads
<1>7. \A o \in Commands : /\ cmd'[o].at = IF o = c THEN "idle" ELSE cmd[o].at
                          /\ cmd'[o].at # "idle" =>
                               /\ cmd[o].at # "idle" /\ cmd'[o].job = cmd[o].job
                               /\ cmd'[o].cfg = cmd[o].cfg /\ cmd'[o].draft = cmd[o].draft
                               /\ cmd'[o].stale = cmd[o].stale
  BY <1>2, WhereMoved
<1>8. DocumentsKept'
  <2>1. ASSUME NEW o \in Commands PROVE DraftIsCurrent(o)'
    <3>1. DraftIsCurrent(o)
      BY DEF ConfigInv, DocumentsKept, FileReads
    <3>2. cmd'[o].at \in {"truncate", "write"} =>
            /\ cmd[o].at \in {"truncate", "write"} /\ cmd'[o].draft = cmd[o].draft
            /\ cmd'[o].stale = cmd[o].stale /\ cmd'[o].job = cmd[o].job
      BY <1>7
    <3>3. QED
      BY <1>1, <1>6, <3>1, <3>2 DEF DraftIsCurrent, Drafting, Job
  <2>2. file # NoDocument \/ ~Writing' => \A e \in Entries \ lost' : file # Garbage /\ file[e] = saved[e]
    <3>1. CASE cmd[c].at = "write" /\ file = NoDocument
      BY <3>1, <1>1
    <3>2. CASE cmd[c].at # "write"
      <4>1. Writing => Writing'
        BY <3>2, <1>7 DEF Writing, At
      <4>2. QED
        BY <4>1, <1>6 DEF ConfigInv, DocumentsKept, FileReads
    <3>3. CASE file # NoDocument
      BY <3>3, <1>6 DEF ConfigInv, DocumentsKept, FileReads
    <3>4. QED
      BY <3>1, <3>2, <3>3
  <2>3. QED
    BY <1>1, <1>6, <2>1, <2>2 DEF ConfigInv, DocumentsKept, FileReads
<1>9. PlacesKept'
  <2>1. RacesKnown'
    BY <1>1, <1>7 DEF ConfigInv, PlacesKept, RacesKnown, Job
  <2>2. ASSUME NEW o \in Commands PROVE PlaceIsKnown(o)'
    <3>1. CASE o = c
      BY <3>1, <1>7 DEF PlaceIsKnown, Drafting
    <3>2. CASE o # c
      <4>1. cmd'[o] = cmd[o] /\ PlaceIsKnown(o)
        BY <3>2, <1>2 DEF Moves, ConfigInv, PlacesKept
      <4>2. QED
        BY <4>1, <1>1, <1>6 DEF PlaceIsKnown, Drafting, Job
    <3>3. QED
      BY <3>1, <3>2
  <2>3. QED
    BY <1>1, <1>6, <2>1, <2>2 DEF ConfigInv, PlacesKept
<1>10. QED
  BY <1>3, <1>4, <1>5, <1>8, <1>9 DEF ConfigInv

LEMMA ConfigStep == ConfigInv /\ [ConfigurationNext]_configVars => ConfigInv'
<1> SUFFICES ASSUME ConfigInv, [ConfigurationNext]_configVars PROVE ConfigInv'
  OBVIOUS
<1>1. CASE UNCHANGED configVars
  <2>1. /\ file' = file /\ db' = db /\ dirs' = dirs /\ key' = key /\ cmd' = cmd /\ saved' = saved
        /\ lost' = lost /\ raced' = raced /\ misled' = misled /\ keyRace' = keyRace /\ started' = started
        /\ crashes' = crashes
    BY <1>1 DEF configVars
  <2>2. BoundsHold'
    BY <2>1 DEF ConfigInv, BoundsHold
  <2>3. CommandsPlaced'
    BY <2>1 DEF ConfigInv, CommandsPlaced, CommandPlaced, Drafting, Saving, Job
  <2>4. DocumentsKept'
    <3>1. Writing' <=> Writing
      BY <2>1 DEF Writing, At
    <3>2. \A c \in Commands : DraftIsCurrent(c) => DraftIsCurrent(c)'
      BY <2>1 DEF DraftIsCurrent, Drafting, Job
    <3>3. QED
      BY <2>1, <3>1, <3>2 DEF ConfigInv, DocumentsKept, FileReads
  <2>5. PlacesKept'
    <3>1. RacesKnown'
      BY <2>1 DEF ConfigInv, PlacesKept, RacesKnown, Job
    <3>2. \A c \in Commands : PlaceIsKnown(c) => PlaceIsKnown(c)'
      BY <2>1 DEF PlaceIsKnown, Drafting, Job
    <3>3. QED
      BY <2>1, <3>1, <3>2 DEF ConfigInv, PlacesKept
  <2>6. KeysKept'
    BY <2>1 DEF ConfigInv, KeysKept, KeyIsMade
  <2>7. QED
    BY <2>2, <2>3, <2>4, <2>5, <2>6 DEF ConfigInv
<1>2. ASSUME NEW c \in Commands,
             \/ Start(c) \/ CreateKey(c) \/ FillKey(c) \/ WritePublicKey(c)
             \/ ReadDocument(c) \/ Truncate(c) \/ Write(c)
             \/ MakeDirectory(c) \/ MakeDatabase(c)
             \/ Inspect(c) \/ RemoveDatabase(c) \/ RemoveDirectory(c)
             \/ CommandCrash(c)
      PROVE  ConfigInv'
  BY <1>2, StartKeeps, KeyStepsKeep, ReadDocumentKeeps, TruncateKeeps, WriteKeeps, MakeDirectoryKeeps,
     MakeDatabaseKeeps, InspectKeeps, RemoveDatabaseKeeps, RemoveDirectoryKeeps, CommandCrashKeeps
<1>3. QED
  BY <1>1, <1>2 DEF ConfigurationNext

\* What the invariant says of the commands of the command line.
LEMMA ConfigTells ==
  ASSUME ConfigInv
  PROVE  ConfigurationTypeOK /\ SavesSurvive /\ SavedProvidersAreReady /\ WorkspacesAreWhole
         /\ KeyPairMatches
<1>1. ConfigurationTypeOK
  <2>1. file = Garbage \/ DOMAIN file = Entries
    BY DEF ConfigInv, DocumentsKept, FileReads, IsDocument
  <2>2. ASSUME NEW c \in Commands
        PROVE  /\ cmd[c].at \in Places /\ (cmd[c].job = None \/ cmd[c].job \in Jobs)
               /\ cmd[c].seen \subseteq {"db", "dir"} /\ cmd[c].stale \subseteq Entries
    <3>1. CommandPlaced(c)
      BY DEF ConfigInv, CommandsPlaced
    <3>2. Idle.job = None
      BY DEF Idle
    <3>3. QED
      BY <3>1, <3>2 DEF CommandPlaced
  <2>3. lost \subseteq Entries
    BY DEF ConfigInv, DocumentsKept, FileReads
  <2>4. QED
    BY <2>1, <2>2, <2>3 DEF ConfigInv, BoundsHold, ConfigurationTypeOK, Places
<1>2. SavesSurvive
  BY DEF ConfigInv, DocumentsKept, FileReads, SavesSurvive
<1>3. SavedProvidersAreReady
  BY DEF ConfigInv, DocumentsKept, FileReads, SavedProvidersAreReady, AllReady
<1>4. WorkspacesAreWhole
  <2>1. ASSUME file # Garbage, file["current"] # None, "current" \notin lost
        PROVE  file["current"] \in db \cup raced \cup misled
    <3>1. "current" \in Entries
      BY DEF Entries
    <3>2. file # NoDocument
      BY <2>1, <3>1, Documents
    <3>3. file["current"] = saved["current"]
      BY <2>1, <3>1, <3>2 DEF ConfigInv, DocumentsKept, FileReads
    <3>4. QED
      BY <2>1, <3>3 DEF ConfigInv, PlacesKept
  <2>2. \A w \in db : w \in dirs \cup raced
    BY DEF ConfigInv, PlacesKept
  <2>3. QED
    BY <2>1, <2>2 DEF WorkspacesAreWhole
<1>5. KeyPairMatches
  BY DEF ConfigInv, KeysKept, KeyPairMatches
<1>6. QED
  BY <1>1, <1>2, <1>3, <1>4, <1>5

-----------------------------------------------------------------------------
(* TraceCuration: the review of a trace.                                   *)

\* The calls pending after each of the first m messages.
PendingStep(f, ms, k) ==
    IF k = 0 THEN {} ELSE (f[k - 1] \ {ms[k].answers}) \cup CallIds(ms[k])
IsPending(f, ms, m) == f = [k \in 0 .. m |-> PendingStep(f, ms, k)]

\* What is pending is defined from the front of a trace to its end.
LEMMA PendingExists ==
  ASSUME NEW ms, NEW n \in Nat
  PROVE  \E f : IsPending(f, ms, n)
<1> DEFINE Bad == {k \in Nat : ~ \E f : IsPending(f, ms, k)}
<1> SUFFICES ASSUME ~ \E f : IsPending(f, ms, n) PROVE FALSE
  OBVIOUS
<1>1. n \in Bad
  OBVIOUS
<1>2. PICK k \in Bad : \A j \in Bad : k <= j
  <2> HIDE DEF Bad
  <2>1. Bad \subseteq Nat
    BY DEF Bad
  <2> QED
    BY <1>1, <2>1, LeastNumber
<1>3. k \in Nat /\ ~ \E f : IsPending(f, ms, k)
  OBVIOUS
<1>4. CASE k = 0
  <2> DEFINE f == [i \in 0 .. 0 |-> {}]
  <2>1. \A i \in 0 .. 0 : PendingStep(f, ms, i) = {}
    BY DEF PendingStep
  <2>2. f = [i \in 0 .. 0 |-> PendingStep(f, ms, i)]
    BY <2>1
  <2> QED
    BY <2>2, <1>3, <1>4 DEF IsPending
<1>5. CASE k # 0
  <2>1. k - 1 \in Nat /\ ~(k <= k - 1)
    BY <1>3, <1>5
  <2>2. PICK g : IsPending(g, ms, k - 1)
    BY <1>2, <2>1
  <2> HIDE DEF Bad
  <2>3. g = [i \in 0 .. k - 1 |-> PendingStep(g, ms, i)]
    BY <2>2 DEF IsPending
  <2> DEFINE f == [i \in 0 .. k |-> IF i = k THEN PendingStep(g, ms, k) ELSE g[i]]
  <2>4. \A i \in 0 .. k - 1 : f[i] = g[i]
    BY <1>3
  <2>5. ASSUME NEW i \in 0 .. k PROVE f[i] = PendingStep(f, ms, i)
    <3>1. i # 0 => f[i - 1] = g[i - 1]
      <4>1. i # 0 => i - 1 \in 0 .. k - 1
        BY <1>3
      <4> QED
        BY <2>4, <4>1
    <3>2. f[i] = IF i = k THEN PendingStep(g, ms, k) ELSE g[i]
      OBVIOUS
    <3> HIDE DEF f
    <3>3. PendingStep(f, ms, i) = PendingStep(g, ms, i)
      BY <3>1 DEF PendingStep
    <3>4. i # k => i \in 0 .. k - 1
      BY <1>3
    <3>5. i # k => g[i] = PendingStep(g, ms, i)
      BY <2>3, <3>4
    <3> QED
      BY <3>2, <3>3, <3>5
  <2>6. f = [i \in 0 .. k |-> PendingStep(f, ms, i)]
    BY <2>5
  <2> QED
    BY <2>6, <1>3 DEF IsPending
<1> QED
  BY <1>4, <1>5

\* What is pending after a message, given what was before it.
LEMMA PendingIs ==
  ASSUME NEW ms, Len(ms) \in Nat
  PROVE  /\ Pending(ms)[0] = {}
         /\ \A k \in 1 .. Len(ms) :
              Pending(ms)[k] = (Pending(ms)[k - 1] \ {ms[k].answers}) \cup CallIds(ms[k])
<1> DEFINE f == CHOOSE g : IsPending(g, ms, Len(ms))
<1>1. IsPending(f, ms, Len(ms))
  BY PendingExists
<1>2. Pending(ms) = f
  BY DEF Pending, IsPending, PendingStep
<1> HIDE DEF f
<1>3. \A k \in 0 .. Len(ms) : f[k] = PendingStep(f, ms, k)
  BY <1>1 DEF IsPending
<1>4. f[0] = {}
  <2>1. 0 \in 0 .. Len(ms)
    OBVIOUS
  <2> QED
    BY <1>3, <2>1 DEF PendingStep
<1>5. ASSUME NEW k \in 1 .. Len(ms) PROVE f[k] = (f[k - 1] \ {ms[k].answers}) \cup CallIds(ms[k])
  <2>1. k \in 0 .. Len(ms) /\ k # 0
    OBVIOUS
  <2> QED
    BY <1>3, <2>1 DEF PendingStep
<1> QED
  BY <1>2, <1>4, <1>5

\* A call that is pending was made, and not answered since.
LEMMA PendingWasMade ==
  ASSUME NEW ms, Len(ms) \in Nat, NEW call, NEW n \in 0 .. Len(ms), call \in Pending(ms)[n]
  PROVE  \E j \in 1 .. n : /\ call \in CallIds(ms[j])
                           /\ \A i \in j + 1 .. n : ms[i].answers # call
<1> DEFINE Said(k) == \E j \in 1 .. k : /\ call \in CallIds(ms[j])
                                        /\ \A i \in j + 1 .. k : ms[i].answers # call
           Bad == {k \in Nat : k <= Len(ms) /\ call \in Pending(ms)[k] /\ ~ Said(k)}
<1> SUFFICES ASSUME ~ Said(n) PROVE FALSE
  OBVIOUS
<1>1. n \in Bad
  OBVIOUS
<1>2. PICK k \in Bad : \A j \in Bad : k <= j
  <2> HIDE DEF Bad
  <2>1. Bad \subseteq Nat
    BY DEF Bad
  <2> QED
    BY <1>1, <2>1, LeastNumber
<1>3. k \in Nat /\ k <= Len(ms) /\ call \in Pending(ms)[k] /\ ~ Said(k)
  OBVIOUS
<1>4. k # 0
  BY <1>3, PendingIs
<1>5. k \in 1 .. Len(ms) /\ k - 1 \in Nat /\ k - 1 <= Len(ms) /\ ~(k <= k - 1)
  BY <1>3, <1>4
<1>6. Pending(ms)[k] = (Pending(ms)[k - 1] \ {ms[k].answers}) \cup CallIds(ms[k])
  BY <1>5, PendingIs
<1>7. CASE call \in CallIds(ms[k])
  <2>1. \A i \in k + 1 .. k : FALSE
    BY <1>3
  <2>2. k \in 1 .. k
    BY <1>5
  <2> QED
    BY <1>3, <1>7, <2>1, <2>2
<1>8. CASE call \notin CallIds(ms[k])
  <2>1. call \in Pending(ms)[k - 1] /\ ms[k].answers # call
    BY <1>3, <1>6, <1>8
  <2>2. Said(k - 1)
    BY <1>2, <1>5, <2>1
  <2>3. PICK j \in 1 .. k - 1 : call \in CallIds(ms[j]) /\ \A i \in j + 1 .. k - 1 : ms[i].answers # call
    BY <2>2
  <2>4. j \in 1 .. k /\ \A i \in j + 1 .. k : i = k \/ i \in j + 1 .. k - 1
    BY <1>3
  <2>5. \A i \in j + 1 .. k : ms[i].answers # call
    BY <2>1, <2>3, <2>4
  <2> QED
    BY <1>3, <2>3, <2>4, <2>5
<1> QED
  BY <1>7, <1>8

\* A call that was made is pending, unless it was answered since.
LEMMA MadeIsPending ==
  ASSUME NEW ms, Len(ms) \in Nat, NEW m \in 1 .. Len(ms), NEW call \in CallIds(ms[m]),
         NEW n \in m .. Len(ms), \A i \in m + 1 .. n : ms[i].answers # call
  PROVE  call \in Pending(ms)[n]
<1> DEFINE Bad == {k \in Nat : k \in m .. n /\ call \notin Pending(ms)[k]}
<1> SUFFICES ASSUME call \notin Pending(ms)[n] PROVE FALSE
  OBVIOUS
<1>1. n \in Bad
  OBVIOUS
<1>2. PICK k \in Bad : \A j \in Bad : k <= j
  <2> HIDE DEF Bad
  <2>1. Bad \subseteq Nat
    BY DEF Bad
  <2> QED
    BY <1>1, <2>1, LeastNumber
<1>3. k \in m .. n /\ call \notin Pending(ms)[k]
  OBVIOUS
<1>4. k \in 1 .. Len(ms)
  BY <1>3
<1>5. Pending(ms)[k] = (Pending(ms)[k - 1] \ {ms[k].answers}) \cup CallIds(ms[k])
  BY <1>4, PendingIs
<1>6. k # m
  BY <1>3, <1>5
<1>7. k - 1 \in Nat /\ k - 1 \in m .. n /\ ~(k <= k - 1) /\ k \in m + 1 .. n
  BY <1>3, <1>6
<1>8. call \in Pending(ms)[k - 1]
  BY <1>2, <1>7
<1> QED
  BY <1>3, <1>5, <1>7, <1>8

\* A trace without warnings has its calls answered in order.
LEMMA CleanIsAnswered ==
  ASSUME NEW ms, Len(ms) \in Nat, DOMAIN ms = 1 .. Len(ms), NoReviewWarnings(ms)
  PROVE  /\ \A k \in DOMAIN ms : \A call \in ms[k].calls :
              /\ call.id # NoToolCall
              /\ \E j \in (k + 1) .. Len(ms) : ms[j].answers = call.id
         /\ \A k \in DOMAIN ms :
              ms[k].role = "tool" =>
                \E j \in 1 .. (k - 1) :
                  /\ ms[k].answers \in CallIds(ms[j])
                  /\ \A i \in (j + 1) .. (k - 1) : ms[i].answers # ms[k].answers
<1>1. ASSUME NEW k \in DOMAIN ms, NEW call \in ms[k].calls
      PROVE  /\ call.id # NoToolCall
             /\ \E j \in (k + 1) .. Len(ms) : ms[j].answers = call.id
  <2>1. call.id # NoToolCall
    BY DEF NoReviewWarnings
  <2>2. call.id \in CallIds(ms[k])
    BY <2>1 DEF CallIds
  <2>3. ASSUME \A j \in k + 1 .. Len(ms) : ms[j].answers # call.id PROVE FALSE
    <3>1. k \in 1 .. Len(ms) /\ Len(ms) \in k .. Len(ms)
      OBVIOUS
    <3>2. call.id \in Pending(ms)[Len(ms)]
      BY <2>2, <2>3, <3>1, MadeIsPending
    <3> QED
      BY <3>2 DEF NoReviewWarnings
  <2> QED
    BY <2>1, <2>3
<1>2. ASSUME NEW k \in DOMAIN ms, ms[k].role = "tool"
      PROVE  \E j \in 1 .. (k - 1) : /\ ms[k].answers \in CallIds(ms[j])
                                     /\ \A i \in (j + 1) .. (k - 1) : ms[i].answers # ms[k].answers
  <2>1. k - 1 \in 0 .. Len(ms)
    OBVIOUS
  <2>2. ms[k].answers \in Pending(ms)[k - 1]
    BY <1>2 DEF NoReviewWarnings, Orphaned
  <2> QED
    BY <2>1, <2>2, PendingWasMade
<1> QED
  BY <1>1, <1>2

\* What a record holds: the system prompt, and the messages at their places.
SystemMessage == [at |-> 0, role |-> "system", calls |-> {}, answers |-> NoToolCall]
ExportedMessage(ms, k) ==
  [at |-> k, role |-> ms[k].role, calls |-> {call \in ms[k].calls : call.function # "none"},
   answers |-> ms[k].answers]

LEMMA RecordHolds ==
  ASSUME NEW row
  PROVE  /\ \A m \in ExportRecord(row).messages :
              \/ m = SystemMessage
              \/ \E k \in DOMAIN row.messages : m = ExportedMessage(row.messages, k)
         /\ \A k \in DOMAIN row.messages :
              row.messages[k].role # "other" =>
                ExportedMessage(row.messages, k) \in ExportRecord(row).messages
BY DEF ExportRecord, SystemMessage, ExportedMessage

\* Its record is sound.
LEMMA CleanVerifies ==
  ASSUME NEW row, row.messages \in Seq(TraceMessage), NoReviewWarnings(row.messages)
  PROVE  /\ CallsAreAnswered(ExportRecord(row))
         /\ WellNamed(row.messages) =>
              VerifyExport(ExportRecord(row)) /\ ResultsFollowCalls(ExportRecord(row))
<1>1. PICK ms : ms = row.messages
  OBVIOUS
<1>2. PICK record : record = ExportRecord(row)
  OBVIOUS
<1>3. /\ Len(ms) \in Nat /\ DOMAIN ms = 1 .. Len(ms) /\ NoReviewWarnings(ms)
      /\ \A k \in DOMAIN ms : ms[k] \in TraceMessage
  BY <1>1, LenProperties, ElementOfSeq
<1>4. /\ \A k \in DOMAIN ms : \A call \in ms[k].calls :
           /\ call.id # NoToolCall
           /\ \E j \in (k + 1) .. Len(ms) : ms[j].answers = call.id
      /\ \A k \in DOMAIN ms :
           ms[k].role = "tool" =>
             \E j \in 1 .. (k - 1) :
               /\ ms[k].answers \in CallIds(ms[j])
               /\ \A i \in (j + 1) .. (k - 1) : ms[i].answers # ms[k].answers
  BY <1>3, CleanIsAnswered
<1>5. \A m \in record.messages :
        m = SystemMessage \/ \E k \in DOMAIN ms : m = ExportedMessage(ms, k)
  BY <1>1, <1>2, RecordHolds
<1>6. \A k \in DOMAIN ms : ms[k].role # "other" => ExportedMessage(ms, k) \in record.messages
  BY <1>1, <1>2, RecordHolds
<1>7. \A k \in DOMAIN ms : /\ ms[k].answers # NoToolCall => ms[k].role = "tool"
                           /\ ms[k].calls # {} => ms[k].role = "assistant"
  BY <1>3 DEF TraceMessage
<1>8. ASSUME NEW k PROVE /\ ExportedMessage(ms, k).at = k
                         /\ ExportedMessage(ms, k).role = ms[k].role
                         /\ ExportedMessage(ms, k).answers = ms[k].answers
                         /\ ExportedMessage(ms, k).calls \subseteq ms[k].calls
  BY DEF ExportedMessage
<1>9. SystemMessage.role = "system" /\ SystemMessage.calls = {} /\ SystemMessage.at = 0
  BY DEF SystemMessage
<1>10. ASSUME NEW m \in record.messages, NEW call \in m.calls
       PROVE  \E n \in record.messages : n.at > m.at /\ n.role = "tool" /\ n.answers = call.id
  <2>1. PICK k \in DOMAIN ms : m = ExportedMessage(ms, k)
    BY <1>5, <1>9, <1>10
  <2>2. call \in ms[k].calls /\ m.at = k
    BY <1>8, <1>10, <2>1
  <2>3. call.id # NoToolCall
    BY <1>4, <2>2
  <2>4. PICK j \in (k + 1) .. Len(ms) : ms[j].answers = call.id
    BY <1>4, <2>2
  <2>5. j \in DOMAIN ms /\ j > k
    BY <1>3
  <2>6. ms[j].role = "tool"
    BY <1>7, <2>3, <2>4, <2>5
  <2>7. ExportedMessage(ms, j) \in record.messages
    BY <1>6, <2>5, <2>6
  <2> QED
    BY <1>8, <2>2, <2>4, <2>5, <2>6, <2>7
<1>11. ASSUME WellNamed(ms), NEW m \in record.messages
       PROVE  /\ m.role = "tool" => m.answers \notin BlankIds \cup {NoToolCall}
              /\ \A call \in m.calls : call.function = "named"
  <2>1. CASE m = SystemMessage
    BY <1>9, <2>1
  <2>2. ASSUME NEW k \in DOMAIN ms, m = ExportedMessage(ms, k)
        PROVE  /\ m.role = "tool" => m.answers \notin BlankIds \cup {NoToolCall}
               /\ \A call \in m.calls : call.function = "named"
    <3>1. \A call \in m.calls : call.function = "named"
      BY <1>8, <1>11, <2>2 DEF WellNamed
    <3>2. ASSUME m.role = "tool" PROVE m.answers \notin BlankIds \cup {NoToolCall}
      <4>1. ms[k].role = "tool" /\ m.answers = ms[k].answers
        BY <1>8, <2>2, <3>2
      <4>2. PICK j \in 1 .. (k - 1) : ms[k].answers \in CallIds(ms[j])
        BY <1>4, <2>2, <4>1
      <4>3. j \in DOMAIN ms
        BY <1>3, <2>2
      <4>4. PICK call \in ms[j].calls : call.id = ms[k].answers /\ call.id # NoToolCall
        BY <4>2 DEF CallIds
      <4>5. call.id \notin BlankIds
        BY <1>11, <4>3, <4>4 DEF WellNamed
      <4> QED
        BY <4>1, <4>4, <4>5
    <3> QED
      BY <3>1, <3>2
  <2> QED
    BY <1>5, <2>1, <2>2
<1>12. ASSUME WellNamed(ms), NEW m \in record.messages, m.role = "tool"
       PROVE  \E n \in record.messages :
                /\ n.at < m.at /\ \E call \in n.calls : call.id = m.answers
                /\ \A o \in record.messages : n.at < o.at /\ o.at < m.at => o.answers # m.answers
  <2>1. PICK k \in DOMAIN ms : m = ExportedMessage(ms, k)
    BY <1>5, <1>9, <1>12
  <2>2. ms[k].role = "tool" /\ m.answers = ms[k].answers /\ m.at = k
    BY <1>8, <1>12, <2>1
  <2>3. PICK j \in 1 .. (k - 1) : /\ ms[k].answers \in CallIds(ms[j])
                                 /\ \A i \in (j + 1) .. (k - 1) : ms[i].answers # ms[k].answers
    BY <1>4, <2>2
  <2>4. j \in DOMAIN ms /\ j < k /\ j \in Nat /\ j # 0 /\ k \in Nat
    BY <1>3
  <2>5. PICK call \in ms[j].calls : call.id = ms[k].answers
    BY <2>3 DEF CallIds
  <2>6. call.function = "named"
    BY <1>12, <2>4, <2>5 DEF WellNamed
  <2>7. call \in ExportedMessage(ms, j).calls
    BY <2>5, <2>6 DEF ExportedMessage
  <2>8. ms[j].role = "assistant"
    BY <1>7, <2>4, <2>5
  <2>9. ExportedMessage(ms, j) \in record.messages
    BY <1>6, <2>4, <2>8
  <2>10. ASSUME NEW o \in record.messages, j < o.at, o.at < k PROVE o.answers # m.answers
    <3>1. o # SystemMessage
      BY <1>9, <2>4, <2>10
    <3>2. PICK i \in DOMAIN ms : o = ExportedMessage(ms, i)
      BY <1>5, <3>1
    <3>3. o.at = i /\ o.answers = ms[i].answers
      BY <1>8, <3>2
    <3>4. i \in (j + 1) .. (k - 1)
      BY <1>3, <2>4, <2>10, <3>3
    <3> QED
      BY <2>2, <2>3, <3>3, <3>4
  <2> QED
    BY <1>8, <2>2, <2>4, <2>5, <2>7, <2>9, <2>10
<1>13. CallsAreAnswered(record)
  BY <1>10 DEF CallsAreAnswered
<1>14. WellNamed(ms) => VerifyExport(record)
  BY <1>11 DEF VerifyExport
<1>15. WellNamed(ms) => ResultsFollowCalls(record)
  BY <1>12 DEF ResultsFollowCalls
<1> QED
  BY <1>1, <1>2, <1>13, <1>14, <1>15

-----------------------------------------------------------------------------
(* TraceCuration: the messages of a curation.                              *)

\* Messages of their type that can be told apart by their ids, but for some.
GoodMessages(ms, but) == ms \in Seq(TraceMessage) /\ IdsDiffer(ms, but)

\* Among one number more than there are messages, one is not used.
LEMMA FreeIdExists ==
  ASSUME NEW ms, Len(ms) \in Nat
  PROVE  \E i \in (Len(ms) + 1) .. (2 * Len(ms) + 1) :
           <<"curated", i>> \notin {ms[k].id : k \in 1 .. Len(ms)}
<1> DEFINE n == Len(ms)
           S == (n + 1) .. (2 * n + 1)
           T == 1 .. n
           f == [i \in S |-> CHOOSE k \in T : ms[k].id = <<"curated", i>>]
<1>1. SUFFICES ASSUME \A i \in S : \E k \in T : ms[k].id = <<"curated", i>> PROVE FALSE
  OBVIOUS
<1>2. \A i \in S : f[i] \in T /\ ms[f[i]].id = <<"curated", i>>
  BY <1>1
<1>3. n \in Int /\ n + 1 \in Int /\ 2 * n + 1 \in Int /\ n + 1 <= 2 * n + 1 /\ 1 \in Int
      /\ (2 * n + 1) - (n + 1) + 1 = n + 1
  OBVIOUS
<1>4. IsFiniteSet(S) /\ Cardinality(S) = n + 1
  <2>1. IsFiniteSet(S) /\ Cardinality(S) = IF n + 1 <= 2 * n + 1 THEN (2 * n + 1) - (n + 1) + 1 ELSE 0
    BY <1>3, FS_Interval
  <2> QED
    BY <1>3, <2>1
<1>5. IsFiniteSet(T) /\ Cardinality(T) = n
  <2>1. IsFiniteSet(1 .. n) /\ Cardinality(1 .. n) = IF 1 <= n THEN n - 1 + 1 ELSE 0
    <3> HIDE DEF n
    <3> QED
      BY <1>3, FS_Interval
  <2>2. (IF 1 <= n THEN n - 1 + 1 ELSE 0) = n
    <3>1. n \in Nat
      OBVIOUS
    <3> HIDE DEF n
    <3> QED
      BY <3>1
  <2> QED
    BY <2>1, <2>2
<1>6. f \in [S -> T]
  BY <1>2
<1> HIDE DEF f
<1>7. PICK x \in S, y \in S : x # y /\ f[x] = f[y]
  <2>1. Cardinality(T) < Cardinality(S)
    BY <1>3, <1>4, <1>5
  <2> HIDE DEF S, T
  <2> QED
    BY <1>4, <1>5, <1>6, <2>1, FS_PigeonHole
<1>8. <<"curated", x>> = <<"curated", y>>
  BY <1>2, <1>7
<1> QED
  BY <1>7, <1>8

\* So an inserted message has an id of its own.
LEMMA NewIdIsNew ==
  ASSUME NEW ms, Len(ms) \in Nat
  PROVE  /\ NextCuratedMessageID(ms) \in MessageIds
         /\ \A k \in 1 .. Len(ms) : ms[k].id # NextCuratedMessageID(ms)
<1> DEFINE used == {ms[k].id : k \in 1 .. Len(ms)}
           free == {i \in (Len(ms) + 1) .. (2 * Len(ms) + 1) : <<"curated", i>> \notin used}
           next == CHOOSE i \in free : \A j \in free : i <= j
<1>1. free # {} /\ free \subseteq Nat
  <2>1. \E i \in (Len(ms) + 1) .. (2 * Len(ms) + 1) : <<"curated", i>> \notin used
    BY FreeIdExists
  <2> HIDE DEF used
  <2> QED
    BY <2>1
<1>2. next \in free
  <2> HIDE DEF free
  <2> QED
    BY <1>1, LeastNumber
<1>3. NextCuratedMessageID(ms) = <<"curated", next>>
  BY DEF NextCuratedMessageID
<1> HIDE DEF next
<1>4. <<"curated", next>> \notin used /\ next \in Nat
  BY <1>1, <1>2
<1> QED
  BY <1>3, <1>4 DEF MessageIds

\* Replacing the text of a message keeps the messages good.
LEMMA TextReplaced ==
  ASSUME NEW ms, NEW but, GoodMessages(ms, but), NEW k \in 1 .. Len(ms), NEW text \in BOOLEAN
  PROVE  GoodMessages([ms EXCEPT ![k].text = text], but)
<1> DEFINE m == [ms[k] EXCEPT !.text = text]
           new == [ms EXCEPT ![k] = m]
<1>1. ms \in Seq(TraceMessage) /\ IdsDiffer(ms, but) /\ DOMAIN ms = 1 .. Len(ms)
  BY DEF GoodMessages
<1>2. ms[k] \in TraceMessage
  BY <1>1, ElementOfSeq
<1>3. m \in TraceMessage /\ m.id = ms[k].id
  BY <1>2 DEF TraceMessage
<1> HIDE DEF m
<1>4. new \in Seq(TraceMessage) /\ DOMAIN new = DOMAIN ms
  BY <1>1, <1>3, ExceptSeq
<1>5. \A j \in DOMAIN ms : new[j].id = ms[j].id
  BY <1>1, <1>3
<1>6. IdsDiffer(new, but)
  <2> HIDE DEF new
  <2> QED
    BY <1>1, <1>4, <1>5 DEF IdsDiffer
<1>7. [ms EXCEPT ![k].text = text] = new
  BY DEF m
<1> QED
  BY <1>4, <1>6, <1>7 DEF GoodMessages

\* What an editor left is good but for the ids that it doubled.
LEMMA MessagesEdited ==
  ASSUME NEW ms \in EditedTraces
  PROVE  GoodMessages(ms, DoubledIds(ms)) /\ DoubledIds(ms) \subseteq MessageIds
<1>1. ms \in Seq(TraceMessage)
  BY TracesAssumption
<1>2. \A k \in DOMAIN ms : ms[k] \in TraceMessage
  BY <1>1, ElementOfSeq
<1>3. \A k \in DOMAIN ms : ms[k].id \in MessageIds
  BY <1>2 DEF TraceMessage
<1>4. DoubledIds(ms) \subseteq MessageIds
  BY <1>3 DEF DoubledIds
<1>5. IdsDiffer(ms, DoubledIds(ms))
  BY DEF IdsDiffer, DoubledIds
<1> QED
  BY <1>1, <1>4, <1>5 DEF GoodMessages

\* Two lists, one after the other.
LEMMA Joined ==
  \A S : \A x, y \in Seq(S) :
    /\ x \o y \in Seq(S) /\ Len(x \o y) = Len(x) + Len(y)
    /\ \A i \in 1..Len(x) : (x \o y)[i] = x[i]
    /\ \A i \in 1..Len(y) : (x \o y)[Len(x) + i] = y[i]
OBVIOUS

\* r is s with t in the place of what is from start to before end.
IsSplice(s, t, start, end, r) ==
  /\ Len(r) = Len(s) + Len(t) - (end - start)
  /\ \A i \in 1..start - 1 : r[i] = s[i]
  /\ \A k \in 1..Len(t) : r[start - 1 + k] = t[k]
  /\ \A j \in end..Len(s) : r[j + Len(t) - (end - start)] = s[j]

\* The three parts make it.
LEMMA Spliced ==
  ASSUME NEW S, NEW s \in Seq(S), NEW t \in Seq(S), NEW start \in 1..Len(s) + 1,
         NEW end \in start..Len(s) + 1
  PROVE  /\ SubSeq(s, 1, start - 1) \o t \o SubSeq(s, end, Len(s)) \in Seq(S)
         /\ IsSplice(s, t, start, end, SubSeq(s, 1, start - 1) \o t \o SubSeq(s, end, Len(s)))
<1> DEFINE a == SubSeq(s, 1, start - 1)
           b == SubSeq(s, end, Len(s))
           u == a \o t
           r == u \o b
<1>1. Len(s) \in Nat /\ Len(t) \in Nat /\ start \in Nat /\ end \in Nat
  OBVIOUS
<1>2. \A i \in 1..Len(s) : s[i] \in S
  OBVIOUS
<1>3. a \in Seq(S) /\ Len(a) = start - 1 /\ \A i \in 1..start - 1 : a[i] = s[i]
  BY <1>1, <1>2, SubSeqProperties
<1>4. /\ b \in Seq(S) /\ Len(b) = Len(s) - end + 1
      /\ \A i \in 1..Len(s) - end + 1 : b[i] = s[end + i - 1]
  BY <1>1, <1>2, SubSeqProperties
<1> HIDE DEF a, b
<1>5. /\ u \in Seq(S) /\ Len(u) = start - 1 + Len(t)
      /\ \A i \in 1..start - 1 : u[i] = s[i]
      /\ \A k \in 1..Len(t) : u[start - 1 + k] = t[k]
  BY <1>1, <1>3
<1> HIDE DEF u
<1>6. u \in Seq(S) /\ b \in Seq(S)
  BY <1>4, <1>5
<1> HIDE DEF r
<1>6a. r \in Seq(S) /\ Len(r) = Len(u) + Len(b)
  BY <1>6, Joined DEF r
<1>6b. \A i \in 1..Len(u) : r[i] = u[i]
  BY <1>6, Joined DEF r
<1>6c. \A i \in 1..Len(b) : r[Len(u) + i] = b[i]
  BY <1>6, Joined DEF r
<1>7. /\ r \in Seq(S) /\ Len(r) = Len(u) + Len(b)
      /\ \A i \in 1..Len(u) : r[i] = u[i]
      /\ \A i \in 1..Len(b) : r[Len(u) + i] = b[i]
  BY <1>6a, <1>6b, <1>6c
<1>8. Len(r) = Len(s) + Len(t) - (end - start)
  BY <1>1, <1>4, <1>5, <1>7
<1>9. ASSUME NEW i \in 1..start - 1 PROVE r[i] = s[i]
  <2>1. i \in 1..Len(u)
    BY <1>1, <1>5
  <2> QED
    BY <1>5, <1>7, <2>1
<1>10. ASSUME NEW k \in 1..Len(t) PROVE r[start - 1 + k] = t[k]
  <2>1. start - 1 + k \in 1..Len(u)
    BY <1>1, <1>5
  <2> QED
    BY <1>5, <1>7, <2>1
<1>11. ASSUME NEW j \in end..Len(s) PROVE r[j + Len(t) - (end - start)] = s[j]
  <2>1. j - end + 1 \in 1..Len(b) /\ b[j - end + 1] = s[j]
    <3>1. j - end + 1 \in 1..Len(s) - end + 1 /\ end + (j - end + 1) - 1 = j
      BY <1>1
    <3>2. b[j - end + 1] = s[end + (j - end + 1) - 1]
      BY <1>4, <3>1
    <3> QED
      BY <1>4, <3>1, <3>2
  <2>2. Len(u) + (j - end + 1) = j + Len(t) - (end - start)
    BY <1>1, <1>5
  <2> QED
    BY <1>7, <2>1, <2>2
<1> QED
  <2>1. IsSplice(s, t, start, end, r)
    BY <1>8, <1>9, <1>10, <1>11 DEF IsSplice
  <2> QED
    BY <1>7, <2>1 DEF r, u, a, b

\* Ids still differ when some messages take the place of others.
LEMMA SpliceKeepsIds ==
  ASSUME NEW but, NEW s \in Seq(TraceMessage), NEW t \in Seq(TraceMessage),
         NEW start \in 1..Len(s) + 1, NEW end \in start..Len(s) + 1, NEW r \in Seq(TraceMessage), IsSplice(s, t, start, end, r),
         IdsDiffer(s, but), IdsDiffer(t, but),
         \A j \in DOMAIN s, k \in DOMAIN t : s[j].id # t[k].id
  PROVE  IdsDiffer(r, but)
<1> DEFINE ls == Len(s)
           lt == Len(t)
           shift == lt - (end - start)
           First(i) == i \in 1..start - 1
           Second(i) == i \in start..start - 1 + lt
           Third(i) == i \in start + lt..ls + shift
<1>1. /\ ls \in Nat /\ lt \in Nat /\ DOMAIN s = 1..ls /\ DOMAIN t = 1..lt
      /\ DOMAIN r = 1..Len(r) /\ Len(r) = ls + shift
      /\ start \in Nat /\ end \in Nat /\ 1 <= start /\ start <= end /\ end <= ls + 1
  BY DEF IsSplice
<1>2. /\ \A i \in 1..start - 1 : r[i] = s[i]
      /\ \A k \in 1..lt : r[start - 1 + k] = t[k]
      /\ \A j \in end..ls : r[j + lt - (end - start)] = s[j]
  BY DEF IsSplice
<1> HIDE DEF ls, lt
<1>3. ASSUME NEW i \in DOMAIN r PROVE First(i) \/ Second(i) \/ Third(i)
  BY <1>1
<1>4. ASSUME NEW i, First(i) PROVE i \in Int /\ i \in DOMAIN s /\ r[i] = s[i]
  <2>1. i \in 1..ls
    BY <1>1, <1>4
  <2> QED
    BY <1>1, <1>2, <1>4, <2>1
<1>5. ASSUME NEW i, Second(i)
      PROVE  i \in Int /\ i - (start - 1) \in DOMAIN t /\ r[i] = t[i - (start - 1)]
  <2>1. i \in Int /\ i - (start - 1) \in 1..lt /\ start - 1 + (i - (start - 1)) = i
    BY <1>1, <1>5
  <2>2. r[start - 1 + (i - (start - 1))] = t[i - (start - 1)]
    BY <1>2, <2>1
  <2> QED
    BY <1>1, <2>1, <2>2
<1>6. ASSUME NEW i, Third(i)
      PROVE  i \in Int /\ i - shift \in DOMAIN s /\ i - shift >= end /\ r[i] = s[i - shift]
  <2>1. i \in Int /\ i - shift \in end..ls /\ i - shift \in 1..ls
        /\ (i - shift) + lt - (end - start) = i
    BY <1>1, <1>6
  <2>2. r[(i - shift) + lt - (end - start)] = s[i - shift]
    BY <1>2, <2>1
  <2> QED
    BY <1>1, <2>1, <2>2
<1>7. SUFFICES ASSUME NEW i \in DOMAIN r, NEW j \in DOMAIN r, r[i].id = r[j].id, r[i].id \notin but PROVE i = j
  BY DEF IdsDiffer
<1>8. /\ \A x, y \in DOMAIN s : s[x].id = s[y].id => x = y \/ s[x].id \in but
      /\ \A x, y \in DOMAIN t : t[x].id = t[y].id => x = y \/ t[x].id \in but
  BY DEF IdsDiffer
<1>8a. shift \in Int
  BY <1>1
<1> HIDE DEF First, Second, Third, shift
<1>9. CASE First(i) /\ First(j)
  BY <1>4, <1>7, <1>8, <1>9
<1>10. CASE First(i) /\ Third(j)
  <2>1. i = j - shift
    BY <1>4, <1>6, <1>7, <1>8, <1>10
  <2>2. i <= start - 1 /\ i >= end
    BY <1>6, <1>10, <2>1 DEF First
  <2> QED
    BY <1>1, <1>4, <1>10, <2>2
<1>11. CASE Third(i) /\ First(j)
  <2>1. j = i - shift
    BY <1>4, <1>6, <1>7, <1>8, <1>11
  <2>2. j <= start - 1 /\ j >= end
    BY <1>6, <1>11, <2>1 DEF First
  <2> QED
    BY <1>1, <1>4, <1>11, <2>2
<1>12. CASE Third(i) /\ Third(j)
  <2>1. i - shift = j - shift
    BY <1>6, <1>7, <1>8, <1>12
  <2>2. i \in Int /\ j \in Int
    BY <1>6, <1>12
  <2> QED
    BY <1>8a, <2>1, <2>2
<1>13. CASE Second(i) /\ Second(j)
  <2>1. i - (start - 1) = j - (start - 1)
    BY <1>5, <1>7, <1>8, <1>13
  <2>2. i \in Int /\ j \in Int
    BY <1>5, <1>13
  <2> QED
    BY <1>1, <2>1, <2>2
<1>14. CASE Second(i) /\ ~ Second(j)
  BY SMTT(30), <1>3, <1>4, <1>5, <1>6, <1>7, <1>14
<1>15. CASE ~ Second(i) /\ Second(j)
  BY SMTT(30), <1>3, <1>4, <1>5, <1>6, <1>7, <1>15
<1> QED
  BY <1>3, <1>9, <1>10, <1>11, <1>12, <1>13, <1>14, <1>15

\* Dropping a message keeps the messages good.
LEMMA MessageDropped ==
  ASSUME NEW ms, NEW but, GoodMessages(ms, but), NEW k \in 1 .. Len(ms)
  PROVE  GoodMessages(RemoveAt(ms, k), but)
<1> DEFINE r == SubSeq(ms, 1, k - 1) \o <<>> \o SubSeq(ms, k + 1, Len(ms))
<1>1. ms \in Seq(TraceMessage) /\ IdsDiffer(ms, but) /\ <<>> \in Seq(TraceMessage)
  BY DEF GoodMessages
<1>2. k \in 1..Len(ms) + 1 /\ k + 1 \in k..Len(ms) + 1
  BY <1>1
<1>3. r \in Seq(TraceMessage) /\ IsSplice(ms, <<>>, k, k + 1, r)
  BY <1>1, <1>2, Spliced
<1>4. IdsDiffer(<<>>, but) /\ \A j \in DOMAIN <<>> : FALSE
  BY DEF IdsDiffer
<1>5. RemoveAt(ms, k) = r
  <2>1. \A i \in 1..k - 1 : ms[i] \in TraceMessage
    BY <1>1, <1>2
  <2>2. SubSeq(ms, 1, k - 1) \in Seq(TraceMessage)
    BY <2>1, <1>2, SubSeqProperties
  <2>3. SubSeq(ms, 1, k - 1) \o <<>> = SubSeq(ms, 1, k - 1)
    BY <2>2, ConcatEmptySeq
  <2> QED
    BY <2>3 DEF RemoveAt
<1> HIDE DEF r
<1>6. IdsDiffer(r, but)
  BY <1>1, <1>2, <1>3, <1>4, SpliceKeepsIds
<1> QED
  BY <1>3, <1>5, <1>6 DEF GoodMessages

\* Inserting a message keeps the messages good.
LEMMA MessageInserted ==
  ASSUME NEW ms, NEW but, GoodMessages(ms, but), NEW k \in 1 .. Len(ms) + 1, NEW m \in TraceMessage,
         \A j \in 1 .. Len(ms) : ms[j].id # m.id
  PROVE  GoodMessages(InsertAt(ms, k, m), but)
<1> DEFINE r == SubSeq(ms, 1, k - 1) \o <<m>> \o SubSeq(ms, k, Len(ms))
<1>1. ms \in Seq(TraceMessage) /\ IdsDiffer(ms, but) /\ DOMAIN ms = 1..Len(ms)
  BY DEF GoodMessages
<1>2. <<m>> \in Seq(TraceMessage) /\ DOMAIN <<m>> = 1..1 /\ <<m>>[1] = m
  OBVIOUS
<1>3. k \in k..Len(ms) + 1
  OBVIOUS
<1>4. r \in Seq(TraceMessage) /\ IsSplice(ms, <<m>>, k, k, r)
  BY <1>1, <1>2, <1>3, Spliced
<1>5. IdsDiffer(<<m>>, but)
  BY <1>2 DEF IdsDiffer
<1>6. \A j \in DOMAIN ms, i \in DOMAIN <<m>> : ms[j].id # <<m>>[i].id
  BY <1>1, <1>2
<1>7. InsertAt(ms, k, m) = r
  BY DEF InsertAt
<1> HIDE DEF r
<1>8. IdsDiffer(r, but)
  BY <1>1, <1>2, <1>3, <1>4, <1>5, <1>6, SpliceKeepsIds
<1> QED
  BY <1>4, <1>7, <1>8 DEF GoodMessages


-----------------------------------------------------------------------------
(* TraceCuration: the commands.                                            *)

\* A row as it is in the table or about to be written there, by its number.
GoodRow(row, c) == row \in Row /\ row.id = c /\ GoodMessages(row.messages, row.doubled)

Command == [pc : {"idle", "write", "export"}, row : Row \cup {NoCuration},
            kind : {"", "approved", "rejected", "label", "replace_message", "drop_message",
                    "insert_message", "edit"},
            listed : SUBSET Nat]

CurationInv ==
    /\ curations \in Seq(Row) /\ Len(curations) <= MaxCurations
    /\ \A c \in 1 .. Len(curations) : GoodRow(curations[c], c)
    /\ \A e \in journal : e.id \in 1 .. Len(curations)
    /\ reviewers \in [Reviewers -> Command]
    /\ \A r \in Reviewers :
          /\ reviewers[r].listed \subseteq 1 .. Len(curations)
          /\ reviewers[r].pc = "write" =>
               /\ reviewers[r].row.id \in 1 .. Len(curations)
               /\ GoodRow(reviewers[r].row, reviewers[r].row.id)
    /\ reviews \in 0 .. MaxReviews

\* The state of a reviewer between two commands.
LEMMA DeskTyped == AtTheDesk \in Command /\ AtTheDesk.pc = "idle" /\ AtTheDesk.listed = {}
BY DEF AtTheDesk, Command, NoCuration

\* The invariant holds at the start.
LEMMA CurationStart == TraceCurationInit => CurationInv
<1> SUFFICES ASSUME TraceCurationInit PROVE CurationInv
  OBVIOUS
<1>1. Len(curations) = 0 /\ curations \in Seq(Row)
  BY DEF TraceCurationInit
<1>2. \A r \in Reviewers : reviewers[r] = AtTheDesk
  BY DEF TraceCurationInit
<1>3. reviewers \in [Reviewers -> Command]
  BY DeskTyped DEF TraceCurationInit
<1>4. \A c \in 1 .. Len(curations) : FALSE
  BY <1>1
<1>5. journal = {} /\ reviews \in 0 .. MaxReviews /\ Len(curations) <= MaxCurations
  BY <1>1, TraceCurationAssumption DEF TraceCurationInit
<1> QED
  BY <1>1, <1>2, <1>3, <1>4, <1>5, DeskTyped DEF CurationInv

\* A command read row c and changed its copy to a good row.
LEMMA ReadRowKeeps ==
  ASSUME CurationInv, NEW r \in Reviewers, NEW c \in 1 .. Len(curations), NEW row,
         NEW kind \in {"approved", "rejected", "label", "replace_message", "drop_message",
                       "insert_message", "edit"},
         ReadRow(r, c, row, kind), GoodRow(row, c)
  PROVE  CurationInv'
<1> DEFINE new == [pc |-> "write", row |-> row, kind |-> kind, listed |-> {}]
<1>1. /\ reviewers' = [reviewers EXCEPT ![r] = new] /\ reviews < MaxReviews /\ reviews' = reviews + 1
      /\ UNCHANGED <<curations, journal>>
  BY DEF ReadRow, MayBegin
<1>2. new \in Command
  BY DEF Command, GoodRow
<1>3. new.listed = {} /\ new.row = row /\ row.id = c
  BY DEF GoodRow
<1> HIDE DEF new
<1>4. reviewers' \in [Reviewers -> Command]
  BY <1>1, <1>2 DEF CurationInv
<1>5. \A q \in Reviewers : reviewers'[q] = IF q = r THEN new ELSE reviewers[q]
  BY <1>1 DEF CurationInv
<1>6. reviews' \in 0 .. MaxReviews
  BY <1>1, TraceCurationAssumption DEF CurationInv
<1>7. ASSUME NEW q \in Reviewers
      PROVE  /\ reviewers'[q].listed \subseteq 1 .. Len(curations)
             /\ reviewers'[q].pc = "write" =>
                  /\ reviewers'[q].row.id \in 1 .. Len(curations)
                  /\ GoodRow(reviewers'[q].row, reviewers'[q].row.id)
  <2>1. CASE q = r
    BY <1>3, <1>5, <2>1
  <2>2. CASE q # r
    BY <1>5, <2>2 DEF CurationInv
  <2> QED
    BY <2>1, <2>2
<1>8. curations' = curations /\ journal' = journal
  BY <1>1
<1>9. /\ curations' \in Seq(Row) /\ Len(curations') <= MaxCurations
      /\ \A d \in 1 .. Len(curations') : GoodRow(curations'[d], d)
      /\ \A e \in journal' : e.id \in 1 .. Len(curations')
  BY <1>8 DEF CurationInv
<1> QED
  BY <1>4, <1>6, <1>7, <1>8, <1>9 DEF CurationInv, GoodRow

\* Changing the messages, or another column, of a good row.
LEMMA MessagesChange ==
  ASSUME NEW row, NEW c, GoodRow(row, c), NEW ms,
         GoodMessages(ms, row.doubled)
  PROVE  GoodRow([row EXCEPT !.messages = ms], c)
BY DEF GoodRow, Row, GoodMessages

\* A command that read a row and has not written it yet.
LEMMA CommandKeeps ==
  ASSUME CurationInv, NEW r \in Reviewers, NEW c \in 1 .. Len(curations),
         \/ SetStatus(r, c) \/ Label(r, c) \/ ReplaceMessage(r, c) \/ DropMessage(r, c)
         \/ InsertMessage(r, c) \/ EditInEditor(r, c)
  PROVE  CurationInv'
<1> DEFINE row == curations[c]
           ms == row.messages
           but == row.doubled
<1>1. GoodRow(row, c) /\ GoodMessages(ms, but)
  BY DEF CurationInv, GoodRow
<1>2. ms \in Seq(TraceMessage) /\ Len(ms) \in Nat
  BY <1>1 DEF GoodMessages
<1>3. CASE SetStatus(r, c)
  <2>1. PICK status \in {"approved", "rejected"} :
          ReadRow(r, c, [row EXCEPT !.status = status], status)
    BY <1>3 DEF SetStatus
  <2>2. GoodRow([row EXCEPT !.status = status], c)
    BY <1>1 DEF GoodRow, Row, CurationStatuses
  <2> QED
    BY <2>1, <2>2, ReadRowKeeps
<1>4. CASE Label(r, c)
  <2>1. ReadRow(r, c, [row EXCEPT !.split = "train"], "label")
    BY <1>4 DEF Label
  <2>2. GoodRow([row EXCEPT !.split = "train"], c)
    BY <1>1 DEF GoodRow, Row
  <2> QED
    BY <2>1, <2>2, ReadRowKeeps
<1>5. ASSUME NEW new, GoodMessages(new, but),
             NEW kind \in {"replace_message", "drop_message", "insert_message"},
             MutateTrace(r, c, new, kind)
      PROVE  CurationInv'
  <2>1. ReadRow(r, c, [row EXCEPT !.messages = new], kind)
    BY <1>5 DEF MutateTrace
  <2>2. GoodRow([row EXCEPT !.messages = new], c)
    BY <1>1, <1>5, MessagesChange
  <2> QED
    BY <2>1, <2>2, ReadRowKeeps
<1>6. CASE ReplaceMessage(r, c)
  <2>1. PICK k \in 1 .. Len(ms), filled \in BOOLEAN :
          MutateTrace(r, c, [ms EXCEPT ![k].text = filled], "replace_message")
    BY <1>6 DEF ReplaceMessage
  <2>2. GoodMessages([ms EXCEPT ![k].text = filled], but)
    BY <1>1, TextReplaced
  <2> QED
    BY <1>5, <2>1, <2>2
<1>7. CASE DropMessage(r, c)
  <2>1. PICK k \in 1 .. Len(ms) : MutateTrace(r, c, RemoveAt(ms, k), "drop_message")
    BY <1>7 DEF DropMessage
  <2>2. GoodMessages(RemoveAt(ms, k), but)
    BY <1>1, MessageDropped
  <2> QED
    BY <1>5, <2>1, <2>2
<1>8. CASE InsertMessage(r, c)
  <2>1. PICK k \in 1 .. Len(ms) + 1, role \in {"user", "assistant", "tool"},
             call \in (ToolCalls \ BlankIds) \cup {NoToolCall} :
          /\ role # "tool" => call = NoToolCall
          /\ MutateTrace(r, c,
               InsertAt(ms, k, [id |-> NextCuratedMessageID(ms), role |-> role, calls |-> {},
                                answers |-> call, text |-> TRUE]), "insert_message")
    BY <1>8 DEF InsertMessage
  <2> DEFINE m == [id |-> NextCuratedMessageID(ms), role |-> role, calls |-> {},
                   answers |-> call, text |-> TRUE]
  <2>2. m \in TraceMessage
    BY <1>2, <2>1, NewIdIsNew DEF TraceMessage
  <2>3. \A j \in 1 .. Len(ms) : ms[j].id # m.id
    BY <1>2, NewIdIsNew
  <2> HIDE DEF ms, but
  <2>4. GoodMessages(InsertAt(ms, k, m), but)
    BY <1>1, <2>2, <2>3, MessageInserted
  <2> QED
    BY <1>5, <2>1, <2>4
<1>9. CASE EditInEditor(r, c)
  <2>1. PICK new \in EditedTraces :
          ReadRow(r, c, [row EXCEPT !.messages = new, !.doubled = DoubledIds(new)], "edit")
    BY <1>9 DEF EditInEditor
  <2>2. GoodMessages(new, DoubledIds(new)) /\ DoubledIds(new) \subseteq MessageIds
    BY MessagesEdited
  <2>3. GoodRow([row EXCEPT !.messages = new, !.doubled = DoubledIds(new)], c)
    BY <1>1, <2>2 DEF GoodRow, Row, GoodMessages
  <2> QED
    BY <2>1, <2>3, ReadRowKeeps
<1> QED
  BY <1>3, <1>4, <1>6, <1>7, <1>8, <1>9

\* A new curation of a raw trace.
LEMMA DeriveKeeps ==
  ASSUME CurationInv, NEW r \in Reviewers, Derive(r)
  PROVE  CurationInv'
<1> DEFINE n == Len(curations)
<1>1. PICK raw \in RawTraces :
        curations' = Append(curations, [id |-> n + 1, status |-> "draft", split |-> "",
                                        messages |-> raw, doubled |-> {}])
  BY DEF Derive
<1> DEFINE row == [id |-> n + 1, status |-> "draft", split |-> "",
                 messages |-> raw, doubled |-> {}]
<1>2. /\ n \in Nat /\ n < MaxCurations /\ reviews < MaxReviews /\ reviews' = reviews + 1
      /\ journal' = journal \cup {[id |-> n + 1, kind |-> "derive"]} /\ reviewers' = reviewers
  <2>1. n < MaxCurations /\ reviews < MaxReviews /\ reviews' = reviews + 1
    BY DEF Derive, MayBegin
  <2>2. journal' = journal \cup {[id |-> n + 1, kind |-> "derive"]} /\ reviewers' = reviewers
    BY DEF Derive
  <2>3. n \in Nat
    BY DEF CurationInv
  <2> QED
    BY <2>1, <2>2, <2>3
<1>3. GoodRow(row, n + 1)
  <2>1. raw \in Seq(TraceMessage) /\ IdsDiffer(raw, {})
    BY TracesAssumption
  <2>2. n + 1 \in 1 .. MaxCurations
    BY <1>2, TraceCurationAssumption
  <2> QED
    BY <2>1, <2>2 DEF GoodRow, Row, CurationStatuses, GoodMessages
<1> HIDE DEF row
<1>4. row \in Row /\ curations \in Seq(Row)
  BY <1>3 DEF GoodRow, CurationInv
<1>5. /\ curations' \in Seq(Row) /\ Len(curations') = n + 1
      /\ \A c \in 1 .. n : curations'[c] = curations[c]
      /\ curations'[n + 1] = row
  <2>1. curations' = Append(curations, row)
    BY <1>1 DEF row
  <2>2. curations' \in Seq(Row) /\ Len(curations') = n + 1
    BY <1>4, <2>1, AppendProperties
  <2>3. \A c \in 1 .. n : curations'[c] = curations[c]
    BY <1>4, <2>1, AppendProperties
  <2>4. curations'[n + 1] = row
    BY <1>4, <2>1, AppendProperties
  <2> QED
    BY <2>2, <2>3, <2>4
<1> HIDE DEF n
<1>6. \A c \in 1 .. n + 1 : c \in 1 .. n \/ c = n + 1
  BY <1>2
<1>7. \A c \in 1 .. n : GoodRow(curations[c], c)
  BY DEF CurationInv, n
<1>8. \A c \in 1 .. n + 1 : GoodRow(curations'[c], c)
  BY <1>3, <1>5, <1>6, <1>7
<1>9. 1 .. n \subseteq 1 .. n + 1 /\ n + 1 \in 1 .. n + 1
  BY <1>2
<1>10. \A e \in journal' : e.id \in 1 .. n + 1
  <2>1. \A e \in journal : e.id \in 1 .. n
    BY DEF CurationInv, n
  <2> QED
    BY <1>2, <1>9, <2>1
<1>11. ASSUME NEW q \in Reviewers
       PROVE  /\ reviewers'[q].listed \subseteq 1 .. n + 1
              /\ reviewers'[q].pc = "write" =>
                   /\ reviewers'[q].row.id \in 1 .. n + 1
                   /\ GoodRow(reviewers'[q].row, reviewers'[q].row.id)
  BY <1>2, <1>9 DEF CurationInv, n
<1>12. reviews' \in 0 .. MaxReviews /\ reviewers' \in [Reviewers -> Command] /\ n + 1 <= MaxCurations
  BY <1>2, TraceCurationAssumption DEF CurationInv
<1> QED
  BY <1>5, <1>8, <1>10, <1>11, <1>12 DEF CurationInv, GoodRow

\* A command writes the row it read, over whatever is there by now.
LEMMA WriteRowKeeps ==
  ASSUME CurationInv, NEW r \in Reviewers, WriteRow(r)
  PROVE  CurationInv'
<1> DEFINE row == reviewers[r].row
           i == row.id
<1>1. i \in 1 .. Len(curations) /\ GoodRow(row, i) /\ curations \in Seq(Row)
  BY DEF WriteRow, CurationInv
<1>2. /\ curations' = [curations EXCEPT ![i] = row] /\ reviews' = reviews
      /\ reviewers' = [reviewers EXCEPT ![r] = AtTheDesk]
  BY DEF WriteRow
<1>3. \A e \in journal' : e \in journal \/ e.id = i
  BY DEF WriteRow
<1> HIDE DEF row, i
<1>4. /\ curations' \in Seq(Row) /\ Len(curations') = Len(curations)
      /\ \A c \in 1 .. Len(curations) : curations'[c] = IF c = i THEN row ELSE curations[c]
  BY <1>1, <1>2, ExceptSeq DEF GoodRow
<1>5. \A c \in 1 .. Len(curations) : GoodRow(curations'[c], c)
  BY <1>1, <1>4 DEF CurationInv
<1>6. reviewers' \in [Reviewers -> Command]
      /\ \A q \in Reviewers : reviewers'[q] = IF q = r THEN AtTheDesk ELSE reviewers[q]
  BY <1>2, DeskTyped DEF CurationInv
<1>7. \A e \in journal' : e.id \in 1 .. Len(curations)
  BY <1>1, <1>3 DEF CurationInv
<1>8. ASSUME NEW q \in Reviewers
      PROVE  /\ reviewers'[q].listed \subseteq 1 .. Len(curations)
             /\ reviewers'[q].pc = "write" =>
                  /\ reviewers'[q].row.id \in 1 .. Len(curations)
                  /\ GoodRow(reviewers'[q].row, reviewers'[q].row.id)
  <2>1. CASE q = r
    BY <1>6, <2>1, DeskTyped
  <2>2. CASE q # r
    BY <1>6, <2>2 DEF CurationInv
  <2> QED
    BY <2>1, <2>2
<1>9. Len(curations') <= MaxCurations /\ reviews' \in 0 .. MaxReviews
  BY <1>2, <1>4 DEF CurationInv
<1> QED
  BY <1>4, <1>5, <1>6, <1>7, <1>8, <1>9 DEF CurationInv, GoodRow

\* A reviewer does something else than write.
LEMMA ReviewerMoves ==
  ASSUME CurationInv, NEW r \in Reviewers, NEW new \in Command,
         reviewers' = [reviewers EXCEPT ![r] = new], new.listed \subseteq 1 .. Len(curations),
         new.pc # "write", UNCHANGED <<curations, journal>>, reviews' \in 0 .. MaxReviews
  PROVE  CurationInv'
<1>1. reviewers' \in [Reviewers -> Command]
      /\ \A q \in Reviewers : reviewers'[q] = IF q = r THEN new ELSE reviewers[q]
  BY DEF CurationInv
<1>2. curations' = curations /\ journal' = journal
  OBVIOUS
<1>3. /\ curations' \in Seq(Row) /\ Len(curations') <= MaxCurations
      /\ \A d \in 1 .. Len(curations') : GoodRow(curations'[d], d)
      /\ \A e \in journal' : e.id \in 1 .. Len(curations')
  BY <1>2 DEF CurationInv
<1>4. ASSUME NEW q \in Reviewers
      PROVE  /\ reviewers'[q].listed \subseteq 1 .. Len(curations)
             /\ reviewers'[q].pc = "write" =>
                  /\ reviewers'[q].row.id \in 1 .. Len(curations)
                  /\ GoodRow(reviewers'[q].row, reviewers'[q].row.id)
  <2>1. CASE q = r
    BY <1>1, <2>1
  <2>2. CASE q # r
    BY <1>1, <2>2 DEF CurationInv
  <2> QED
    BY <2>1, <2>2
<1> QED
  BY <1>1, <1>2, <1>3, <1>4 DEF CurationInv, GoodRow

\* Ending a command, and exporting.
LEMMA OtherCommandsKeep ==
  ASSUME CurationInv, NEW r \in Reviewers, GiveUpEdit(r) \/ ListForExport(r) \/ ExportListed(r)
  PROVE  CurationInv'
<1>1. CASE GiveUpEdit(r)
  BY <1>1, DeskTyped, ReviewerMoves DEF GiveUpEdit, CurationInv
<1>2. CASE ExportListed(r)
  BY <1>2, DeskTyped, ReviewerMoves DEF ExportListed, CurationInv
<1>3. CASE ListForExport(r)
  <2>1. PICK chosen \in SUBSET (1 .. Len(curations)) :
          reviewers' = [reviewers EXCEPT ![r].pc = "export", ![r].listed = chosen]
    BY <1>3 DEF ListForExport
  <2> DEFINE new == [reviewers[r] EXCEPT !.pc = "export", !.listed = chosen]
  <2>2. reviewers' = [reviewers EXCEPT ![r] = new]
    BY <2>1
  <2>3. reviewers[r] \in Command /\ chosen \subseteq Nat
    BY DEF CurationInv
  <2>4. new \in Command /\ new.pc = "export" /\ new.listed = chosen
    BY <2>3 DEF Command
  <2> HIDE DEF new
  <2>5. reviews' \in 0 .. MaxReviews
    <3>1. reviews < MaxReviews /\ reviews' = reviews + 1
      BY <1>3 DEF ListForExport, MayBegin
    <3> QED
      BY <3>1, TraceCurationAssumption DEF CurationInv
  <2>6. UNCHANGED <<curations, journal>>
    BY <1>3 DEF ListForExport
  <2> QED
    BY <2>2, <2>4, <2>5, <2>6, ReviewerMoves
<1> QED
  BY <1>1, <1>2, <1>3

\* Every step keeps the invariant.
LEMMA CurationStep == CurationInv /\ [CurationNext]_curationVars => CurationInv'
<1> SUFFICES ASSUME CurationInv, [CurationNext]_curationVars PROVE CurationInv'
  OBVIOUS
<1>1. CASE UNCHANGED curationVars
  BY <1>1 DEF curationVars, CurationInv
<1>2. CASE CurationNext
  BY <1>2, DeriveKeeps, WriteRowKeeps, OtherCommandsKeep, CommandKeeps DEF CurationNext
<1> QED
  BY <1>1, <1>2

\* What the invariant says of the rows.
LEMMA CurationsAreRight ==
  CurationInv => CurationTypeOK /\ MessageRefsAreUnambiguous /\ CleanReviewExports
<1> SUFFICES ASSUME CurationInv
             PROVE  CurationTypeOK /\ MessageRefsAreUnambiguous /\ CleanReviewExports
  OBVIOUS
<1>1. ASSUME NEW c \in 1 .. Len(curations)
      PROVE  /\ curations[c] \in Row /\ curations[c].id = c
             /\ IdsDiffer(curations[c].messages, curations[c].doubled)
             /\ curations[c].messages \in Seq(TraceMessage)
  BY DEF CurationInv, GoodRow, GoodMessages
<1>2. \A r \in Reviewers : reviewers[r] \in Command
  BY DEF CurationInv
<1>3. CurationTypeOK
  BY <1>1, <1>2 DEF CurationTypeOK, CurationInv, Command
<1>4. ASSUME NEW c \in 1 .. Len(curations), NoReviewWarnings(curations[c].messages)
      PROVE  /\ CallsAreAnswered(ExportRecord(curations[c]))
             /\ WellNamed(curations[c].messages) =>
                  /\ VerifyExport(ExportRecord(curations[c]))
                  /\ ResultsFollowCalls(ExportRecord(curations[c]))
  BY <1>1, <1>4, CleanVerifies
<1> QED
  BY <1>1, <1>3, <1>4 DEF MessageRefsAreUnambiguous, CleanReviewExports

-----------------------------------------------------------------------------
(* LiveTrace: the events, their numbers and the audio beside them.         *)

\* The events that a goroutine records, and those that Close adds.
FrameKinds == {"frame", "quiet"}
WrittenBy(w) ==
  IF w = "capture" THEN FrameKinds \cup {"local_speech_end"}
  ELSE IF w = "playback" THEN {"sent", "interrupted"}
  ELSE IF w = "receiver" THEN {"interrupted", "gemini_audio_chunk", "final"}
  ELSE {"participant"}
TraceKinds == {"frame", "quiet", "local_speech_end", "sent", "interrupted", "gemini_audio_chunk",
               "final", "participant", "latency_summary", "trace_closed"}
Speakers == Users \cup {"", "gemini", "user", "assistant"}
TraceEvent == [kind : TraceKinds, t : Nat, who : Speakers, named : BOOLEAN]
SpeakerFits(e) == /\ e.kind \in FrameKinds => e.who \in Users
                  /\ e.kind = "sent" => e.who = "gemini"

Recording(w, r) ==
  \/ r = NoRecord
  \/ /\ r = [at |-> r.at, event |-> r.event] /\ r.at \in {"event", "segment"}
     /\ r.event \in TraceEvent /\ SpeakerFits(r.event) /\ r.event.kind \in WrittenBy(w)
     /\ r.at = "segment" => r.event.kind \in FrameKinds \cup {"sent"}

Closing(r) ==
  \/ /\ r = [at |-> r.at, left |-> r.left] /\ r.at \in {"idle", "summaries", "lock", "done"}
     /\ r.left \in Nat
  \/ /\ r = [at |-> "write", left |-> 0, events |-> events, segments |-> segments] /\ closed

TraceTyped ==
  /\ clock \in 0 .. MaxTime /\ names \subseteq Users /\ records \in 0 .. MaxRecords
  /\ closed \in BOOLEAN /\ latencies \in BOOLEAN
  /\ recording = [w \in Writers |-> recording[w]] /\ closing = [c \in Closers |-> closing[c]]
  /\ \A w \in Writers : Recording(w, recording[w])
  /\ \A c \in Closers : Closing(closing[c])
  /\ \A c \in Closers : closing[c].at # "summaries" => closing[c].left = 0

EventsTyped ==
  /\ events \in Seq(TraceEvent) /\ jsonl \in Seq(Nat)
  /\ Len(jsonl) = Len(events)
  /\ \A i \in 1 .. Len(events) : SpeakerFits(events[i]) /\ jsonl[i] = i

\* The conversation is over when somebody closes the trace.
OverWhenClosing ==
  /\ closed => \E c \in Closers : closing[c].at # "idle"
  /\ (\E c \in Closers : closing[c].at # "idle") => recording["playback"] = NoRecord

\* What is still to be measured is no more than what was not measured yet.
Left == closing["leave"].left + closing["decoder"].left
MeasuredOnce ==
  /\ Cardinality(Kind({"latency_summary"})) + Left <= Cardinality(Kind({"local_speech_end"}))
  /\ ~latencies => Kind({"latency_summary"}) = {} /\ Left = 0

\* A frame is heard, or its audio is being recorded, or was too late.
HasSegment(i) == [who |-> events[i].who, t |-> events[i].t] \in segments
BeingRecorded(w, i) == recording[w].at = "segment" /\ recording[w].event = events[i]
OneIsLate ==
  \E late \in 0 .. Len(events) :
    /\ \A i \in Kind(FrameKinds) : HasSegment(i) \/ i = late
    /\ late > 0 /\ ~closed => BeingRecorded("capture", late)
NoneOfTheModelIsLate ==
  \A i \in Kind({"sent"}) : HasSegment(i) \/ BeingRecorded("playback", i)

WrittenWhenClosed == files.written => closed /\ files.audio = DuplexWAV(segments)

TraceInv ==
  /\ TraceTyped /\ EventsTyped /\ OverWhenClosing /\ MeasuredOnce
  /\ OneIsLate /\ NoneOfTheModelIsLate /\ WrittenWhenClosed

\* The invariant holds at the start.
LEMMA TraceStart == TraceInit => TraceInv
<1> SUFFICES ASSUME TraceInit PROVE TraceInv
  OBVIOUS
<1>1. TraceTyped
  <2>1. clock \in 0 .. MaxTime /\ names \subseteq Users /\ records \in 0 .. MaxRecords
        /\ closed \in BOOLEAN /\ latencies \in BOOLEAN
    <3>1. clock = 0 /\ names = {} /\ records = 0 /\ closed = FALSE /\ latencies = FALSE
      BY DEF TraceInit
    <3>2. MaxTime \in Nat /\ MaxRecords \in Nat
      BY LiveTraceAssumption
    <3>3. closed \in BOOLEAN /\ latencies \in BOOLEAN
      BY <3>1
    <3>4. clock \in 0 .. MaxTime /\ records \in 0 .. MaxRecords /\ names \subseteq Users
      BY <3>1, <3>2
    <3> QED
      BY <3>3, <3>4
  <2>2. recording = [w \in Writers |-> recording[w]] /\ \A w \in Writers : recording[w] = NoRecord
    BY DEF TraceInit
  <2>3. \A c \in Closers : closing[c] = [at |-> "idle", left |-> 0]
    BY DEF TraceInit
  <2>4. closing = [c \in Closers |-> closing[c]]
    BY DEF TraceInit
  <2>5. \A c \in Closers : Closing(closing[c]) /\ closing[c].left = 0
    BY <2>3 DEF Closing
  <2> QED
    BY <2>1, <2>2, <2>4, <2>5 DEF TraceTyped, Recording
<1>2. events = <<>> /\ jsonl = <<>> /\ Len(events) = 0 /\ Len(jsonl) = 0
  BY DEF TraceInit
<1>3. EventsTyped
  <2>1. events \in Seq(TraceEvent) /\ jsonl \in Seq(Nat)
    BY <1>2
  <2> QED
    BY <1>2, <2>1 DEF EventsTyped
<1>4. OverWhenClosing
  BY DEF TraceInit, OverWhenClosing, Closers
<1>5. \A S : Kind(S) = {}
  BY <1>2 DEF Kind
<1>6. MeasuredOnce
  <2>1. Left = 0
    BY DEF TraceInit, Closers, Left
  <2>2. Cardinality({}) = 0
    BY FS_EmptySet
  <2> QED
    BY <1>5, <2>1, <2>2 DEF MeasuredOnce
<1>7. OneIsLate
  BY <1>2, <1>5 DEF OneIsLate
<1>8. NoneOfTheModelIsLate
  BY <1>5 DEF NoneOfTheModelIsLate
<1>9. WrittenWhenClosed
  BY DEF TraceInit, WrittenWhenClosed, NoFiles
<1> QED
  BY <1>1, <1>3, <1>4, <1>6, <1>7, <1>8, <1>9 DEF TraceInv

\* Where the events of some kinds are.
LEMMA KindIs ==
  ASSUME EventsTyped, NEW S
  PROVE  /\ IsFiniteSet(Kind(S)) /\ Cardinality(Kind(S)) \in Nat
         /\ Kind(S) \subseteq 1 .. Len(events)
<1>1. Kind(S) \subseteq 1 .. Len(events)
  BY DEF Kind, EventsTyped
<1>2. IsFiniteSet(1 .. Len(events))
  BY FS_Interval DEF EventsTyped
<1> QED
  BY <1>1, <1>2, FS_Subset, FS_CardinalityType

\* The same, after a step.
LEMMA KindIsNext ==
  ASSUME EventsTyped', NEW S
  PROVE  IsFiniteSet(Kind(S)') /\ Cardinality(Kind(S)') \in Nat
<1>1. Kind(S)' \subseteq 1 .. Len(events')
  BY DEF Kind, EventsTyped
<1>2. IsFiniteSet(1 .. Len(events'))
  BY FS_Interval DEF EventsTyped
<1> QED
  BY <1>1, <1>2, FS_Subset, FS_CardinalityType

\* Where the events of some kinds are, before and after one more event.
LEMMA KindAppended ==
  ASSUME EventsTyped, NEW e, events' = Append(events, e), NEW S
  PROVE  Kind(S)' = IF e.kind \in S THEN Kind(S) \cup {Len(events) + 1} ELSE Kind(S)
<1>1. /\ DOMAIN events = 1 .. Len(events) /\ DOMAIN events' = 1 .. (Len(events) + 1)
      /\ \A i \in 1 .. Len(events) : events'[i] = events[i]
      /\ events'[Len(events) + 1] = e
      /\ Len(events) \in Nat
  BY DEF EventsTyped
<1>2. Kind(S)' = {i \in 1 .. (Len(events) + 1) : events'[i].kind \in S}
  BY <1>1 DEF Kind
<1>3. Kind(S) = {i \in 1 .. Len(events) : events[i].kind \in S}
  BY <1>1 DEF Kind
<1>4. ASSUME NEW i
      PROVE  i \in Kind(S)' <=> (i \in Kind(S) \/ (e.kind \in S /\ i = Len(events) + 1))
  <2>1. CASE i \in 1 .. Len(events)
    BY <2>1, <1>1, <1>2, <1>3
  <2>2. CASE i = Len(events) + 1
    BY <2>2, <1>1, <1>2, <1>3
  <2>3. CASE i \notin 1 .. (Len(events) + 1)
    BY <2>3, <1>1, <1>2, <1>3
  <2> QED
    BY <2>1, <2>2, <2>3, <1>1
<1> QED
  BY <1>4

\* One event more: the events keep their type and their numbers.
LEMMA RecordAtKeeps ==
  ASSUME EventsTyped, NEW e \in TraceEvent, SpeakerFits(e), RecordAt(e)
  PROVE  EventsTyped'
<1>1. CASE closed
  BY <1>1 DEF RecordAt, EventsTyped
<1>2. CASE ~closed
  <2>1. events' = Append(events, e) /\ jsonl' = Append(jsonl, Len(events) + 1)
    BY <1>2 DEF RecordAt
  <2>2. events \in Seq(TraceEvent) /\ jsonl \in Seq(Nat) /\ Len(jsonl) = Len(events)
        /\ Len(events) \in Nat
    BY DEF EventsTyped
  <2>3. events' \in Seq(TraceEvent) /\ jsonl' \in Seq(Nat)
    BY <2>1, <2>2
  <2>4. Len(jsonl') = Len(events') /\ Len(events') = Len(events) + 1
    BY <2>1, <2>2
  <2>5. ASSUME NEW i \in 1 .. (Len(events) + 1)
        PROVE  SpeakerFits(events'[i]) /\ jsonl'[i] = i
    <3>1. CASE i = Len(events) + 1
      BY <3>1, <2>1, <2>2
    <3>2. CASE i \in 1 .. Len(events)
      <4>1. events'[i] = events[i] /\ jsonl'[i] = jsonl[i]
        BY <3>2, <2>1, <2>2
      <4> QED
        BY <4>1, <3>2 DEF EventsTyped
    <3> QED
      BY <3>1, <3>2, <2>2
  <2>6. \A i \in 1 .. (Len(events) + 1) : SpeakerFits(events'[i])
    BY <2>5
  <2>7. \A i \in 1 .. (Len(events) + 1) : jsonl'[i] = i
    BY <2>5
  <2> QED
    BY <2>3, <2>4, <2>6, <2>7 DEF EventsTyped, SpeakerFits
<1> QED
  BY <1>1, <1>2

\* Who records what.
LEMMA KindsOfWriters ==
  ASSUME NEW w \in Writers, NEW k \in WrittenBy(w)
  PROVE  /\ k \in FrameKinds => w = "capture"
         /\ k = "sent" => w = "playback"
         /\ k # "latency_summary"
BY DEF Writers, WrittenBy, FrameKinds

\* One recording changes and nothing that the audio or the numbers depend on.
LEMMA RecordingsTyped ==
  ASSUME TraceTyped, NEW w \in Writers, NEW r, Recording(w, r),
         recording' = [recording EXCEPT ![w] = r]
  PROVE  /\ recording' = [v \in Writers |-> recording'[v]]
         /\ \A v \in Writers : Recording(v, recording'[v])
         /\ recording'[w] = r /\ \A v \in Writers \ {w} : recording'[v] = recording[v]
<1>1. recording = [v \in Writers |-> recording[v]]
  BY DEF TraceTyped
<1>2. /\ recording' = [v \in Writers |-> recording'[v]]
      /\ recording'[w] = r /\ \A v \in Writers \ {w} : recording'[v] = recording[v]
  BY <1>1
<1>3. \A v \in Writers \ {w} : Recording(v, recording'[v])
  BY <1>2 DEF TraceTyped, Recording
<1> QED
  BY <1>2, <1>3

\* Closing changes its state only.
LEMMA ClosingsTyped ==
  ASSUME TraceTyped, NEW c \in Closers, NEW r, closing' = [closing EXCEPT ![c] = r]
  PROVE  /\ closing' = [d \in Closers |-> closing'[d]]
         /\ closing'[c] = r /\ \A d \in Closers \ {c} : closing'[d] = closing[d]
BY DEF TraceTyped

\* A Record* function makes its event.
LEMMA BeginsKeeps ==
  ASSUME TraceInv, NEW w \in Writers, NEW e \in TraceEvent, SpeakerFits(e),
         e.kind \in WrittenBy(w), Begins(w, e), names' \subseteq Users
  PROVE  TraceInv'
<1> DEFINE r == [at |-> "event", event |-> e]
<1>1. /\ recording[w] = NoRecord /\ ~Stopped(w) /\ records < MaxRecords
      /\ records' = records + 1
      /\ recording' = [recording EXCEPT ![w] = r]
      /\ clock' = clock /\ events' = events /\ jsonl' = jsonl /\ segments' = segments
      /\ closed' = closed /\ latencies' = latencies /\ closing' = closing /\ files' = files
  BY DEF Begins
<1>2. /\ TraceTyped /\ EventsTyped /\ OverWhenClosing /\ MeasuredOnce
      /\ OneIsLate /\ NoneOfTheModelIsLate /\ WrittenWhenClosed
  BY DEF TraceInv
<1>3. Recording(w, r)
  BY DEF Recording
<1>4. /\ recording' = [v \in Writers |-> recording'[v]]
      /\ \A v \in Writers : Recording(v, recording'[v])
      /\ recording'[w] = r /\ \A v \in Writers \ {w} : recording'[v] = recording[v]
  <2> HIDE DEF r
  <2> QED
    BY <1>1, <1>2, <1>3, RecordingsTyped
<1>5. TraceTyped'
  <2>1. records' \in 0 .. MaxRecords
    BY <1>1, <1>2, LiveTraceAssumption DEF TraceTyped
  <2>2. \A c \in Closers : Closing(closing[c])'
    BY <1>1, <1>2 DEF TraceTyped, Closing
  <2> QED
    BY <1>1, <1>2, <1>4, <2>1, <2>2 DEF TraceTyped
<1>6. EventsTyped'
  BY <1>1, <1>2 DEF EventsTyped, SpeakerFits
<1>7. OverWhenClosing'
  <2>1. ASSUME NEW c \in Closers, closing[c].at # "idle"
        PROVE  recording'["playback"] = NoRecord
    <3>1. w # "playback"
      BY <2>1, <1>1 DEF Stopped
    <3> QED
      BY <3>1, <2>1, <1>2, <1>4 DEF OverWhenClosing, Writers
  <2> QED
    BY <2>1, <1>1, <1>2 DEF OverWhenClosing
<1>8. \A S : Kind(S)' = Kind(S)
  BY <1>1 DEF Kind
<1>9. MeasuredOnce'
  BY <1>1, <1>2, <1>8 DEF MeasuredOnce, Left
<1>10. \A i : HasSegment(i)' <=> HasSegment(i)
  BY <1>1 DEF HasSegment
<1>11. recording[w].at # "segment"
  BY <1>1 DEF NoRecord
<1>12. \A v \in Writers, i \in 1 .. Len(events) : BeingRecorded(v, i) => BeingRecorded(v, i)'
  BY <1>1, <1>4, <1>11 DEF BeingRecorded
<1>13. OneIsLate'
  <2>1. PICK late \in 0 .. Len(events) :
          /\ \A i \in Kind(FrameKinds) : HasSegment(i) \/ i = late
          /\ late > 0 /\ ~closed => BeingRecorded("capture", late)
    BY <1>2 DEF OneIsLate
  <2>2. /\ \A i \in Kind(FrameKinds)' : HasSegment(i)' \/ i = late
        /\ late > 0 /\ ~closed' => BeingRecorded("capture", late)'
    BY <2>1, <1>1, <1>8, <1>10, <1>12 DEF Writers
  <2> QED
    BY <2>2, <1>1 DEF OneIsLate
<1>14. NoneOfTheModelIsLate'
  <2>1. ASSUME NEW i \in Kind({"sent"}) PROVE HasSegment(i)' \/ BeingRecorded("playback", i)'
    <3>1. i \in 1 .. Len(events)
      BY <1>2, KindIs
    <3> QED
      BY <3>1, <1>2, <1>10, <1>12 DEF NoneOfTheModelIsLate, Writers
  <2> QED
    BY <2>1, <1>8 DEF NoneOfTheModelIsLate
<1>15. WrittenWhenClosed'
  BY <1>1, <1>2 DEF WrittenWhenClosed
<1> QED
  BY <1>5, <1>6, <1>7, <1>9, <1>13, <1>14, <1>15 DEF TraceInv

\* The same, by what the event is made of.
LEMMA CallKeeps ==
  ASSUME TraceInv, NEW w \in Writers, NEW kind \in TraceKinds, NEW t \in Nat,
         NEW who \in Speakers, kind \in WrittenBy(w),
         kind \in FrameKinds => who \in Users, kind = "sent" => who = "gemini",
         Begins(w, Event(kind, t, who)), names' \subseteq Users
  PROVE  TraceInv'
<1> DEFINE e == Event(kind, t, who)
<1>1. e \in TraceEvent /\ e.kind = kind /\ e.who = who
  BY DEF Event, TraceEvent
<1> HIDE DEF e
<1>2. SpeakerFits(e)
  BY <1>1 DEF SpeakerFits
<1>3. Begins(w, e)
  BY DEF e
<1> QED
  BY <1>1, <1>2, <1>3, BeginsKeeps

\* The calls of the Record* functions.
LEMMA CallsKeep ==
  ASSUME TraceInv,
         \/ \E t \in 0 .. MaxTime :
              \/ \E who \in Users, loud \in BOOLEAN : RecordInboundAudioFrame(who, loud, t)
              \/ RecordLocalSpeechEnd(t)
         \/ RecordPlaybackFrameSent \/ RecordPlaybackInterruptClear
         \/ RecordGeminiInterrupted \/ RecordGeminiAudioChunk
         \/ \E role \in {"user", "assistant"} : RecordTranscript(role)
         \/ \E who \in Users : RecordParticipant(who)
  PROVE  TraceInv'
<1>1. clock \in Nat /\ names \subseteq Users
  BY LiveTraceAssumption DEF TraceInv, TraceTyped
<1>4. ASSUME NEW t \in 0 .. MaxTime, NEW who \in Users, NEW loud \in BOOLEAN,
             RecordInboundAudioFrame(who, loud, t)
      PROVE  TraceInv'
  <2> DEFINE kind == IF loud THEN "frame" ELSE "quiet"
  <2>1. Begins("capture", Event(kind, t, who)) /\ names' = names
    BY <1>4 DEF RecordInboundAudioFrame
  <2>2. kind = "frame" \/ kind = "quiet"
    OBVIOUS
  <2>3. "capture" \in Writers /\ who \in Speakers
    BY DEF Writers, Speakers
  <2>5. t \in Nat
    BY LiveTraceAssumption
  <2> HIDE DEF kind
  <2>4. kind \in TraceKinds /\ kind \in WrittenBy("capture") /\ kind # "sent"
    BY <2>2 DEF WrittenBy, FrameKinds, TraceKinds
  <2> QED
    BY <2>1, <2>3, <2>4, <2>5, <1>1, CallKeeps
<1>5. ASSUME NEW t \in 0 .. MaxTime, RecordLocalSpeechEnd(t) PROVE TraceInv'
  <2>1. Begins("capture", Event("local_speech_end", t, "")) /\ names' \subseteq Users
    BY <1>5, <1>1 DEF RecordLocalSpeechEnd
  <2>2. "local_speech_end" \in WrittenBy("capture")
    BY DEF WrittenBy, FrameKinds
  <2>3. "local_speech_end" \notin FrameKinds /\ ("local_speech_end" = "sent" => "" = "gemini")
    BY DEF FrameKinds
  <2>4. "capture" \in Writers /\ "local_speech_end" \in TraceKinds /\ "" \in Speakers
    BY DEF Writers, TraceKinds, Speakers
  <2>5. t \in Nat
    BY <1>1, LiveTraceAssumption
  <2> QED
    BY <2>1, <2>2, <2>3, <2>4, <2>5, CallKeeps
<1>6. CASE RecordPlaybackFrameSent
  <2>1. Begins("playback", Event("sent", clock, "gemini")) /\ names' \subseteq Users
    BY <1>6, <1>1 DEF RecordPlaybackFrameSent
  <2>2. "sent" \in WrittenBy("playback")
    BY DEF WrittenBy, FrameKinds
  <2>3. "sent" \notin FrameKinds /\ ("sent" = "sent" => "gemini" = "gemini")
    BY DEF FrameKinds
  <2>4. "playback" \in Writers /\ "sent" \in TraceKinds /\ "gemini" \in Speakers
    BY DEF Writers, TraceKinds, Speakers
  <2>5. clock \in Nat
    BY <1>1, LiveTraceAssumption
  <2> QED
    BY <2>1, <2>2, <2>3, <2>4, <2>5, CallKeeps
<1>7. CASE RecordPlaybackInterruptClear
  <2>1. Begins("playback", Event("interrupted", clock, "")) /\ names' \subseteq Users
    BY <1>7, <1>1 DEF RecordPlaybackInterruptClear
  <2>2. "interrupted" \in WrittenBy("playback")
    BY DEF WrittenBy, FrameKinds
  <2>3. "interrupted" \notin FrameKinds /\ ("interrupted" = "sent" => "" = "gemini")
    BY DEF FrameKinds
  <2>4. "playback" \in Writers /\ "interrupted" \in TraceKinds /\ "" \in Speakers
    BY DEF Writers, TraceKinds, Speakers
  <2>5. clock \in Nat
    BY <1>1, LiveTraceAssumption
  <2> QED
    BY <2>1, <2>2, <2>3, <2>4, <2>5, CallKeeps
<1>8. CASE RecordGeminiInterrupted
  <2>1. Begins("receiver", Event("interrupted", clock, "")) /\ names' \subseteq Users
    BY <1>8, <1>1 DEF RecordGeminiInterrupted
  <2>2. "interrupted" \in WrittenBy("receiver")
    BY DEF WrittenBy, FrameKinds
  <2>3. "interrupted" \notin FrameKinds /\ ("interrupted" = "sent" => "" = "gemini")
    BY DEF FrameKinds
  <2>4. "receiver" \in Writers /\ "interrupted" \in TraceKinds /\ "" \in Speakers
    BY DEF Writers, TraceKinds, Speakers
  <2>5. clock \in Nat
    BY <1>1, LiveTraceAssumption
  <2> QED
    BY <2>1, <2>2, <2>3, <2>4, <2>5, CallKeeps
<1>9. CASE RecordGeminiAudioChunk
  <2>1. Begins("receiver", Event("gemini_audio_chunk", clock, "")) /\ names' \subseteq Users
    BY <1>9, <1>1 DEF RecordGeminiAudioChunk
  <2>2. "gemini_audio_chunk" \in WrittenBy("receiver")
    BY DEF WrittenBy, FrameKinds
  <2>3. "gemini_audio_chunk" \notin FrameKinds /\ ("gemini_audio_chunk" = "sent" => "" = "gemini")
    BY DEF FrameKinds
  <2>4. "receiver" \in Writers /\ "gemini_audio_chunk" \in TraceKinds /\ "" \in Speakers
    BY DEF Writers, TraceKinds, Speakers
  <2>5. clock \in Nat
    BY <1>1, LiveTraceAssumption
  <2> QED
    BY <2>1, <2>2, <2>3, <2>4, <2>5, CallKeeps
<1>10. ASSUME NEW role \in {"user", "assistant"}, RecordTranscript(role) PROVE TraceInv'
  <2>1. Begins("receiver", Event("final", clock, role)) /\ names' \subseteq Users
    BY <1>10, <1>1 DEF RecordTranscript
  <2>2. "final" \in WrittenBy("receiver")
    BY DEF WrittenBy, FrameKinds
  <2>3. "final" \notin FrameKinds /\ ("final" = "sent" => role = "gemini")
    BY DEF FrameKinds
  <2>4. "receiver" \in Writers /\ "final" \in TraceKinds /\ role \in Speakers
    BY DEF Writers, TraceKinds, Speakers
  <2>5. clock \in Nat
    BY <1>1, LiveTraceAssumption
  <2> QED
    BY <2>1, <2>2, <2>3, <2>4, <2>5, CallKeeps
<1>11. ASSUME NEW who \in Users, RecordParticipant(who) PROVE TraceInv'
  <2>1. Begins("gateway", Event("participant", clock, who)) /\ names' \subseteq Users
    BY <1>11, <1>1 DEF RecordParticipant
  <2>2. "participant" \in WrittenBy("gateway")
    BY DEF WrittenBy, FrameKinds
  <2>3. "participant" \notin FrameKinds /\ ("participant" = "sent" => who = "gemini")
    BY DEF FrameKinds
  <2>4. "gateway" \in Writers /\ "participant" \in TraceKinds /\ who \in Speakers
    BY DEF Writers, TraceKinds, Speakers
  <2>5. clock \in Nat
    BY <1>1, LiveTraceAssumption
  <2> QED
    BY <2>1, <2>2, <2>3, <2>4, <2>5, CallKeeps
<1> QED
  BY <1>4, <1>5, <1>6, <1>7, <1>8, <1>9, <1>10, <1>11

\* A goroutine writes the event it made.
LEMMA WriteEventKeeps ==
  ASSUME TraceInv, NEW w \in Writers, WriteEvent(w)
  PROVE  TraceInv'
<1> DEFINE e == recording[w].event
           hasAudio == e.kind \in {"frame", "quiet", "sent"}
           r == IF hasAudio THEN [recording[w] EXCEPT !.at = "segment"] ELSE NoRecord
<1>1. /\ recording[w].at = "event" /\ RecordAt(e)
      /\ recording' = [recording EXCEPT ![w] = r]
      /\ clock' = clock /\ names' = names /\ segments' = segments /\ closed' = closed
      /\ latencies' = latencies /\ closing' = closing /\ files' = files /\ records' = records
  BY DEF WriteEvent
<1>2. /\ TraceTyped /\ EventsTyped /\ OverWhenClosing /\ MeasuredOnce
      /\ OneIsLate /\ NoneOfTheModelIsLate /\ WrittenWhenClosed
  BY DEF TraceInv
<1>3. recording[w] = [at |-> "event", event |-> e]
      /\ e \in TraceEvent /\ SpeakerFits(e) /\ e.kind \in WrittenBy(w)
  <2>1. Recording(w, recording[w])
    BY <1>2 DEF TraceTyped
  <2> QED
    BY <2>1, <1>1 DEF Recording, NoRecord
<1>4. r = IF hasAudio THEN [at |-> "segment", event |-> e] ELSE NoRecord
  BY <1>3
<1>5. hasAudio <=> e.kind \in FrameKinds \cup {"sent"}
  BY DEF FrameKinds
<1> HIDE DEF e, hasAudio, r
<1>6. Recording(w, r)
  <2>1. CASE hasAudio
    BY <2>1, <1>3, <1>4, <1>5 DEF Recording
  <2>2. CASE ~hasAudio
    BY <2>2, <1>4 DEF Recording
  <2> QED
    BY <2>1, <2>2
<1>7. /\ recording' = [v \in Writers |-> recording'[v]]
      /\ \A v \in Writers : Recording(v, recording'[v])
      /\ recording'[w] = r /\ \A v \in Writers \ {w} : recording'[v] = recording[v]
  BY <1>1, <1>2, <1>6, RecordingsTyped
<1>8. EventsTyped'
  BY <1>1, <1>2, <1>3, RecordAtKeeps
<1>9. closed => events' = events /\ jsonl' = jsonl
  BY <1>1 DEF RecordAt
<1>10. ~closed => events' = Append(events, e)
  BY <1>1 DEF RecordAt
<1>11. TraceTyped'
  <2>1. \A c \in Closers : Closing(closing[c])'
    BY <1>1, <1>2, <1>9 DEF TraceTyped, Closing
  <2> QED
    BY <1>1, <1>2, <1>7, <2>1 DEF TraceTyped
<1>12. OverWhenClosing'
  <2>1. ASSUME NEW c \in Closers, closing[c].at # "idle"
        PROVE  recording'["playback"] = NoRecord
    <3>1. recording["playback"] = NoRecord
      BY <2>1, <1>2 DEF OverWhenClosing
    <3>2. w # "playback"
      BY <3>1, <1>1 DEF NoRecord
    <3> QED
      BY <3>1, <3>2, <1>7 DEF Writers
  <2> QED
    BY <2>1, <1>1, <1>2 DEF OverWhenClosing
<1>13. Len(events) \in Nat /\ \A S : Kind(S) \subseteq 1 .. Len(events)
  BY <1>2, KindIs DEF EventsTyped
<1>14. ASSUME ~closed
       PROVE  /\ Len(events') = Len(events) + 1 /\ events'[Len(events) + 1] = e
              /\ \A i \in 1 .. Len(events) : events'[i] = events[i]
  BY SMTT(30), <1>14, <1>10, <1>2 DEF EventsTyped
<1>15. ASSUME NEW i \in 1 .. Len(events) PROVE events'[i] = events[i]
  BY <1>9, <1>14
<1>16. \A i \in 1 .. Len(events) : HasSegment(i)' <=> HasSegment(i)
  BY <1>15, <1>1 DEF HasSegment
<1>17. \A v \in Writers \ {w}, i \in 1 .. Len(events) : BeingRecorded(v, i) => BeingRecorded(v, i)'
  BY <1>7, <1>15 DEF BeingRecorded
<1>18. ASSUME NEW S
       PROVE  Kind(S)' = IF ~closed /\ e.kind \in S THEN Kind(S) \cup {Len(events) + 1} ELSE Kind(S)
  <2>1. CASE closed
    BY <2>1, <1>9 DEF Kind
  <2>2. CASE ~closed
    BY <2>2, <1>2, <1>10, KindAppended
  <2> QED
    BY <2>1, <2>2
<1>19. MeasuredOnce'
  <2>1. Kind({"latency_summary"})' = Kind({"latency_summary"})
    BY <1>3, <1>18, KindsOfWriters
  <2>2. Cardinality(Kind({"local_speech_end"})) <= Cardinality(Kind({"local_speech_end"})')
        /\ Cardinality(Kind({"local_speech_end"})) \in Nat
        /\ Cardinality(Kind({"local_speech_end"})') \in Nat
    <3>1. /\ IsFiniteSet(Kind({"local_speech_end"})')
          /\ Cardinality(Kind({"local_speech_end"})') \in Nat
      BY <1>8, KindIsNext
    <3>2. Kind({"local_speech_end"}) \subseteq Kind({"local_speech_end"})'
      BY <1>18
    <3> QED
      BY <3>1, <3>2, <1>2, KindIs, FS_Subset
  <2>3. Cardinality(Kind({"latency_summary"})) \in Nat
    BY <1>2, KindIs
  <2>4. Left \in Nat /\ Left' = Left
    BY <1>1, <1>2 DEF TraceTyped, Closing, Closers, Left
  <2>5. Cardinality(Kind({"latency_summary"})) + Left <= Cardinality(Kind({"local_speech_end"})')
    BY <2>2, <2>3, <2>4, <1>2 DEF MeasuredOnce
  <2> QED
    BY <2>1, <2>4, <2>5, <1>1, <1>2 DEF MeasuredOnce
<1>20. OneIsLate'
  <2>1. PICK late \in 0 .. Len(events) :
          /\ \A i \in Kind(FrameKinds) : HasSegment(i) \/ i = late
          /\ late > 0 /\ ~closed => BeingRecorded("capture", late)
    BY <1>2 DEF OneIsLate
  <2>2. CASE closed
    <3>1. Kind(FrameKinds)' = Kind(FrameKinds) /\ Len(events') = Len(events)
      BY <2>2, <1>9, <1>18
    <3>2. \A i \in Kind(FrameKinds)' : HasSegment(i)' \/ i = late
      BY <3>1, <2>1, <1>13, <1>16
    <3> QED
      BY <3>1, <3>2, <2>2, <1>1 DEF OneIsLate
  <2>3. CASE ~closed /\ w = "capture"
    <3>1. \A i \in Kind(FrameKinds) : HasSegment(i)
      <4>1. ~BeingRecorded("capture", late)
        BY <2>3, <1>1 DEF BeingRecorded
      <4>2. late = 0
        BY <4>1, <2>1, <2>3, <1>13
      <4> QED
        BY <4>2, <2>1, <1>13
    <3>2. CASE e.kind \in FrameKinds
      <4>1. Kind(FrameKinds)' = Kind(FrameKinds) \cup {Len(events) + 1}
        BY <3>2, <2>3, <1>18
      <4>2. PICK n \in Nat : n = Len(events) + 1
        BY <1>13
      <4>3. \A i \in Kind(FrameKinds)' : HasSegment(i)' \/ i = n
        BY <4>1, <4>2, <3>1, <1>13, <1>16
      <4>4. r = [at |-> "segment", event |-> e]
        BY <3>2, <1>4, <1>5
      <4>5. recording'["capture"].at = "segment" /\ recording'["capture"].event = e
        BY <4>4, <1>7, <2>3
      <4>6. events'[n] = e /\ n \in 0 .. Len(events')
        BY <4>2, <1>14, <2>3, <1>13
      <4>7. BeingRecorded("capture", n)'
        BY <4>5, <4>6 DEF BeingRecorded
      <4> QED
        BY <4>3, <4>6, <4>7 DEF OneIsLate
    <3>3. CASE e.kind \notin FrameKinds
      <4>1. Kind(FrameKinds)' = Kind(FrameKinds)
        BY <3>3, <1>18
      <4>2. \A i \in Kind(FrameKinds)' : HasSegment(i)' \/ i = 0
        BY <4>1, <3>1, <1>13, <1>16
      <4>3. 0 \in 0 .. Len(events')
        BY <1>14, <2>3, <1>13
      <4> QED
        BY <4>2, <4>3 DEF OneIsLate
    <3> QED
      BY <3>2, <3>3
  <2>4. CASE ~closed /\ w # "capture"
    <3>1. Kind(FrameKinds)' = Kind(FrameKinds)
      BY <2>4, <1>3, <1>18, KindsOfWriters
    <3>2. \A i \in Kind(FrameKinds)' : HasSegment(i)' \/ i = late
      BY <3>1, <2>1, <1>13, <1>16
    <3>3. late > 0 => BeingRecorded("capture", late)'
      BY <2>1, <2>4, <1>17, <1>13 DEF Writers
    <3>4. late \in 0 .. Len(events')
      BY <1>14, <2>4, <1>13
    <3> QED
      BY <3>2, <3>3, <3>4 DEF OneIsLate
  <2> QED
    BY <2>2, <2>3, <2>4
<1>21. NoneOfTheModelIsLate'
  <2>1. ASSUME NEW i \in Kind({"sent"})' PROVE HasSegment(i)' \/ BeingRecorded("playback", i)'
    <3>1. CASE i \in Kind({"sent"}) /\ w # "playback"
      BY <3>1, <1>2, <1>13, <1>16, <1>17 DEF NoneOfTheModelIsLate, Writers
    <3>2. CASE i \in Kind({"sent"}) /\ w = "playback"
      <4>1. ~BeingRecorded("playback", i)
        BY <3>2, <1>1 DEF BeingRecorded
      <4> QED
        BY <4>1, <3>2, <1>2, <1>13, <1>16 DEF NoneOfTheModelIsLate
    <3>3. CASE i \notin Kind({"sent"})
      <4>1. ~closed /\ e.kind = "sent" /\ i = Len(events) + 1
        BY <3>3, <2>1, <1>18
      <4>2. w = "playback" /\ r = [at |-> "segment", event |-> e]
        BY <4>1, <1>3, <1>4, <1>5, KindsOfWriters
      <4>3. recording'["playback"].at = "segment" /\ recording'["playback"].event = e
        BY <4>2, <1>7
      <4>4. events'[i] = e
        BY <4>1, <1>14
      <4> QED
        BY <4>3, <4>4 DEF BeingRecorded
    <3> QED
      BY <3>1, <3>2, <3>3
  <2> QED
    BY <2>1 DEF NoneOfTheModelIsLate
<1>22. WrittenWhenClosed'
  BY <1>1, <1>2 DEF WrittenWhenClosed
<1> QED
  BY <1>8, <1>11, <1>12, <1>19, <1>20, <1>21, <1>22 DEF TraceInv

\* The audio of a frame that was written as an event, unless the trace is closed.
LEMMA AddAudioSegmentKeeps ==
  ASSUME TraceInv, NEW w \in Writers, AddAudioSegment(w)
  PROVE  TraceInv'
<1> DEFINE e == recording[w].event
           mine == [who |-> e.who, t |-> e.t]
<1>1. /\ recording[w].at = "segment"
      /\ segments' = IF closed THEN segments ELSE segments \cup {mine}
      /\ recording' = [recording EXCEPT ![w] = NoRecord]
      /\ clock' = clock /\ names' = names /\ events' = events /\ jsonl' = jsonl
      /\ closed' = closed /\ latencies' = latencies /\ closing' = closing /\ files' = files
      /\ records' = records
  BY DEF AddAudioSegment
<1>2. /\ TraceTyped /\ EventsTyped /\ OverWhenClosing /\ MeasuredOnce
      /\ OneIsLate /\ NoneOfTheModelIsLate /\ WrittenWhenClosed
  BY DEF TraceInv
<1>3. \A i \in DOMAIN events : events[i] = e => mine = [who |-> events[i].who, t |-> events[i].t]
  OBVIOUS
<1> HIDE DEF mine
<1>4. Recording(w, NoRecord)
  BY DEF Recording
<1>5. /\ recording' = [v \in Writers |-> recording'[v]]
      /\ \A v \in Writers : Recording(v, recording'[v])
      /\ recording'[w] = NoRecord /\ \A v \in Writers \ {w} : recording'[v] = recording[v]
  BY <1>1, <1>2, <1>4, RecordingsTyped
<1>6. TraceTyped'
  <2>1. ASSUME NEW c \in Closers PROVE Closing(closing[c])'
    <3>1. Closing(closing[c])
      BY <1>2 DEF TraceTyped
    <3> QED
      BY <3>1, <1>1 DEF Closing
  <2> QED
    BY <1>1, <1>2, <1>5, <2>1 DEF TraceTyped
<1>7. EventsTyped'
  BY <1>1, <1>2 DEF EventsTyped, SpeakerFits
<1>8. OverWhenClosing'
  <2>1. recording["playback"] = NoRecord => recording'["playback"] = NoRecord
    BY <1>5 DEF Writers
  <2> QED
    BY <2>1, <1>1, <1>2 DEF OverWhenClosing
<1>9. \A S : Kind(S)' = Kind(S)
  BY <1>1 DEF Kind
<1>10. MeasuredOnce'
  BY <1>1, <1>2, <1>9 DEF MeasuredOnce, Left
<1>11. \A i : HasSegment(i) => HasSegment(i)'
  BY <1>1 DEF HasSegment
<1>12. \A i \in DOMAIN events : ~closed /\ BeingRecorded(w, i) => HasSegment(i)'
  BY <1>1, <1>3 DEF BeingRecorded, HasSegment
<1>13. DOMAIN events = 1 .. Len(events) /\ Len(events) \in Nat /\ \A S : Kind(S) \subseteq DOMAIN events
  BY <1>2 DEF EventsTyped, Kind
<1>14. \A v \in Writers \ {w}, i \in DOMAIN events : BeingRecorded(v, i) => BeingRecorded(v, i)'
  BY <1>5, <1>1 DEF BeingRecorded
<1>15. OneIsLate'
  <2>1. PICK late \in 0 .. Len(events) :
          /\ \A i \in Kind(FrameKinds) : HasSegment(i) \/ i = late
          /\ late > 0 /\ ~closed => BeingRecorded("capture", late)
    BY <1>2 DEF OneIsLate
  <2>2. CASE closed \/ w # "capture" \/ late = 0
    <3>1. \A i \in Kind(FrameKinds)' : HasSegment(i)' \/ i = late
      BY <2>1, <1>9, <1>11
    <3>2. late > 0 /\ ~closed' => BeingRecorded("capture", late)'
      BY <2>1, <2>2, <1>1, <1>13, <1>14 DEF Writers
    <3> QED
      BY <3>1, <3>2, <1>1 DEF OneIsLate
  <2>3. CASE ~closed /\ w = "capture" /\ late > 0
    <3>1. HasSegment(late)'
      BY <2>1, <2>3, <1>12, <1>13
    <3>2. \A i \in Kind(FrameKinds)' : HasSegment(i)' \/ i = 0
      BY <3>1, <2>1, <1>9, <1>11
    <3>3. 0 \in 0 .. Len(events')
      BY <1>1, <1>13
    <3> QED
      BY <3>2, <3>3 DEF OneIsLate
  <2> QED
    BY <2>2, <2>3
<1>16. NoneOfTheModelIsLate'
  <2>1. ASSUME NEW i \in Kind({"sent"}) PROVE HasSegment(i)' \/ BeingRecorded("playback", i)'
    <3>1. i \in DOMAIN events /\ (HasSegment(i) \/ BeingRecorded("playback", i))
      BY <1>2, <1>13 DEF NoneOfTheModelIsLate
    <3>2. CASE w = "playback"
      <4>1. ~closed
        BY <3>2, <1>1, <1>2 DEF OverWhenClosing, NoRecord
      <4> QED
        BY <4>1, <3>1, <3>2, <1>11, <1>12
    <3>3. CASE w # "playback"
      BY <3>1, <3>3, <1>11, <1>14 DEF Writers
    <3> QED
      BY <3>2, <3>3
  <2> QED
    BY <2>1, <1>9 DEF NoneOfTheModelIsLate
<1>17. WrittenWhenClosed'
  BY <1>1, <1>2 DEF WrittenWhenClosed
<1> QED
  BY <1>6, <1>7, <1>8, <1>10, <1>15, <1>16, <1>17 DEF TraceInv

\* What a step of Close keeps that leaves the recordings and the segments alone, and
\* writes no frame.
LEMMA AudioKept ==
  ASSUME TraceInv, recording' = recording, segments' = segments, closed => closed',
         \/ events' = events
         \/ ~closed' /\ \E e : events' = Append(events, e) /\ e.kind \notin FrameKinds \cup {"sent"}
  PROVE  OneIsLate' /\ NoneOfTheModelIsLate'
<1>1. EventsTyped /\ OneIsLate /\ NoneOfTheModelIsLate
  BY DEF TraceInv
<1>2. Len(events) \in Nat /\ \A S : Kind(S) \subseteq 1 .. Len(events)
  BY <1>1, KindIs DEF EventsTyped
<1>3. /\ Kind(FrameKinds)' = Kind(FrameKinds) /\ Kind({"sent"})' = Kind({"sent"})
      /\ Len(events') \in Nat /\ Len(events) <= Len(events')
      /\ \A i \in 1 .. Len(events) : events'[i] = events[i]
  <2>1. CASE events' = events
    BY <2>1, <1>2 DEF Kind
  <2>2. CASE events' # events
    <3>1. PICK e : events' = Append(events, e) /\ e.kind \notin FrameKinds \cup {"sent"}
      BY <2>2
    <3>2. Kind(FrameKinds)' = Kind(FrameKinds)
      BY <3>1, <1>1, KindAppended
    <3>3. Kind({"sent"})' = Kind({"sent"})
      BY <3>1, <1>1, KindAppended
    <3>4. /\ Len(events') = Len(events) + 1
          /\ \A i \in 1 .. Len(events) : events'[i] = events[i]
      BY <3>1, <1>1 DEF EventsTyped
    <3> QED
      BY <3>2, <3>3, <3>4, <1>2
  <2> QED
    BY <2>1, <2>2
<1>4. \A i \in 1 .. Len(events) : HasSegment(i) => HasSegment(i)'
  BY <1>3 DEF HasSegment
<1>6. ASSUME NEW v \in Writers, NEW i \in 1 .. Len(events), BeingRecorded(v, i)
      PROVE  BeingRecorded(v, i)'
  BY <1>3, <1>6 DEF BeingRecorded
<1>7. OneIsLate'
  <2>1. PICK late \in 0 .. Len(events) :
          /\ \A i \in Kind(FrameKinds) : HasSegment(i) \/ i = late
          /\ late > 0 /\ ~closed => BeingRecorded("capture", late)
    BY <1>1 DEF OneIsLate
  <2>2. \A i \in Kind(FrameKinds)' : HasSegment(i)' \/ i = late
    BY <2>1, <1>2, <1>3, <1>4
  <2>3. late > 0 /\ ~closed' => BeingRecorded("capture", late)'
    BY <2>1, <1>2, <1>6 DEF Writers
  <2>4. late \in 0 .. Len(events')
    BY <1>2, <1>3
  <2> QED
    BY <2>2, <2>3, <2>4 DEF OneIsLate
<1>8. NoneOfTheModelIsLate'
  BY <1>1, <1>2, <1>3, <1>4, <1>6 DEF NoneOfTheModelIsLate, Writers
<1> QED
  BY <1>7, <1>8

\* There are two ways to close a trace.
LEMMA TwoClosers ==
  /\ Closers = {"leave", "decoder"} /\ "leave" # "decoder"
  /\ "leave" \in Closers /\ "decoder" \in Closers
BY DEF Closers

\* What the two Closes have still to measure, when one of them changes.
LEMMA LeftChanges ==
  ASSUME TraceTyped, NEW c \in Closers, NEW r, r.left \in Nat,
         closing' = [closing EXCEPT ![c] = r]
  PROVE  /\ Left \in Nat /\ closing[c].left \in Nat /\ closing[c].left <= Left
         /\ Left' = Left - closing[c].left + r.left
<1>1. closing["leave"].left \in Nat /\ closing["decoder"].left \in Nat
  BY TwoClosers DEF TraceTyped, Closing
<1>2. closing'[c] = r /\ \A d \in Closers \ {c} : closing'[d] = closing[d]
  BY ClosingsTyped
<1>3. CASE c = "leave"
  <2>1. closing'["leave"].left = r.left /\ closing'["decoder"].left = closing["decoder"].left
    BY <1>2, <1>3, TwoClosers
  <2> QED
    BY <2>1, <1>1, <1>3 DEF Left
<1>4. CASE c = "decoder"
  <2>1. closing'["decoder"].left = r.left /\ closing'["leave"].left = closing["leave"].left
    BY <1>2, <1>4, TwoClosers
  <2> QED
    BY <2>1, <1>1, <1>4 DEF Left
<1> QED
  BY <1>3, <1>4, TwoClosers

\* A Close goes on: its own state changes, and no recording, segment or time.
Unwritten == UNCHANGED <<clock, names, segments, recording, records>>

\* Then types are kept, and the playback stays over.
LEMMA ClosingGoesOn ==
  ASSUME TraceInv, NEW c \in Closers, NEW r, closing' = [closing EXCEPT ![c] = r], Unwritten,
         r.left \in Nat, r.at # "summaries" => r.left = 0, r.at # "idle",
         recording["playback"] = NoRecord,
         closed' \in BOOLEAN, latencies' \in BOOLEAN, closed => closed',
         closed => events' = events, Closing(r)'
  PROVE  TraceTyped' /\ OverWhenClosing'
<1>1. TraceTyped /\ OverWhenClosing
  BY DEF TraceInv
<1>2. /\ closing' = [d \in Closers |-> closing'[d]]
      /\ closing'[c] = r /\ \A d \in Closers \ {c} : closing'[d] = closing[d]
  BY <1>1, ClosingsTyped
<1>3. UNCHANGED <<clock, names, segments, recording, records>>
  BY DEF Unwritten
<1>4. ASSUME NEW d \in Closers PROVE Closing(closing[d])'
  <2>1. CASE d = c
    BY <2>1, <1>2 DEF Closing
  <2>2. CASE d # c
    <3>1. closing'[d] = closing[d] /\ Closing(closing[d])
      BY <2>2, <1>1, <1>2 DEF TraceTyped
    <3> QED
      BY <3>1, <1>3 DEF Closing
  <2> QED
    BY <2>1, <2>2
<1>5. ASSUME NEW d \in Closers, closing'[d].at # "summaries" PROVE closing'[d].left = 0
  BY <1>1, <1>2, <1>5 DEF TraceTyped
<1>6. TraceTyped'
  BY <1>1, <1>2, <1>3, <1>4, <1>5 DEF TraceTyped
<1>7. OverWhenClosing'
  BY <1>2, <1>3 DEF OverWhenClosing
<1> QED
  BY <1>6, <1>7

\* The playback is over from the beginning of Close.
LEMMA PlaybackIsOver ==
  ASSUME TraceInv, NEW c \in Closers, closing[c].at # "idle"
  PROVE  recording["playback"] = NoRecord
BY DEF TraceInv, OverWhenClosing

\* Close begins, and the first one counts what there is to measure.
LEMMA CloseBeginsKeeps ==
  ASSUME TraceInv, NEW c \in Closers, CloseBegins(c)
  PROVE  TraceInv'
<1>0. PICK n : n = IF closed \/ latencies THEN 0 ELSE Summaries(events)
  OBVIOUS
<1> DEFINE r == [at |-> "summaries", left |-> n]
<1>1. /\ closing[c].at = "idle" /\ recording["playback"] = NoRecord
      /\ closing' = [closing EXCEPT ![c] = r] /\ latencies' = (latencies \/ ~closed)
      /\ clock' = clock /\ names' = names /\ events' = events /\ jsonl' = jsonl
      /\ segments' = segments /\ recording' = recording /\ closed' = closed /\ files' = files
      /\ records' = records
  BY <1>0 DEF CloseBegins
<1>2. /\ TraceTyped /\ EventsTyped /\ OverWhenClosing /\ MeasuredOnce
      /\ OneIsLate /\ NoneOfTheModelIsLate /\ WrittenWhenClosed
  BY DEF TraceInv
<1>3. /\ Summaries(events) \in Nat
      /\ Summaries(events) <= Cardinality(Kind({"local_speech_end"}))
  <2>1. PICK S : S \subseteq Kind({"local_speech_end"}) /\ Summaries(events) = Cardinality(S)
    BY DEF Summaries, Kind
  <2> QED
    BY <2>1, <1>2, KindIs, FS_Subset, FS_CardinalityType
<1>4. n \in Nat /\ r.left = n /\ r.at = "summaries" /\ Closing(r)'
  BY <1>0, <1>3 DEF Closing
<1>5. n > 0 => ~closed /\ ~latencies /\ n = Summaries(events)
  BY <1>0
<1> HIDE DEF r
<1>6. closed' \in BOOLEAN /\ latencies' \in BOOLEAN
  BY <1>1, <1>2 DEF TraceTyped
<1>7. TraceTyped' /\ OverWhenClosing'
  BY <1>1, <1>4, <1>6, ClosingGoesOn DEF Unwritten
<1>8. EventsTyped'
  BY <1>1, <1>2 DEF EventsTyped, SpeakerFits
<1>9. OneIsLate' /\ NoneOfTheModelIsLate'
  BY <1>1, AudioKept
<1>10. MeasuredOnce'
  <2>1. \A S : Kind(S)' = Kind(S)
    BY <1>1 DEF Kind
  <2>2. Left \in Nat /\ Left' = Left + n
    <3>1. closing[c].left = 0
      BY <1>1, <1>2 DEF TraceTyped
    <3>2. Left \in Nat /\ Left' = Left - closing[c].left + r.left
      BY <1>1, <1>2, <1>4, LeftChanges
    <3> QED
      BY <3>1, <3>2, <1>4
  <2>3. CASE n = 0
    <3>1. Left' = Left
      BY <2>2, <2>3
    <3>2. ~latencies' => ~latencies
      BY <1>1
    <3> QED
      BY <3>1, <3>2, <2>1, <1>2 DEF MeasuredOnce
  <2>4. CASE n > 0
    <3>1. Kind({"latency_summary"}) = {} /\ Left = 0 /\ latencies' = TRUE
      BY <2>4, <1>1, <1>2, <1>5 DEF MeasuredOnce
    <3>2. Cardinality(Kind({"latency_summary"})) = 0
      BY <3>1, FS_EmptySet
    <3>3. Cardinality(Kind({"local_speech_end"})) \in Nat
      BY <1>2, KindIs
    <3>4. Cardinality(Kind({"latency_summary"})) + Left' <= Cardinality(Kind({"local_speech_end"}))
      BY <3>1, <3>2, <3>3, <2>2, <2>4, <1>3, <1>5
    <3> QED
      BY <3>1, <3>4, <2>1 DEF MeasuredOnce
  <2> QED
    BY <2>3, <2>4, <1>4
<1>11. WrittenWhenClosed'
  BY <1>1, <1>2 DEF WrittenWhenClosed
<1> QED
  BY <1>7, <1>8, <1>9, <1>10, <1>11 DEF TraceInv

\* A Close that writes summaries, and a state of Close without copies.
LEMMA InSummaries ==
  ASSUME TraceTyped, NEW c \in Closers, closing[c].at = "summaries"
  PROVE  closing[c] = [at |-> "summaries", left |-> closing[c].left] /\ closing[c].left \in Nat
<1>1. Closing(closing[c])
  BY DEF TraceTyped
<1>2. closing[c] # [at |-> "write", left |-> 0, events |-> events, segments |-> segments]
  OBVIOUS
<1> QED
  BY <1>1, <1>2 DEF Closing

\* A state of Close without copies.
LEMMA SimpleClosing ==
  ASSUME NEW a \in {"idle", "summaries", "lock", "done"}, NEW n \in Nat
  PROVE  Closing([at |-> a, left |-> n])'
BY DEF Closing

\* Close writes one summary, or the event that says that the trace is closed.
LEMMA RecordSummaryKeeps ==
  ASSUME TraceInv, NEW c \in Closers, RecordSummary(c)
  PROVE  TraceInv'
<1> DEFINE e == [kind |-> "latency_summary", t |-> clock, who |-> "", named |-> FALSE]
<1>0. PICK n : n = closing[c].left
  OBVIOUS
<1> DEFINE r == [at |-> "summaries", left |-> n - 1]
<1>1. /\ closing[c].at = "summaries" /\ n > 0 /\ RecordAt(e)
      /\ closing' = [closing EXCEPT ![c].left = n - 1]
      /\ clock' = clock /\ names' = names /\ segments' = segments /\ recording' = recording
      /\ closed' = closed /\ latencies' = latencies /\ files' = files /\ records' = records
  BY <1>0 DEF RecordSummary
<1>2. /\ TraceTyped /\ EventsTyped /\ OverWhenClosing /\ MeasuredOnce
      /\ OneIsLate /\ NoneOfTheModelIsLate /\ WrittenWhenClosed
  BY DEF TraceInv
<1>3. closing[c] = [at |-> "summaries", left |-> n] /\ n \in Nat
  BY <1>0, <1>1, <1>2, InSummaries
<1>4. closing' = [closing EXCEPT ![c] = r] /\ r.left = n - 1 /\ r.at = "summaries"
  <2>1. closing' = [closing EXCEPT ![c] = [closing[c] EXCEPT !.left = n - 1]]
    BY <1>1
  <2>2. [closing[c] EXCEPT !.left = n - 1] = r
    BY <1>3
  <2> QED
    BY <2>1, <2>2
<1>5. r.left \in Nat /\ Closing(r)'
  <2>0. n > 0 /\ n \in Nat
    BY <1>1, <1>3
  <2>1. n - 1 \in Nat
    BY <2>0
  <2>2. Closing([at |-> "summaries", left |-> n - 1])'
    BY <2>1, SimpleClosing
  <2> QED
    BY <2>1, <2>2
<1>6. e \in TraceEvent /\ SpeakerFits(e) /\ e.kind = "latency_summary"
  BY <1>2, LiveTraceAssumption
  DEF TraceTyped, TraceEvent, TraceKinds, Speakers, SpeakerFits, FrameKinds
<1> HIDE DEF e, r
<1>7. EventsTyped'
  BY <1>1, <1>2, <1>6, RecordAtKeeps
<1>8. closed => events' = events
  BY <1>1 DEF RecordAt
<1>9. ~closed => events' = Append(events, e)
  BY <1>1 DEF RecordAt
<1>10. TraceTyped' /\ OverWhenClosing'
  <2>1. recording["playback"] = NoRecord
    BY <1>1, PlaybackIsOver
  <2>2. closed' \in BOOLEAN /\ latencies' \in BOOLEAN
    BY <1>1, <1>2 DEF TraceTyped
  <2> QED
    BY <1>1, <1>4, <1>5, <1>8, <2>1, <2>2, ClosingGoesOn DEF Unwritten
<1>11. OneIsLate' /\ NoneOfTheModelIsLate'
  <2>1. e.kind \notin FrameKinds \cup {"sent"}
    BY <1>6 DEF FrameKinds
  <2> QED
    BY <2>1, <1>1, <1>8, <1>9, AudioKept
<1>12. MeasuredOnce'
  <2>1. Left \in Nat /\ n <= Left /\ Left' = Left - 1
    <3>1. Left \in Nat /\ closing[c].left <= Left /\ Left' = Left - closing[c].left + r.left
      BY <1>2, <1>4, <1>5, LeftChanges
    <3> QED
      BY <3>1, <1>0, <1>3, <1>4
  <2>2. latencies
    BY <2>1, <1>1, <1>2, <1>3 DEF MeasuredOnce
  <2>3. /\ Cardinality(Kind({"latency_summary"})) \in Nat /\ IsFiniteSet(Kind({"latency_summary"}))
        /\ Cardinality(Kind({"local_speech_end"})) \in Nat
        /\ Kind({"latency_summary"}) \subseteq 1 .. Len(events) /\ Len(events) \in Nat
    BY <1>2, KindIs DEF EventsTyped
  <2>4. Cardinality(Kind({"latency_summary"})) + Left <= Cardinality(Kind({"local_speech_end"}))
    BY <1>2 DEF MeasuredOnce
  <2>5. Kind({"local_speech_end"})' = Kind({"local_speech_end"})
    <3>1. CASE closed
      BY <3>1, <1>8 DEF Kind
    <3>2. CASE ~closed
      BY <3>2, <1>2, <1>6, <1>9, KindAppended
    <3> QED
      BY <3>1, <3>2
  <2>6. Cardinality(Kind({"latency_summary"})') <= Cardinality(Kind({"latency_summary"})) + 1
        /\ Cardinality(Kind({"latency_summary"})') \in Nat
    <3>1. CASE closed
      <4>1. Kind({"latency_summary"})' = Kind({"latency_summary"})
        BY <3>1, <1>8 DEF Kind
      <4> QED
        BY <4>1, <2>3
    <3>2. CASE ~closed
      <4>1. Kind({"latency_summary"})' = Kind({"latency_summary"}) \cup {Len(events) + 1}
        BY <3>2, <1>2, <1>6, <1>9, KindAppended
      <4>2. Len(events) + 1 \notin Kind({"latency_summary"})
        BY <2>3
      <4>3. Cardinality(Kind({"latency_summary"})') = Cardinality(Kind({"latency_summary"})) + 1
        BY <4>1, <4>2, <2>3, FS_AddElement
      <4> QED
        BY <4>3, <2>3
    <3> QED
      BY <3>1, <3>2
  <2>7. Cardinality(Kind({"latency_summary"})') + Left' <= Cardinality(Kind({"local_speech_end"})')
    BY <2>1, <2>3, <2>4, <2>5, <2>6
  <2> QED
    BY <2>2, <2>7, <1>1 DEF MeasuredOnce
<1>13. WrittenWhenClosed'
  BY <1>1, <1>2 DEF WrittenWhenClosed
<1> QED
  BY <1>7, <1>10, <1>11, <1>12, <1>13 DEF TraceInv

\* Close writes the event that the trace is closed.
LEMMA RecordClosedKeeps ==
  ASSUME TraceInv, NEW c \in Closers, RecordClosed(c)
  PROVE  TraceInv'
<1> DEFINE e == [kind |-> "trace_closed", t |-> clock, who |-> "", named |-> FALSE]
           r == [at |-> "lock", left |-> 0]
<1>1. /\ closing[c].at = "summaries" /\ closing[c].left = 0 /\ RecordAt(e)
      /\ closing' = [closing EXCEPT ![c].at = "lock"]
      /\ clock' = clock /\ names' = names /\ segments' = segments /\ recording' = recording
      /\ closed' = closed /\ latencies' = latencies /\ files' = files /\ records' = records
  BY DEF RecordClosed
<1>2. /\ TraceTyped /\ EventsTyped /\ OverWhenClosing /\ MeasuredOnce
      /\ OneIsLate /\ NoneOfTheModelIsLate /\ WrittenWhenClosed
  BY DEF TraceInv
<1>3. closing[c] = [at |-> "summaries", left |-> 0]
  BY <1>1, <1>2, InSummaries
<1>4. closing' = [closing EXCEPT ![c] = r] /\ r.left = 0 /\ r.at = "lock" /\ Closing(r)'
      /\ r.left \in Nat
  <2>1. closing' = [closing EXCEPT ![c] = [closing[c] EXCEPT !.at = "lock"]]
    BY <1>1
  <2>2. [closing[c] EXCEPT !.at = "lock"] = r
    BY <1>3
  <2>3. Closing(r)'
    BY SimpleClosing
  <2> QED
    BY <2>1, <2>2, <2>3
<1>6. e \in TraceEvent /\ SpeakerFits(e) /\ e.kind = "trace_closed"
  BY <1>2, LiveTraceAssumption
  DEF TraceTyped, TraceEvent, TraceKinds, Speakers, SpeakerFits, FrameKinds
<1> HIDE DEF e, r
<1>7. EventsTyped'
  BY <1>1, <1>2, <1>6, RecordAtKeeps
<1>8. closed => events' = events
  BY <1>1 DEF RecordAt
<1>9. ~closed => events' = Append(events, e)
  BY <1>1 DEF RecordAt
<1>10. TraceTyped' /\ OverWhenClosing'
  <2>1. recording["playback"] = NoRecord
    BY <1>1, PlaybackIsOver
  <2>2. closed' \in BOOLEAN /\ latencies' \in BOOLEAN
    BY <1>1, <1>2 DEF TraceTyped
  <2> QED
    BY <1>1, <1>4, <1>8, <2>1, <2>2, ClosingGoesOn DEF Unwritten
<1>11. OneIsLate' /\ NoneOfTheModelIsLate'
  <2>1. e.kind \notin FrameKinds \cup {"sent"}
    BY <1>6 DEF FrameKinds
  <2> QED
    BY <2>1, <1>1, <1>8, <1>9, AudioKept
<1>12. MeasuredOnce'
  <2>1. Left' = Left
    <3>1. Left \in Nat /\ Left' = Left - closing[c].left + r.left
      BY <1>2, <1>4, LeftChanges
    <3> QED
      BY <3>1, <1>1, <1>4
  <2>2. ASSUME NEW S \in {{"latency_summary"}, {"local_speech_end"}} PROVE Kind(S)' = Kind(S)
    <3>1. CASE closed
      BY <3>1, <1>8 DEF Kind
    <3>2. CASE ~closed
      BY <3>2, <1>2, <1>6, <1>9, KindAppended
    <3> QED
      BY <3>1, <3>2
  <2> QED
    BY <2>1, <2>2, <1>1, <1>2 DEF MeasuredOnce
<1>13. WrittenWhenClosed'
  BY <1>1, <1>2 DEF WrittenWhenClosed
<1> QED
  BY <1>7, <1>10, <1>11, <1>12, <1>13 DEF TraceInv

\* The first Close copies the events and the segments.
LEMMA CloseTraceKeeps ==
  ASSUME TraceInv, NEW c \in Closers, CloseTrace(c)
  PROVE  TraceInv'
<1>0. PICK r : r = IF closed THEN [at |-> "done", left |-> 0]
                   ELSE [at |-> "write", left |-> 0, events |-> events, segments |-> segments]
  OBVIOUS
<1>1. /\ closing[c].at = "lock" /\ closed' = TRUE /\ closing' = [closing EXCEPT ![c] = r]
      /\ clock' = clock /\ names' = names /\ events' = events /\ jsonl' = jsonl
      /\ segments' = segments /\ recording' = recording /\ latencies' = latencies
      /\ files' = files /\ records' = records
  BY <1>0 DEF CloseTrace
<1>2. /\ TraceTyped /\ EventsTyped /\ OverWhenClosing /\ MeasuredOnce
      /\ OneIsLate /\ NoneOfTheModelIsLate /\ WrittenWhenClosed
  BY DEF TraceInv
<1>3. r.left = 0 /\ r.left \in Nat /\ r.at \in {"done", "write"}
  BY <1>0
<1>4. Closing(r)'
  <2>1. CASE closed
    BY <2>1, <1>0, SimpleClosing
  <2>2. CASE ~closed
    <3>1. r = [at |-> "write", left |-> 0, events |-> events', segments |-> segments']
      BY <2>2, <1>0, <1>1
    <3> QED
      BY <3>1, <1>1 DEF Closing
  <2> QED
    BY <2>1, <2>2
<1>5. TraceTyped' /\ OverWhenClosing'
  <2>1. recording["playback"] = NoRecord
    BY <1>1, PlaybackIsOver
  <2>2. closed' \in BOOLEAN /\ latencies' \in BOOLEAN
    BY <1>1, <1>2 DEF TraceTyped
  <2>3. r.at # "summaries" /\ r.at # "idle"
    BY <1>3
  <2> QED
    BY <1>1, <1>3, <1>4, <2>1, <2>2, <2>3, ClosingGoesOn DEF Unwritten
<1>6. EventsTyped'
  BY <1>1, <1>2 DEF EventsTyped, SpeakerFits
<1>7. OneIsLate' /\ NoneOfTheModelIsLate'
  BY <1>1, AudioKept
<1>8. MeasuredOnce'
  <2>1. closing[c].left = 0
    BY <1>1, <1>2 DEF TraceTyped
  <2>2. Left \in Nat /\ Left' = Left - closing[c].left + r.left
    BY <1>1, <1>2, <1>3, LeftChanges
  <2>3. Left' = Left
    BY <2>1, <2>2, <1>3
  <2>4. \A S : Kind(S)' = Kind(S)
    BY <1>1 DEF Kind
  <2> QED
    BY <2>3, <2>4, <1>1, <1>2 DEF MeasuredOnce
<1>9. WrittenWhenClosed'
  BY <1>1, <1>2 DEF WrittenWhenClosed
<1> QED
  BY <1>5, <1>6, <1>7, <1>8, <1>9 DEF TraceInv

\* The files have the audio that was there when the trace was closed: all of it.
LEMMA WriteFilesKeeps ==
  ASSUME TraceInv, NEW c \in Closers, WriteFiles(c)
  PROVE  TraceInv'
<1> DEFINE r == [at |-> "done", left |-> 0]
<1>1. /\ closing[c].at = "write" /\ closing' = [closing EXCEPT ![c] = r]
      /\ files'.audio = DuplexWAV(closing[c].segments)
      /\ clock' = clock /\ names' = names /\ events' = events /\ jsonl' = jsonl
      /\ segments' = segments /\ recording' = recording /\ closed' = closed
      /\ latencies' = latencies /\ records' = records
  BY DEF WriteFiles
<1>2. /\ TraceTyped /\ EventsTyped /\ OverWhenClosing /\ MeasuredOnce
      /\ OneIsLate /\ NoneOfTheModelIsLate /\ WrittenWhenClosed
  BY DEF TraceInv
<1>3. closed /\ closing[c].segments = segments /\ closing[c].left = 0
  BY <1>1, <1>2 DEF TraceTyped, Closing
<1>4. r.left = 0 /\ r.left \in Nat /\ r.at = "done" /\ Closing(r)'
  BY SimpleClosing
<1> HIDE DEF r
<1>5. TraceTyped' /\ OverWhenClosing'
  <2>1. recording["playback"] = NoRecord
    BY <1>1, PlaybackIsOver
  <2>2. closed' \in BOOLEAN /\ latencies' \in BOOLEAN
    BY <1>1, <1>2 DEF TraceTyped
  <2> QED
    BY <1>1, <1>4, <2>1, <2>2, ClosingGoesOn DEF Unwritten
<1>6. EventsTyped'
  BY <1>1, <1>2 DEF EventsTyped, SpeakerFits
<1>7. OneIsLate' /\ NoneOfTheModelIsLate'
  BY <1>1, AudioKept
<1>8. MeasuredOnce'
  <2>2. Left \in Nat /\ Left' = Left - closing[c].left + r.left
    BY <1>1, <1>2, <1>4, LeftChanges
  <2>3. Left' = Left
    BY <2>2, <1>3, <1>4
  <2>4. \A S : Kind(S)' = Kind(S)
    BY <1>1 DEF Kind
  <2> QED
    BY <2>3, <2>4, <1>1, <1>2 DEF MeasuredOnce
<1>9. WrittenWhenClosed'
  BY <1>1, <1>3 DEF WrittenWhenClosed
<1> QED
  BY <1>5, <1>6, <1>7, <1>8, <1>9 DEF TraceInv

\* Time passes.
LEMMA TickKeeps ==
  ASSUME TraceInv, Tick
  PROVE  TraceInv'
<1>1. /\ clock' = clock + 1 /\ clock < MaxTime
      /\ names' = names /\ events' = events /\ jsonl' = jsonl /\ segments' = segments
      /\ recording' = recording /\ closed' = closed /\ latencies' = latencies
      /\ closing' = closing /\ files' = files /\ records' = records
  BY DEF Tick
<1>2. /\ TraceTyped /\ EventsTyped /\ OverWhenClosing /\ MeasuredOnce
      /\ OneIsLate /\ NoneOfTheModelIsLate /\ WrittenWhenClosed
  BY DEF TraceInv
<1>3. clock' \in 0 .. MaxTime
  BY <1>1, <1>2, LiveTraceAssumption DEF TraceTyped
<1>4. TraceTyped'
  BY <1>1, <1>2, <1>3 DEF TraceTyped, Closing
<1>5. EventsTyped' /\ OverWhenClosing'
  BY <1>1, <1>2 DEF EventsTyped, SpeakerFits, OverWhenClosing
<1>6. MeasuredOnce' /\ WrittenWhenClosed'
  BY <1>1, <1>2 DEF MeasuredOnce, Left, Kind, WrittenWhenClosed
<1>7. OneIsLate' /\ NoneOfTheModelIsLate'
  BY <1>1, AudioKept
<1> QED
  BY <1>4, <1>5, <1>6, <1>7 DEF TraceInv

\* Every step keeps the invariant.
LEMMA TraceStep == TraceInv /\ [TraceNext]_traceVars => TraceInv'
<1> SUFFICES ASSUME TraceInv, [TraceNext]_traceVars PROVE TraceInv'
  OBVIOUS
<1>1. CASE UNCHANGED traceVars
  <2>1. /\ clock' = clock
        /\ names' = names /\ events' = events /\ jsonl' = jsonl /\ segments' = segments
        /\ recording' = recording /\ closed' = closed /\ latencies' = latencies
        /\ closing' = closing /\ files' = files /\ records' = records
    BY <1>1 DEF traceVars
  <2>2. /\ TraceTyped /\ EventsTyped /\ OverWhenClosing /\ MeasuredOnce
        /\ OneIsLate /\ NoneOfTheModelIsLate /\ WrittenWhenClosed
    BY DEF TraceInv
  <2>3. TraceTyped' /\ EventsTyped' /\ OverWhenClosing'
    BY <2>1, <2>2 DEF TraceTyped, Closing, EventsTyped, SpeakerFits, OverWhenClosing
  <2>4. MeasuredOnce' /\ WrittenWhenClosed'
    BY <2>1, <2>2 DEF MeasuredOnce, Left, Kind, WrittenWhenClosed
  <2>5. OneIsLate' /\ NoneOfTheModelIsLate'
    BY <2>1, AudioKept
  <2> QED
    BY <2>3, <2>4, <2>5 DEF TraceInv
<1>2. CASE Tick
  BY <1>2, TickKeeps
<1>3. ASSUME NEW w \in Writers, WriteEvent(w) \/ AddAudioSegment(w) PROVE TraceInv'
  BY <1>3, WriteEventKeeps, AddAudioSegmentKeeps
<1>4. ASSUME NEW c \in Closers,
             CloseBegins(c) \/ RecordSummary(c) \/ RecordClosed(c) \/ CloseTrace(c) \/ WriteFiles(c)
      PROVE  TraceInv'
  BY <1>4, CloseBeginsKeeps, RecordSummaryKeeps, RecordClosedKeeps, CloseTraceKeeps, WriteFilesKeeps
<1>5. CASE TraceNext
  BY <1>5, <1>2, <1>3, <1>4, CallsKeep DEF TraceNext
<1> QED
  BY <1>1, <1>5

\* What the invariant says of the files.
LEMMA TraceTells == TraceInv => TraceTypeOK /\ EventsAreNumbered /\ RecordingHasTheFrames
<1> SUFFICES ASSUME TraceInv PROVE TraceTypeOK /\ EventsAreNumbered /\ RecordingHasTheFrames
  OBVIOUS
<1>1. /\ TraceTyped /\ EventsTyped /\ OverWhenClosing /\ MeasuredOnce
      /\ OneIsLate /\ NoneOfTheModelIsLate /\ WrittenWhenClosed
  BY DEF TraceInv
<1>2. TraceTypeOK
  <2>1. \A w \in Writers : recording[w].at \in {"idle", "event", "segment"}
    BY <1>1 DEF TraceTyped, Recording, NoRecord
  <2>2. \A c \in Closers : closing[c].at \in {"idle", "summaries", "lock", "write", "done"}
    BY <1>1 DEF TraceTyped, Closing
  <2> QED
    BY <2>1, <2>2, <1>1 DEF TraceTypeOK, TraceTyped
<1>3. EventsAreNumbered
  <2>1. jsonl = [i \in DOMAIN events |-> i]
    <3>1. DOMAIN jsonl = DOMAIN events /\ \A i \in DOMAIN events : jsonl[i] = i
      BY <1>1 DEF EventsTyped
    <3>2. jsonl = [i \in DOMAIN jsonl |-> jsonl[i]]
      BY <1>1 DEF EventsTyped
    <3> QED
      BY <3>1, <3>2
  <2>2. Left \in Nat
    BY <1>1, TwoClosers DEF TraceTyped, Closing, Left
  <2>3. /\ Cardinality(Kind({"latency_summary"})) \in Nat
        /\ Cardinality(Kind({"local_speech_end"})) \in Nat
    BY <1>1, KindIs
  <2>4. Cardinality(Kind({"latency_summary"})) <= Cardinality(Kind({"local_speech_end"}))
    BY <1>1, <2>2, <2>3 DEF MeasuredOnce
  <2> QED
    BY <2>1, <2>4 DEF EventsAreNumbered
<1>4. ASSUME files.written PROVE RecordingHasTheFrames
  <2> DEFINE heard(i) == LET e == events[i]
                             side == IF e.who = "gemini" THEN files.audio.right ELSE files.audio.left
                         IN e.t..(e.t + FrameTicks - 1) \subseteq side
  <2>1. closed /\ files.audio = DuplexWAV(segments)
    BY <1>1, <1>4 DEF WrittenWhenClosed
  <2>2. ASSUME NEW i, HasSegment(i) PROVE heard(i)
    <3>1. PICK s \in segments : s.who = events[i].who /\ s.t = events[i].t
      BY <2>2 DEF HasSegment
    <3>2. CASE events[i].who = "gemini"
      BY <3>1, <3>2, <2>1 DEF DuplexWAV
    <3>3. CASE events[i].who # "gemini"
      BY <3>1, <3>3, <2>1 DEF DuplexWAV
    <3> QED
      BY <3>2, <3>3
  <2> HIDE DEF heard
  <2>3. {i \in Kind({"sent"}) : ~heard(i)} = {}
    <3>1. \A i \in Kind({"sent"}) : ~BeingRecorded("playback", i)
      BY <2>1, <1>1 DEF OverWhenClosing, BeingRecorded, NoRecord
    <3> QED
      BY <3>1, <2>2, <1>1 DEF NoneOfTheModelIsLate
  <2>4. PICK late \in 0 .. Len(events) : \A i \in Kind(FrameKinds) : HasSegment(i) \/ i = late
    BY <1>1 DEF OneIsLate
  <2>5. {i \in Kind({"frame", "quiet"}) : ~heard(i)} \subseteq {late}
    BY <2>2, <2>4 DEF FrameKinds
  <2>6. Cardinality({i \in Kind({"frame", "quiet"}) : ~heard(i)}) <= 1
    <3>1. IsFiniteSet({late}) /\ Cardinality({late}) = 1
      BY FS_Singleton
    <3>2. PICK T : T = {i \in Kind({"frame", "quiet"}) : ~heard(i)}
      OBVIOUS
    <3>3. Cardinality(T) <= Cardinality({late})
      BY <3>1, <3>2, <2>5, FS_Subset
    <3> QED
      BY <3>1, <3>2, <3>3
  <2>7. Cardinality({i \in Kind({"sent"}) : ~heard(i)}) = 0
    BY <2>3, FS_EmptySet
  <2> QED
    BY <2>6, <2>7 DEF RecordingHasTheFrames, heard
<1>5. RecordingHasTheFrames
  BY <1>4 DEF RecordingHasTheFrames
<1> QED
  BY <1>2, <1>3, <1>5

-----------------------------------------------------------------------------
(* ToolOutputs: the preview of a match in a long line.                     *)

\* Half of a number.
LEMMA HalfIs ==
  ASSUME NEW x \in Nat
  PROVE  x \div 2 \in Nat /\ 2 * (x \div 2) <= x /\ x < 2 * (x \div 2) + 2
OBVIOUS

\* What is shown of the least part of a match that there is always room for.
Least(l) == IF l = 0 THEN 1 ELSE l
Room(l) == IF Least(l) < MaxPreview - 6 THEN Least(l) ELSE MaxPreview - 6

\* A preview is within its line and its length, and begins with the match at the
\* latest.
LEMMA PreviewIsRight ==
  ASSUME NEW n \in Nat, NEW s \in Nat, NEW l \in Nat, s < n, s + l <= n
  PROVE  LET p == Preview(n, s, l)
         IN /\ p.length <= MaxPreview /\ p.from <= s
            /\ s + Room(l) <= p.to /\ p.to <= n
<1> DEFINE length == Least(l)
           matchEnd == IF s + length < n THEN s + length ELSE n
           room == MaxPreview - (IF s > 0 THEN 3 ELSE 0) - (IF matchEnd < n THEN 3 ELSE 0)
           window == IF room < length THEN length ELSE room
           half == (window - length) \div 2
           s1 == IF s > half THEN s - half ELSE 0
           back(end) == IF end > window THEN end - window ELSE 0
           e2 == IF s1 + window < matchEnd THEN matchEnd ELSE s1 + window
           s2 == IF s1 + window < matchEnd THEN back(matchEnd) ELSE s1
           e3 == IF e2 > n THEN n ELSE e2
           s3 == IF e2 > n THEN back(n) ELSE s2
           dots == IF s3 > 0 THEN 3 ELSE 0
           total == dots + (e3 - s3) + (IF e3 < n THEN 3 ELSE 0)
           cut == e3 < s3 + MaxPreview - dots
           p == IF n <= MaxPreview THEN [from |-> 0, to |-> n, length |-> n]
                ELSE IF total <= MaxPreview THEN [from |-> s3, to |-> e3, length |-> total]
                ELSE [from |-> s3, length |-> MaxPreview,
                      to |-> IF cut THEN e3 ELSE s3 + MaxPreview - dots]
<1>1. Preview(n, s, l) = p
  BY ZenonT(30) DEF Preview, Least
<1>2. MaxPreview \in Nat /\ MaxPreview > 6
  BY OutputsAssumption
<1>3. length \in Nat /\ length >= 1 /\ s + length <= n + 0
  BY DEF Least
<1>4. matchEnd = s + length /\ matchEnd \in Nat
  BY <1>3
<1>5. room \in Nat /\ room > 0 /\ MaxPreview - 6 <= room /\ room <= MaxPreview
  BY <1>2, <1>4
<1>6. window \in Nat /\ window >= length /\ window >= room
  BY <1>3, <1>5
<1>7. half \in Nat /\ 2 * half <= window - length
  <2>1. window - length \in Nat
    BY <1>6, <1>3
  <2> QED
    BY <2>1, HalfIs
<1> HIDE DEF half
<1>8. s1 \in Nat /\ s1 <= s
  BY <1>7
<1>9. s1 + window >= matchEnd
  BY <1>3, <1>4, <1>6, <1>7
<1>10. e2 = s1 + window /\ s2 = s1
  BY SMTT(30), <1>9, <1>8, <1>4, <1>6
<1>11. /\ s3 \in Nat /\ s3 <= s /\ e3 \in Nat /\ e3 >= matchEnd /\ e3 <= n
       /\ s - s3 <= window - length
  <2>0. s - s1 <= half
    BY <1>7
  <2>1. CASE s1 + window > n
    <3>1. e3 = n /\ s3 = back(n)
      BY <2>1, <1>10
    <3>2. back(n) \in Nat /\ back(n) <= s1 /\ n - window <= back(n)
      <4> HIDE DEF window, s1
      <4> QED
        BY <2>1, <1>6, <1>8
    <3> HIDE DEF e3, s3, s1, back, window, length
    <3> QED
      BY <3>1, <3>2, <1>8, <1>4, <1>3, <1>6
  <2>2. CASE ~(s1 + window > n)
    <3>1. e3 = s1 + window /\ s3 = s1
      BY <2>2, <1>10
    <3> HIDE DEF e3, s3, s1, window, length
    <3> QED
      BY <2>0, <2>2, <3>1, <1>8, <1>9, <1>4, <1>3, <1>6, <1>7
  <2> QED
    BY ZenonT(30), <2>1, <2>2
<1>12. Room(l) \in Nat /\ Room(l) <= length /\ Room(l) <= MaxPreview - 6
  BY <1>2, <1>3 DEF Room
<1>13. room <= MaxPreview /\ (s > 0 => room <= MaxPreview - 3)
  BY <1>2, <1>4
<1>14. window = room \/ window = length
  OBVIOUS
<1>15. s + Room(l) <= s3 + MaxPreview - dots
  <2> HIDE DEF length, room, window, s3, e3, matchEnd
  <2> QED
    BY <1>2, <1>3, <1>5, <1>11, <1>12, <1>13, <1>14
<1> HIDE DEF length, room, window, s1, e2, s2, s3, e3, matchEnd
<1>16. dots \in Nat /\ total \in Int
  BY <1>11
<1> HIDE DEF dots, total
<1>17. CASE n <= MaxPreview
  <2>1. p.from = 0 /\ p.to = n /\ p.length = n
    BY <1>17
  <2> QED
    BY <2>1, <1>1, <1>12, <1>3, <1>17
<1>18. CASE ~(n <= MaxPreview) /\ total <= MaxPreview
  <2>1. p.from = s3 /\ p.to = e3 /\ p.length = total
    BY <1>18
  <2> HIDE DEF p
  <2> QED
    BY <2>1, <1>1, <1>12, <1>3, <1>4, <1>11, <1>18
<1>19. CASE ~(n <= MaxPreview) /\ ~(total <= MaxPreview)
  <2>1. p.from = s3 /\ p.length = MaxPreview
        /\ p.to = IF cut THEN e3 ELSE s3 + MaxPreview - dots
    BY <1>19
  <2> HIDE DEF p
  <2>2. p.from <= s /\ p.length <= MaxPreview
    BY <2>1, <1>2, <1>11
  <2>3. s + Room(l) <= p.to /\ p.to <= n
    BY <2>1, <1>2, <1>3, <1>4, <1>11, <1>12, <1>15, <1>16
  <2> QED
    BY <2>2, <2>3, <1>1
<1> QED
  BY SMTT(30), <1>17, <1>18, <1>19

\* A preview that is shown is one that the search made.
PreviewMade ==
  preview # NoPreview =>
    \E n, s, l \in Nat : /\ s < n /\ s + l <= n
                         /\ preview = [at |-> "shown", n |-> n, s |-> s, l |-> l,
                                       shows |-> Preview(n, s, l)]

\* At the start none is shown.
LEMMA PreviewStart == OutputsInit => PreviewMade
BY DEF OutputsInit, PreviewMade

\* A step shows one at most.
LEMMA PreviewStep == PreviewMade /\ [OutputsNext]_outputVars => PreviewMade'
<1> SUFFICES ASSUME PreviewMade, [OutputsNext]_outputVars PROVE PreviewMade'
  OBVIOUS
<1>1. CASE preview' = preview
  BY <1>1 DEF PreviewMade
<1>2. ASSUME NEW n \in 1 .. MaxLine, NEW s \in 0 .. (n - 1), NEW l \in 0 .. (n - s),
             PreviewMatch(n, s, l)
      PROVE  PreviewMade'
  <2>1. preview' = [at |-> "shown", n |-> n, s |-> s, l |-> l, shows |-> Preview(n, s, l)]
    BY <1>2 DEF PreviewMatch
  <2>2. n \in Nat /\ s \in Nat /\ l \in Nat /\ s < n /\ s + l <= n
    OBVIOUS
  <2> QED
    BY <2>1, <2>2 DEF PreviewMade
<1>3. ASSUME NEW tool, NEW content, NEW inner, NEW stores,
             SpillToolResponse(tool, content, inner, stores)
      PROVE  preview' = preview
  BY <1>3 DEF SpillToolResponse
<1>4. ASSUME NEW limit, ViewToolOutput(limit) PROVE preview' = preview
  BY <1>4 DEF ViewToolOutput
<1>5. ASSUME NEW letter, NEW limit, GrepToolOutput(letter, limit) PROVE preview' = preview
  BY <1>5 DEF GrepToolOutput
<1>6. CASE UNCHANGED outputVars
  BY <1>1, <1>6 DEF outputVars
<1>7. CASE OutputsNext
  BY <1>7, <1>1, <1>2, <1>3, <1>4, <1>5 DEF OutputsNext
<1> QED
  BY <1>6, <1>7

\* Whatever the line, the place and the length of a match.
LEMMA PreviewTells == PreviewMade => PreviewShowsMatch
<1> SUFFICES ASSUME PreviewMade, preview # NoPreview
             PROVE  LET p == preview.shows
                        least == IF preview.l = 0 THEN 1 ELSE preview.l
                        room == IF least < MaxPreview - 6 THEN least ELSE MaxPreview - 6
                    IN /\ p.length <= MaxPreview
                       /\ p.from <= preview.s /\ preview.s + room <= p.to /\ p.to <= preview.n
  BY DEF PreviewShowsMatch
<1>1. PICK n \in Nat, s \in Nat, l \in Nat :
        /\ s < n /\ s + l <= n
        /\ preview = [at |-> "shown", n |-> n, s |-> s, l |-> l, shows |-> Preview(n, s, l)]
  BY DEF PreviewMade
<1>2. preview.shows = Preview(n, s, l) /\ preview.s = s /\ preview.n = n /\ preview.l = l
  BY <1>1
<1>3. LET p == Preview(n, s, l)
      IN /\ p.length <= MaxPreview /\ p.from <= s
         /\ s + Room(l) <= p.to /\ p.to <= n
  BY <1>1, PreviewIsRight
<1> QED
  BY <1>2, <1>3 DEF Room, Least

-----------------------------------------------------------------------------
(* The parts together: one of them runs, and the others stay as they began.*)

StoresInv ==
  /\ CompactionInv /\ GitInv /\ LibraryInv /\ GraphInv /\ ConfigInv /\ CurationInv
  /\ TraceInv /\ PreviewMade /\ QueryInv

LEMMA StoresStart == StoresInit => StoresInv
<1> SUFFICES ASSUME StoresInit PROVE StoresInv
  OBVIOUS
<1>1. /\ CompactionInit /\ GitInit /\ LibraryInit /\ KnowledgeInit /\ ConfigurationInit
      /\ TraceCurationInit /\ TraceInit /\ OutputsInit
  BY DEF StoresInit
<1>2. QED
  BY <1>1, CompactionStart, GitStart, LibraryStart, GraphStart, ConfigStart, CurationStart,
     TraceStart, PreviewStart, QueryStart
  DEF StoresInv

\* A step of the parts is a step, or no step, of each of them.
LEMMA StepsOfTheParts ==
  ASSUME [StoresNext]_storesVars
  PROVE  /\ [CompactionNext]_compactionVars /\ [GitNext]_gitVars /\ [LibraryNext]_libraryVars
         /\ [KnowledgeNext]_graphVars /\ [ConfigurationNext]_configVars
         /\ [CurationNext]_curationVars /\ [TraceNext]_traceVars /\ [OutputsNext]_outputVars
<1>1. CASE UNCHANGED storesVars
  <2>1. UNCHANGED <<compactionVars, libraryVars, configVars, gitVars, graphVars, curationVars,
                    traceVars, outputVars>>
    BY <1>1 DEF storesVars
  <2>2. QED
    BY <2>1
<1>2. CASE StoresNext
  <2>1. \/ CompactionNext
           /\ UNCHANGED <<outputVars, libraryVars, curationVars, configVars, gitVars, graphVars, traceVars>>
        \/ OutputsNext
           /\ UNCHANGED <<compactionVars, libraryVars, curationVars, configVars, gitVars, graphVars, traceVars>>
        \/ LibraryNext
           /\ UNCHANGED <<compactionVars, outputVars, curationVars, configVars, gitVars, graphVars, traceVars>>
        \/ CurationNext
           /\ UNCHANGED <<compactionVars, outputVars, libraryVars, configVars, gitVars, graphVars, traceVars>>
        \/ ConfigurationNext
           /\ UNCHANGED <<compactionVars, outputVars, libraryVars, curationVars, gitVars, graphVars, traceVars>>
        \/ GitNext
           /\ UNCHANGED <<compactionVars, outputVars, libraryVars, curationVars, configVars, graphVars, traceVars>>
        \/ MCKnowledgeNext
           /\ UNCHANGED <<compactionVars, outputVars, libraryVars, curationVars, configVars, gitVars, traceVars>>
        \/ MCTraceNext
           /\ UNCHANGED <<compactionVars, outputVars, libraryVars, curationVars, configVars, gitVars, graphVars>>
    BY <1>2 DEF StoresNext
  <2>2. (MCKnowledgeNext => KnowledgeNext) /\ (MCTraceNext => TraceNext)
    BY DEF MCKnowledgeNext, MCTraceNext
  <2>3. QED
    BY <2>1, <2>2
<1>3. QED
  BY <1>1, <1>2

LEMMA StoresStep == StoresInv /\ [StoresNext]_storesVars => StoresInv'
<1> SUFFICES ASSUME StoresInv, [StoresNext]_storesVars PROVE StoresInv'
  OBVIOUS
<1>1. /\ [CompactionNext]_compactionVars /\ [GitNext]_gitVars /\ [LibraryNext]_libraryVars
      /\ [KnowledgeNext]_graphVars /\ [ConfigurationNext]_configVars
      /\ [CurationNext]_curationVars /\ [TraceNext]_traceVars /\ [OutputsNext]_outputVars
  BY StepsOfTheParts
<1>2. /\ CompactionInv' /\ GitInv' /\ LibraryInv' /\ GraphInv' /\ ConfigInv' /\ CurationInv'
      /\ TraceInv' /\ PreviewMade'
  BY <1>1, CompactionStep, GitStep, LibraryStep, GraphStep, ConfigStep, CurationStep,
     TraceStep, PreviewStep
  DEF StoresInv
<1>3. QueryInv'
  <2>1. TablesTypeOK /\ EdgesHaveTheirEnds /\ QueryInv
    BY DEF StoresInv, GraphInv
  <2>2. QED
    BY <1>1, <2>1, QueryStep
<1>4. QED
  BY <1>2, <1>3 DEF StoresInv

THEOREM StoresAlways == StoresSpec => []StoresInv
BY StoresStart, StoresStep, PTL DEF StoresSpec

\* What the model saw of a conversation and does not see any more is in the summary,
\* with the outputs that were spilled, and what it still sees begins where a turn or a
\* step does, however often the conversation is compacted and however the run goes on
\* (internal/agentrun/compaction.go).
THEOREM ContextStays == StoresSpec => []ContextIsKept
<1>1. StoresInv => ContextIsKept
  BY CompactionTells DEF StoresInv, ContextIsKept
<1>2. QED
  BY <1>1, StoresAlways, PTL

\* What a command reported as saved, installed, pushed or updated is there whatever
\* the other commands do, and nothing is half there that no crash or running command
\* explains (internal/agent/skill_management.go, internal/config/config.go,
\* internal/workspace/workspace.go, internal/knowledge, the Git server).
THEOREM StoresKeepTheirWord == StoresSpec => []StoresAreKept
<1>1. StoresInv => StoresAreKept
  BY LibraryTells, ConfigTells, GitTells, GraphTells DEF StoresInv, StoresAreKept
<1>2. QED
  BY <1>1, StoresAlways, PTL

\* A message reference means one message in every curation, and a curation that the
\* review has no warnings about has its calls answered in order and passes the
\* verification of the export, whatever the reviewers do at the same time
\* (internal/agent/review.go, cmd/agent_traces.go).
THEOREM CuratedTracesAreRight ==
  StoresSpec => [](CurationTypeOK /\ MessageRefsAreUnambiguous /\ CleanReviewExports)
<1>1. StoresInv => CurationTypeOK /\ MessageRefsAreUnambiguous /\ CleanReviewExports
  BY CurationsAreRight DEF StoresInv
<1>2. QED
  BY <1>1, StoresAlways, PTL

\* The events of a call are numbered without a gap, no end of speech is measured
\* twice, and the recording has the audio of every frame that the events tell of, but
\* for the one that the capture loop may have been recording at the end, whoever
\* records and however often the trace is closed (internal/discordbot/live_trace.go).
THEOREM CallsAreRecorded ==
  StoresSpec => [](TraceTypeOK /\ EventsAreNumbered /\ RecordingHasTheFrames)
<1>1. StoresInv => TraceTypeOK /\ EventsAreNumbered /\ RecordingHasTheFrames
  BY TraceTells DEF StoresInv
<1>2. QED
  BY <1>1, StoresAlways, PTL

\* The preview of a match is no longer than allowed, lies in its line and shows the
\* match from its beginning, as much of it as there is room for, whatever the lengths
\* (buildToolOutputMatchPreview, internal/knowledge/agent_run_tool_output.go).
THEOREM PreviewsShowTheirMatch == StoresSpec => []PreviewShowsMatch
<1>1. StoresInv => PreviewShowsMatch
  BY PreviewTells DEF StoresInv
<1>2. QED
  BY <1>1, StoresAlways, PTL

\* A Neighbors query that nobody wrote under answers the nodes up to its depth and the
\* edges that lead to them, and a ShortestPath query edges that join its two nodes and
\* are as few as can be, with the nodes on them, or no edges if there is no path; both
\* for every graph none of whose nodes has more edges than a page of them
\* (Neighbors and ShortestPath, internal/knowledge/store.go).
THEOREM TraversalsTellTheGraph == StoresSpec => []TraversalsAreRight
<1>1. StoresInv => TraversalsAreRight
  BY QueryTells DEF StoresInv
<1>2. QED
  BY <1>1, StoresAlways, PTL
================================================================================
