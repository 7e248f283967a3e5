----------------------------- MODULE BridgesProofs -----------------------------
(***************************************************************************)
(* The bridges, for any number of chats, channels, messages, members,      *)
(* moves, chunks, replies and failures: the terminal's chat, WhatsApp, the *)
(* text turns of the Discord bot, its voice calls and the playback of a    *)
(* call, and all of them together.                                         *)
(***************************************************************************)
EXTENDS MCBridges, SequenceTheorems, FiniteSetTheorems, WellFoundedInduction, TLAPS

-----------------------------------------------------------------------------
(***************************************************************************)
(* The terminal's chat, for any number of submissions, runs, chunks,       *)
(* cancellations and scrolls, any size of a channel and any heights.       *)
(*                                                                         *)
(* The index and the window are right by the types: whatever is put in the *)
(* place of the items of a message (IsSplice), the index is rebuilt when   *)
(* items move behind it, and names the same first items when none does.    *)
(*                                                                         *)
(* What is shown rests on what is under way (Forwarded), until an event is *)
(* lost or the user cancels: one bridge forwards everything (OneBridge),   *)
(* the first event of a message creates it (CreatedFirst), the last one    *)
(* says what the message is now, unless its agent has yet to publish that  *)
(* (LastIsCurrent), and what is not under way is shown (IsDrawn).  Items   *)
(* of a message are together, so that an update replaces all of them       *)
(* (ItemsTogether), which is why they cannot be in the list twice.         *)
(***************************************************************************)

ItemParts == {"user", "text", "call", "result", "error", "status"}
ChatItem == [id : Nat, part : ItemParts, nr : Nat, lines : Nat, final : BOOLEAN]
ChatMessage == [id : Nat, role : {"user", "assistant"}, text : Nat, calls : Nat, results : Nat,
                done : BOOLEAN, error : BOOLEAN]
MessageEvent == [type : {"created", "updated", "deleted"}, message : ChatMessage]
Subscription == [registered : BOOLEAN, over : BOOLEAN, channel : Seq(MessageEvent)]
ChatIndex == UNION {[S -> Nat] : S \in SUBSET Nat}
ChatState == [items : Seq(ChatItem), index : ChatIndex, offset : Nat, follow : BOOLEAN,
              height : ViewHeights]
IdleAgent == [at : {"idle"}]
BusyAgent == [at : {"start", "run", "publish", "returns", "done"}, runID : 0..MaxSubmits,
              pieces : Nat, failed : BOOLEAN, event : MessageEvent \union {NoEvent}]

\* Subscriptions whose channels have room for what is in them.
Subscriptions(s) == s \in Seq(Subscription) /\ \A k \in DOMAIN s : Len(s[k].channel) <= ChannelSize

\* A chat whose index is right.
GoodChat(c) == c \in ChatState /\ c.index = RebuildIndex(c.items)

\* The window is inside the list.
Inside(c) ==
  c.items # <<>> => c.offset <= MaxOffset(c) /\ (c.follow => c.offset = MaxOffset(c))

\* An agent that publishes has something to publish.
AgentsTyped ==
  /\ agents \in [Agents -> IdleAgent \union BusyAgent]
  /\ \A a \in Agents : agents[a].at = "publish" => agents[a].event \in MessageEvent

\* The types of the terminal, and its chat.
TerminalTyped ==
  /\ messages \in Seq(ChatMessage) /\ Subscriptions(subs)
  /\ GoodChat(chat) /\ Inside(chat)
  /\ shows \in [runID : 0..MaxSubmits, running : BOOLEAN]
  /\ AgentsTyped
  /\ disturbed \in BOOLEAN

-----------------------------------------------------------------------------
Mentions(s, id) == \E k \in DOMAIN s : s[k].message.id = id

\* Agent a has changed its message and not published it.
IsPending(a) == agents[a].at = "publish"
Unpublished(id) == \E a \in Agents : IsPending(a) /\ AssistantMessage(a) = id

\* The message with id was made.
Made(id) ==
  \E a \in Agents :
    \/ id = UserMessage(a) /\ agents[a].at # "idle"
    \/ id = AssistantMessage(a) /\ agents[a].at \notin {"idle", "start"}
    \/ id = ErrorMessage(a) /\ agents[a].at = "done"

IsMessage(id) == \E i \in DOMAIN messages : messages[i].id = id

\* Messages have ids of their own.
MessagesDiffer ==
  /\ \A i \in DOMAIN messages : Made(messages[i].id)
  /\ \A i, j \in DOMAIN messages : messages[i].id = messages[j].id => i = j

\* One bridge forwards everything from the first message on.
OneBridge ==
  IF subs = <<>> THEN messages = <<>> /\ chat.items = <<>> /\ \A a \in Agents : agents[a].at = "idle"
  ELSE /\ Len(subs) = 1 /\ subs[1].registered /\ ~subs[1].over
       /\ \A a \in Agents : agents[a].at \notin {"idle", "start"} => IsMessage(AssistantMessage(a))

\* What is under way to the chat.
Way == IF subs = <<>> THEN <<>> ELSE subs[1].channel

IsShown(id) == \E p \in DOMAIN chat.items : chat.items[p].id = id

\* The event that creates a message is the first one of it.
CreatedFirst ==
  /\ \A k \in DOMAIN Way :
       /\ Way[k].type # "deleted"
       /\ Way[k].type = "created" =>
            /\ ~IsShown(Way[k].message.id)
            /\ \A l \in DOMAIN Way : l < k => Way[l].message.id # Way[k].message.id
  /\ \A a \in Agents : IsPending(a) =>
       /\ agents[a].event.type # "deleted"
       /\ agents[a].event.type = "created" =>
            ~IsShown(AssistantMessage(a)) /\ ~Mentions(Way, AssistantMessage(a))

\* The last event of a message says what the message is.
LastIsCurrent ==
  /\ \A a \in Agents : IsPending(a) => 
       /\ agents[a].event.message.id = AssistantMessage(a)
       /\ \E i \in DOMAIN messages : messages[i] = agents[a].event.message
  /\ \A k \in DOMAIN Way :
       \/ Unpublished(Way[k].message.id)
       \/ \E l \in DOMAIN Way : l > k /\ Way[l].message.id = Way[k].message.id
       \/ \E i \in DOMAIN messages : messages[i] = Way[k].message

\* What is neither changed nor under way is shown.
IsDrawn ==
  \A i \in DOMAIN messages :
    \/ Unpublished(messages[i].id)
    \/ Mentions(Way, messages[i].id)
    \/ Shows(chat, messages[i])

\* The items of a message are together, and they are of messages there are, as
\* the events are.
ItemsTogether ==
  /\ \A p, q, r \in DOMAIN chat.items :
       p < q /\ q < r /\ chat.items[p].id = chat.items[r].id => chat.items[q].id = chat.items[p].id
  /\ \A p \in DOMAIN chat.items : IsMessage(chat.items[p].id)
  /\ \A k \in DOMAIN Way : IsMessage(Way[k].message.id)

Forwarded ==
  /\ OneBridge /\ MessagesDiffer /\ CreatedFirst /\ LastIsCurrent /\ IsDrawn /\ ItemsTogether

ChatInv == TerminalTyped /\ (~disturbed => Forwarded)

-----------------------------------------------------------------------------
(* The list of the terminal's chat.                                        *)

\* A set of numbers has a least one, and Min chooses it.
LEMMA LeastOf ==
  ASSUME NEW S \in SUBSET Nat, S # {}
  PROVE  Min(S) \in S /\ \A y \in S : Min(S) <= y
<1> DEFINE R == OpToRel(<, Nat)
<1>1. IsWellFoundedOn(R, Nat)
  BY NatLessThanWellFounded
<1>2. \A x, y \in Nat : y < x => <<y, x>> \in R
  BY DEF OpToRel
<1> HIDE DEF R
<1>3. PICK x \in S : \A y \in S : ~(<<y, x>> \in R)
  BY <1>1, WFMin
<1>4. ASSUME NEW y \in S PROVE x <= y
  <2>1. x \in Nat /\ y \in Nat
    OBVIOUS
  <2>2. ~(y < x)
    BY <1>2, <1>3, <2>1
  <2> QED
    BY <2>1, <2>2
<1> QED
  BY <1>4 DEF Min

\* Of the positions of a sequence, Max chooses the last one.
LEMMA LastOf ==
  ASSUME NEW n \in Nat, NEW S \in SUBSET (1..n), S # {}
  PROVE  Max(S) \in S
<1> DEFINE back == {n - x : x \in S}
<1>1. back \in SUBSET Nat /\ back # {}
  <2>1. \A x \in S : x \in Nat /\ x <= n
    OBVIOUS
  <2>2. \A x \in S : n - x \in Nat
    BY <2>1
  <2> QED
    BY <2>2
<1> HIDE DEF back
<1>2. PICK b \in back : \A y \in back : b <= y
  BY <1>1, LeastOf
<1>3. PICK x \in S : b = n - x
  BY <1>2 DEF back
<1>4. ASSUME NEW y \in S PROVE x >= y
  <2>1. n - y \in back
    BY DEF back
  <2>2. n - x <= n - y /\ x \in Nat /\ y \in Nat
    BY <1>2, <1>3, <2>1
  <2> QED
    BY <2>2
<1> QED
  BY <1>4 DEF Max

\* The greater of a number and 0.
LEMMA NotNegative ==
  ASSUME NEW x \in Int PROVE Max({x, 0}) = IF x > 0 THEN x ELSE 0
<1>1. CASE x > 0
  BY <1>1 DEF Max
<1>2. CASE ~(x > 0)
  BY <1>2 DEF Max
<1> QED
  BY <1>1, <1>2

\* A list has a number of lines, and so has what is beyond the window.
LEMMA LinesCounted ==
  ASSUME NEW s \in Seq(ChatItem), NEW c, c.items = s, c.height \in Nat
  PROVE  TotalLines(c) \in Int /\ MaxOffset(c) \in Nat
<1> DEFINE part == [i \in DOMAIN s |-> {i} \X (1..s[i].lines)]
           all == {{i} \X (1..s[i].lines) : i \in DOMAIN s}
<1>1. Len(s) \in Nat /\ DOMAIN s = 1..Len(s) /\ \A i \in DOMAIN s : s[i].lines \in Nat
  <2>1. \A i \in DOMAIN s : s[i] \in ChatItem
    OBVIOUS
  <2> QED
    BY <2>1 DEF ChatItem
<1>2. IsFiniteSet(DOMAIN s)
  BY <1>1, FS_Interval
<1>3. part \in Surjection(DOMAIN s, all)
  BY DEF Surjection
<1>4. IsFiniteSet(all)
  BY <1>2, <1>3, FS_Surjection DEF ExistsSurjection
<1>5. ASSUME NEW t \in all PROVE IsFiniteSet(t)
  <2>1. PICK i \in DOMAIN s : t = {i} \X (1..s[i].lines)
    OBVIOUS
  <2>2. IsFiniteSet({i}) /\ IsFiniteSet(1..s[i].lines)
    <3>1. s[i].lines \in Int /\ 1 \in Int
      BY <1>1
    <3> QED
      BY <3>1, FS_Singleton, FS_Interval
  <2> QED
    BY <2>1, <2>2, FS_Product
<1>6. IsFiniteSet(Lines(c))
  BY <1>4, <1>5, FS_UNION DEF Lines
<1>7. Cardinality(Lines(c)) \in Nat
  BY <1>6, FS_CardinalityType
<1> HIDE DEF all, part
<1>8. TotalLines(c) \in Int
  BY <1>1, <1>7 DEF TotalLines
<1> QED
  BY <1>8, NotNegative DEF MaxOffset

\* The items of a message bear its id.
LEMMA ItemsOfMessage ==
  ASSUME NEW m \in ChatMessage
  PROVE  /\ ExtractItems(m) \in Seq(ChatItem)
         /\ \A k \in DOMAIN ExtractItems(m) :
              ExtractItems(m)[k].id = m.id /\ ~ExtractItems(m)[k].final
<1> DEFINE Of == {t \in ChatItem : t.id = m.id /\ ~t.final}
           text == IF m.text > 0 \/ ~m.done THEN <<Item(m.id, "text", 0, 1 + m.text)>> ELSE <<>>
           call == [k \in 1..m.calls |-> Item(m.id, "call", k, 1)]
           result == [k \in 1..m.results |-> Item(m.id, "result", k, 1)]
           error == IF m.error THEN <<Item(m.id, "error", 0, 1)>> ELSE <<>>
<1>1. /\ m.id \in Nat /\ m.calls \in Nat /\ m.results \in Nat /\ m.text \in Nat
      /\ 1 + m.text \in Nat
  BY DEF ChatMessage
<1>2. \A part \in ItemParts, nr \in Nat, lines \in Nat : Item(m.id, part, nr, lines) \in Of
  BY <1>1 DEF Item, ChatItem
<1>3. /\ "user" \in ItemParts /\ "text" \in ItemParts /\ "call" \in ItemParts
      /\ "result" \in ItemParts /\ "error" \in ItemParts
  BY DEF ItemParts
<1> HIDE DEF Of
<1>4. text \in Seq(Of) /\ error \in Seq(Of) /\ <<Item(m.id, "user", 0, 1)>> \in Seq(Of)
  BY <1>1, <1>2, <1>3
<1>5. call \in Seq(Of)
  <2>1. \A k \in 1..m.calls : Item(m.id, "call", k, 1) \in Of
    BY <1>1, <1>2, <1>3
  <2>2. call \in [1..m.calls -> Of]
    BY <2>1
  <2> QED
    BY <1>1, <2>2, SeqDef
<1>6. result \in Seq(Of)
  <2>1. \A k \in 1..m.results : Item(m.id, "result", k, 1) \in Of
    BY <1>1, <1>2, <1>3
  <2>2. result \in [1..m.results -> Of]
    BY <2>1
  <2> QED
    BY <1>1, <2>2, SeqDef
<1> DEFINE items == ExtractItems(m)
<1>7. items = IF m.role = "user" THEN <<Item(m.id, "user", 0, 1)>> ELSE text \o call \o result \o error
  BY DEF ExtractItems
<1> HIDE DEF text, call, result, error, items
<1>8. text \o call \o result \o error \in Seq(Of)
  BY <1>4, <1>5, <1>6, ConcatProperties
<1>9. items \in Seq(Of)
  BY <1>4, <1>7, <1>8
<1>10. \A k \in DOMAIN items : items[k] \in Of
  BY <1>9
<1>11. Of \subseteq ChatItem /\ \A t \in Of : t.id = m.id /\ ~t.final
  BY DEF Of
<1>12. items \in Seq(ChatItem)
  BY <1>9, <1>11, SeqMonotonic
<1> QED
  BY <1>10, <1>11, <1>12 DEF items

\* The index names the first position of every id.
LEMMA IndexNames ==
  ASSUME NEW s \in Seq(ChatItem)
  PROVE  /\ DOMAIN RebuildIndex(s) = {s[i].id : i \in DOMAIN s}
         /\ \A id \in DOMAIN RebuildIndex(s) :
              /\ RebuildIndex(s)[id] \in DOMAIN s /\ s[RebuildIndex(s)[id]].id = id
              /\ \A j \in DOMAIN s : s[j].id = id => RebuildIndex(s)[id] <= j
         /\ RebuildIndex(s) \in ChatIndex
<1> DEFINE ids == {s[i].id : i \in DOMAIN s}
<1>1. DOMAIN s = 1..Len(s) /\ Len(s) \in Nat /\ DOMAIN s \subseteq Nat
  OBVIOUS
<1>2. ids \in SUBSET Nat
  <2>1. \A i \in DOMAIN s : s[i] \in ChatItem
    OBVIOUS
  <2> QED
    BY <2>1 DEF ChatItem
<1>3. ASSUME NEW id \in ids
      PROVE  Min(Positions(s, id)) \in Positions(s, id)
             /\ \A j \in Positions(s, id) : Min(Positions(s, id)) <= j
  <2>1. Positions(s, id) \in SUBSET Nat /\ Positions(s, id) # {}
    BY <1>1 DEF Positions
  <2> QED
    BY <2>1, LeastOf
<1>4. RebuildIndex(s) = [id \in ids |-> Min(Positions(s, id))]
  BY DEF RebuildIndex
<1> HIDE DEF ids
<1>5. \A id \in ids : Min(Positions(s, id)) \in DOMAIN s /\ s[Min(Positions(s, id))].id = id
                      /\ \A j \in DOMAIN s : s[j].id = id => Min(Positions(s, id)) <= j
  BY <1>3 DEF Positions
<1>6. RebuildIndex(s) \in [ids -> Nat]
  BY <1>1, <1>4, <1>5
<1>7. RebuildIndex(s) \in ChatIndex
  BY <1>2, <1>6 DEF ChatIndex
<1> QED
  BY <1>4, <1>5, <1>7 DEF ids

\* A function that does so is the index.
LEMMA IndexIsThat ==
  ASSUME NEW s \in Seq(ChatItem), NEW T, NEW f \in [T -> Nat], T = {s[i].id : i \in DOMAIN s},
         \A id \in T : /\ f[id] \in DOMAIN s /\ s[f[id]].id = id
                       /\ \A j \in DOMAIN s : s[j].id = id => f[id] <= j
  PROVE  f = RebuildIndex(s)
<1> DEFINE g == RebuildIndex(s)
<1>1. DOMAIN g = T /\ g \in [T -> Nat]
  <2>1. DOMAIN g = T /\ g \in ChatIndex
    BY IndexNames
  <2>2. PICK S \in SUBSET Nat : g \in [S -> Nat]
    BY <2>1 DEF ChatIndex
  <2>3. S = T
    BY <2>1, <2>2
  <2> QED
    BY <2>1, <2>2, <2>3
<1>2. ASSUME NEW id \in T PROVE f[id] = g[id]
  <2>1. g[id] \in DOMAIN s /\ s[g[id]].id = id /\ \A j \in DOMAIN s : s[j].id = id => g[id] <= j
    BY <1>1, IndexNames
  <2>2. f[id] <= g[id] /\ g[id] <= f[id]
    BY <2>1
  <2> QED
    BY <1>1, <2>2
<1> QED
  BY <1>1, <1>2

\* Lists with the same ids have the same index.
LEMMA SameIds ==
  ASSUME NEW s, NEW t, DOMAIN s = DOMAIN t, \A i \in DOMAIN s : s[i].id = t[i].id
  PROVE  RebuildIndex(s) = RebuildIndex(t)
<1>1. {s[i].id : i \in DOMAIN s} = {t[i].id : i \in DOMAIN t}
  OBVIOUS
<1>2. \A id : Positions(s, id) = Positions(t, id)
  BY DEF Positions
<1> QED
  BY <1>1, <1>2 DEF RebuildIndex

\* Two lists, one after the other.
LEMMA Joined ==
  \A S : \A x, y \in Seq(S) :
    /\ x \o y \in Seq(S) /\ Len(x \o y) = Len(x) + Len(y)
    /\ \A i \in 1..Len(x) : (x \o y)[i] = x[i]
    /\ \A i \in 1..Len(y) : (x \o y)[Len(x) + i] = y[i]
OBVIOUS

\* r is s with t in the place of what is from start to before end.
IsSplice(s, t, start, end, r) ==
  /\ Len(r) = Len(s) + Len(t) - (end - start)
  /\ \A i \in 1..start - 1 : r[i] = s[i]
  /\ \A k \in 1..Len(t) : r[start - 1 + k] = t[k]
  /\ \A j \in end..Len(s) : r[j + Len(t) - (end - start)] = s[j]

\* The three parts make it.
LEMMA Spliced ==
  ASSUME NEW S, NEW s \in Seq(S), NEW t \in Seq(S), NEW start \in 1..Len(s) + 1,
         NEW end \in start..Len(s) + 1
  PROVE  /\ SubSeq(s, 1, start - 1) \o t \o SubSeq(s, end, Len(s)) \in Seq(S)
         /\ IsSplice(s, t, start, end, SubSeq(s, 1, start - 1) \o t \o SubSeq(s, end, Len(s)))
<1> DEFINE a == SubSeq(s, 1, start - 1)
           b == SubSeq(s, end, Len(s))
           u == a \o t
           r == u \o b
<1>1. Len(s) \in Nat /\ Len(t) \in Nat /\ start \in Nat /\ end \in Nat
  OBVIOUS
<1>2. \A i \in 1..Len(s) : s[i] \in S
  OBVIOUS
<1>3. a \in Seq(S) /\ Len(a) = start - 1 /\ \A i \in 1..start - 1 : a[i] = s[i]
  BY <1>1, <1>2, SubSeqProperties
<1>4. /\ b \in Seq(S) /\ Len(b) = Len(s) - end + 1
      /\ \A i \in 1..Len(s) - end + 1 : b[i] = s[end + i - 1]
  BY <1>1, <1>2, SubSeqProperties
<1> HIDE DEF a, b
<1>5. /\ u \in Seq(S) /\ Len(u) = start - 1 + Len(t)
      /\ \A i \in 1..start - 1 : u[i] = s[i]
      /\ \A k \in 1..Len(t) : u[start - 1 + k] = t[k]
  BY <1>1, <1>3
<1> HIDE DEF u
<1>6. u \in Seq(S) /\ b \in Seq(S)
  BY <1>4, <1>5
<1> HIDE DEF r
<1>6a. r \in Seq(S) /\ Len(r) = Len(u) + Len(b)
  BY <1>6, Joined DEF r
<1>6b. \A i \in 1..Len(u) : r[i] = u[i]
  BY <1>6, Joined DEF r
<1>6c. \A i \in 1..Len(b) : r[Len(u) + i] = b[i]
  BY <1>6, Joined DEF r
<1>7. /\ r \in Seq(S) /\ Len(r) = Len(u) + Len(b)
      /\ \A i \in 1..Len(u) : r[i] = u[i]
      /\ \A i \in 1..Len(b) : r[Len(u) + i] = b[i]
  BY <1>6a, <1>6b, <1>6c
<1>8. Len(r) = Len(s) + Len(t) - (end - start)
  BY <1>1, <1>4, <1>5, <1>7
<1>9. ASSUME NEW i \in 1..start - 1 PROVE r[i] = s[i]
  <2>1. i \in 1..Len(u)
    BY <1>1, <1>5
  <2> QED
    BY <1>5, <1>7, <2>1
<1>10. ASSUME NEW k \in 1..Len(t) PROVE r[start - 1 + k] = t[k]
  <2>1. start - 1 + k \in 1..Len(u)
    BY <1>1, <1>5
  <2> QED
    BY <1>5, <1>7, <2>1
<1>11. ASSUME NEW j \in end..Len(s) PROVE r[j + Len(t) - (end - start)] = s[j]
  <2>1. j - end + 1 \in 1..Len(b) /\ b[j - end + 1] = s[j]
    <3>1. j - end + 1 \in 1..Len(s) - end + 1 /\ end + (j - end + 1) - 1 = j
      BY <1>1
    <3>2. b[j - end + 1] = s[end + (j - end + 1) - 1]
      BY <1>4, <3>1
    <3> QED
      BY <1>4, <3>1, <3>2
  <2>2. Len(u) + (j - end + 1) = j + Len(t) - (end - start)
    BY <1>1, <1>5
  <2> QED
    BY <1>7, <2>1, <2>2
<1> QED
  <2>1. IsSplice(s, t, start, end, r)
    BY <1>8, <1>9, <1>10, <1>11 DEF IsSplice
  <2> QED
    BY <1>7, <2>1 DEF r, u, a, b

-----------------------------------------------------------------------------
\* Drawing moves the window into the list and changes nothing else.
LEMMA DrawingIsRight ==
  ASSUME NEW c, GoodChat(c)
  PROVE  GoodChat(View(c)) /\ View(c).items = c.items /\ Inside(View(c))
<1> DEFINE offset == IF c.follow \/ c.offset > MaxOffset(c) THEN MaxOffset(c) ELSE c.offset
           d == [c EXCEPT !.offset = offset]
<1>1. c.height \in Nat /\ c.items \in Seq(ChatItem) /\ c.offset \in Nat
  BY TerminalAssumption DEF GoodChat, ChatState
<1>2. MaxOffset(c) \in Nat
  BY <1>1, LinesCounted
<1>3. View(c) = IF c.items = <<>> THEN c ELSE d
  BY DEF View
<1>4. CASE c.items = <<>>
  BY <1>3, <1>4 DEF Inside
<1>5. CASE c.items # <<>>
  <2>1. offset \in Nat /\ offset <= MaxOffset(c) /\ (c.follow => offset = MaxOffset(c))
    BY <1>1, <1>2
  <2> HIDE DEF offset
  <2>2. d \in ChatState
    BY <2>1 DEF GoodChat, ChatState
  <2>3. /\ d.items = c.items /\ d.index = c.index /\ d.follow = c.follow /\ d.height = c.height
        /\ d.offset = offset
    BY <2>1 DEF GoodChat, ChatState
  <2> HIDE DEF d
  <2>4. MaxOffset(d) = MaxOffset(c)
    BY <2>3 DEF MaxOffset, TotalLines, Lines
  <2> QED
    BY <1>3, <1>5, <2>1, <2>2, <2>3, <2>4 DEF GoodChat, Inside
<1> QED
  BY <1>4, <1>5

\* The items of a message at the end of the list.
LEMMA AppendingIsRight ==
  ASSUME NEW c, GoodChat(c), NEW id \in Nat, NEW items \in Seq(ChatItem),
         \A k \in DOMAIN items : items[k].id = id
  PROVE  GoodChat(AppendItems(c, id, items)) /\ AppendItems(c, id, items).items = c.items \o items
<1> DEFINE s == c.items \o items
           more == [i \in DOMAIN c.index \union {id} |->
                      IF i = id THEN Len(c.items) + 1 ELSE c.index[i]]
           index == IF id \in DOMAIN c.index THEN c.index ELSE more
           d == [c EXCEPT !.items = s, !.index = index]
<1>1. c.items \in Seq(ChatItem) /\ Len(c.items) \in Nat /\ Len(items) \in Nat
  BY DEF GoodChat, ChatState
<1>2. CASE items = <<>>
  <2>1. c.items \o items = c.items
    BY <1>1, <1>2
  <2> QED
    BY <1>2, <2>1 DEF AppendItems
<1>3. CASE items # <<>>
  <2>1. AppendItems(c, id, items) = d
    BY <1>3 DEF AppendItems
  <2>2. /\ s \in Seq(ChatItem) /\ Len(s) = Len(c.items) + Len(items)
        /\ \A i \in 1..Len(c.items) : s[i] = c.items[i]
        /\ \A k \in 1..Len(items) : s[Len(c.items) + k] = items[k]
    BY <1>1
  <2> DEFINE old == {c.items[i].id : i \in DOMAIN c.items}
             new == {s[i].id : i \in DOMAIN s}
  <2>3. Len(items) >= 1
    BY <1>1, <1>3
  <2>4. new = old \union {id}
    <3>1. ASSUME NEW i \in 1..Len(s) PROVE s[i].id \in old \union {id}
      <4>1. CASE i \in 1..Len(c.items)
        BY <1>1, <2>2, <4>1
      <4>2. CASE i \notin 1..Len(c.items)
        <5>1. i - Len(c.items) \in 1..Len(items) /\ Len(c.items) + (i - Len(c.items)) = i
          BY <1>1, <2>2, <4>2
        <5> QED
          BY <2>2, <5>1
      <4> QED
        BY <4>1, <4>2
    <3>2. ASSUME NEW i \in 1..Len(c.items) PROVE c.items[i].id \in new
      <4>1. i \in DOMAIN s /\ s[i] = c.items[i]
        BY <1>1, <2>2
      <4> QED
        BY <4>1
    <3>3. id \in new
      <4>1. Len(c.items) + 1 \in DOMAIN s /\ s[Len(c.items) + 1].id = id
        BY <1>1, <2>2, <2>3
      <4> QED
        BY <4>1
    <3>4. DOMAIN s = 1..Len(s) /\ DOMAIN c.items = 1..Len(c.items)
      BY <1>1, <2>2
    <3> HIDE DEF s
    <3>5. new \subseteq old \union {id}
      BY <3>1, <3>4
    <3>6. old \subseteq new
      BY <3>2, <3>4
    <3> QED
      BY <3>3, <3>5, <3>6
  <2>5. /\ DOMAIN c.index = old
        /\ \A x \in old : /\ c.index[x] \in DOMAIN c.items /\ c.items[c.index[x]].id = x
                          /\ \A j \in DOMAIN c.items : c.items[j].id = x => c.index[x] <= j
        /\ c.index \in [old -> Nat]
    <3>1. c.index = RebuildIndex(c.items) /\ DOMAIN c.index = old /\ c.index \in ChatIndex
      <4>1. c.index = RebuildIndex(c.items)
        BY DEF GoodChat
      <4>2. DOMAIN RebuildIndex(c.items) = old
        BY <1>1, IndexNames
      <4>3. RebuildIndex(c.items) \in ChatIndex
        BY <1>1, IndexNames
      <4> QED
        BY <4>1, <4>2, <4>3
    <3>2. c.index \in [old -> Nat]
      <4>1. PICK T \in SUBSET Nat : c.index \in [T -> Nat]
        BY <3>1 DEF ChatIndex
      <4> QED
        BY <3>1, <4>1
    <3>3. \A x \in old : /\ c.index[x] \in DOMAIN c.items /\ c.items[c.index[x]].id = x
                        /\ \A j \in DOMAIN c.items : c.items[j].id = x => c.index[x] <= j
      BY <1>1, <3>1, IndexNames
    <3> QED
      BY <3>1, <3>2, <3>3
  <2> HIDE DEF old, new, s
  <2>6. index \in [new -> Nat] /\ \A x \in new : index[x] = IF x \in old THEN c.index[x] ELSE Len(c.items) + 1
    <3>1. CASE id \in old
      <4>1. index = c.index /\ new = old
        BY <2>4, <2>5, <3>1
      <4> QED
        BY <2>5, <4>1
    <3>2. CASE id \notin old
      <4>1. index = more /\ new = old \union {id}
        BY <2>4, <2>5, <3>2
      <4> QED
        BY <1>1, <2>5, <3>2, <4>1
    <3> QED
      BY <3>1, <3>2
  <2> HIDE DEF index
  <2>7. ASSUME NEW x \in new
        PROVE  /\ index[x] \in DOMAIN s /\ s[index[x]].id = x
               /\ \A j \in DOMAIN s : s[j].id = x => index[x] <= j
    <3>1. CASE x \in old
      <4>1. /\ index[x] \in 1..Len(c.items) /\ c.items[index[x]].id = x
            /\ \A j \in 1..Len(c.items) : c.items[j].id = x => index[x] <= j
        BY <1>1, <2>5, <2>6, <3>1
      <4>2. index[x] \in DOMAIN s /\ s[index[x]].id = x
        BY <1>1, <2>2, <4>1
      <4>3. ASSUME NEW j \in DOMAIN s, s[j].id = x PROVE index[x] <= j
        <5>1. CASE j \in 1..Len(c.items)
          BY <2>2, <4>1, <4>3, <5>1
        <5>2. CASE j \notin 1..Len(c.items)
          BY <1>1, <2>2, <4>1, <5>2
        <5> QED
          BY <5>1, <5>2
      <4> QED
        BY <4>2, <4>3
    <3>2. CASE x \notin old
      <4>1. x = id /\ index[x] = Len(c.items) + 1
        BY <2>4, <2>6, <3>2
      <4>2. \A j \in DOMAIN s : s[j].id = x => j > Len(c.items)
        BY SMTT(30), <1>1, <2>2, <3>2 DEF old
      <4>3. s[Len(c.items) + 1].id = id
        BY <1>1, <2>2, <2>3
      <4> QED
        BY <1>1, <2>2, <2>3, <4>1, <4>2, <4>3
    <3> QED
      BY <3>1, <3>2
  <2>8. index = RebuildIndex(s)
    BY SMTT(30), <2>2, <2>6, <2>7, IndexIsThat DEF new
  <2>9. index \in ChatIndex
    BY <2>2, <2>8, IndexNames
  <2>10. d \in ChatState /\ d.items = s /\ d.index = index
    BY <2>2, <2>9 DEF GoodChat, ChatState
  <2> QED
    BY <2>1, <2>8, <2>10 DEF GoodChat, s
<1> QED
  BY <1>2, <1>3

\* r is s with its first run of items with id replaced by t, or with t behind it.
Replaces(s, id, t, r) ==
  IF \A i \in DOMAIN s : s[i].id # id THEN r = s \o t
  ELSE \E start \in 1..Len(s) : \E end \in start + 1..Len(s) + 1 :
         /\ \A i \in 1..start - 1 : s[i].id # id
         /\ \A i \in start..end - 1 : s[i].id = id
         /\ end <= Len(s) => s[end].id # id
         /\ IsSplice(s, t, start, end, r)

\* The items of a message in the place of those it had: the index is rebuilt when
\* the items behind them move, and is right as it is when they do not.
LEMMA UpdatingIsRight ==
  ASSUME NEW c, GoodChat(c), NEW id \in Nat, NEW items \in Seq(ChatItem),
         \A k \in DOMAIN items : items[k].id = id
  PROVE  /\ GoodChat(UpdateItems(c, id, items))
         /\ Replaces(c.items, id, items, UpdateItems(c, id, items).items)
<1> DEFINE s == c.items
           start == c.index[id]
           others == {i \in DOMAIN s : i >= start /\ s[i].id # id}
           end == IF others = {} THEN Len(s) + 1 ELSE Min(others)
           replaced == SubSeq(s, 1, start - 1) \o items \o SubSeq(s, end, Len(s))
           index == IF Len(items) # end - start THEN RebuildIndex(replaced) ELSE c.index
           d == [c EXCEPT !.items = replaced, !.index = index]
<1>1. s \in Seq(ChatItem) /\ Len(s) \in Nat /\ Len(items) \in Nat /\ DOMAIN s = 1..Len(s)
  BY DEF GoodChat, ChatState
<1>2. DOMAIN c.index = {s[i].id : i \in DOMAIN s}
  <2>1. c.index = RebuildIndex(s)
    BY DEF GoodChat
  <2>2. DOMAIN RebuildIndex(s) = {s[i].id : i \in DOMAIN s}
    BY <1>1, IndexNames
  <2> QED
    BY <2>1, <2>2
<1>3. CASE id \notin DOMAIN c.index
  <2>1. UpdateItems(c, id, items) = AppendItems(c, id, items)
    BY <1>3 DEF UpdateItems
  <2>2. \A i \in DOMAIN s : s[i].id # id
    BY <1>2, <1>3
  <2> QED
    BY <2>1, <2>2, AppendingIsRight DEF Replaces
<1>4. CASE id \in DOMAIN c.index
  <2>1. UpdateItems(c, id, items) = d
    BY <1>4 DEF UpdateItems, IndexAfter
  <2>2. start \in DOMAIN s /\ s[start].id = id /\ \A j \in DOMAIN s : s[j].id = id => start <= j
    <3>1. c.index = RebuildIndex(s)
      BY DEF GoodChat
    <3> QED
      <4>1. id \in DOMAIN RebuildIndex(s)
        BY <1>4, <3>1
      <4>2. /\ RebuildIndex(s)[id] \in DOMAIN s /\ s[RebuildIndex(s)[id]].id = id
            /\ \A j \in DOMAIN s : s[j].id = id => RebuildIndex(s)[id] <= j
        BY <1>1, <4>1, IndexNames
      <4> QED
        BY <3>1, <4>2
  <2> HIDE DEF s, start
  <2>3. others \in SUBSET Nat
    BY <1>1
  <2>4. /\ end \in start + 1..Len(s) + 1
        /\ \A i \in start..end - 1 : s[i].id = id
        /\ end <= Len(s) => s[end].id # id
    <3>1. CASE others = {}
      <4>1. end = Len(s) + 1
        BY <3>1
      <4> QED
        BY <1>1, <2>2, <3>1, <4>1
    <3>2. CASE others # {}
      <4>1. end = Min(others)
        BY <3>2
      <4>2. Min(others) \in others /\ \A y \in others : Min(others) <= y
        BY <2>3, <3>2, LeastOf
      <4> HIDE DEF end
      <4>3. end \in DOMAIN s /\ end >= start /\ s[end].id # id
        BY <4>1, <4>2
      <4>4. end > start
        BY <1>1, <2>2, <4>3
      <4>5. ASSUME NEW i \in start..end - 1 PROVE s[i].id = id
        <5>1. i \in DOMAIN s /\ i >= start /\ i < end
          BY <1>1, <2>2, <4>3
        <5>2. i \notin others
          <6>1. i \in others => end <= i
            BY <4>1, <4>2
          <6>2. end \in Nat /\ i \in Nat
            BY <1>1, <4>3, <5>1
          <6> QED
            BY <5>1, <6>1, <6>2
        <5> QED
          BY <5>1, <5>2
      <4> QED
        BY <1>1, <2>2, <4>3, <4>4, <4>5
    <3> QED
      BY <3>1, <3>2
  <2> HIDE DEF others, end
  <2>5. start \in 1..Len(s) + 1 /\ end \in start..Len(s) + 1
    BY <1>1, <2>2, <2>4
  <2> HIDE DEF replaced
  <2>6. /\ replaced \in Seq(ChatItem) /\ Len(replaced) = Len(s) + Len(items) - (end - start)
        /\ \A i \in 1..start - 1 : replaced[i] = s[i]
        /\ \A k \in 1..Len(items) : replaced[start - 1 + k] = items[k]
        /\ \A j \in end..Len(s) : replaced[j + Len(items) - (end - start)] = s[j]
    <3>1. replaced \in Seq(ChatItem) /\ IsSplice(s, items, start, end, replaced)
      BY <1>1, <2>5, Spliced DEF replaced
    <3> QED
      BY <3>1 DEF IsSplice
  <2>7. index = RebuildIndex(replaced)
    <3>1. CASE Len(items) # end - start
      BY <3>1
    <3>2. CASE Len(items) = end - start
      <4>1. Len(replaced) = Len(s) /\ DOMAIN replaced = DOMAIN s
        BY <1>1, <2>5, <2>6, <3>2
      <4>2. ASSUME NEW i \in DOMAIN s PROVE replaced[i].id = s[i].id
        <5>1. CASE i < start
          BY <1>1, <2>5, <2>6, <5>1
        <5>2. CASE i >= start /\ i < end
          <6>1. i - start + 1 \in 1..Len(items) /\ start - 1 + (i - start + 1) = i
            BY <1>1, <2>5, <3>2, <5>2
          <6>2. replaced[i] = items[i - start + 1]
            BY <2>6, <6>1
          <6>3. s[i].id = id
            BY <1>1, <2>4, <2>5, <5>2
          <6> QED
            BY <1>1, <6>1, <6>2, <6>3
        <5>3. CASE i >= end
          <6>1. i \in end..Len(s) /\ i + Len(items) - (end - start) = i
            BY <1>1, <2>5, <3>2, <5>3
          <6> QED
            BY <2>6, <6>1
        <5> QED
          BY <1>1, <2>5, <5>1, <5>2, <5>3
      <4>3. RebuildIndex(replaced) = RebuildIndex(s)
        BY <4>1, <4>2, SameIds
      <4> QED
        BY <3>2, <4>3 DEF GoodChat, s
    <3> QED
      BY <3>1, <3>2
  <2> HIDE DEF index
  <2>8. index \in ChatIndex
    BY <2>6, <2>7, IndexNames
  <2>9. d \in ChatState /\ d.items = replaced /\ d.index = index
    BY <2>6, <2>8 DEF GoodChat, ChatState
  <2>10. Replaces(s, id, items, replaced)
    <3>1. ~(\A i \in DOMAIN s : s[i].id # id)
      BY <2>2
    <3>2. /\ start \in 1..Len(s) /\ end \in start + 1..Len(s) + 1
          /\ \A i \in 1..start - 1 : s[i].id # id
      BY <1>1, <2>2, <2>4
    <3>3. IsSplice(s, items, start, end, replaced)
      BY <2>6 DEF IsSplice
    <3> QED
      BY <2>4, <3>1, <3>2, <3>3 DEF Replaces
  <2> QED
    BY <2>1, <2>7, <2>9, <2>10 DEF GoodChat, s
<1> QED
  BY <1>3, <1>4

-----------------------------------------------------------------------------
(* The types.                                                              *)

\* What may be said of one of them.
LEMMA OneSubscription ==
  ASSUME NEW s, Subscriptions(s), NEW k \in DOMAIN s
  PROVE  /\ s[k] \in Subscription /\ s[k].channel \in Seq(MessageEvent)
         /\ Len(s[k].channel) \in Nat /\ Len(s[k].channel) <= ChannelSize
         /\ s[k].registered \in BOOLEAN /\ s[k].over \in BOOLEAN
<1>1. s[k] \in Subscription
  BY DEF Subscriptions
<1>2. s[k].channel \in Seq(MessageEvent) /\ s[k].registered \in BOOLEAN /\ s[k].over \in BOOLEAN
  BY <1>1 DEF Subscription
<1> QED
  BY <1>1, <1>2 DEF Subscriptions

\* Subscriptions, one by one.
LEMMA SubscriptionsFrom ==
  ASSUME NEW s, Subscriptions(s), NEW f, DOMAIN f = DOMAIN s, f = [k \in DOMAIN s |-> f[k]],
         \A k \in DOMAIN s : f[k] \in Subscription /\ Len(f[k].channel) <= ChannelSize
  PROVE  Subscriptions(f)
<1>1. DOMAIN s = 1..Len(s) /\ Len(s) \in Nat
  BY DEF Subscriptions
<1>2. f \in [1..Len(s) -> Subscription]
  BY <1>1
<1>3. f \in Seq(Subscription)
  BY <1>1, <1>2, SeqDef
<1> QED
  BY <1>3 DEF Subscriptions

\* Publishing adds an event where there is room.
LEMMA PublishedTyped ==
  ASSUME NEW s, Subscriptions(s), NEW type \in {"created", "updated", "deleted"},
         NEW m \in ChatMessage
  PROVE  Subscriptions(Publish(s, type, m))
<1> DEFINE e == [type |-> type, message |-> m]
<1>1. e \in MessageEvent
  BY DEF MessageEvent
<1> HIDE DEF e
<1>2. Publish(s, type, m) = [k \in DOMAIN s |-> IF Gets(s[k])
                              THEN [s[k] EXCEPT !.channel = Append(@, e)] ELSE s[k]]
  BY DEF Publish, e
<1>3. ASSUME NEW k \in DOMAIN s
      PROVE  Publish(s, type, m)[k] \in Subscription
             /\ Len(Publish(s, type, m)[k].channel) <= ChannelSize
  <2>1. CASE Gets(s[k])
    <3> DEFINE ch == Append(s[k].channel, e)
               x == [s[k] EXCEPT !.channel = ch]
    <3>1. ch \in Seq(MessageEvent) /\ Len(ch) = Len(s[k].channel) + 1
      BY <1>1, OneSubscription
    <3>2. Len(ch) <= ChannelSize
      BY <2>1, <3>1, OneSubscription, TerminalAssumption DEF Gets
    <3> HIDE DEF ch
    <3>3. x \in Subscription /\ x.channel = ch
      BY <3>1, OneSubscription DEF Subscription
    <3>4. Publish(s, type, m)[k] = x
      BY <1>2, <2>1 DEF ch
    <3> QED
      BY <3>2, <3>3, <3>4
  <2>2. CASE ~Gets(s[k])
    BY <1>2, <2>2, OneSubscription
  <2> QED
    BY <2>1, <2>2
<1>4. DOMAIN Publish(s, type, m) = DOMAIN s
      /\ Publish(s, type, m) = [k \in DOMAIN s |-> Publish(s, type, m)[k]]
  BY <1>2
<1> QED
  BY <1>3, <1>4, SubscriptionsFrom

\* Clearing publishes as many events as there is room for.
LEMMA AllPublishedTyped ==
  ASSUME NEW s, Subscriptions(s), NEW type \in {"created", "updated", "deleted"},
         NEW ms \in Seq(ChatMessage)
  PROVE  Subscriptions(PublishAll(s, type, ms))
<1> DEFINE p == PublishAll(s, type, ms)
           fit(k) == Min({Len(ms), ChannelSize - Len(s[k].channel)})
           more(k) == [i \in 1..fit(k) |-> [type |-> type, message |-> ms[i]]]
           x(k) == [s[k] EXCEPT !.channel = @ \o more(k)]
<1>1. p = [k \in DOMAIN s |-> IF s[k].registered THEN x(k) ELSE s[k]]
  BY DEF PublishAll
<1>2. ASSUME NEW k \in DOMAIN s PROVE x(k) \in Subscription /\ Len(x(k).channel) <= ChannelSize
  <2>1. /\ Len(ms) \in Nat /\ ChannelSize - Len(s[k].channel) \in Nat
        /\ s[k].channel \in Seq(MessageEvent) /\ Len(s[k].channel) \in Nat /\ s[k] \in Subscription
    BY OneSubscription, TerminalAssumption
  <2>2. fit(k) \in {Len(ms), ChannelSize - Len(s[k].channel)}
        /\ \A y \in {Len(ms), ChannelSize - Len(s[k].channel)} : fit(k) <= y
    BY <2>1, LeastOf
  <2>3. fit(k) \in Nat /\ fit(k) <= Len(ms) /\ fit(k) <= ChannelSize - Len(s[k].channel)
    BY <2>1, <2>2
  <2> HIDE DEF fit
  <2>4. \A i \in 1..fit(k) : ms[i] \in ChatMessage
    BY <2>1, <2>3
  <2>5. more(k) \in [1..fit(k) -> MessageEvent]
    BY <2>4 DEF MessageEvent
  <2>6. more(k) \in Seq(MessageEvent) /\ Len(more(k)) = fit(k)
    BY <2>3, <2>5, SeqDef
  <2> HIDE DEF more
  <2> DEFINE ch == s[k].channel \o more(k)
  <2>7. ch \in Seq(MessageEvent) /\ Len(ch) = Len(s[k].channel) + fit(k)
    <3> HIDE DEF ch
    <3>1. ch \in Seq(MessageEvent)
      BY <2>1, <2>6, Joined DEF ch
    <3>2. Len(ch) = Len(s[k].channel) + Len(more(k))
      BY <2>1, <2>6, Joined DEF ch
    <3> QED
      BY <2>6, <3>1, <3>2
  <2>8. Len(ch) <= ChannelSize
    BY <2>1, <2>3, <2>7, TerminalAssumption
  <2> HIDE DEF ch
  <2>9. x(k) = [s[k] EXCEPT !.channel = ch]
    BY DEF ch
  <2> QED
    BY <2>1, <2>7, <2>8, <2>9 DEF Subscription
<1> HIDE DEF x
<1>3. \A k \in DOMAIN s : p[k] = IF s[k].registered THEN x(k) ELSE s[k]
  BY <1>1
<1>4. \A k \in DOMAIN s : p[k] \in Subscription /\ Len(p[k].channel) <= ChannelSize
  BY <1>2, <1>3, OneSubscription
<1>5. DOMAIN p = DOMAIN s /\ p = [k \in DOMAIN s |-> p[k]]
  BY <1>1
<1> HIDE DEF p
<1>6. Subscriptions(p)
  BY <1>4, <1>5, SubscriptionsFrom
<1> QED
  BY <1>6 DEF p

\* The context of the bridges is over, and a new one begins.
LEMMA BridgesTyped ==
  ASSUME NEW s, Subscriptions(s)
  PROVE  Subscriptions(Cancelled(s)) /\ Subscriptions(NewBridge(s))
<1> DEFINE f == Cancelled(s)
           b == [registered |-> TRUE, over |-> FALSE, channel |-> <<>>]
<1>1. ASSUME NEW k \in DOMAIN s PROVE f[k] \in Subscription /\ f[k].channel = s[k].channel
  <2>1. f[k] = [s[k] EXCEPT !.over = TRUE]
    BY DEF Cancelled
  <2>2. s[k] \in Subscription
    BY OneSubscription
  <2> HIDE DEF f
  <2> QED
    BY <2>1, <2>2 DEF Subscription
<1>2. DOMAIN f = DOMAIN s /\ f = [k \in DOMAIN s |-> f[k]]
  BY DEF Cancelled
<1> HIDE DEF f
<1>3. \A k \in DOMAIN s : f[k] \in Subscription /\ Len(f[k].channel) <= ChannelSize
  BY <1>1, OneSubscription
<1>4. Subscriptions(f)
  BY <1>2, <1>3, SubscriptionsFrom
<1>5. b \in Subscription /\ Len(b.channel) <= ChannelSize
  BY TerminalAssumption DEF Subscription
<1> HIDE DEF b
<1>6. s \in Seq(Subscription) /\ NewBridge(s) = Append(s, b)
  BY DEF Subscriptions, NewBridge, b
<1>7. NewBridge(s) \in Seq(Subscription)
  BY <1>5, <1>6
<1>8. ASSUME NEW k \in DOMAIN NewBridge(s) PROVE Len(NewBridge(s)[k].channel) <= ChannelSize
  <2>1. Len(s) \in Nat /\ DOMAIN s = 1..Len(s) /\ DOMAIN NewBridge(s) = 1..Len(s) + 1
    BY <1>5, <1>6
  <2>2. CASE k \in DOMAIN s
    <3>1. NewBridge(s)[k] = s[k]
      BY <1>5, <1>6, <2>1, <2>2
    <3> QED
      BY <2>2, <3>1, OneSubscription
  <2>3. CASE k \notin DOMAIN s
    <3>1. k = Len(s) + 1
      BY <2>1, <2>3
    <3>2. NewBridge(s)[k] = b
      BY <1>5, <1>6, <3>1
    <3> QED
      BY <1>5, <3>2
  <2> QED
    BY <2>2, <2>3
<1> QED
  BY <1>4, <1>7, <1>8 DEF Subscriptions, f

\* The right chat, and a window in it.
RightList == GoodChat(chat) /\ Inside(chat)

\* After drawing it is.
LEMMA Drawn ==
  ASSUME NEW c, GoodChat(c), Draws(c) PROVE RightList' /\ chat'.items = c.items
<1>1. GoodChat(View(c)) /\ View(c).items = c.items /\ Inside(View(c))
  BY DrawingIsRight
<1>2. chat' = View(c)
  BY DEF Draws
<1>3. GoodChat(chat') /\ chat'.items = c.items /\ Inside(chat')
  BY <1>1, <1>2
<1> QED
  BY <1>3 DEF RightList, GoodChat, Inside

\* An agent that has begun.
LEMMA Begins ==
  ASSUME AgentsTyped, NEW a \in Agents, agents[a].at # "idle"
  PROVE  /\ agents[a] \in BusyAgent
         /\ agents[a].runID \in 0..MaxSubmits /\ agents[a].pieces \in Nat
         /\ agents[a].failed \in BOOLEAN
<1>1. agents[a] \in BusyAgent
  BY DEF AgentsTyped, IdleAgent
<1> QED
  BY <1>1 DEF BusyAgent

\* One agent goes on.
LEMMA AgentGoesOn ==
  ASSUME AgentsTyped, NEW a \in Agents, NEW x \in BusyAgent, agents' = [agents EXCEPT ![a] = x],
         x.at = "publish" => x.event \in MessageEvent
  PROVE  AgentsTyped'
BY DEF AgentsTyped

\* A new message of the user, of the agent and of an error.
LEMMA NewTyped ==
  ASSUME NEW id \in Nat, NEW role \in {"user", "assistant"}
  PROVE  NewMessage(id, role) \in ChatMessage
BY DEF NewMessage, ChatMessage

\* What becomes of a message.
LEMMA ChangedTyped ==
  ASSUME NEW m \in ChatMessage
  PROVE  /\ Text(m) \in ChatMessage /\ CallsTool(m) \in ChatMessage /\ ToolAnswers(m) \in ChatMessage
         /\ Fails(m) \in ChatMessage /\ Finishes(m) \in ChatMessage
         /\ Text(m).id = m.id /\ CallsTool(m).id = m.id /\ ToolAnswers(m).id = m.id
         /\ Fails(m).id = m.id /\ Finishes(m).id = m.id
<1>1. m.text + 1 \in Nat /\ m.calls + 1 \in Nat /\ m.results + 1 \in Nat
  BY DEF ChatMessage
<1> QED
  BY <1>1 DEF ChatMessage, Text, CallsTool, ToolAnswers, Fails, Finishes

\* The message of an agent is one of the messages.
LEMMA OwnIsThere ==
  ASSUME messages \in Seq(ChatMessage), NEW a \in Agents, Own(a) # {}
  PROVE  /\ Min(Own(a)) \in DOMAIN messages /\ messages[Min(Own(a))] = OwnMessage(a)
         /\ OwnMessage(a) \in ChatMessage /\ OwnMessage(a).id = AssistantMessage(a)
<1>1. Own(a) \in SUBSET Nat
  BY DEF Own
<1>2. Min(Own(a)) \in Own(a)
  BY <1>1, LeastOf
<1> QED
  BY <1>2 DEF Own, OwnMessage

\* The ids are numbers.
LEMMA IdsTyped ==
  ASSUME NEW a \in Agents
  PROVE  UserMessage(a) \in Nat /\ AssistantMessage(a) \in Nat /\ ErrorMessage(a) \in Nat /\ a \in Nat
BY TerminalAssumption DEF Agents, UserMessage, AssistantMessage, ErrorMessage

-----------------------------------------------------------------------------
\* What a step of the agent does to the types.
LEMMA AgentTypes ==
  ASSUME TerminalTyped, NEW a \in Agents,
         \/ AgentCreates(a) \/ AddChunk(a) \/ AddToolResult(a) \/ AgentPublishes(a)
         \/ AgentFailsAtOnce(a) \/ AgentFails(a) \/ AgentFinishes(a)
  PROVE  TerminalTyped'
<1>0. AgentsTyped /\ messages \in Seq(ChatMessage) /\ Subscriptions(subs)
  BY DEF TerminalTyped
<1>1. ASSUME chat' = chat, shows' = shows, AgentsTyped', messages' \in Seq(ChatMessage),
             Subscriptions(subs'), disturbed' \in BOOLEAN
      PROVE  TerminalTyped'
  BY <1>1 DEF TerminalTyped, GoodChat, Inside, Subscriptions
<1>2. CASE AgentCreates(a)
  <2> DEFINE m == NewMessage(AssistantMessage(a), "assistant")
             x == [agents[a] EXCEPT !.at = "publish", !.event = [type |-> "created", message |-> m]]
  <2>1. m \in ChatMessage
    BY IdsTyped, NewTyped
  <2>2. agents[a] \in BusyAgent
    BY <1>0, <1>2, Begins DEF AgentCreates
  <2> HIDE DEF m
  <2>3. [type |-> "created", message |-> m] \in MessageEvent
    BY <2>1 DEF MessageEvent
  <2>4. x \in BusyAgent /\ x.event \in MessageEvent
    BY <2>2, <2>3 DEF BusyAgent
  <2>5. agents' = [agents EXCEPT ![a] = x] /\ messages' = Append(messages, m)
    BY <1>2 DEF AgentCreates, m
  <2> HIDE DEF x
  <2>6. AgentsTyped'
    BY <1>0, <2>4, <2>5, AgentGoesOn
  <2>7. messages' \in Seq(ChatMessage)
    BY <1>0, <2>1, <2>5
  <2> QED
    BY <1>0, <1>1, <1>2, <2>6, <2>7 DEF AgentCreates, TerminalTyped
<1>3. ASSUME NEW m, AgentUpdates(a, m), Own(a) # {} => m \in ChatMessage
      PROVE  TerminalTyped'
  <2>1. agents[a] \in BusyAgent /\ agents[a].pieces + 1 \in Nat
    BY <1>0, <1>3, Begins DEF AgentUpdates
  <2>2. CASE Own(a) = {}
    <3> DEFINE x == [agents[a] EXCEPT !.pieces = @ + 1]
    <3>1. x \in BusyAgent /\ x.at # "publish"
      BY <1>3, <2>1 DEF BusyAgent, AgentUpdates
    <3>2. agents' = [agents EXCEPT ![a] = x]
      BY <1>3, <2>2 DEF AgentUpdates
    <3> HIDE DEF x
    <3>3. AgentsTyped'
      BY <1>0, <3>1, <3>2, AgentGoesOn
    <3> QED
      BY <1>0, <1>1, <1>3, <2>2, <3>3 DEF AgentUpdates, TerminalTyped
  <2>3. CASE Own(a) # {}
    <3> DEFINE e == [type |-> "updated", message |-> m]
               x == [agents[a] EXCEPT !.at = "publish", !.pieces = @ + 1, !.event = e]
    <3>1. e \in MessageEvent
      BY <1>3, <2>3 DEF MessageEvent
    <3>2. agents' = [agents EXCEPT ![a] = x]
      <4>1. agents' = [agents EXCEPT ![a].at = "publish", ![a].pieces = @ + 1, ![a].event = e]
        BY <1>3, <2>3 DEF AgentUpdates
      <4> QED
        BY <1>0, <2>1, <4>1 DEF AgentsTyped, BusyAgent
    <3> HIDE DEF e
    <3>3. x \in BusyAgent /\ x.event \in MessageEvent
      BY <2>1, <3>1 DEF BusyAgent
    <3> HIDE DEF x
    <3>4. AgentsTyped'
      BY <1>0, <3>2, <3>3, AgentGoesOn
    <3>5. messages' \in Seq(ChatMessage)
      <4>1. Min(Own(a)) \in DOMAIN messages /\ m \in ChatMessage
        BY <1>0, <1>3, <2>3, OwnIsThere
      <4>2. messages' = [messages EXCEPT ![Min(Own(a))] = m]
        BY <1>3, <2>3 DEF AgentUpdates
      <4> QED
        BY <1>0, <4>1, <4>2, ExceptSeq
    <3> QED
      BY <1>0, <1>1, <1>3, <2>3, <3>4, <3>5 DEF AgentUpdates, TerminalTyped
  <2> QED
    BY <2>2, <2>3
<1>4. CASE AddChunk(a) \/ AddToolResult(a) \/ (AgentFinishes(a) /\ Own(a) # {})
  <2>1. PICK m \in {Text(OwnMessage(a)), CallsTool(OwnMessage(a)), ToolAnswers(OwnMessage(a)),
                    Finishes(OwnMessage(a))} : AgentUpdates(a, m)
    BY <1>4 DEF AddChunk, AddToolResult, AgentFinishes
  <2>2. Own(a) # {} => m \in ChatMessage
    BY <1>0, OwnIsThere, ChangedTyped
  <2> QED
    BY <1>3, <2>1, <2>2
<1>5. CASE AgentPublishes(a)
  <2> DEFINE at == IF agents[a].event.message.done THEN "returns" ELSE "run"
             x == [agents[a] EXCEPT !.at = at, !.event = NoEvent]
  <2>1. agents[a] \in BusyAgent /\ agents[a].event \in MessageEvent
    BY <1>0, <1>5, Begins DEF AgentPublishes, AgentsTyped
  <2>2. /\ agents[a].event.type \in {"created", "updated", "deleted"}
        /\ agents[a].event.message \in ChatMessage
    BY <2>1 DEF MessageEvent
  <2>3. at \in {"returns", "run"}
    OBVIOUS
  <2>4. agents' = [agents EXCEPT ![a] = x]
    BY <1>5 DEF AgentPublishes
  <2> HIDE DEF at
  <2>5. x \in BusyAgent /\ x.at # "publish"
    BY <2>1, <2>3 DEF BusyAgent
  <2> HIDE DEF x
  <2>6. AgentsTyped'
    BY <1>0, <2>4, <2>5, AgentGoesOn
  <2>7. Subscriptions(subs')
    BY <1>0, <1>5, <2>2, PublishedTyped DEF AgentPublishes
  <2>8. disturbed' \in BOOLEAN
    BY <1>5 DEF AgentPublishes, TerminalTyped
  <2> QED
    BY <1>0, <1>1, <1>5, <2>6, <2>7, <2>8 DEF AgentPublishes
<1>6. CASE AgentFailsAtOnce(a) \/ (AgentFails(a) /\ Own(a) = {}) \/ (AgentFinishes(a) /\ Own(a) = {})
  <2>1. agents[a] \in BusyAgent /\ agents[a].at = "run"
    BY <1>0, <1>6, Begins DEF AgentFailsAtOnce, AgentFails, AgentFinishes
  <2>2. PICK x \in {[agents[a] EXCEPT !.at = "returns", !.failed = TRUE],
                    [agents[a] EXCEPT !.failed = TRUE],
                    [agents[a] EXCEPT !.at = "returns"]} : agents' = [agents EXCEPT ![a] = x]
    BY <1>0, <1>6 DEF AgentFailsAtOnce, AgentFails, AgentFinishes, AgentsTyped
  <2>3. x \in BusyAgent /\ x.at # "publish"
    BY <2>1 DEF BusyAgent
  <2>4. AgentsTyped'
    BY <1>0, <2>2, <2>3, AgentGoesOn
  <2>5. UNCHANGED <<messages, subs, chat, shows, disturbed>>
    BY <1>6 DEF AgentFailsAtOnce, AgentFails, AgentFinishes
  <2> QED
    BY <1>0, <1>1, <2>4, <2>5 DEF TerminalTyped
<1>7. CASE AgentFails(a) /\ Own(a) # {}
  <2> DEFINE m == Fails(OwnMessage(a))
             e == [type |-> "updated", message |-> m]
             x == [agents[a] EXCEPT !.at = "publish", !.failed = TRUE, !.event = e]
  <2>1. m \in ChatMessage /\ Min(Own(a)) \in DOMAIN messages /\ messages[Min(Own(a))] = OwnMessage(a)
    BY <1>0, <1>7, OwnIsThere, ChangedTyped
  <2>2. agents' = [agents EXCEPT ![a] = x]
    BY <1>7 DEF AgentFails
  <2>3. messages' = [messages EXCEPT ![Min(Own(a))] = m]
    BY <1>7, <2>1 DEF AgentFails
  <2>4. agents[a] \in BusyAgent
    BY <1>0, <1>7, Begins DEF AgentFails
  <2> HIDE DEF m
  <2>5. e \in MessageEvent
    BY <2>1 DEF MessageEvent
  <2> HIDE DEF e
  <2>6. x \in BusyAgent /\ x.event \in MessageEvent
    BY <2>4, <2>5 DEF BusyAgent
  <2> HIDE DEF x
  <2>7. AgentsTyped'
    BY <1>0, <2>2, <2>6, AgentGoesOn
  <2>8. messages' \in Seq(ChatMessage)
    BY <1>0, <2>1, <2>3, ExceptSeq
  <2> QED
    BY <1>0, <1>1, <1>7, <2>7, <2>8 DEF AgentFails, TerminalTyped
<1> QED
  BY <1>2, <1>4, <1>5, <1>6, <1>7

\* One subscription changes.
LEMMA OneChanged ==
  ASSUME Subscriptions(subs), NEW k \in DOMAIN subs, NEW x \in Subscription,
         Len(x.channel) <= ChannelSize, NEW t, t = [subs EXCEPT ![k] = x]
  PROVE  Subscriptions(t)
<1>1. \A l \in DOMAIN subs : subs[l] \in Subscription /\ Len(subs[l].channel) <= ChannelSize
  BY OneSubscription
<1>2. DOMAIN t = DOMAIN subs /\ t = [l \in DOMAIN subs |-> t[l]]
      /\ \A l \in DOMAIN subs : t[l] = IF l = k THEN x ELSE subs[l]
  OBVIOUS
<1>3. \A l \in DOMAIN subs : t[l] \in Subscription /\ Len(t[l].channel) <= ChannelSize
  BY <1>1, <1>2
<1> QED
  BY <1>2, <1>3, SubscriptionsFrom

\* A subscription without the first of its events.
LEMMA HeadTaken ==
  ASSUME Subscriptions(subs), NEW k \in DOMAIN subs, subs[k].channel # <<>>
  PROVE  /\ Subscriptions([subs EXCEPT ![k].channel = Tail(@)])
         /\ Head(subs[k].channel) \in MessageEvent
<1> DEFINE x == [subs[k] EXCEPT !.channel = Tail(@)]
<1>1. /\ subs[k] \in Subscription /\ subs[k].channel \in Seq(MessageEvent)
      /\ Len(subs[k].channel) \in Nat /\ Len(subs[k].channel) <= ChannelSize
  BY OneSubscription
<1>2. /\ Head(subs[k].channel) \in MessageEvent /\ Tail(subs[k].channel) \in Seq(MessageEvent)
      /\ Len(Tail(subs[k].channel)) = Len(subs[k].channel) - 1
  BY <1>1, HeadTailProperties
<1>3. x \in Subscription /\ x.channel = Tail(subs[k].channel)
  BY <1>1, <1>2 DEF Subscription
<1>4. Len(Tail(subs[k].channel)) <= ChannelSize
  BY <1>1, <1>2, TerminalAssumption
<1>5. [subs EXCEPT ![k].channel = Tail(@)] = [subs EXCEPT ![k] = x]
  OBVIOUS
<1> HIDE DEF x
<1> QED
  BY <1>2, <1>3, <1>4, <1>5, OneChanged

\* The steps of the bridges.
LEMMA BridgeTypes ==
  ASSUME TerminalTyped,
         \/ StartBridge
         \/ \E k \in DOMAIN subs : Unsubscribe(k) \/ Drain(k) \/ HandleMessageEvent(k)
  PROVE  TerminalTyped'
<1>0. AgentsTyped /\ messages \in Seq(ChatMessage) /\ Subscriptions(subs) /\ RightList
  BY DEF TerminalTyped, RightList
<1>1. ASSUME RightList', Subscriptions(subs'), UNCHANGED <<messages, shows, agents, disturbed>>
      PROVE  TerminalTyped'
  BY <1>1 DEF TerminalTyped, RightList, AgentsTyped, Subscriptions
<1>2. CASE StartBridge
  <2>1. RightList'
    BY <1>0, <1>2, Drawn DEF StartBridge, RightList
  <2>2. Subscriptions(subs')
    BY <1>0, <1>2, BridgesTyped DEF StartBridge
  <2> QED
    BY <1>1, <1>2, <2>1, <2>2 DEF StartBridge
<1>3. ASSUME NEW k \in DOMAIN subs, Unsubscribe(k) PROVE TerminalTyped'
  <2> DEFINE x == [subs[k] EXCEPT !.registered = FALSE]
  <2>1. subs[k] \in Subscription /\ Len(subs[k].channel) <= ChannelSize
    BY <1>0, OneSubscription
  <2>2. x \in Subscription /\ x.channel = subs[k].channel
    BY <2>1 DEF Subscription
  <2>3. subs' = [subs EXCEPT ![k] = x]
    BY <1>3 DEF Unsubscribe
  <2> HIDE DEF x
  <2>4. Subscriptions(subs')
    BY <1>0, <2>1, <2>2, <2>3, OneChanged
  <2>5. RightList'
    BY <1>0, <1>3 DEF Unsubscribe, RightList, GoodChat, Inside
  <2> QED
    BY <1>1, <1>3, <2>4, <2>5 DEF Unsubscribe
<1>4. ASSUME NEW k \in DOMAIN subs, Drain(k) PROVE TerminalTyped'
  <2>1. Subscriptions(subs')
    BY <1>0, <1>4, HeadTaken DEF Drain
  <2>2. RightList'
    BY <1>0, <1>4 DEF Drain, RightList, GoodChat, Inside
  <2> QED
    BY <1>1, <1>4, <2>1, <2>2 DEF Drain
<1>5. ASSUME NEW k \in DOMAIN subs, HandleMessageEvent(k) PROVE TerminalTyped'
  <2> DEFINE event == Head(subs[k].channel)
             items == ExtractItems(event.message)
  <2>1. Subscriptions(subs') /\ event \in MessageEvent
    BY <1>0, <1>5, HeadTaken DEF HandleMessageEvent
  <2>2. event.message \in ChatMessage /\ event.type \in {"created", "updated", "deleted"}
    BY <2>1 DEF MessageEvent
  <2>3. /\ event.message.id \in Nat /\ items \in Seq(ChatItem)
        /\ \A i \in DOMAIN items : items[i].id = event.message.id
    BY <2>2, ItemsOfMessage DEF ChatMessage
  <2>4. \/ Draws(AppendItems(chat, event.message.id, items))
        \/ Draws(UpdateItems(chat, event.message.id, items))
        \/ Draws(chat)
    BY <1>5, <2>2 DEF HandleMessageEvent
  <2> HIDE DEF event, items
  <2>5. RightList'
    <3>1. GoodChat(chat)
      BY <1>0 DEF RightList
    <3> QED
      BY <2>3, <2>4, <3>1, AppendingIsRight, UpdatingIsRight, Drawn
  <2> QED
    BY <1>1, <1>5, <2>1, <2>5 DEF HandleMessageEvent
<1> QED
  BY <1>2, <1>3, <1>4, <1>5

\* Making a message, and what it publishes.
LEMMA CreateTypes ==
  ASSUME TerminalTyped, NEW m \in ChatMessage, Create(m)
  PROVE  messages' \in Seq(ChatMessage) /\ Subscriptions(subs)' /\ disturbed' \in BOOLEAN
<1>1. messages' \in Seq(ChatMessage)
  BY DEF TerminalTyped, Create
<1>2. Subscriptions(subs')
  BY PublishedTyped DEF TerminalTyped, Create
<1>3. disturbed' \in BOOLEAN
  BY DEF TerminalTyped, Create
<1> QED
  BY <1>1, <1>2, <1>3 DEF Subscriptions

\* A final answer keeps its place and its lines.
LEMMA FinalizingIsRight ==
  ASSUME NEW c, GoodChat(c)
  PROVE  /\ GoodChat(FinalizeAssistant(c))
         /\ DOMAIN FinalizeAssistant(c).items = DOMAIN c.items
         /\ Len(FinalizeAssistant(c).items) = Len(c.items)
         /\ \A i \in DOMAIN c.items :
              \E final \in BOOLEAN : FinalizeAssistant(c).items[i] = [c.items[i] EXCEPT !.final = final]
<1> DEFINE texts == {i \in DOMAIN c.items : c.items[i].part = "text"}
           last == Max(texts)
           s == [c.items EXCEPT ![last].final = TRUE]
           d == [c EXCEPT !.items = s]
<1>1. /\ c.items \in Seq(ChatItem) /\ Len(c.items) \in Nat /\ DOMAIN c.items = 1..Len(c.items)
      /\ \A i \in DOMAIN c.items : c.items[i] \in ChatItem
  BY DEF GoodChat, ChatState
<1>2. \A i \in DOMAIN c.items : c.items[i] = [c.items[i] EXCEPT !.final = c.items[i].final]
                                /\ c.items[i].final \in BOOLEAN
  BY <1>1 DEF ChatItem
<1>3. CASE texts = {}
  <2>1. FinalizeAssistant(c) = c
    BY <1>3 DEF FinalizeAssistant
  <2> QED
    BY <1>2, <2>1
<1>4. CASE texts # {}
  <2>1. FinalizeAssistant(c) = [c EXCEPT !.items[last].final = TRUE]
    BY <1>4 DEF FinalizeAssistant
  <2>2. FinalizeAssistant(c) = d
    BY <2>1
  <2>3. texts \in SUBSET (1..Len(c.items))
    BY <1>1
  <2>4. last \in texts
    BY <1>1, <1>4, <2>3, LastOf
  <2>5. last \in DOMAIN c.items
    BY <2>4
  <2> HIDE DEF last, texts
  <2>6. [c.items[last] EXCEPT !.final = TRUE] \in ChatItem
    BY <1>1, <2>5 DEF ChatItem
  <2>7. s = [c.items EXCEPT ![last] = [c.items[last] EXCEPT !.final = TRUE]]
    OBVIOUS
  <2>8. s \in Seq(ChatItem) /\ DOMAIN s = DOMAIN c.items /\ Len(s) = Len(c.items)
    BY <1>1, <2>5, <2>6, <2>7, ExceptSeq
  <2>9. \A i \in DOMAIN c.items : s[i] = IF i = last THEN [c.items[last] EXCEPT !.final = TRUE]
                                         ELSE c.items[i]
    BY <2>7
  <2> HIDE DEF s
  <2>10. \A i \in DOMAIN c.items : s[i].id = c.items[i].id
    BY ZenonT(60), <1>1, <2>9 DEF ChatItem
  <2>11. RebuildIndex(s) = RebuildIndex(c.items)
    BY <2>8, <2>10, SameIds
  <2>12. d \in ChatState /\ d.items = s /\ d.index = c.index
    BY <2>8 DEF GoodChat, ChatState
  <2> HIDE DEF d
  <2>13. GoodChat(d)
    BY <2>11, <2>12 DEF GoodChat
  <2>14. ASSUME NEW i \in DOMAIN c.items
         PROVE  \E final \in BOOLEAN : s[i] = [c.items[i] EXCEPT !.final = final]
    BY <1>2, <2>9
  <2> QED
    BY <2>2, <2>8, <2>12, <2>13, <2>14
<1> QED
  BY <1>3, <1>4

\* The fields of a chat.
LEMMA ChatFields ==
  ASSUME NEW c, GoodChat(c)
  PROVE  /\ c.items \in Seq(ChatItem) /\ c.offset \in Nat /\ c.follow \in BOOLEAN
         /\ c.height \in ViewHeights /\ c.height \in Nat
         /\ MaxOffset(c) \in Nat
<1>1. /\ c.items \in Seq(ChatItem) /\ c.offset \in Nat /\ c.follow \in BOOLEAN
      /\ c.height \in ViewHeights /\ c.height \in Nat
  BY TerminalAssumption DEF GoodChat, ChatState
<1>2. MaxOffset(c) \in Nat
  BY <1>1, LinesCounted
<1> QED
  BY <1>1, <1>2

\* A chat without items.
LEMMA EmptyIsRight ==
  ASSUME NEW height \in ViewHeights
  PROVE  GoodChat(EmptyChat(height)) /\ EmptyChat(height).items = <<>> /\ Inside(EmptyChat(height))
<1> DEFINE none == [id \in {} |-> 0]
<1>1. none \in [{} -> Nat]
  OBVIOUS
<1>2. <<>> = RebuildIndex(<<>>)
  BY DEF RebuildIndex
<1>3a. <<>> \in Seq(ChatItem)
  OBVIOUS
<1>3b. RebuildIndex(<<>>) \in ChatIndex
  BY <1>3a, IndexNames
<1>3. <<>> \in Seq(ChatItem) /\ RebuildIndex(<<>>) \in ChatIndex
  BY <1>3a, <1>3b
<1>4. <<>> \in ChatIndex
  BY <1>2, <1>3
<1>5. EmptyChat(height) \in ChatState
  BY <1>3, <1>4 DEF EmptyChat, ChatState
<1>6. EmptyChat(height).items = <<>> /\ EmptyChat(height).index = <<>>
  BY DEF EmptyChat
<1> QED
  BY <1>2, <1>5, <1>6 DEF GoodChat, Inside

\* Submitting, and the end of a run.
LEMMA UserTypes ==
  ASSUME TerminalTyped, NEW a \in Agents, Submit(a) \/ AgentDone(a) \/ AgentError(a)
  PROVE  TerminalTyped'
<1>0. /\ AgentsTyped /\ messages \in Seq(ChatMessage) /\ Subscriptions(subs) /\ RightList
      /\ GoodChat(chat) /\ shows \in [runID : 0..MaxSubmits, running : BOOLEAN]
      /\ disturbed \in BOOLEAN
  BY DEF TerminalTyped, RightList
<1>1. ASSUME RightList', AgentsTyped', messages' \in Seq(ChatMessage), Subscriptions(subs)',
             shows' \in [runID : 0..MaxSubmits, running : BOOLEAN], disturbed' \in BOOLEAN
      PROVE  TerminalTyped'
  BY <1>1 DEF TerminalTyped, RightList
<1>2. CASE Submit(a)
  <2> DEFINE m == [NewMessage(UserMessage(a), "user") EXCEPT !.done = TRUE]
             x == [at |-> "start", runID |-> shows.runID, pieces |-> 0, failed |-> FALSE,
                   event |-> NoEvent]
  <2>1. m \in ChatMessage
    BY IdsTyped DEF NewMessage, ChatMessage
  <2>2. Create(m) /\ agents' = [agents EXCEPT ![a] = x] /\ shows' = [shows EXCEPT !.running = TRUE]
        /\ Draws(chat)
    BY <1>2 DEF Submit
  <2>3. x \in BusyAgent /\ x.at # "publish"
    BY <1>0 DEF BusyAgent
  <2> HIDE DEF m, x
  <2>4. messages' \in Seq(ChatMessage) /\ Subscriptions(subs)' /\ disturbed' \in BOOLEAN
    BY <2>1, <2>2, CreateTypes
  <2>5. AgentsTyped'
    BY <1>0, <2>2, <2>3, AgentGoesOn
  <2>6. RightList'
    BY <1>0, <2>2, Drawn
  <2>7. shows' \in [runID : 0..MaxSubmits, running : BOOLEAN]
    BY <1>0, <2>2
  <2> QED
    BY <1>1, <2>4, <2>5, <2>6, <2>7
<1>3. CASE AgentDone(a)
  <2> DEFINE x == [agents[a] EXCEPT !.at = "done"]
             run == IF agents[a].runID = 0 THEN a ELSE agents[a].runID
  <2>1. agents[a] \in BusyAgent /\ agents[a].runID \in 0..MaxSubmits
    BY <1>0, <1>3, Begins DEF AgentDone
  <2>2. run \in 0..MaxSubmits
    BY <2>1, TerminalAssumption DEF Agents
  <2>3. /\ shows' = [runID |-> run, running |-> FALSE] /\ agents' = [agents EXCEPT ![a] = x]
        /\ Draws(FinalizeAssistant(chat)) /\ UNCHANGED <<messages, subs, disturbed>>
    BY <1>3 DEF AgentDone
  <2> HIDE DEF run
  <2>4. x \in BusyAgent /\ x.at # "publish"
    BY <2>1 DEF BusyAgent
  <2> HIDE DEF x
  <2>5. AgentsTyped'
    BY <1>0, <2>3, <2>4, AgentGoesOn
  <2>6. RightList'
    <3>1. GoodChat(FinalizeAssistant(chat))
      BY <1>0, FinalizingIsRight
    <3> QED
      BY <2>3, <3>1, Drawn
  <2>7. shows' \in [runID : 0..MaxSubmits, running : BOOLEAN]
    BY <2>2, <2>3
  <2>8. Subscriptions(subs)'
    BY <1>0, <2>3 DEF Subscriptions
  <2> QED
    BY <1>0, <1>1, <2>3, <2>5, <2>6, <2>7, <2>8
<1>4. CASE AgentError(a)
  <2> DEFINE m == [NewMessage(ErrorMessage(a), "assistant") EXCEPT !.done = TRUE, !.error = TRUE]
             x == [agents[a] EXCEPT !.at = "done"]
  <2>1. m \in ChatMessage
    BY IdsTyped DEF NewMessage, ChatMessage
  <2>2. Create(m) /\ agents' = [agents EXCEPT ![a] = x] /\ shows' = [shows EXCEPT !.running = FALSE]
        /\ Draws(chat)
    BY <1>4 DEF AgentError
  <2>3. x \in BusyAgent /\ x.at # "publish"
    <3>1. agents[a] \in BusyAgent
      BY <1>0, <1>4, Begins DEF AgentError
    <3> QED
      BY <3>1 DEF BusyAgent
  <2> HIDE DEF m, x
  <2>4. messages' \in Seq(ChatMessage) /\ Subscriptions(subs)' /\ disturbed' \in BOOLEAN
    BY <2>1, <2>2, CreateTypes
  <2>5. AgentsTyped'
    BY <1>0, <2>2, <2>3, AgentGoesOn
  <2>6. RightList'
    BY <1>0, <2>2, Drawn
  <2>7. shows' \in [runID : 0..MaxSubmits, running : BOOLEAN]
    BY <1>0, <2>2
  <2> QED
    BY <1>1, <2>4, <2>5, <2>6, <2>7
<1> QED
  BY <1>2, <1>3, <1>4

\* Keys.
LEMMA KeyTypes ==
  ASSUME TerminalTyped,
         \/ CancelRun \/ ClearConversation
         \/ \E n \in {1, chat.height \div 2} : ScrollUp(n) \/ ScrollDown(n)
         \/ \E h \in ViewHeights : WindowSize(h)
  PROVE  TerminalTyped'
<1>0. /\ AgentsTyped /\ messages \in Seq(ChatMessage) /\ Subscriptions(subs) /\ RightList
      /\ GoodChat(chat) /\ shows \in [runID : 0..MaxSubmits, running : BOOLEAN]
      /\ disturbed \in BOOLEAN
  BY DEF TerminalTyped, RightList
<1>1. ASSUME RightList', UNCHANGED agents, messages' \in Seq(ChatMessage), Subscriptions(subs'),
             shows' \in [runID : 0..MaxSubmits, running : BOOLEAN], disturbed' \in BOOLEAN
      PROVE  TerminalTyped'
  BY <1>0, <1>1 DEF TerminalTyped, RightList, AgentsTyped, Subscriptions
<1>2. /\ chat.offset \in Nat /\ chat.follow \in BOOLEAN /\ chat.height \in ViewHeights
      /\ chat.height \in Nat /\ MaxOffset(chat) \in Nat
  BY <1>0, ChatFields
<1>3. CASE CancelRun
  <2>1. Subscriptions(subs')
    <3>1. Subscriptions(Cancelled(subs))
      BY <1>0, BridgesTyped
    <3> QED
      BY <1>3, <3>1, BridgesTyped DEF CancelRun
  <2>2. RightList'
    BY <1>0, <1>3, Drawn DEF CancelRun
  <2> QED
    BY <1>0, <1>1, <1>3, <2>1, <2>2 DEF CancelRun, Cancels
<1>4. CASE ClearConversation
  <2>1. Subscriptions(subs')
    <3>1. Subscriptions(Cancelled(subs))
      BY <1>0, BridgesTyped
    <3>2. Subscriptions(PublishAll(Cancelled(subs), "deleted", messages))
      BY <1>0, <3>1, AllPublishedTyped
    <3> QED
      BY <1>4, <3>2, BridgesTyped DEF ClearConversation
  <2>2. RightList'
    <3>1. GoodChat(EmptyChat(chat.height))
      BY <1>2, EmptyIsRight
    <3>2. StatusItem \in ChatItem /\ StatusItem.id \in Nat
      BY DEF StatusItem, ChatItem, ItemParts
    <3>3. GoodChat(AppendItems(EmptyChat(chat.height), StatusItem.id, <<StatusItem>>))
      <4>1. <<StatusItem>> \in Seq(ChatItem)
        BY <3>2
      <4>2. \A k \in DOMAIN <<StatusItem>> : <<StatusItem>>[k].id = StatusItem.id
        OBVIOUS
      <4> QED
        BY <3>1, <3>2, <4>1, <4>2, AppendingIsRight
    <3> QED
      BY <1>4, <3>3, Drawn DEF ClearConversation
  <2>3. messages' \in Seq(ChatMessage) /\ shows' \in [runID : 0..MaxSubmits, running : BOOLEAN]
    BY <1>4, TerminalAssumption DEF ClearConversation
  <2> QED
    BY <1>1, <1>4, <2>1, <2>2, <2>3 DEF ClearConversation, Cancels
<1>5. ASSUME NEW c, GoodChat(c), Draws(c), Scrolls PROVE TerminalTyped'
  <2>1. RightList'
    BY <1>5, Drawn
  <2> QED
    BY <1>0, <1>1, <1>5, <2>1 DEF Scrolls
<1>6. ASSUME NEW n \in Nat, ScrollUp(n) PROVE TerminalTyped'
  <2> DEFINE offset == Max({chat.offset - n, 0})
             c == [chat EXCEPT !.follow = FALSE, !.offset = offset]
  <2>1. offset \in Nat
    BY <1>2, NotNegative
  <2> HIDE DEF offset
  <2>2. c \in ChatState /\ c.items = chat.items /\ c.index = chat.index
    BY <1>0, <2>1 DEF GoodChat, ChatState
  <2>3. Draws(c)
    BY <1>6 DEF ScrollUp, offset
  <2> HIDE DEF c
  <2>4. GoodChat(c)
    BY <1>0, <2>2 DEF GoodChat
  <2> QED
    BY <1>5, <1>6, <2>3, <2>4 DEF ScrollUp
<1>7. ASSUME NEW n \in Nat, ScrollDown(n) PROVE TerminalTyped'
  <2> DEFINE bottom == chat.offset + n >= MaxOffset(chat)
             offset == IF bottom THEN MaxOffset(chat) ELSE chat.offset + n
             follow == chat.follow \/ bottom
             c == [chat EXCEPT !.offset = offset, !.follow = follow]
  <2>1. offset \in Nat /\ follow \in BOOLEAN
    BY <1>2
  <2>2. Draws(c)
    BY <1>7 DEF ScrollDown
  <2> HIDE DEF offset, follow
  <2>3. c \in ChatState /\ c.items = chat.items /\ c.index = chat.index
    BY <1>0, <2>1 DEF GoodChat, ChatState
  <2> HIDE DEF c
  <2>4. GoodChat(c)
    BY <1>0, <2>3 DEF GoodChat
  <2> QED
    BY <1>5, <1>7, <2>2, <2>4 DEF ScrollDown
<1>8. ASSUME NEW h \in ViewHeights, WindowSize(h) PROVE TerminalTyped'
  <2> DEFINE c == [chat EXCEPT !.height = h]
  <2>1. c \in ChatState /\ c.items = chat.items /\ c.index = chat.index
    BY <1>0, <1>8 DEF GoodChat, ChatState
  <2>2. Draws(c)
    BY <1>8 DEF WindowSize
  <2> HIDE DEF c
  <2>3. GoodChat(c)
    BY <1>0, <2>1 DEF GoodChat
  <2> QED
    BY <1>5, <1>8, <2>2, <2>3 DEF WindowSize
<1>9. 1 \in Nat /\ chat.height \div 2 \in Nat
  BY <1>2
<1> QED
  BY <1>3, <1>4, <1>6, <1>7, <1>8, <1>9

\* The types, from the first state on.
LEMMA TerminalBegins ==
  ASSUME TerminalInit PROVE TerminalTyped
<1>1. PICK h \in ViewHeights : chat = EmptyChat(h)
  BY DEF TerminalInit
<1>2. GoodChat(chat) /\ Inside(chat)
  BY <1>1, EmptyIsRight
<1>3. AgentsTyped
  BY DEF TerminalInit, AgentsTyped, IdleAgent
<1>4. Subscriptions(subs) /\ messages \in Seq(ChatMessage)
  BY DEF TerminalInit, Subscriptions
<1>5. shows = [runID |-> 0, running |-> FALSE] /\ disturbed = FALSE
  BY DEF TerminalInit
<1>6. 0 \in 0..MaxSubmits
  BY TerminalAssumption
<1>7. shows \in [runID : 0..MaxSubmits, running : BOOLEAN] /\ disturbed \in BOOLEAN
  BY <1>5, <1>6
<1> QED
  BY <1>2, <1>3, <1>4, <1>7 DEF TerminalTyped

\* And in every step.
LEMMA TerminalStepTyped ==
  ASSUME TerminalTyped, TerminalNext PROVE TerminalTyped'
BY BridgeTypes, AgentTypes, UserTypes, KeyTypes DEF TerminalNext

\* What the types say.
LEMMA TypesSay ==
  ASSUME TerminalTyped PROVE TerminalTypeOK /\ IndexIsRight /\ WindowIsInside
<1>1. chat.height \in ViewHeights /\ chat.offset \in Nat /\ chat.follow \in BOOLEAN
  BY ChatFields DEF TerminalTyped
<1>2. \A k \in DOMAIN subs : Len(subs[k].channel) <= ChannelSize
  BY DEF TerminalTyped, Subscriptions
<1> QED
  BY <1>1, <1>2 DEF TerminalTyped, TerminalTypeOK, IndexIsRight, WindowIsInside, GoodChat, Inside

\* The items of a message are together in s.
Together(s) ==
  \A p, q, r \in DOMAIN s : p < q /\ q < r /\ s[p].id = s[r].id => s[q].id = s[p].id

\* t, with the items of id, has taken the place of all of them in s.
Takes(s, id, t, start, end, r) ==
  /\ start \in 1..Len(s) + 1 /\ end \in start..Len(s) + 1 /\ (start = end => end = Len(s) + 1)
  /\ \A i \in 1..start - 1 : s[i].id # id
  /\ \A i \in start..end - 1 : s[i].id = id
  /\ \A i \in end..Len(s) : s[i].id # id
  /\ \A k \in DOMAIN t : t[k].id = id
  /\ IsSplice(s, t, start, end, r)

\* Where the items of the new list are from.
Parts(s, id, t, start, end, r) ==
  \A i \in DOMAIN r :
    \/ i < start /\ i \in DOMAIN s /\ r[i] = s[i] /\ r[i].id # id
    \/ /\ start <= i /\ i < start + Len(t) /\ r[i].id = id
       /\ i - start + 1 \in DOMAIN t /\ r[i] = t[i - start + 1]
    \/ /\ start + Len(t) <= i /\ i + (end - start) - Len(t) \in end..Len(s)
       /\ r[i] = s[i + (end - start) - Len(t)] /\ r[i].id # id

\* Updating a list whose items are together does so.
LEMMA ReplacedIsTaken ==
  ASSUME NEW s \in Seq(ChatItem), NEW t \in Seq(ChatItem), NEW id, NEW r,
         Together(s), Replaces(s, id, t, r), \A k \in DOMAIN t : t[k].id = id
  PROVE  \E start, end \in Nat : Takes(s, id, t, start, end, r)
<1>1. DOMAIN s = 1..Len(s) /\ Len(s) \in Nat
  OBVIOUS
<1>2. CASE \A i \in DOMAIN s : s[i].id # id
  <2>1. r = s \o t
    BY <1>2 DEF Replaces
  <2>2. IsSplice(s, t, Len(s) + 1, Len(s) + 1, r)
    BY <2>1 DEF IsSplice
  <2>3. Takes(s, id, t, Len(s) + 1, Len(s) + 1, r)
    BY <1>1, <1>2, <2>2 DEF Takes
  <2> QED
    BY <1>1, <2>3
<1>3. CASE ~(\A i \in DOMAIN s : s[i].id # id)
  <2>1. PICK start \in 1..Len(s) : \E end \in start + 1..Len(s) + 1 :
               /\ \A i \in 1..start - 1 : s[i].id # id
               /\ \A i \in start..end - 1 : s[i].id = id
               /\ end <= Len(s) => s[end].id # id
               /\ IsSplice(s, t, start, end, r)
    BY <1>3 DEF Replaces
  <2>2. PICK end \in start + 1..Len(s) + 1 :
               /\ \A i \in 1..start - 1 : s[i].id # id
               /\ \A i \in start..end - 1 : s[i].id = id
               /\ end <= Len(s) => s[end].id # id
               /\ IsSplice(s, t, start, end, r)
    BY <2>1
  <2>3. ASSUME NEW i \in end..Len(s) PROVE s[i].id # id
    <3>1. CASE i = end
      BY <1>1, <2>2, <3>1
    <3>2. CASE i > end
      <4>1. start < end /\ end < i /\ start \in DOMAIN s /\ end \in DOMAIN s /\ i \in DOMAIN s
        BY <1>1, <3>2
      <4>2. s[start].id = id /\ s[end].id # id
        BY <1>1, <2>2, <4>1
      <4> QED
        BY <4>1, <4>2 DEF Together
    <3> QED
      BY <1>1, <3>1, <3>2
  <2>4. Takes(s, id, t, start, end, r)
    BY <1>1, <2>2, <2>3 DEF Takes
  <2>5. start \in Nat /\ end \in Nat
    BY <1>1
  <2> QED
    BY <2>4, <2>5
<1> QED
  BY <1>2, <1>3

\* They are from the old one or from the message.
LEMMA TakenParts ==
  ASSUME NEW s \in Seq(ChatItem), NEW t \in Seq(ChatItem), NEW id, NEW r \in Seq(ChatItem),
         NEW start \in Nat, NEW end \in Nat, Takes(s, id, t, start, end, r)
  PROVE  Parts(s, id, t, start, end, r)
<1> SUFFICES ASSUME NEW i \in DOMAIN r
             PROVE  \/ i < start /\ i \in DOMAIN s /\ r[i] = s[i] /\ r[i].id # id
                    \/ /\ start <= i /\ i < start + Len(t) /\ r[i].id = id
                       /\ i - start + 1 \in DOMAIN t /\ r[i] = t[i - start + 1]
                    \/ /\ start + Len(t) <= i /\ i + (end - start) - Len(t) \in end..Len(s)
                       /\ r[i] = s[i + (end - start) - Len(t)] /\ r[i].id # id
  BY DEF Parts
<1>1. /\ DOMAIN s = 1..Len(s) /\ Len(s) \in Nat /\ DOMAIN t = 1..Len(t) /\ Len(t) \in Nat
      /\ DOMAIN r = 1..Len(r) /\ start \in 1..Len(s) + 1 /\ end \in start..Len(s) + 1
      /\ Len(r) = Len(s) + Len(t) - (end - start)
  BY DEF Takes, IsSplice
<1>2. CASE i < start
  <2>1. i \in 1..start - 1 /\ i \in DOMAIN s
    BY <1>1, <1>2
  <2>2. r[i] = s[i] /\ s[i].id # id
    BY <2>1 DEF Takes, IsSplice
  <2> QED
    BY <1>2, <2>1, <2>2
<1>3. CASE start <= i /\ i < start + Len(t)
  <2>1. i - start + 1 \in 1..Len(t) /\ start - 1 + (i - start + 1) = i
    BY <1>1, <1>3
  <2>2. r[start - 1 + (i - start + 1)] = t[i - start + 1] /\ t[i - start + 1].id = id
    BY <1>1, <2>1 DEF Takes, IsSplice
  <2> QED
    BY <1>1, <1>3, <2>1, <2>2
<1>4. CASE start + Len(t) <= i
  <2> DEFINE j == i + (end - start) - Len(t)
  <2>1. j \in end..Len(s) /\ j + Len(t) - (end - start) = i
    BY <1>1, <1>4
  <2>2. r[j + Len(t) - (end - start)] = s[j] /\ s[j].id # id
    BY <2>1 DEF Takes, IsSplice
  <2> QED
    BY <1>4, <2>1, <2>2
<1> QED
  BY <1>1, <1>2, <1>3, <1>4

\* The items are still together, and new ones are of the message.
LEMMA TakenTogether ==
  ASSUME NEW s \in Seq(ChatItem), NEW t \in Seq(ChatItem), NEW id, NEW r \in Seq(ChatItem),
         NEW start \in Nat, NEW end \in Nat, Takes(s, id, t, start, end, r), Together(s)
  PROVE  /\ Together(r)
         /\ \A i \in DOMAIN r : r[i].id = id \/ \E j \in DOMAIN s : s[j].id = r[i].id
<1>1. /\ DOMAIN s = 1..Len(s) /\ Len(s) \in Nat /\ Len(t) \in Nat
      /\ DOMAIN r = 1..Len(r) /\ start \in 1..Len(s) + 1 /\ end \in start..Len(s) + 1
      /\ (start = end => end = Len(s) + 1)
      /\ Len(r) = Len(s) + Len(t) - (end - start)
  BY DEF Takes, IsSplice
<1> DEFINE from(i) == IF i < start THEN i ELSE i + (end - start) - Len(t)
           inner(i) == start <= i /\ i < start + Len(t)
<1>2. ASSUME NEW i \in DOMAIN r
      PROVE  IF inner(i) THEN r[i].id = id
             ELSE from(i) \in DOMAIN s /\ r[i].id = s[from(i)].id /\ r[i].id # id
  <2>1. \/ i < start /\ i \in DOMAIN s /\ r[i] = s[i] /\ r[i].id # id
        \/ /\ start <= i /\ i < start + Len(t) /\ r[i].id = id
           /\ i - start + 1 \in DOMAIN t /\ r[i] = t[i - start + 1]
        \/ /\ start + Len(t) <= i /\ i + (end - start) - Len(t) \in end..Len(s)
           /\ r[i] = s[i + (end - start) - Len(t)] /\ r[i].id # id
    <3>1. Parts(s, id, t, start, end, r)
      BY TakenParts
    <3> QED
      BY <3>1 DEF Parts
  <2>2. end..Len(s) \subseteq DOMAIN s
    BY <1>1
  <2> QED
    BY <1>1, <2>1, <2>2
<1>3. ASSUME NEW p \in DOMAIN r, NEW q \in DOMAIN r, NEW u \in DOMAIN r,
             p < q, q < u, r[p].id = r[u].id
      PROVE  r[q].id = r[p].id
  <2>1. CASE inner(p)
    <3>1. inner(u)
      BY <1>2, <1>3, <2>1
    <3>2. inner(q)
      BY <1>1, <1>3, <2>1, <3>1
    <3> QED
      BY <1>2, <2>1, <3>2
  <2>2. CASE ~inner(p)
    <3>1. ~inner(u)
      BY <1>2, <1>3, <2>2
    <3>2. CASE inner(q)
      <4>1. p < start /\ u >= start + Len(t)
        BY <1>1, <1>3, <2>2, <3>1, <3>2
      <4>2. end <= Len(s) /\ start < end /\ from(u) \in end..Len(s) /\ from(p) = p
        BY <1>1, <1>3, <4>1
      <4>3. s[start].id = id
        BY <1>1, <4>2 DEF Takes
      <4>4. p \in DOMAIN s /\ start \in DOMAIN s /\ from(u) \in DOMAIN s /\ start < from(u)
        BY <1>1, <4>1, <4>2
      <4>5. s[p].id = s[from(u)].id /\ s[p].id # id
        BY <1>2, <1>3, <2>2, <3>1, <4>2
      <4> HIDE DEF from
      <4> QED
        BY <4>1, <4>3, <4>4, <4>5 DEF Together
    <3>3. CASE ~inner(q)
      <4>1. from(p) \in DOMAIN s /\ from(q) \in DOMAIN s /\ from(u) \in DOMAIN s
        BY <1>2, <2>2, <3>1, <3>3
      <4>2. from(p) < from(q) /\ from(q) < from(u)
        BY SMTT(30), <1>1, <1>3, <2>2, <3>1, <3>3
      <4>3. s[from(p)].id = s[from(u)].id
        BY <1>2, <1>3, <2>2, <3>1
      <4> HIDE DEF from
      <4>4. s[from(q)].id = s[from(p)].id
        BY <4>1, <4>2, <4>3 DEF Together
      <4> QED
        BY <1>2, <2>2, <3>3, <4>4
    <3> QED
      BY <3>2, <3>3
  <2> QED
    BY <2>1, <2>2
<1>4. Together(r)
  BY <1>3 DEF Together
<1>5. ASSUME NEW i \in DOMAIN r PROVE r[i].id = id \/ \E j \in DOMAIN s : s[j].id = r[i].id
  BY <1>2
<1> QED
  BY <1>4, <1>5

\* The message is shown in the new list.
LEMMA TakenIsShown ==
  ASSUME NEW s \in Seq(ChatItem), NEW m \in ChatMessage, NEW c, c.items \in Seq(ChatItem),
         NEW start \in Nat, NEW end \in Nat,
         Takes(s, m.id, ExtractItems(m), start, end, c.items)
  PROVE  Shows(c, m)
<1> DEFINE t == ExtractItems(m)
           r == c.items
<1>1. t \in Seq(ChatItem) /\ \A k \in DOMAIN t : t[k].id = m.id /\ ~t[k].final
  BY ItemsOfMessage
<1> HIDE DEF t
<1>2. /\ DOMAIN s = 1..Len(s) /\ Len(s) \in Nat /\ Len(t) \in Nat /\ DOMAIN t = 1..Len(t)
      /\ DOMAIN r = 1..Len(r) /\ start \in 1..Len(s) + 1 /\ end \in start..Len(s) + 1
      /\ Len(r) = Len(s) + Len(t) - (end - start)
  BY <1>1 DEF Takes, IsSplice, t
<1>3. Takes(s, m.id, t, start, end, r)
  BY DEF t
<1>4. ASSUME NEW i \in DOMAIN r
      PROVE  r[i].id = m.id <=> start <= i /\ i < start + Len(t)
  <2>1. \/ i < start /\ i \in DOMAIN s /\ r[i] = s[i] /\ r[i].id # m.id
        \/ /\ start <= i /\ i < start + Len(t) /\ r[i].id = m.id
           /\ i - start + 1 \in DOMAIN t /\ r[i] = t[i - start + 1]
        \/ /\ start + Len(t) <= i /\ i + (end - start) - Len(t) \in end..Len(s)
           /\ r[i] = s[i + (end - start) - Len(t)] /\ r[i].id # m.id
    <3>1. Parts(s, m.id, t, start, end, r)
      BY <1>1, <1>3, TakenParts
    <3> QED
      BY <3>1 DEF Parts
  <2> QED
    BY <1>2, <2>1
<1>5. Positions(r, m.id) = start - 1 + 1..start - 1 + Len(t)
  <2>1. \A i \in start - 1 + 1..start - 1 + Len(t) : i \in DOMAIN r
    BY <1>2
  <2>2. \A i \in DOMAIN r : i \in start - 1 + 1..start - 1 + Len(t) <=> start <= i /\ i < start + Len(t)
    BY <1>2
  <2> QED
    BY <1>4, <2>1, <2>2 DEF Positions
<1>6. ASSUME NEW k \in DOMAIN t PROVE [r[start - 1 + k] EXCEPT !.final = FALSE] = t[k]
  <2>1. r[start - 1 + k] = t[k]
    BY <1>2, <1>3 DEF Takes, IsSplice
  <2>2. t[k] \in ChatItem /\ t[k].final = FALSE
    <3>1. t[k] \in ChatItem /\ ~t[k].final
      BY <1>1
    <3> QED
      BY <3>1 DEF ChatItem
  <2> HIDE DEF r
  <2> QED
    BY <2>1, <2>2 DEF ChatItem
<1>7. start - 1 \in 0..Len(r)
  BY <1>2
<1> QED
  BY <1>5, <1>6, <1>7 DEF Shows, t

\* And another message is shown as before.
LEMMA OthersStayShown ==
  ASSUME NEW s \in Seq(ChatItem), NEW t \in Seq(ChatItem), NEW id, NEW c, NEW d,
         c.items = s, d.items \in Seq(ChatItem),
         NEW start \in Nat, NEW end \in Nat, Takes(s, id, t, start, end, d.items),
         NEW m \in ChatMessage, m.id # id, Shows(c, m)
  PROVE  Shows(d, m)
<1> DEFINE u == ExtractItems(m)
           r == d.items
<1>1. u \in Seq(ChatItem)
  BY ItemsOfMessage
<1> HIDE DEF u
<1>2. PICK p \in 0..Len(s) : /\ Positions(s, m.id) = p + 1..p + Len(u)
                             /\ \A k \in DOMAIN u : [s[p + k] EXCEPT !.final = FALSE] = u[k]
  BY DEF Shows, u
<1>3. /\ DOMAIN s = 1..Len(s) /\ Len(s) \in Nat /\ Len(t) \in Nat /\ DOMAIN t = 1..Len(t)
      /\ DOMAIN r = 1..Len(r) /\ start \in 1..Len(s) + 1 /\ end \in start..Len(s) + 1
      /\ Len(r) = Len(s) + Len(t) - (end - start) /\ DOMAIN u = 1..Len(u) /\ Len(u) \in Nat
      /\ Len(r) \in Nat
  BY <1>1 DEF Takes, IsSplice
<1>4. ASSUME NEW i \in DOMAIN r
      PROVE  \/ i < start /\ i \in DOMAIN s /\ r[i] = s[i]
             \/ start <= i /\ i < start + Len(t) /\ r[i].id = id
             \/ /\ start + Len(t) <= i
                /\ \E j \in end..Len(s) : i = j + Len(t) - (end - start) /\ r[i] = s[j]
  <2>1. Parts(s, id, t, start, end, r)
    BY TakenParts
  <2>2. \/ i < start /\ i \in DOMAIN s /\ r[i] = s[i]
        \/ start <= i /\ i < start + Len(t) /\ r[i].id = id
        \/ /\ start + Len(t) <= i /\ i + (end - start) - Len(t) \in end..Len(s)
           /\ r[i] = s[i + (end - start) - Len(t)]
    BY <2>1 DEF Parts
  <2>3. (i + (end - start) - Len(t)) + Len(t) - (end - start) = i
    BY <1>3
  <2> QED
    BY <2>2, <2>3
<1>5. \A i \in DOMAIN s : s[i].id = m.id <=> p + 1 <= i /\ i <= p + Len(u)
  BY <1>2, <1>3 DEF Positions
<1>6. \A i \in p + 1..p + Len(u) : i \in DOMAIN s /\ s[i].id = m.id
  BY <1>2 DEF Positions
<1>7. \A i \in start..end - 1 : i \in DOMAIN s /\ s[i].id = id
  BY <1>3 DEF Takes
<1>8. CASE Len(u) = 0
  <2>1. \A i \in DOMAIN s : s[i].id # m.id
    BY <1>3, <1>5, <1>8
  <2>2. ASSUME NEW i \in DOMAIN r PROVE r[i].id # m.id
    <3>1. end..Len(s) \subseteq DOMAIN s
      BY <1>3
    <3> QED
      BY <1>4, <2>1, <3>1
  <2>3. Positions(r, m.id) = 0 + 1..0 + Len(u) /\ 0 \in 0..Len(r)
    BY <1>3, <1>8, <2>2 DEF Positions
  <2>4. \A k \in DOMAIN u : FALSE
    BY <1>3, <1>8
  <2> QED
    BY <2>3, <2>4 DEF Shows, u
<1>9. CASE Len(u) > 0
  <2>1. p + Len(u) < start \/ end <= p + 1
    <3>1. SUFFICES ASSUME p + Len(u) >= start, p + 1 < end PROVE FALSE
      BY <1>3
    <3>2. PICK i \in p + 1..p + Len(u) : i \in start..end - 1
      <4>1. CASE p + 1 >= start
        <5>1. p + 1 \in p + 1..p + Len(u) /\ p + 1 \in start..end - 1
          BY <1>3, <1>9, <3>1, <4>1
        <5> QED
          BY <5>1
      <4>2. CASE p + 1 < start
        <5>1. start < end
          <6>1. start = end => end = Len(s) + 1
            BY DEF Takes
          <6>2. p + Len(u) \in DOMAIN s
            BY <1>3, <1>6, <1>9
          <6> QED
            BY <1>3, <3>1, <6>1, <6>2
        <5> QED
          <6>1. start \in p + 1..p + Len(u) /\ start \in start..end - 1
            BY <1>3, <3>1, <4>2, <5>1
          <6> QED
            BY <6>1
      <4> QED
        BY <1>3, <4>1, <4>2
    <3> QED
      BY <1>6, <1>7, <3>2
  <2>2. CASE p + Len(u) < start
    <3>1. ASSUME NEW i \in DOMAIN r PROVE r[i].id = m.id <=> p + 1 <= i /\ i <= p + Len(u)
      <4>1. CASE i < start /\ i \in DOMAIN s /\ r[i] = s[i]
        BY <1>5, <4>1
      <4>2. CASE start <= i
        <5>1. r[i].id # m.id
          <6>1. CASE r[i].id = id
            BY <6>1
          <6>2. ASSUME NEW j \in end..Len(s), r[i] = s[j] PROVE r[i].id # m.id
            <7>1. j \in DOMAIN s /\ ~(j <= p + Len(u))
              BY <1>3, <2>2
            <7> QED
              BY <1>5, <6>2, <7>1
          <6>3. ~(i < start)
            BY <1>3, <4>2
          <6> QED
            BY <1>4, <6>1, <6>2, <6>3
        <5>2. ~(i <= p + Len(u))
          BY <1>3, <2>2, <4>2
        <5> QED
          BY <5>1, <5>2
      <4> QED
        BY <1>3, <1>4, <4>1, <4>2
    <3>2. \A i \in p + 1..p + Len(u) : i \in DOMAIN r
      <4>1. start - 1 <= Len(r)
        BY <1>3
      <4> QED
        BY <1>3, <2>2, <4>1
    <3>3. Positions(r, m.id) = p + 1..p + Len(u)
      <4>1. \A i \in DOMAIN r : i \in p + 1..p + Len(u) <=> p + 1 <= i /\ i <= p + Len(u)
        BY <1>3
      <4> QED
        BY <3>1, <3>2, <4>1 DEF Positions
    <3>4. ASSUME NEW k \in DOMAIN u PROVE [r[p + k] EXCEPT !.final = FALSE] = u[k]
      <4>1. p + k \in DOMAIN r /\ p + k < start
        BY <1>3, <2>2, <3>2
      <4>2. r[p + k] = s[p + k]
        BY SMTT(30), <1>3, <1>4, <4>1
      <4> QED
        BY <1>2, <4>2
    <3>5. p \in 0..Len(r)
      BY <1>3, <2>2
    <3> QED
      BY <3>3, <3>4, <3>5 DEF Shows, u
  <2>3. CASE end <= p + 1
    <3> DEFINE o == p + Len(t) - (end - start)
    <3>1. o \in 0..Len(r) /\ o + 1 >= start + Len(t) /\ o + Len(u) <= Len(r)
      <4>1. p + Len(u) <= Len(s)
        BY <1>3, <1>6, <1>9
      <4>2. /\ p \in Int /\ Len(s) \in Int /\ Len(t) \in Int /\ Len(r) \in Int /\ Len(u) \in Int
            /\ start \in Int /\ end \in Int /\ 0 <= p /\ p <= Len(s) /\ 1 <= start /\ start <= end
            /\ 0 <= Len(t) /\ 0 < Len(u)
        BY <1>3, <1>9
      <4>3. Len(r) = Len(s) + Len(t) - (end - start)
        BY <1>3
      <4> DEFINE ls == Len(s)  lt == Len(t)  lr == Len(r)  lu == Len(u)
      <4>4. /\ p \in Int /\ ls \in Int /\ lt \in Int /\ lr \in Int /\ lu \in Int
            /\ start \in Int /\ end \in Int /\ 0 <= p /\ p <= ls /\ 1 <= start /\ start <= end
            /\ 0 <= lt /\ 0 < lu /\ p + lu <= ls /\ end <= p + 1 /\ lr = ls + lt - (end - start)
            /\ o = p + lt - (end - start)
        BY <2>3, <4>1, <4>2, <4>3
      <4>5. o \in 0..Len(r) <=> o \in 0..lr
        OBVIOUS
      <4>6. o + 1 >= start + Len(t) /\ o + Len(u) <= Len(r) <=> o + 1 >= start + lt /\ o + lu <= lr
        OBVIOUS
      <4> HIDE DEF ls, lt, lr, lu, o
      <4>7. o \in Int
        BY <4>4
      <4>8. 0 <= o /\ o <= lr
        BY <4>4
      <4>9. o + 1 >= start + lt /\ o + lu <= lr
        BY <4>4
      <4>10. lr \in Int
        BY <4>4
      <4>11. o \in 0..lr
        BY <4>7, <4>8, <4>10
      <4> QED
        BY <4>5, <4>6, <4>9, <4>11
    <3>2. ASSUME NEW i \in DOMAIN r PROVE r[i].id = m.id <=> o + 1 <= i /\ i <= o + Len(u)
      <4>1. CASE i < start /\ i \in DOMAIN s /\ r[i] = s[i]
        <5>1. i < p + 1
          BY <1>3, <2>3, <4>1
        <5>2. i < o + 1
          <6>1. i \in Int /\ o \in Int /\ start + Len(t) \in Int /\ start <= start + Len(t)
            BY <1>3, <3>1
          <6> HIDE DEF o
          <6> QED
            BY <1>3, <3>1, <4>1, <6>1
        <5>3. r[i].id # m.id
          BY <1>3, <1>5, <4>1, <5>1
        <5> QED
          <6>1. i \in Int /\ o \in Int
            BY <1>3, <3>1
          <6> HIDE DEF o
          <6> QED
            BY <5>2, <5>3, <6>1
      <4>2. CASE start <= i /\ i < start + Len(t) /\ r[i].id = id
        <5>1. i < o + 1
          <6>1. i \in Int /\ o \in Int /\ start + Len(t) \in Int
            BY <1>3, <3>1
          <6> HIDE DEF o
          <6> QED
            BY <3>1, <4>2, <6>1
        <5> QED
          BY <4>2, <5>1
      <4>3. ASSUME NEW j \in end..Len(s), i = j + Len(t) - (end - start), r[i] = s[j]
            PROVE  r[i].id = m.id <=> o + 1 <= i /\ i <= o + Len(u)
        <5>1. j \in DOMAIN s
          BY <1>3
        <5>2. p + 1 <= j /\ j <= p + Len(u) <=> o + 1 <= i /\ i <= o + Len(u)
          BY SMTT(30), <1>3, <4>3
        <5> QED
          BY <1>5, <4>3, <5>1, <5>2
      <4> QED
        BY <1>4, <4>1, <4>2, <4>3
    <3>3. Positions(r, m.id) = o + 1..o + Len(u)
      <4>1. \A i \in o + 1..o + Len(u) : i \in DOMAIN r
        BY <1>3, <3>1
      <4>2. \A i \in DOMAIN r : i \in o + 1..o + Len(u) <=> o + 1 <= i /\ i <= o + Len(u)
        BY <1>3
      <4> HIDE DEF o
      <4> QED
        BY <3>2, <4>1, <4>2 DEF Positions
    <3>4. ASSUME NEW k \in DOMAIN u PROVE [r[o + k] EXCEPT !.final = FALSE] = u[k]
      <4>0. k \in 1..Len(u) /\ o \in Int /\ start + Len(t) \in Int /\ p \in Int
        BY <1>3, <3>1
      <4>1. o + k \in DOMAIN r /\ o + k >= start + Len(t)
        <5> HIDE DEF o
        <5>1. o + k \in 1..Len(r) /\ o + k >= start + Len(t)
          BY SMTT(30), <1>3, <3>1, <4>0
        <5> QED
          BY <1>3, <5>1
      <4>3. PICK j \in end..Len(s) : o + k = j + Len(t) - (end - start) /\ r[o + k] = s[j]
        <5>1. ~(o + k < start + Len(t)) /\ ~(o + k < start)
          BY <1>3, <4>1
        <5> HIDE DEF o
        <5> QED
          BY <1>4, <4>1, <5>1
      <4>4. j = p + k
        <5>1. end \in Int /\ start \in Int /\ Len(t) \in Int /\ j \in Int /\ k \in Int
          BY <1>3
        <5> DEFINE shift == Len(t) - (end - start)
        <5>2. p + shift + k = j + shift
          BY <4>3
        <5>3. shift \in Int
          BY <5>1
        <5>4. p \in Int
          BY <4>0
        <5> HIDE DEF shift, o
        <5>5. j \in Int /\ k \in Int
          BY <5>1
        <5>6. p + k + shift = j + shift
          BY <5>2, <5>3, <5>4, <5>5
        <5>7. p + k \in Int
          BY <5>4, <5>5
        <5> QED
          BY <5>3, <5>5, <5>6, <5>7
      <4>5. r[o + k] = s[p + k]
        BY <4>3, <4>4
      <4> QED
        BY <1>2, <4>5
    <3> QED
      BY <3>1, <3>3, <3>4 DEF Shows, u
  <2> QED
    BY <2>1, <2>2, <2>3
<1> QED
  BY <1>3, <1>8, <1>9

\* The one subscription there is.
LEMMA OneWay ==
  ASSUME TerminalTyped, OneBridge, subs # <<>>
  PROVE  /\ DOMAIN subs = {1} /\ Way = subs[1].channel /\ Way \in Seq(MessageEvent)
         /\ Len(Way) \in Nat /\ DOMAIN Way = 1..Len(Way)
         /\ \A k \in DOMAIN Way : Way[k] \in MessageEvent /\ Way[k].message \in ChatMessage
<1>1. DOMAIN subs = {1} /\ Way = subs[1].channel
  BY DEF OneBridge, Way, TerminalTyped, Subscriptions
<1>2. Way \in Seq(MessageEvent)
  BY <1>1, OneSubscription DEF TerminalTyped
<1>3. \A k \in DOMAIN Way : Way[k] \in MessageEvent
  BY <1>2
<1>4. \A k \in DOMAIN Way : Way[k].message \in ChatMessage
  BY <1>3 DEF MessageEvent
<1> QED
  BY <1>1, <1>2, <1>3, <1>4

\* Messages are shown alike by chats with the same items.
LEMMA SameShows ==
  ASSUME NEW c, NEW d, c.items = d.items, NEW m, Shows(c, m)
  PROVE  Shows(d, m)
BY DEF Shows

\* What changes neither a message nor an event keeps what is forwarded.
LEMMA StaysForwarded ==
  ASSUME TerminalTyped, Forwarded, UNCHANGED <<messages, subs>>,
         DOMAIN chat'.items = DOMAIN chat.items, chat.items = <<>> => chat'.items = <<>>,
         \A p \in DOMAIN chat.items : chat'.items[p].id = chat.items[p].id,
         \A m \in ChatMessage : Shows(chat, m) => Shows(chat', m),
         \A b \in Agents : \/ agents'[b] = agents[b]
                           \/ agents[b].at \in {"run", "returns"} /\ agents'[b].at \in {"returns", "done"}
  PROVE  Forwarded'
<1>1. \A b \in Agents : /\ IsPending(b)' <=> IsPending(b)
                        /\ IsPending(b) => agents'[b] = agents[b]
  BY DEF IsPending
<1>2. \A id : Unpublished(id)' <=> Unpublished(id)
  BY <1>1 DEF Unpublished
<1>3. Way' = Way
  BY DEF Way
<1>4. \A id : IsMessage(id)' <=> IsMessage(id)
  BY DEF IsMessage
<1>5. \A id : IsShown(id)' <=> IsShown(id)
  BY DEF IsShown
<1>6. OneBridge'
  <2>1. CASE subs = <<>>
    BY <2>1 DEF Forwarded, OneBridge
  <2>2. CASE subs # <<>>
    <3>1. \A b \in Agents : agents'[b].at \notin {"idle", "start"} => IsMessage(AssistantMessage(b))
      BY <2>2 DEF Forwarded, OneBridge
    <3> QED
      BY <1>4, <2>2, <3>1 DEF Forwarded, OneBridge
  <2> QED
    BY <2>1, <2>2
<1>7. MessagesDiffer'
  <2>1. \A id : Made(id) => Made(id)'
    BY DEF Made
  <2> QED
    BY <2>1 DEF Forwarded, MessagesDiffer
<1>8. CreatedFirst'
  BY <1>1, <1>3, <1>5 DEF Forwarded, CreatedFirst, Mentions
<1>9. LastIsCurrent'
  BY <1>1, <1>2, <1>3 DEF Forwarded, LastIsCurrent
<1>10. IsDrawn'
  <2>1. \A i \in DOMAIN messages : messages[i] \in ChatMessage
    BY DEF TerminalTyped
  <2>2. \A id : Mentions(Way, id)' <=> Mentions(Way, id)
    BY <1>3 DEF Mentions
  <2> QED
    BY <1>2, <2>1, <2>2 DEF Forwarded, IsDrawn
<1>11. ItemsTogether'
  BY <1>3, <1>4 DEF Forwarded, ItemsTogether
<1> QED
  BY <1>6, <1>7, <1>8, <1>9, <1>10, <1>11 DEF Forwarded

\* The first bridge has nothing to forward yet.
LEMMA BeginsForwarded ==
  ASSUME TerminalTyped, Forwarded, StartBridge
  PROVE  Forwarded'
<1>1. /\ subs = <<>> /\ messages = <<>> /\ chat.items = <<>>
      /\ \A a \in Agents : agents[a].at = "idle"
  BY DEF Forwarded, OneBridge, StartBridge
<1>2. chat'.items = <<>>
  <2>1. GoodChat(chat) /\ Draws(chat)
    BY DEF TerminalTyped, StartBridge
  <2> QED
    BY <1>1, <2>1, Drawn
<1>3. subs' = <<[registered |-> TRUE, over |-> FALSE, channel |-> <<>>]>>
  BY <1>1 DEF StartBridge, NewBridge
<1>4. Way' = <<>>
  BY <1>3 DEF Way
<1>5. messages' = <<>> /\ \A a \in Agents : agents'[a].at = "idle"
  BY <1>1 DEF StartBridge
<1>6. OneBridge'
  BY <1>3, <1>5 DEF OneBridge
<1>7. MessagesDiffer'
  BY <1>5 DEF MessagesDiffer
<1>8. CreatedFirst'
  BY <1>4, <1>5 DEF CreatedFirst, IsPending
<1>9. LastIsCurrent'
  BY <1>4, <1>5 DEF LastIsCurrent, IsPending
<1>10. IsDrawn' /\ ItemsTogether'
  BY <1>2, <1>4, <1>5 DEF IsDrawn, ItemsTogether
<1> QED
  BY <1>6, <1>7, <1>8, <1>9, <1>10 DEF Forwarded

\* An event that is not lost is under way, behind the others.
LEMMA PublishedOnWay ==
  ASSUME TerminalTyped, OneBridge, ~Lost, NEW type \in {"created", "updated", "deleted"},
         NEW m \in ChatMessage, subs' = Publish(subs, type, m)
  PROVE  /\ subs # <<>> /\ subs' # <<>> /\ Len(subs') = 1 /\ subs'[1].registered /\ ~subs'[1].over
         /\ Way' = Append(Way, [type |-> type, message |-> m])
<1> DEFINE e == [type |-> type, message |-> m]
<1>1. PICK k \in DOMAIN subs : Gets(subs[k])
  BY DEF Lost
<1>2. subs # <<>> /\ Subscriptions(subs)
  <2>1. subs = <<>> => DOMAIN subs = {}
    OBVIOUS
  <2> QED
    BY <1>1, <2>1 DEF TerminalTyped
<1>3. DOMAIN subs = {1} /\ Way = subs[1].channel /\ k = 1
  BY <1>1, <1>2, OneWay
<1>4. subs[1] \in Subscription
  BY <1>2, <1>3, OneSubscription
<1>5. DOMAIN subs' = DOMAIN subs /\ subs'[1] = [subs[1] EXCEPT !.channel = Append(@, e)]
  BY <1>1, <1>3 DEF Publish
<1> HIDE DEF e
<1>6. Subscriptions(subs')
  BY <1>2, PublishedTyped
<1>7. subs' # <<>> /\ Len(subs') = 1
  <2>1. Len(subs') \in Nat /\ DOMAIN subs' = 1..Len(subs')
    BY <1>6 DEF Subscriptions
  <2>2. 1 \in 1..Len(subs') /\ 2 \notin 1..Len(subs')
    BY <1>3, <1>5, <2>1
  <2>3. Len(subs') = 1
    BY <2>1, <2>2
  <2> QED
    BY <2>3
<1>8. subs[1].registered /\ ~subs[1].over
  BY <1>2 DEF OneBridge
<1>9. /\ subs'[1].registered = subs[1].registered /\ subs'[1].over = subs[1].over
      /\ subs'[1].channel = Append(subs[1].channel, e)
  BY <1>4, <1>5 DEF Subscription
<1>10. Way' = Append(Way, e)
  BY <1>3, <1>7, <1>9 DEF Way
<1> QED
  BY <1>2, <1>7, <1>8, <1>9, <1>10 DEF e

\* A message with an id of its own.
LEMMA NewMessageDiffers ==
  ASSUME TerminalTyped, MessagesDiffer, NEW m \in ChatMessage, ~Made(m.id), Made(m.id)',
         \A id : Made(id) => Made(id)', messages' = Append(messages, m)
  PROVE  /\ MessagesDiffer' /\ ~IsMessage(m.id)
         /\ \A i \in DOMAIN messages : i \in DOMAIN messages' /\ messages'[i] = messages[i]
         /\ \A i \in DOMAIN messages' : (i \in DOMAIN messages /\ messages'[i] = messages[i]) \/ messages'[i] = m
         /\ \E i \in DOMAIN messages' : messages'[i] = m
         /\ \A id : IsMessage(id) => IsMessage(id)'
         /\ IsMessage(m.id)'
<1>1. /\ messages \in Seq(ChatMessage) /\ Len(messages) \in Nat /\ DOMAIN messages = 1..Len(messages)
      /\ DOMAIN messages' = 1..Len(messages) + 1
      /\ \A i \in 1..Len(messages) : messages'[i] = messages[i]
      /\ messages'[Len(messages) + 1] = m
  BY DEF TerminalTyped
<1>2. ~IsMessage(m.id)
  BY DEF MessagesDiffer, IsMessage
<1>3. ASSUME NEW i \in DOMAIN messages'
      PROVE  \/ i \in DOMAIN messages /\ messages'[i] = messages[i]
             \/ i = Len(messages) + 1 /\ messages'[i] = m
  BY <1>1
<1>4. MessagesDiffer'
  <2>1. ASSUME NEW i \in DOMAIN messages', NEW id, id = messages'[i].id PROVE Made(id)'
    BY <1>3, <2>1 DEF MessagesDiffer
  <2>2. ASSUME NEW i \in DOMAIN messages', NEW j \in DOMAIN messages', messages'[i].id = messages'[j].id
        PROVE  i = j
    BY <1>2, <1>3, <2>2 DEF MessagesDiffer, IsMessage
  <2> QED
    BY <2>1, <2>2 DEF MessagesDiffer
<1>5. \A i \in DOMAIN messages : i \in DOMAIN messages' /\ messages'[i] = messages[i]
  BY <1>1
<1>6. \E i \in DOMAIN messages' : messages'[i] = m
  BY <1>1
<1>7. \A id : IsMessage(id) => IsMessage(id)'
  BY <1>5 DEF IsMessage
<1>8. IsMessage(m.id)'
  BY <1>6 DEF IsMessage
<1> QED
  BY <1>2, <1>3, <1>4, <1>5, <1>6, <1>7, <1>8

\* A message that is published as it is made.
LEMMA CreatedForwarded ==
  ASSUME TerminalTyped, Forwarded, NEW m \in ChatMessage, NEW a \in Agents, Create(m), ~disturbed',
         ~Made(m.id), Made(m.id)', \A id : Made(id) => Made(id)', chat'.items = chat.items,
         \A b \in Agents : b # a => agents'[b] = agents[b],
         ~IsPending(a), ~IsPending(a)',
         agents'[a].at \notin {"idle", "start"} => agents[a].at \notin {"idle", "start"}
  PROVE  Forwarded'
<1> DEFINE e == [type |-> "created", message |-> m]
<1>0. /\ OneBridge /\ MessagesDiffer /\ CreatedFirst /\ LastIsCurrent /\ IsDrawn /\ ItemsTogether
      /\ messages' = Append(messages, m)
  BY DEF Forwarded, Create
<1>1. /\ subs # <<>> /\ subs' # <<>> /\ Len(subs') = 1 /\ subs'[1].registered /\ ~subs'[1].over
      /\ Way' = Append(Way, e)
  <2>1. ~Lost /\ subs' = Publish(subs, "created", m)
    BY DEF Create
  <2> QED
    BY <1>0, <2>1, PublishedOnWay
<1>2. /\ Way \in Seq(MessageEvent) /\ Len(Way) \in Nat /\ DOMAIN Way = 1..Len(Way)
  BY <1>0, <1>1, OneWay
<1>3. e.type = "created" /\ e.message = m
  OBVIOUS
<1> HIDE DEF e
<1>4. /\ DOMAIN Way' = 1..Len(Way) + 1 /\ \A k \in DOMAIN Way : Way'[k] = Way[k] /\ k \in DOMAIN Way'
      /\ Way'[Len(Way) + 1] = e
  BY <1>1, <1>2
<1>5. ASSUME NEW k \in DOMAIN Way'
      PROVE  \/ k \in DOMAIN Way /\ Way'[k] = Way[k]
             \/ k = Len(Way) + 1 /\ Way'[k] = e
  BY <1>2, <1>4
<1>6. /\ MessagesDiffer' /\ ~IsMessage(m.id)
      /\ \A i \in DOMAIN messages : i \in DOMAIN messages' /\ messages'[i] = messages[i]
      /\ \A i \in DOMAIN messages' : (i \in DOMAIN messages /\ messages'[i] = messages[i]) \/ messages'[i] = m
      /\ \E i \in DOMAIN messages' : messages'[i] = m
      /\ \A id : IsMessage(id) => IsMessage(id)'
      /\ IsMessage(m.id)'
  BY <1>0, NewMessageDiffers
<1>7. \A b \in Agents : /\ IsPending(b)' <=> IsPending(b)
                        /\ IsPending(b) => agents'[b] = agents[b]
  BY DEF IsPending
<1>8. \A id : Unpublished(id)' <=> Unpublished(id)
  BY <1>7 DEF Unpublished
<1>9. \A id : IsShown(id)' <=> IsShown(id)
  BY DEF IsShown
<1>10. \A id : Mentions(Way', id) <=> Mentions(Way, id) \/ id = m.id
  <2>1. \A id : Mentions(Way, id) => Mentions(Way', id)
    BY <1>4 DEF Mentions
  <2>2. Mentions(Way', m.id)
    <3>1. Len(Way) + 1 \in DOMAIN Way'
      BY <1>2, <1>4
    <3> QED
      BY <1>3, <1>4, <3>1 DEF Mentions
  <2>3. \A id : Mentions(Way', id) => Mentions(Way, id) \/ id = m.id
    BY <1>3, <1>5 DEF Mentions
  <2> QED
    BY <2>1, <2>2, <2>3
<1>11. OneBridge'
  <2>1. \A b \in Agents : agents'[b].at \notin {"idle", "start"} => IsMessage(AssistantMessage(b))'
    BY <1>0, <1>1, <1>6 DEF OneBridge
  <2> QED
    BY <1>1, <2>1 DEF OneBridge
<1>12. CreatedFirst'
  <2>1. ASSUME NEW k \in DOMAIN Way'
        PROVE  /\ Way'[k].type # "deleted"
               /\ Way'[k].type = "created" =>
                    /\ ~IsShown(Way'[k].message.id)
                    /\ \A l \in DOMAIN Way' : l < k => Way'[l].message.id # Way'[k].message.id
    <3>1. CASE k \in DOMAIN Way /\ Way'[k] = Way[k]
      <4>1. \A l \in DOMAIN Way' : l < k => l \in DOMAIN Way /\ Way'[l] = Way[l]
        BY <1>2, <1>4, <3>1
      <4> QED
        BY <1>0, <3>1, <4>1 DEF CreatedFirst
    <3>2. CASE k = Len(Way) + 1 /\ Way'[k] = e
      <4>1. ~IsShown(m.id)
        BY <1>0, <1>6 DEF ItemsTogether, IsShown
      <4>2. ASSUME NEW l \in DOMAIN Way', l < k PROVE Way'[l].message.id # m.id
        <5>1. l \in DOMAIN Way /\ Way'[l] = Way[l]
          BY <1>2, <1>4, <3>2, <4>2
        <5> QED
          BY <1>0, <1>6, <5>1 DEF ItemsTogether
      <4> QED
        BY <1>3, <3>2, <4>1, <4>2
    <3> QED
      BY <1>5, <3>1, <3>2
  <2>2. ASSUME NEW b \in Agents, IsPending(b)
        PROVE  /\ agents'[b].event.type # "deleted"
               /\ agents'[b].event.type = "created" =>
                    ~IsShown(AssistantMessage(b)) /\ ~Mentions(Way', AssistantMessage(b))
    <3>1. IsMessage(AssistantMessage(b))
      BY <1>0, <1>1, <2>2 DEF OneBridge, IsPending
    <3> QED
      BY <1>0, <1>6, <1>7, <1>10, <2>2, <3>1 DEF CreatedFirst
  <2> QED
    BY <1>7, <1>9, <2>1, <2>2 DEF CreatedFirst
<1>13. LastIsCurrent'
  <2>1. ASSUME NEW b \in Agents, IsPending(b)
        PROVE  /\ agents'[b].event.message.id = AssistantMessage(b)
               /\ \E i \in DOMAIN messages' : messages'[i] = agents'[b].event.message
    BY <1>0, <1>6, <1>7, <2>1 DEF LastIsCurrent
  <2>2. ASSUME NEW k \in DOMAIN Way'
        PROVE  \/ Unpublished(Way'[k].message.id)
               \/ \E l \in DOMAIN Way' : l > k /\ Way'[l].message.id = Way'[k].message.id
               \/ \E i \in DOMAIN messages' : messages'[i] = Way'[k].message
    <3>1. CASE k \in DOMAIN Way /\ Way'[k] = Way[k]
      BY <1>0, <1>4, <1>6, <3>1 DEF LastIsCurrent
    <3>2. CASE k = Len(Way) + 1 /\ Way'[k] = e
      BY <1>3, <1>6, <3>2
    <3> QED
      BY <1>5, <3>1, <3>2
  <2> QED
    BY <1>7, <1>8, <2>1, <2>2 DEF LastIsCurrent
<1>14. IsDrawn'
  <2>1. ASSUME NEW i \in DOMAIN messages'
        PROVE  \/ Unpublished(messages'[i].id) \/ Mentions(Way', messages'[i].id)
               \/ Shows(chat', messages'[i])
    <3>1. CASE messages'[i] = m
      BY <1>10, <3>1
    <3>2. CASE i \in DOMAIN messages /\ messages'[i] = messages[i]
      BY <1>0, <1>10, <3>2, SameShows DEF IsDrawn
    <3> QED
      BY <1>6, <3>1, <3>2
  <2> QED
    BY <1>8, <2>1 DEF IsDrawn
<1>15. ItemsTogether'
  <2>1. ASSUME NEW k \in DOMAIN Way', NEW id, id = Way'[k].message.id PROVE IsMessage(id)'
    BY <2>1, <1>0, <1>3, <1>5, <1>6 DEF ItemsTogether
  <2> QED
    BY <1>0, <1>6, <2>1 DEF ItemsTogether
<1> QED
  BY <1>6, <1>11, <1>12, <1>13, <1>14, <1>15 DEF Forwarded

\* No two messages have the same id.
LEMMA IdsDiffer ==
  ASSUME NEW a \in Agents, NEW b \in Agents
  PROVE  /\ UserMessage(a) # AssistantMessage(b) /\ UserMessage(a) # ErrorMessage(b)
         /\ AssistantMessage(a) # ErrorMessage(b)
         /\ UserMessage(a) = UserMessage(b) => a = b
         /\ AssistantMessage(a) = AssistantMessage(b) => a = b
         /\ ErrorMessage(a) = ErrorMessage(b) => a = b
<1>1. a \in Int /\ b \in Int
  BY DEF Agents
<1> QED
  BY <1>1 DEF UserMessage, AssistantMessage, ErrorMessage

\* The message of the agent is made, and is not published yet.
LEMMA MadeForwarded ==
  ASSUME TerminalTyped, Forwarded, NEW a \in Agents, AgentCreates(a)
  PROVE  Forwarded'
<1> DEFINE m == NewMessage(AssistantMessage(a), "assistant")
           e == [type |-> "created", message |-> m]
<1>0. /\ OneBridge /\ MessagesDiffer /\ CreatedFirst /\ LastIsCurrent /\ IsDrawn /\ ItemsTogether
      /\ messages' = Append(messages, m) /\ AgentsTyped
  BY DEF Forwarded, AgentCreates, TerminalTyped
<1>1. m \in ChatMessage /\ m.id = AssistantMessage(a)
  <2>1. m.id = AssistantMessage(a)
    BY DEF NewMessage
  <2> QED
    BY <2>1, IdsTyped, NewTyped
<1> HIDE DEF m
<1>2. /\ agents[a].at = "start" /\ agents'[a].at = "publish" /\ agents'[a].event = e
      /\ \A b \in Agents : b # a => agents'[b] = agents[b]
  <2>1. agents[a].at = "start" /\ agents[a] \in BusyAgent
    BY <1>0, Begins DEF AgentCreates
  <2> DEFINE x == [agents[a] EXCEPT !.at = "publish", !.event = e]
  <2>2. agents' = [agents EXCEPT ![a] = x]
    BY DEF AgentCreates, m
  <2> HIDE DEF e
  <2>3. x.at = "publish" /\ x.event = e
    BY <2>1 DEF BusyAgent
  <2> HIDE DEF x
  <2> QED
    BY <1>0, <2>1, <2>2, <2>3 DEF AgentsTyped
<1>3. e.type = "created" /\ e.message = m
  OBVIOUS
<1> HIDE DEF e
<1>4. ~Made(m.id) /\ Made(m.id)' /\ \A id : Made(id) => Made(id)'
  <2>1. ~Made(m.id)
    BY <1>1, <1>2, IdsDiffer DEF Made
  <2>2. Made(AssistantMessage(a))'
    BY <1>2 DEF Made
  <2>3. \A id : Made(id) => Made(id)'
    BY <1>2 DEF Made
  <2> QED
    BY <1>1, <2>1, <2>2, <2>3
<1>5. /\ MessagesDiffer' /\ ~IsMessage(m.id)
      /\ \A i \in DOMAIN messages : i \in DOMAIN messages' /\ messages'[i] = messages[i]
      /\ \A i \in DOMAIN messages' : (i \in DOMAIN messages /\ messages'[i] = messages[i]) \/ messages'[i] = m
      /\ \E i \in DOMAIN messages' : messages'[i] = m
      /\ \A id : IsMessage(id) => IsMessage(id)'
      /\ IsMessage(m.id)'
  BY <1>0, <1>1, <1>4, NewMessageDiffers
<1>6. /\ Way' = Way /\ \A id : IsShown(id)' <=> IsShown(id)
      /\ chat' = chat /\ subs' = subs
  BY DEF AgentCreates, Way, IsShown
<1>7. /\ \A b \in Agents : b # a => (IsPending(b)' <=> IsPending(b))
      /\ IsPending(a)' /\ ~IsPending(a)
  BY <1>2 DEF IsPending
<1>8. /\ \A id : Unpublished(id) => Unpublished(id)'
      /\ Unpublished(m.id)'
  BY <1>1, <1>7 DEF Unpublished
<1>9. OneBridge'
  <2>1. subs # <<>>
    BY <1>0, <1>2 DEF OneBridge
  <2>2. ASSUME NEW b \in Agents, agents'[b].at \notin {"idle", "start"}
        PROVE  IsMessage(AssistantMessage(b))'
    <3>1. CASE b = a
      BY <1>1, <1>5, <3>1
    <3>2. CASE b # a
      BY <1>0, <1>2, <1>5, <2>1, <2>2, <3>2 DEF OneBridge
    <3> QED
      BY <3>1, <3>2
  <2> QED
    BY <1>0, <1>6, <2>1, <2>2 DEF OneBridge
<1>10. CreatedFirst'
  <2>1. ~IsShown(m.id) /\ ~Mentions(Way, m.id)
    BY <1>0, <1>5 DEF ItemsTogether, IsShown, Mentions
  <2>2. ASSUME NEW b \in Agents, IsPending(b)'
        PROVE  /\ agents'[b].event.type # "deleted"
               /\ agents'[b].event.type = "created" =>
                    ~IsShown(AssistantMessage(b)) /\ ~Mentions(Way, AssistantMessage(b))
    <3>1. CASE b = a
      BY <1>1, <1>2, <1>3, <2>1, <3>1
    <3>2. CASE b # a
      BY <1>0, <1>2, <1>7, <2>2, <3>2 DEF CreatedFirst
    <3> QED
      BY <3>1, <3>2
  <2> QED
    BY <1>0, <1>6, <2>2 DEF CreatedFirst, Mentions
<1>11. LastIsCurrent'
  <2>1. ASSUME NEW b \in Agents, IsPending(b)'
        PROVE  /\ agents'[b].event.message.id = AssistantMessage(b)
               /\ \E i \in DOMAIN messages' : messages'[i] = agents'[b].event.message
    <3>1. CASE b = a
      BY <1>1, <1>2, <1>3, <1>5, <3>1
    <3>2. CASE b # a
      BY <1>0, <1>2, <1>5, <1>7, <2>1, <3>2 DEF LastIsCurrent
    <3> QED
      BY <3>1, <3>2
  <2>2. ASSUME NEW k \in DOMAIN Way, NEW id, id = Way[k].message.id
        PROVE  \/ Unpublished(id)'
               \/ \E l \in DOMAIN Way : l > k /\ Way[l].message.id = id
               \/ \E i \in DOMAIN messages' : messages'[i] = Way[k].message
    BY <1>0, <1>5, <1>8, <2>2 DEF LastIsCurrent
  <2> QED
    BY <1>6, <2>1, <2>2 DEF LastIsCurrent
<1>12. IsDrawn'
  <2>1. ASSUME NEW i \in DOMAIN messages', NEW id, id = messages'[i].id
        PROVE  Unpublished(id)' \/ Mentions(Way, id) \/ Shows(chat, messages'[i])
    <3>1. CASE messages'[i] = m
      BY <1>8, <2>1, <3>1
    <3>2. CASE i \in DOMAIN messages /\ messages'[i] = messages[i]
      BY <1>0, <1>8, <2>1, <3>2 DEF IsDrawn
    <3> QED
      BY <1>5, <3>1, <3>2
  <2> QED
    BY <1>6, <2>1 DEF IsDrawn
<1>13. ItemsTogether'
  BY <1>0, <1>5, <1>6 DEF ItemsTogether
<1> QED
  BY <1>5, <1>9, <1>10, <1>11, <1>12, <1>13 DEF Forwarded

\* The message of the agent is changed, and the change is not published yet.
LEMMA ChangedForwarded ==
  ASSUME TerminalTyped, Forwarded, NEW a \in Agents, NEW m \in ChatMessage, m.id = AssistantMessage(a),
         Own(a) # {}, messages' = [messages EXCEPT ![Min(Own(a))] = m], UNCHANGED <<subs, chat>>,
         agents[a].at = "run", agents'[a].at = "publish", agents'[a].event.type = "updated",
         agents'[a].event.message = m, \A b \in Agents : b # a => agents'[b] = agents[b]
  PROVE  Forwarded'
<1> DEFINE j == Min(Own(a))
<1>0. /\ OneBridge /\ MessagesDiffer /\ CreatedFirst /\ LastIsCurrent /\ IsDrawn /\ ItemsTogether
      /\ messages \in Seq(ChatMessage)
  BY DEF Forwarded, TerminalTyped
<1>1. j \in DOMAIN messages /\ messages[j].id = AssistantMessage(a) /\ messages' = [messages EXCEPT ![j] = m]
  BY <1>0, OwnIsThere
<1> HIDE DEF j
<1>2. /\ DOMAIN messages' = DOMAIN messages /\ messages'[j] = m
      /\ \A i \in DOMAIN messages : i # j => messages'[i] = messages[i]
  BY <1>1
<1>3. \A i \in DOMAIN messages : messages'[i].id = messages[i].id
  BY <1>1, <1>2
<1>4. \A id : IsMessage(id)' <=> IsMessage(id)
  BY <1>2, <1>3 DEF IsMessage
<1>5. Way' = Way /\ chat' = chat /\ subs' = subs
  BY DEF Way
<1>6. /\ \A b \in Agents : b # a => (IsPending(b)' <=> IsPending(b))
      /\ IsPending(a)' /\ ~IsPending(a)
  BY DEF IsPending
<1>7. /\ \A id : Unpublished(id) => Unpublished(id)'
      /\ Unpublished(m.id)'
  BY <1>6 DEF Unpublished
<1>8. OneBridge'
  <2>1. subs # <<>>
    BY <1>0 DEF OneBridge
  <2>2. ASSUME NEW b \in Agents, agents'[b].at \notin {"idle", "start"}
        PROVE  IsMessage(AssistantMessage(b))
    BY <1>0, <2>1, <2>2 DEF OneBridge
  <2> QED
    BY <1>0, <1>4, <1>5, <2>1, <2>2 DEF OneBridge
<1>9. MessagesDiffer'
  <2>1. \A id : Made(id) => Made(id)'
    BY DEF Made
  <2>2. ASSUME NEW i \in DOMAIN messages', NEW id, id = messages'[i].id PROVE Made(id)'
    BY <1>0, <1>2, <1>3, <2>1, <2>2 DEF MessagesDiffer
  <2>3. \A i, l \in DOMAIN messages' : messages'[i].id = messages'[l].id => i = l
    BY <1>0, <1>2, <1>3 DEF MessagesDiffer
  <2> QED
    BY <2>2, <2>3 DEF MessagesDiffer
<1>10. CreatedFirst'
  <2>1. ASSUME NEW b \in Agents, IsPending(b)'
        PROVE  /\ agents'[b].event.type # "deleted"
               /\ agents'[b].event.type = "created" =>
                    ~IsShown(AssistantMessage(b)) /\ ~Mentions(Way, AssistantMessage(b))
    <3>1. CASE b = a
      BY <3>1
    <3>2. CASE b # a
      BY <1>0, <1>6, <2>1, <3>2 DEF CreatedFirst
    <3> QED
      BY <3>1, <3>2
  <2>2. \A id : IsShown(id)' <=> IsShown(id)
    BY <1>5 DEF IsShown
  <2> QED
    BY <1>0, <1>5, <2>1, <2>2 DEF CreatedFirst, Mentions
<1>11. LastIsCurrent'
  <2>1. ASSUME NEW b \in Agents, IsPending(b)'
        PROVE  /\ agents'[b].event.message.id = AssistantMessage(b)
               /\ \E i \in DOMAIN messages' : messages'[i] = agents'[b].event.message
    <3>1. CASE b = a
      BY <1>1, <1>2, <3>1
    <3>2. CASE b # a
      <4>1. agents'[b] = agents[b] /\ IsPending(b)
        BY <1>6, <2>1, <3>2
      <4>2. /\ agents[b].event.message.id = AssistantMessage(b)
            /\ \E i \in DOMAIN messages : messages[i] = agents[b].event.message
        BY <1>0, <4>1 DEF LastIsCurrent
      <4>3. PICK i \in DOMAIN messages : messages[i] = agents[b].event.message
        BY <4>2
      <4>4. i # j
        BY <1>1, <3>2, <4>2, <4>3, IdsDiffer
      <4> QED
        BY <1>2, <4>1, <4>2, <4>3, <4>4
    <3> QED
      BY <3>1, <3>2
  <2>2. ASSUME NEW k \in DOMAIN Way, NEW id, id = Way[k].message.id
        PROVE  \/ Unpublished(id)'
               \/ \E l \in DOMAIN Way : l > k /\ Way[l].message.id = id
               \/ \E i \in DOMAIN messages' : messages'[i] = Way[k].message
    <3>1. CASE id = m.id
      BY <1>7, <3>1
    <3>2. CASE id # m.id
      <4>1. ASSUME NEW i \in DOMAIN messages, messages[i] = Way[k].message
            PROVE  messages'[i] = Way[k].message
        BY <1>1, <1>2, <2>2, <3>2, <4>1
      <4> QED
        BY <1>0, <1>2, <1>7, <2>2, <4>1 DEF LastIsCurrent
    <3> QED
      BY <3>1, <3>2
  <2> QED
    BY <1>5, <2>1, <2>2 DEF LastIsCurrent
<1>12. IsDrawn'
  <2>1. ASSUME NEW i \in DOMAIN messages', NEW id, id = messages'[i].id
        PROVE  Unpublished(id)' \/ Mentions(Way, id) \/ Shows(chat, messages'[i])
    <3>1. CASE i = j
      BY <1>2, <1>7, <2>1, <3>1
    <3>2. CASE i # j
      BY <1>0, <1>2, <1>7, <2>1, <3>2 DEF IsDrawn
    <3> QED
      BY <3>1, <3>2
  <2> QED
    BY <1>5, <2>1 DEF IsDrawn
<1>13. ItemsTogether'
  BY <1>0, <1>4, <1>5 DEF ItemsTogether
<1> QED
  BY <1>8, <1>9, <1>10, <1>11, <1>12, <1>13 DEF Forwarded

\* The agent publishes what has become of its message.
LEMMA PublishedForwarded ==
  ASSUME TerminalTyped, Forwarded, NEW a \in Agents, AgentPublishes(a), ~disturbed'
  PROVE  Forwarded'
<1> DEFINE e == agents[a].event
           t == [type |-> e.type, message |-> e.message]
<1>0. /\ OneBridge /\ MessagesDiffer /\ CreatedFirst /\ LastIsCurrent /\ IsDrawn /\ ItemsTogether
      /\ messages' = messages /\ chat' = chat /\ AgentsTyped /\ IsPending(a)
  BY DEF Forwarded, AgentPublishes, TerminalTyped, IsPending
<1>1. e \in MessageEvent /\ e.type \in {"created", "updated", "deleted"} /\ e.message \in ChatMessage
  <2>1. e \in MessageEvent
    BY <1>0 DEF AgentsTyped, IsPending
  <2> QED
    BY <2>1 DEF MessageEvent
<1>2. e.message.id = AssistantMessage(a) /\ \E i \in DOMAIN messages : messages[i] = e.message
  BY <1>0 DEF LastIsCurrent
<1>3. /\ \A b \in Agents : b # a => agents'[b] = agents[b]
      /\ agents'[a].at \in {"returns", "run"}
  <2> DEFINE at == IF e.message.done THEN "returns" ELSE "run"
             x == [agents[a] EXCEPT !.at = at, !.event = NoEvent]
  <2>1. agents' = [agents EXCEPT ![a] = x]
    BY DEF AgentPublishes
  <2>2. at \in {"returns", "run"}
    OBVIOUS
  <2> HIDE DEF at
  <2>3. x.at = at
    <3>1. agents[a] \in BusyAgent
      BY <1>0, Begins DEF IsPending
    <3> QED
      BY <3>1 DEF BusyAgent
  <2> HIDE DEF x
  <2> QED
    BY <1>0, <2>1, <2>2, <2>3 DEF AgentsTyped
<1>4. /\ subs # <<>> /\ subs' # <<>> /\ Len(subs') = 1 /\ subs'[1].registered /\ ~subs'[1].over
      /\ Way' = Append(Way, t)
  <2>1. ~Lost /\ subs' = Publish(subs, e.type, e.message)
    BY DEF AgentPublishes
  <2> HIDE DEF e
  <2> QED
    BY <1>0, <1>1, <2>1, PublishedOnWay
<1>5. /\ Way \in Seq(MessageEvent) /\ Len(Way) \in Nat /\ DOMAIN Way = 1..Len(Way)
  BY <1>0, <1>4, OneWay
<1>6. t.type = e.type /\ t.message = e.message
  OBVIOUS
<1> HIDE DEF t
<1>7. /\ DOMAIN Way' = 1..Len(Way) + 1 /\ \A k \in DOMAIN Way : Way'[k] = Way[k] /\ k \in DOMAIN Way'
      /\ Way'[Len(Way) + 1] = t
  BY <1>4, <1>5
<1>8. ASSUME NEW k \in DOMAIN Way'
      PROVE  \/ k \in DOMAIN Way /\ Way'[k] = Way[k]
             \/ k = Len(Way) + 1 /\ Way'[k] = t
  BY <1>5, <1>7
<1>9. /\ \A b \in Agents : b # a => (IsPending(b)' <=> IsPending(b))
      /\ ~IsPending(a)'
  BY <1>3 DEF IsPending
<1>10. /\ \A id : Unpublished(id)' => Unpublished(id)
       /\ \A id : Unpublished(id) => Unpublished(id)' \/ id = AssistantMessage(a)
  BY <1>9 DEF Unpublished
<1>11. /\ \A id : IsShown(id)' <=> IsShown(id)
       /\ \A id : IsMessage(id)' <=> IsMessage(id)
  BY <1>0 DEF IsShown, IsMessage
<1>12. \A id : Mentions(Way', id) <=> Mentions(Way, id) \/ id = AssistantMessage(a)
  <2>1. \A id : Mentions(Way, id) => Mentions(Way', id)
    BY <1>7 DEF Mentions
  <2>2. Mentions(Way', AssistantMessage(a))
    <3>1. Len(Way) + 1 \in DOMAIN Way'
      BY <1>5, <1>7
    <3> QED
      BY <1>2, <1>6, <1>7, <3>1 DEF Mentions
  <2>3. \A id : Mentions(Way', id) => Mentions(Way, id) \/ id = AssistantMessage(a)
    BY <1>2, <1>6, <1>8 DEF Mentions
  <2> QED
    BY <2>1, <2>2, <2>3
<1>13. IsMessage(AssistantMessage(a))
  BY <1>2 DEF IsMessage
<1>14. OneBridge'
  <2>1. ASSUME NEW b \in Agents, agents'[b].at \notin {"idle", "start"}
        PROVE  IsMessage(AssistantMessage(b))
    BY <1>0, <1>3, <1>4, <1>13, <2>1 DEF OneBridge
  <2> QED
    BY <1>4, <1>11, <2>1 DEF OneBridge
<1>15. MessagesDiffer'
  <2>1. \A id : Made(id) => Made(id)'
    BY <1>0, <1>3 DEF Made, IsPending
  <2> QED
    BY <1>0, <2>1 DEF MessagesDiffer
<1>16. CreatedFirst'
  <2>1. ASSUME NEW k \in DOMAIN Way'
        PROVE  /\ Way'[k].type # "deleted"
               /\ Way'[k].type = "created" =>
                    /\ ~IsShown(Way'[k].message.id)
                    /\ \A l \in DOMAIN Way' : l < k => Way'[l].message.id # Way'[k].message.id
    <3>1. CASE k \in DOMAIN Way /\ Way'[k] = Way[k]
      <4>1. \A l \in DOMAIN Way' : l < k => l \in DOMAIN Way /\ Way'[l] = Way[l]
        BY <1>5, <1>7, <3>1
      <4> QED
        BY <1>0, <3>1, <4>1 DEF CreatedFirst
    <3>2. CASE k = Len(Way) + 1 /\ Way'[k] = t
      <4>1. /\ e.type # "deleted"
            /\ e.type = "created" => ~IsShown(AssistantMessage(a)) /\ ~Mentions(Way, AssistantMessage(a))
        BY <1>0 DEF CreatedFirst
      <4>2. \A l \in DOMAIN Way' : l < k => l \in DOMAIN Way /\ Way'[l] = Way[l]
        BY <1>5, <1>7, <3>2
      <4> HIDE DEF e
      <4> QED
        BY <1>2, <1>6, <3>2, <4>1, <4>2 DEF Mentions
    <3> QED
      BY <1>8, <3>1, <3>2
  <2>2. ASSUME NEW b \in Agents, IsPending(b)'
        PROVE  /\ agents'[b].event.type # "deleted"
               /\ agents'[b].event.type = "created" =>
                    ~IsShown(AssistantMessage(b)) /\ ~Mentions(Way', AssistantMessage(b))
    <3>1. b # a /\ IsPending(b) /\ agents'[b] = agents[b]
      BY <1>3, <1>9, <2>2
    <3>2. AssistantMessage(b) # AssistantMessage(a)
      BY <3>1, IdsDiffer
    <3> QED
      BY <1>0, <1>12, <3>1, <3>2 DEF CreatedFirst
  <2> QED
    BY <1>11, <2>1, <2>2 DEF CreatedFirst
<1>17. LastIsCurrent'
  <2>1. ASSUME NEW b \in Agents, IsPending(b)'
        PROVE  /\ agents'[b].event.message.id = AssistantMessage(b)
               /\ \E i \in DOMAIN messages' : messages'[i] = agents'[b].event.message
    BY <1>0, <1>3, <1>9, <2>1 DEF LastIsCurrent
  <2>2. ASSUME NEW k \in DOMAIN Way', NEW id, id = Way'[k].message.id
        PROVE  \/ Unpublished(id)'
               \/ \E l \in DOMAIN Way' : l > k /\ Way'[l].message.id = id
               \/ \E i \in DOMAIN messages' : messages'[i] = Way'[k].message
    <3>1. CASE k \in DOMAIN Way /\ Way'[k] = Way[k]
      <4>1. CASE id = AssistantMessage(a)
        <5>1. Len(Way) + 1 \in DOMAIN Way' /\ Len(Way) + 1 > k
          BY <1>5, <1>7, <3>1
        <5> QED
          BY <1>2, <1>6, <1>7, <4>1, <5>1
      <4>2. CASE id # AssistantMessage(a)
        BY <1>0, <1>7, <1>10, <2>2, <3>1, <4>2 DEF LastIsCurrent
      <4> QED
        BY <4>1, <4>2
    <3>2. CASE k = Len(Way) + 1 /\ Way'[k] = t
      BY <1>0, <1>2, <1>6, <3>2
    <3> QED
      BY <1>8, <3>1, <3>2
  <2> QED
    BY <2>1, <2>2 DEF LastIsCurrent
<1>18. IsDrawn'
  <2>1. ASSUME NEW i \in DOMAIN messages, NEW id, id = messages[i].id
        PROVE  Unpublished(id)' \/ Mentions(Way', id) \/ Shows(chat, messages[i])
    BY <1>0, <1>10, <1>12, <2>1 DEF IsDrawn
  <2> QED
    BY <1>0, <2>1 DEF IsDrawn
<1>19. ItemsTogether'
  <2>1. ASSUME NEW k \in DOMAIN Way', NEW id, id = Way'[k].message.id PROVE IsMessage(id)
    BY <1>0, <1>2, <1>6, <1>8, <1>13, <2>1 DEF ItemsTogether
  <2> QED
    BY <1>0, <1>11, <2>1 DEF ItemsTogether
<1> QED
  BY <1>14, <1>15, <1>16, <1>17, <1>18, <1>19 DEF Forwarded

-----------------------------------------------------------------------------
\* What handling an event makes of the items of the chat.
LEMMA HandledItems ==
  ASSUME TerminalTyped, Forwarded, HandleMessageEvent(1), 1 \in DOMAIN subs
  PROVE  /\ subs # <<>> /\ Way # <<>> /\ Way' = Tail(Way) /\ subs' # <<>> /\ Len(subs') = 1
         /\ subs'[1].registered /\ ~subs'[1].over
         /\ chat'.items \in Seq(ChatItem)
         /\ Replaces(chat.items, Way[1].message.id, ExtractItems(Way[1].message), chat'.items)
<1> DEFINE e == Way[1]
           items == ExtractItems(e.message)
<1>0. /\ OneBridge /\ CreatedFirst /\ GoodChat(chat)
  BY DEF Forwarded, TerminalTyped
<1>1. subs # <<>>
  <2>1. subs = <<>> => DOMAIN subs = {}
    OBVIOUS
  <2> QED
    BY <2>1
<1>2. DOMAIN subs = {1} /\ Way = subs[1].channel /\ Way \in Seq(MessageEvent)
  BY <1>0, <1>1, OneWay
<1>3. Way # <<>>
  BY <1>2 DEF HandleMessageEvent
<1>4. 1 \in DOMAIN Way /\ Head(Way) = Way[1] /\ Way[1] \in MessageEvent
  BY <1>2, <1>3
<1>5. /\ subs' = [subs EXCEPT ![1].channel = Tail(@)]
  BY DEF HandleMessageEvent
<1>6. subs[1] \in Subscription /\ Len(subs) = 1 /\ subs[1].registered /\ ~subs[1].over
  <2>1. subs[1] \in Subscription
    BY <1>2, OneSubscription DEF TerminalTyped
  <2> QED
    BY <1>0, <1>1, <2>1 DEF OneBridge
<1>7. /\ subs'[1].channel = Tail(subs[1].channel) /\ subs'[1].registered = subs[1].registered
      /\ subs'[1].over = subs[1].over
  <2> DEFINE x == [subs[1] EXCEPT !.channel = Tail(@)]
  <2>1. /\ x.channel = Tail(subs[1].channel) /\ x.registered = subs[1].registered
        /\ x.over = subs[1].over
    BY <1>6 DEF Subscription
  <2>2. subs' = [subs EXCEPT ![1] = x]
    BY <1>5
  <2> HIDE DEF x
  <2>3. subs'[1] = x
    BY <1>2, <2>2
  <2> QED
    BY <2>1, <2>3
<1>8. subs' # <<>> /\ Len(subs') = 1
  <2>1. DOMAIN subs' = 1..1
    BY <1>2, <1>5
  <2>2. Len(subs') = 1
    <3>1. Subscriptions(subs')
      BY <1>2, <1>3, <1>5, HeadTaken DEF TerminalTyped
    <3>2. Len(subs') \in Nat /\ DOMAIN subs' = 1..Len(subs')
      BY <3>1 DEF Subscriptions
    <3>3. 1 \in 1..Len(subs') /\ 2 \notin 1..Len(subs')
      BY <2>1, <3>2
    <3> QED
      BY <3>2, <3>3
  <2> QED
    BY <2>2
<1>9. Way' = Tail(Way)
  BY <1>2, <1>7, <1>8 DEF Way
<1>10. e.type \in {"created", "updated"} /\ e.message \in ChatMessage
       /\ (e.type = "created" => ~IsShown(e.message.id))
  BY <1>0, <1>4 DEF MessageEvent, CreatedFirst
<1>11. /\ e.message.id \in Nat /\ items \in Seq(ChatItem)
       /\ \A k \in DOMAIN items : items[k].id = e.message.id
  <2>1. e.message.id \in Nat
    BY <1>10 DEF ChatMessage
  <2> QED
    BY <1>10, <2>1, ItemsOfMessage
<1>12. Draws(IF e.type = "created" THEN AppendItems(chat, e.message.id, items)
             ELSE UpdateItems(chat, e.message.id, items))
  BY <1>2, <1>4, <1>10 DEF HandleMessageEvent
<1> HIDE DEF e, items
<1>13. CASE e.type = "created"
  <2> DEFINE d == AppendItems(chat, e.message.id, items)
  <2>1. GoodChat(d) /\ d.items = chat.items \o items
    BY <1>0, <1>11, AppendingIsRight
  <2>2. Draws(d)
    BY <1>12, <1>13
  <2> HIDE DEF d
  <2>3. chat'.items = d.items
    BY <2>1, <2>2, Drawn
  <2>4. \A i \in DOMAIN chat.items : chat.items[i].id # e.message.id
    BY <1>10, <1>13 DEF IsShown
  <2>5. Replaces(chat.items, e.message.id, items, chat'.items)
    BY <2>1, <2>3, <2>4 DEF Replaces
  <2>6. chat'.items \in Seq(ChatItem)
    BY <2>1, <2>3, ChatFields
  <2> QED
    BY <1>1, <1>3, <1>6, <1>7, <1>8, <1>9, <2>5, <2>6 DEF e, items
<1>14. CASE e.type # "created"
  <2> DEFINE d == UpdateItems(chat, e.message.id, items)
  <2>1. GoodChat(d) /\ Replaces(chat.items, e.message.id, items, d.items)
    BY <1>0, <1>11, UpdatingIsRight
  <2>2. Draws(d)
    BY <1>12, <1>14
  <2> HIDE DEF d
  <2>3. chat'.items = d.items
    BY <2>1, <2>2, Drawn
  <2>4. chat'.items \in Seq(ChatItem)
    BY <2>1, <2>3, ChatFields
  <2> QED
    BY <1>1, <1>3, <1>6, <1>7, <1>8, <1>9, <2>1, <2>3, <2>4 DEF e, items
<1> QED
  BY <1>13, <1>14

\* The chat handles an event.
LEMMA HandledForwarded ==
  ASSUME TerminalTyped, Forwarded, HandleMessageEvent(1), 1 \in DOMAIN subs
  PROVE  Forwarded'
<1> DEFINE m == Way[1].message
           items == ExtractItems(m)
<1>0. /\ OneBridge /\ MessagesDiffer /\ CreatedFirst /\ LastIsCurrent /\ IsDrawn /\ ItemsTogether
      /\ messages' = messages /\ agents' = agents /\ messages \in Seq(ChatMessage)
      /\ chat.items \in Seq(ChatItem)
  BY ChatFields DEF Forwarded, HandleMessageEvent, TerminalTyped
<1>1. /\ subs # <<>> /\ Way # <<>> /\ Way' = Tail(Way) /\ subs' # <<>> /\ Len(subs') = 1
      /\ subs'[1].registered /\ ~subs'[1].over
      /\ chat'.items \in Seq(ChatItem)
      /\ Replaces(chat.items, m.id, items, chat'.items)
  BY HandledItems
<1>2. /\ Way \in Seq(MessageEvent) /\ Len(Way) \in Nat /\ DOMAIN Way = 1..Len(Way)
      /\ \A k \in DOMAIN Way : Way[k].message \in ChatMessage
  BY <1>0, <1>1, OneWay
<1>3. 1 \in DOMAIN Way /\ m \in ChatMessage
  BY <1>1, <1>2
<1> HIDE DEF m
<1>4. /\ items \in Seq(ChatItem) /\ \A k \in DOMAIN items : items[k].id = m.id
  BY <1>3, ItemsOfMessage
<1>5. Together(chat.items)
  BY <1>0 DEF ItemsTogether, Together
<1>6. PICK start, end \in Nat : Takes(chat.items, m.id, items, start, end, chat'.items)
  BY <1>0, <1>1, <1>4, <1>5, ReplacedIsTaken
<1>7. /\ Together(chat'.items)
      /\ \A i \in DOMAIN chat'.items :
           chat'.items[i].id = m.id \/ \E j \in DOMAIN chat.items : chat.items[j].id = chat'.items[i].id
  <2> DEFINE s == chat.items
             r == chat'.items
  <2>1. s \in Seq(ChatItem) /\ items \in Seq(ChatItem) /\ r \in Seq(ChatItem)
    BY <1>0, <1>1, <1>4
  <2>2. Takes(s, m.id, items, start, end, r) /\ Together(s)
    BY <1>5, <1>6
  <2> HIDE DEF s, r, items
  <2>3. Together(r)
    BY <2>1, <2>2, TakenTogether
  <2>4. \A i \in DOMAIN r : r[i].id = m.id \/ \E j \in DOMAIN s : s[j].id = r[i].id
    BY <2>1, <2>2, TakenTogether
  <2> QED
    BY <2>3, <2>4 DEF s, r
<1>8. Shows(chat', m)
  BY <1>0, <1>1, <1>3, <1>6, TakenIsShown
<1>9. ASSUME NEW x \in ChatMessage, x.id # m.id, Shows(chat, x) PROVE Shows(chat', x)
  BY <1>0, <1>1, <1>4, <1>6, <1>9, OthersStayShown
<1>10. /\ DOMAIN Way' = 1..Len(Way) - 1
       /\ \A k \in DOMAIN Way' : k + 1 \in DOMAIN Way /\ Way'[k] = Way[k + 1] /\ k + 1 > 1
  BY <1>1, <1>2
<1>11. \A k \in DOMAIN Way : k > 1 => k - 1 \in DOMAIN Way' /\ Way'[k - 1] = Way[k]
  <2>1. ASSUME NEW k \in DOMAIN Way, k > 1 PROVE k - 1 \in DOMAIN Way' /\ (k - 1) + 1 = k
    BY <1>2, <1>10, <2>1
  <2> QED
    BY <1>10, <2>1
<1>12. \A id : Unpublished(id)' <=> Unpublished(id)
  BY <1>0 DEF Unpublished, IsPending
<1>13. \A b \in Agents : IsPending(b)' <=> IsPending(b)
  BY <1>0 DEF IsPending
<1>14. \A id : IsMessage(id)' <=> IsMessage(id)
  BY <1>0 DEF IsMessage
<1>15. \A id : IsShown(id)' => IsShown(id) \/ id = m.id
  BY <1>7 DEF IsShown
<1>16. /\ \A id : Mentions(Way', id) => Mentions(Way, id)
       /\ \A id : Mentions(Way, id) => Mentions(Way', id) \/ id = m.id
  <2>1. \A id : Mentions(Way', id) => Mentions(Way, id)
    BY <1>10 DEF Mentions
  <2>2. ASSUME NEW k \in DOMAIN Way PROVE Mentions(Way', Way[k].message.id) \/ Way[k].message.id = m.id
    <3>1. k = 1 \/ k > 1
      BY <1>2
    <3> QED
      BY <1>11, <3>1 DEF Mentions, m
  <2> QED
    BY <2>1, <2>2 DEF Mentions
<1>17. Mentions(Way, m.id) /\ IsMessage(m.id)
  BY <1>0, <1>3 DEF Mentions, ItemsTogether, m
<1>18. OneBridge'
  <2>1. \A b \in Agents : agents[b].at \notin {"idle", "start"} => IsMessage(AssistantMessage(b))
    BY <1>0, <1>1 DEF OneBridge
  <2> QED
    BY <1>0, <1>1, <1>14, <2>1 DEF OneBridge
<1>19. MessagesDiffer'
  <2>1. \A id : Made(id)' <=> Made(id)
    BY <1>0 DEF Made
  <2> QED
    BY <1>0, <2>1 DEF MessagesDiffer
<1>20. CreatedFirst'
  <2>1. ASSUME NEW k \in DOMAIN Way', NEW id, id = Way'[k].message.id
        PROVE  /\ Way'[k].type # "deleted"
               /\ Way'[k].type = "created" =>
                    /\ ~IsShown(id)'
                    /\ \A l \in DOMAIN Way' : l < k => Way'[l].message.id # id
    <3>1. k + 1 \in DOMAIN Way /\ Way'[k] = Way[k + 1] /\ 1 < k + 1
      BY <1>10
    <3>2. Way[k + 1].type = "created" => id # m.id /\ ~IsShown(id)
      BY <1>0, <1>3, <2>1, <3>1 DEF CreatedFirst, m
    <3>3. ASSUME NEW l \in DOMAIN Way', l < k PROVE l + 1 < k + 1 /\ l + 1 \in DOMAIN Way /\ Way'[l] = Way[l + 1]
      BY <1>2, <1>10, <3>3
    <3>4. Way'[k].type = "created" => \A l \in DOMAIN Way' : l < k => Way'[l].message.id # id
      BY <1>0, <2>1, <3>1, <3>3 DEF CreatedFirst
    <3>5. Way'[k].type # "deleted"
      BY <1>0, <3>1 DEF CreatedFirst
    <3> QED
      BY <1>15, <3>1, <3>2, <3>4, <3>5
  <2>2. ASSUME NEW b \in Agents, IsPending(b)
        PROVE  /\ agents[b].event.type # "deleted"
               /\ agents[b].event.type = "created" =>
                    ~IsShown(AssistantMessage(b))' /\ ~Mentions(Way', AssistantMessage(b))
    BY <1>0, <1>15, <1>16, <1>17, <2>2 DEF CreatedFirst
  <2> QED
    BY <1>0, <1>13, <2>1, <2>2 DEF CreatedFirst
<1>21. LastIsCurrent'
  <2>1. ASSUME NEW b \in Agents, IsPending(b)
        PROVE  /\ agents[b].event.message.id = AssistantMessage(b)
               /\ \E i \in DOMAIN messages : messages[i] = agents[b].event.message
    BY <1>0, <2>1 DEF LastIsCurrent
  <2>2. ASSUME NEW k \in DOMAIN Way', NEW id, id = Way'[k].message.id
        PROVE  \/ Unpublished(id)'
               \/ \E l \in DOMAIN Way' : l > k /\ Way'[l].message.id = id
               \/ \E i \in DOMAIN messages : messages[i] = Way'[k].message
    <3>1. k + 1 \in DOMAIN Way /\ Way'[k] = Way[k + 1] /\ k \in Int
      BY <1>2, <1>10
    <3>2. \/ Unpublished(id)
          \/ \E l \in DOMAIN Way : l > k + 1 /\ Way[l].message.id = id
          \/ \E i \in DOMAIN messages : messages[i] = Way[k + 1].message
      BY <1>0, <2>2, <3>1 DEF LastIsCurrent
    <3>3. ASSUME NEW l \in DOMAIN Way, l > k + 1 PROVE l - 1 > k /\ l - 1 \in DOMAIN Way' /\ Way'[l - 1] = Way[l]
      <4>1. l \in Int /\ k \in Nat
        BY <1>2, <1>10
      <4>2. l > 1 /\ l - 1 > k
        BY <3>3, <4>1
      <4> QED
        BY <1>11, <4>2
    <3> QED
      BY <1>12, <3>1, <3>2, <3>3
  <2> QED
    BY <1>0, <1>13, <2>1, <2>2 DEF LastIsCurrent
<1>22. IsDrawn'
  <2>1. ASSUME NEW i \in DOMAIN messages, NEW id, id = messages[i].id
        PROVE  Unpublished(id)' \/ Mentions(Way', id) \/ Shows(chat', messages[i])
    <3>1. CASE id = m.id
      <4>1. \/ Unpublished(m.id)
            \/ \E l \in DOMAIN Way : l > 1 /\ Way[l].message.id = m.id
            \/ \E j \in DOMAIN messages : messages[j] = m
        BY <1>0, <1>3 DEF LastIsCurrent, m
      <4>2. (\E l \in DOMAIN Way : l > 1 /\ Way[l].message.id = m.id) => Mentions(Way', m.id)
        BY <1>11 DEF Mentions
      <4>3. (\E j \in DOMAIN messages : messages[j] = m) => messages[i] = m
        BY <1>0, <2>1, <3>1 DEF MessagesDiffer
      <4> QED
        BY <1>8, <1>12, <3>1, <4>1, <4>2, <4>3
    <3>2. CASE id # m.id
      <4>1. messages[i] \in ChatMessage
        BY <1>0
      <4>2. Unpublished(id) \/ Mentions(Way, id) \/ Shows(chat, messages[i])
        BY <1>0, <2>1 DEF IsDrawn
      <4> QED
        BY <1>9, <1>12, <1>16, <2>1, <3>2, <4>1, <4>2
    <3> QED
      BY <3>1, <3>2
  <2> QED
    BY <1>0, <2>1 DEF IsDrawn
<1>23. ItemsTogether'
  <2>1. ASSUME NEW p \in DOMAIN chat'.items, NEW id, id = chat'.items[p].id PROVE IsMessage(id)
    BY <1>0, <1>7, <1>17, <2>1 DEF ItemsTogether
  <2>2. ASSUME NEW k \in DOMAIN Way', NEW id, id = Way'[k].message.id PROVE IsMessage(id)
    BY <1>0, <1>10, <2>2 DEF ItemsTogether
  <2> QED
    BY <1>7, <1>14, <2>1, <2>2 DEF ItemsTogether, Together
<1> QED
  BY <1>18, <1>19, <1>20, <1>21, <1>22, <1>23 DEF Forwarded

\* A key that moves the window leaves the list.
LEMMA KeysKeepItems ==
  ASSUME GoodChat(chat),
         \/ \E n \in {1, chat.height \div 2} : ScrollUp(n) \/ ScrollDown(n)
         \/ \E h \in ViewHeights : WindowSize(h)
  PROVE  chat'.items = chat.items
<1>1. chat \in ChatState
  BY DEF GoodChat
<1>2. ASSUME NEW c, c.items = chat.items, DOMAIN c = DOMAIN chat, c = [f \in DOMAIN c |-> c[f]],
             Draws(c)
      PROVE  chat'.items = chat.items
  <2>1. chat' = IF c.items = <<>> THEN c
                ELSE [c EXCEPT !.offset = IF c.follow \/ @ > MaxOffset(c) THEN MaxOffset(c) ELSE @]
    BY <1>2 DEF Draws, View
  <2> QED
    BY <1>2, <2>1
<1>3. DOMAIN chat = {"items", "index", "offset", "follow", "height"}
  BY <1>1 DEF ChatState
<1>4. ASSUME NEW n, ScrollUp(n) PROVE chat'.items = chat.items
  <2> DEFINE offset == Max({chat.offset - n, 0})
             c == [chat EXCEPT !.follow = FALSE, !.offset = offset]
  <2>1. c.items = chat.items /\ DOMAIN c = DOMAIN chat /\ c = [f \in DOMAIN c |-> c[f]]
    BY <1>1 DEF ChatState
  <2>2. Draws(c)
    BY <1>4 DEF ScrollUp
  <2> HIDE DEF c
  <2> QED
    BY <1>2, <1>3, <2>1, <2>2
<1>5. ASSUME NEW n, ScrollDown(n) PROVE chat'.items = chat.items
  <2> DEFINE bottom == chat.offset + n >= MaxOffset(chat)
             offset == IF bottom THEN MaxOffset(chat) ELSE chat.offset + n
             follow == chat.follow \/ bottom
             c == [chat EXCEPT !.offset = offset, !.follow = follow]
  <2>1. Draws(c)
    BY <1>5 DEF ScrollDown
  <2> HIDE DEF offset, follow
  <2>2. c.items = chat.items /\ DOMAIN c = DOMAIN chat /\ c = [f \in DOMAIN c |-> c[f]]
    BY <1>1 DEF ChatState
  <2> HIDE DEF c
  <2> QED
    BY <1>2, <1>3, <2>1, <2>2
<1>6. ASSUME NEW h, WindowSize(h) PROVE chat'.items = chat.items
  <2> DEFINE c == [chat EXCEPT !.height = h]
  <2>1. c.items = chat.items /\ DOMAIN c = DOMAIN chat /\ c = [f \in DOMAIN c |-> c[f]]
    BY <1>1 DEF ChatState
  <2>2. Draws(c)
    BY <1>6 DEF WindowSize
  <2> HIDE DEF c
  <2> QED
    BY <1>2, <1>3, <2>1, <2>2
<1> QED
  BY <1>4, <1>5, <1>6

\* What is forwarded, when only the window moves and an agent goes on.
LEMMA SameListForwarded ==
  ASSUME TerminalTyped, Forwarded, UNCHANGED <<messages, subs>>, chat'.items = chat.items,
         \A b \in Agents : \/ agents'[b] = agents[b]
                           \/ agents[b].at \in {"run", "returns"} /\ agents'[b].at \in {"returns", "done"}
  PROVE  Forwarded'
BY StaysForwarded, SameShows

\* An agent that runs has a message, as long as nothing was cleared.
LEMMA HasOwn ==
  ASSUME Forwarded, NEW a \in Agents, agents[a].at \notin {"idle", "start"}
  PROVE  Own(a) # {}
<1>1. IsMessage(AssistantMessage(a))
  BY DEF Forwarded, OneBridge
<1> QED
  BY <1>1 DEF IsMessage, Own

\* The steps of an agent before it returns.
LEMMA AgentForwarded ==
  ASSUME TerminalTyped, Forwarded, NEW a \in Agents, ~disturbed',
         \/ AgentCreates(a) \/ AddChunk(a) \/ AddToolResult(a) \/ AgentPublishes(a)
         \/ AgentFailsAtOnce(a) \/ AgentFails(a) \/ AgentFinishes(a)
  PROVE  Forwarded'
<1>0. AgentsTyped /\ messages \in Seq(ChatMessage)
  BY DEF TerminalTyped
<1>1. CASE AgentCreates(a)
  BY <1>1, MadeForwarded
<1>2. CASE AgentPublishes(a)
  BY <1>2, PublishedForwarded
<1>3. CASE AgentFailsAtOnce(a)
  <2> DEFINE x == [agents[a] EXCEPT !.at = "returns", !.failed = TRUE]
  <2>1. agents[a] \in BusyAgent /\ agents[a].at = "run"
    BY <1>0, <1>3, Begins DEF AgentFailsAtOnce
  <2>2. x.at = "returns"
    BY <2>1 DEF BusyAgent
  <2>3. agents' = [agents EXCEPT ![a] = x] /\ UNCHANGED <<messages, subs, chat>>
    BY <1>3 DEF AgentFailsAtOnce
  <2> HIDE DEF x
  <2>4. \A b \in Agents : \/ agents'[b] = agents[b]
                          \/ agents[b].at \in {"run", "returns"} /\ agents'[b].at \in {"returns", "done"}
    BY <1>0, <2>1, <2>2, <2>3 DEF AgentsTyped
  <2> QED
    BY <2>3, <2>4, SameListForwarded
<1>4. CASE AddChunk(a) \/ AddToolResult(a) \/ AgentFinishes(a)
  <2>1. agents[a].at = "run"
    BY <1>4 DEF AddChunk, AddToolResult, AgentFinishes
  <2>2. agents[a] \in BusyAgent /\ Own(a) # {}
    BY <1>0, <2>1, Begins, HasOwn
  <2>3. PICK m \in {Text(OwnMessage(a)), CallsTool(OwnMessage(a)), ToolAnswers(OwnMessage(a)),
                    Finishes(OwnMessage(a))} : AgentUpdates(a, m)
    BY <1>4, <2>2 DEF AddChunk, AddToolResult, AgentFinishes
  <2>4. m \in ChatMessage /\ m.id = AssistantMessage(a)
    <3>1. OwnMessage(a) \in ChatMessage /\ OwnMessage(a).id = AssistantMessage(a)
      BY <1>0, <2>2, OwnIsThere
    <3> QED
      BY <2>3, <3>1, ChangedTyped
  <2> DEFINE e == [type |-> "updated", message |-> m]
             x == [agents[a] EXCEPT !.at = "publish", !.pieces = @ + 1, !.event = e]
  <2>5. agents' = [agents EXCEPT ![a] = x]
    <3>1. agents' = [agents EXCEPT ![a].at = "publish", ![a].pieces = @ + 1, ![a].event = e]
      BY <2>2, <2>3 DEF AgentUpdates
    <3> QED
      BY <1>0, <2>2, <3>1 DEF AgentsTyped, BusyAgent
  <2>6. e.type = "updated" /\ e.message = m
    OBVIOUS
  <2> HIDE DEF e
  <2>7. x.at = "publish" /\ x.event = e
    BY <2>2 DEF BusyAgent
  <2> HIDE DEF x
  <2>8. agents'[a] = x /\ \A b \in Agents : b # a => agents'[b] = agents[b]
    BY <1>0, <2>5 DEF AgentsTyped
  <2>9. messages' = [messages EXCEPT ![Min(Own(a))] = m] /\ UNCHANGED <<subs, chat>>
    BY <2>2, <2>3 DEF AgentUpdates
  <2> QED
    BY <2>1, <2>2, <2>4, <2>6, <2>7, <2>8, <2>9, ChangedForwarded
<1>5. CASE AgentFails(a)
  <2> DEFINE m == Fails(OwnMessage(a))
             e == [type |-> "updated", message |-> m]
             x == [agents[a] EXCEPT !.at = "publish", !.failed = TRUE, !.event = e]
  <2>1. agents[a].at = "run"
    BY <1>5 DEF AgentFails
  <2>2. agents[a] \in BusyAgent /\ Own(a) # {}
    BY <1>0, <2>1, Begins, HasOwn
  <2>3. /\ m \in ChatMessage /\ m.id = AssistantMessage(a)
        /\ messages[Min(Own(a))] = OwnMessage(a)
    <3>1. /\ OwnMessage(a) \in ChatMessage /\ OwnMessage(a).id = AssistantMessage(a)
          /\ messages[Min(Own(a))] = OwnMessage(a)
      BY <1>0, <2>2, OwnIsThere
    <3> QED
      BY <3>1, ChangedTyped
  <2>4. messages' = [messages EXCEPT ![Min(Own(a))] = m] /\ UNCHANGED <<subs, chat>>
    BY <1>5, <2>2, <2>3 DEF AgentFails
  <2>5. agents' = [agents EXCEPT ![a] = x]
    BY <1>5, <2>2 DEF AgentFails
  <2> HIDE DEF m
  <2>6. e.type = "updated" /\ e.message = m
    OBVIOUS
  <2> HIDE DEF e
  <2>7. x.at = "publish" /\ x.event = e
    BY <2>2 DEF BusyAgent
  <2> HIDE DEF x
  <2>8. agents'[a] = x /\ \A b \in Agents : b # a => agents'[b] = agents[b]
    BY <1>0, <2>5 DEF AgentsTyped
  <2> QED
    BY <2>1, <2>2, <2>3, <2>4, <2>6, <2>7, <2>8, ChangedForwarded
<1> QED
  BY <1>1, <1>2, <1>3, <1>4, <1>5

\* Submitting, and the end of a run.
LEMMA UserForwarded ==
  ASSUME TerminalTyped, Forwarded, NEW a \in Agents, ~disturbed',
         Submit(a) \/ AgentDone(a) \/ AgentError(a)
  PROVE  Forwarded'
<1>0. AgentsTyped /\ messages \in Seq(ChatMessage) /\ GoodChat(chat)
  BY DEF TerminalTyped
<1>1. CASE Submit(a)
  <2> DEFINE m == [NewMessage(UserMessage(a), "user") EXCEPT !.done = TRUE]
             x == [at |-> "start", runID |-> shows.runID, pieces |-> 0, failed |-> FALSE,
                   event |-> NoEvent]
  <2>1. m \in ChatMessage /\ m.id = UserMessage(a)
    BY IdsTyped DEF NewMessage, ChatMessage
  <2>2. /\ Create(m) /\ agents' = [agents EXCEPT ![a] = x] /\ Draws(chat) /\ agents[a].at = "idle"
    BY <1>1 DEF Submit
  <2>3. x.at = "start"
    OBVIOUS
  <2> HIDE DEF m, x
  <2>4. agents'[a] = x /\ \A b \in Agents : b # a => agents'[b] = agents[b]
    BY <1>0, <2>2 DEF AgentsTyped
  <2>5. ~Made(m.id)
    BY <2>1, <2>2, IdsDiffer DEF Made
  <2>6. Made(m.id)'
    BY <2>1, <2>3, <2>4 DEF Made
  <2>7. \A id : Made(id) => Made(id)'
    BY <2>2, <2>4 DEF Made
  <2>8. ~IsPending(a) /\ ~IsPending(a)'
    BY <2>2, <2>3, <2>4 DEF IsPending
  <2>9. chat'.items = chat.items
    BY <1>0, <2>2, Drawn
  <2> QED
    BY <2>1, <2>2, <2>3, <2>4, <2>5, <2>6, <2>7, <2>8, <2>9, CreatedForwarded
<1>2. CASE AgentError(a)
  <2> DEFINE m == [NewMessage(ErrorMessage(a), "assistant") EXCEPT !.done = TRUE, !.error = TRUE]
             x == [agents[a] EXCEPT !.at = "done"]
  <2>1. m \in ChatMessage /\ m.id = ErrorMessage(a)
    BY IdsTyped DEF NewMessage, ChatMessage
  <2>2. /\ Create(m) /\ agents' = [agents EXCEPT ![a] = x] /\ Draws(chat) /\ agents[a].at = "returns"
    BY <1>2 DEF AgentError
  <2>3. x.at = "done"
    <3>1. agents[a] \in BusyAgent
      BY <1>0, <2>2, Begins
    <3> QED
      BY <3>1 DEF BusyAgent
  <2> HIDE DEF m, x
  <2>4. agents'[a] = x /\ \A b \in Agents : b # a => agents'[b] = agents[b]
    BY <1>0, <2>2 DEF AgentsTyped
  <2>5. ~Made(m.id)
    BY <2>1, <2>2, IdsDiffer DEF Made
  <2>6. Made(m.id)'
    BY <2>1, <2>3, <2>4 DEF Made
  <2>7. \A id : Made(id) => Made(id)'
    BY <2>2, <2>3, <2>4 DEF Made
  <2>8. ~IsPending(a) /\ ~IsPending(a)'
    BY <2>2, <2>3, <2>4 DEF IsPending
  <2>9. chat'.items = chat.items
    BY <1>0, <2>2, Drawn
  <2> QED
    BY <2>1, <2>2, <2>3, <2>4, <2>5, <2>6, <2>7, <2>8, <2>9, CreatedForwarded
<1>3. CASE AgentDone(a)
  <2> DEFINE c == FinalizeAssistant(chat)
             x == [agents[a] EXCEPT !.at = "done"]
  <2>1. /\ Draws(c) /\ UNCHANGED <<messages, subs>> /\ agents' = [agents EXCEPT ![a] = x]
        /\ agents[a].at = "returns"
    BY <1>3 DEF AgentDone
  <2>2. GoodChat(c) /\ DOMAIN c.items = DOMAIN chat.items /\ Len(c.items) = Len(chat.items)
    BY <1>0, FinalizingIsRight
  <2>3. \A i \in DOMAIN chat.items :
          \E final \in BOOLEAN : c.items[i] = [chat.items[i] EXCEPT !.final = final]
    BY <1>0, FinalizingIsRight
  <2> HIDE DEF c
  <2>4. chat'.items = c.items
    BY <2>1, <2>2, Drawn
  <2>5. chat.items \in Seq(ChatItem) /\ c.items \in Seq(ChatItem)
    BY <1>0, <2>2, ChatFields
  <2>6. ASSUME NEW i \in DOMAIN chat.items
        PROVE  /\ c.items[i].id = chat.items[i].id
               /\ [c.items[i] EXCEPT !.final = FALSE] = [chat.items[i] EXCEPT !.final = FALSE]
    <3>1. PICK final \in BOOLEAN : c.items[i] = [chat.items[i] EXCEPT !.final = final]
      BY <2>3
    <3>2. chat.items[i] \in ChatItem
      BY <2>5
    <3> QED
      BY <3>1, <3>2 DEF ChatItem
  <2>7. ASSUME NEW m \in ChatMessage, Shows(chat, m) PROVE Shows(chat', m)
    <3> DEFINE u == ExtractItems(m)
    <3>1. PICK p \in 0..Len(chat.items) : 
             /\ Positions(chat.items, m.id) = p + 1..p + Len(u)
             /\ \A k \in DOMAIN u : [chat.items[p + k] EXCEPT !.final = FALSE] = u[k]
      BY <2>7 DEF Shows
    <3>2. Positions(c.items, m.id) = Positions(chat.items, m.id)
      BY <2>2, <2>6 DEF Positions
    <3>3. u \in Seq(ChatItem)
      BY ItemsOfMessage
    <3> HIDE DEF u
    <3>4. ASSUME NEW k \in DOMAIN u PROVE [c.items[p + k] EXCEPT !.final = FALSE] = u[k]
      <4>1. p + k \in p + 1..p + Len(u)
        BY <2>5, <3>3
      <4>2. p + k \in DOMAIN chat.items
        BY <3>1, <4>1 DEF Positions
      <4> QED
        BY <2>6, <3>1, <4>2
    <3>5. Shows(c, m)
      BY <2>2, <3>1, <3>2, <3>4 DEF Shows, u
    <3> QED
      BY <2>4, <3>5, SameShows
  <2>8. x.at = "done"
    <3>1. agents[a] \in BusyAgent
      BY <1>0, <2>1, Begins
    <3> QED
      BY <3>1 DEF BusyAgent
  <2> HIDE DEF x
  <2>9. \A b \in Agents : \/ agents'[b] = agents[b]
                          \/ agents[b].at \in {"run", "returns"} /\ agents'[b].at \in {"returns", "done"}
    BY <1>0, <2>1, <2>8 DEF AgentsTyped
  <2>10. chat.items = <<>> => chat'.items = <<>>
    BY <2>2, <2>4, <2>5
  <2> QED
    BY <2>1, <2>2, <2>4, <2>6, <2>7, <2>9, <2>10, StaysForwarded
<1> QED
  BY <1>1, <1>2, <1>3

\* Nothing is disturbed once and undisturbed later.
LEMMA StaysDisturbed ==
  ASSUME TerminalTyped, TerminalNext, disturbed PROVE disturbed'
BY DEF TerminalNext, StartBridge, Unsubscribe, Drain, HandleMessageEvent, Submit, Create, AgentCreates,
       AddChunk, AddToolResult, AgentUpdates, AgentPublishes, AgentFailsAtOnce, AgentFails, AgentFinishes,
       AgentDone, AgentError, CancelRun, ClearConversation, Cancels, ScrollUp, ScrollDown, WindowSize, Scrolls

\* The chat's invariant, step by step.
LEMMA ChatStep ==
  ASSUME ChatInv, [TerminalNext]_terminalVars PROVE ChatInv'
<1>1. CASE UNCHANGED terminalVars
  <2>1. TerminalTyped'
    BY <1>1 DEF terminalVars, ChatInv, TerminalTyped, Subscriptions, GoodChat, Inside, AgentsTyped
  <2>2. ASSUME Forwarded PROVE Forwarded'
    BY <1>1, <2>2, SameListForwarded DEF terminalVars, ChatInv
  <2> QED
    BY <1>1, <2>1, <2>2 DEF terminalVars, ChatInv
<1>2. CASE TerminalNext
  <2>1. TerminalTyped /\ TerminalTyped'
    BY <1>2, TerminalStepTyped DEF ChatInv
  <2> SUFFICES ASSUME ~disturbed' PROVE Forwarded'
    BY <2>1 DEF ChatInv
  <2>2. Forwarded
    BY <1>2, <2>1, StaysDisturbed DEF ChatInv
  <2>3. CASE StartBridge
    BY <2>1, <2>2, <2>3, BeginsForwarded
  <2>4. ASSUME NEW k \in DOMAIN subs, Unsubscribe(k) \/ Drain(k) \/ HandleMessageEvent(k)
        PROVE  Forwarded'
    <3>1. subs # <<>> /\ OneBridge
      <4>1. subs = <<>> => DOMAIN subs = {}
        OBVIOUS
      <4> QED
        BY <2>2, <4>1 DEF Forwarded
    <3>2. DOMAIN subs = {1} /\ k = 1
      BY <2>1, <3>1, OneWay
    <3>3. HandleMessageEvent(1)
      BY <2>4, <3>1, <3>2 DEF OneBridge, Unsubscribe, Drain
    <3> QED
      BY <2>1, <2>2, <3>2, <3>3, HandledForwarded
  <2>5. ASSUME NEW a \in Agents,
               \/ Submit(a) \/ AgentCreates(a) \/ AddChunk(a) \/ AddToolResult(a) \/ AgentPublishes(a)
               \/ AgentFailsAtOnce(a) \/ AgentFails(a) \/ AgentFinishes(a) \/ AgentDone(a) \/ AgentError(a)
        PROVE  Forwarded'
    BY <2>1, <2>2, <2>5, AgentForwarded, UserForwarded
  <2>6. CASE \/ \E n \in {1, chat.height \div 2} : ScrollUp(n) \/ ScrollDown(n)
             \/ \E h \in ViewHeights : WindowSize(h)
    <3>1. chat'.items = chat.items
      BY <2>1, <2>6, KeysKeepItems DEF TerminalTyped
    <3>2. UNCHANGED <<messages, subs, agents>>
      BY <2>6 DEF ScrollUp, ScrollDown, WindowSize, Scrolls
    <3> QED
      BY <2>1, <2>2, <3>1, <3>2, SameListForwarded
  <2>7. CASE CancelRun \/ ClearConversation
    BY <2>7 DEF CancelRun, ClearConversation, Cancels
  <2> QED
    BY <1>2, <2>3, <2>4, <2>5, <2>6, <2>7 DEF TerminalNext
<1> QED
  BY <1>1, <1>2

\* It holds at first.
LEMMA ChatBegins ==
  ASSUME TerminalInit PROVE ChatInv
<1>1. TerminalTyped
  BY TerminalBegins
<1>2. chat.items = <<>>
  BY EmptyIsRight DEF TerminalInit
<1>3. subs = <<>> /\ messages = <<>> /\ \A a \in Agents : agents[a].at = "idle"
  BY DEF TerminalInit
<1>4. OneBridge /\ MessagesDiffer
  BY <1>2, <1>3 DEF OneBridge, MessagesDiffer
<1>5. CreatedFirst /\ LastIsCurrent
  BY <1>3 DEF CreatedFirst, LastIsCurrent, Way, IsPending
<1>6. IsDrawn /\ ItemsTogether
  BY <1>2, <1>3 DEF IsDrawn, ItemsTogether, Way
<1> QED
  BY <1>1, <1>4, <1>5, <1>6 DEF ChatInv, Forwarded

\* And it says what the chat shows.
LEMMA ChatSays ==
  ASSUME ChatInv PROVE TerminalTypeOK /\ ChatIsRight
<1>1. TerminalTypeOK /\ IndexIsRight /\ WindowIsInside
  BY TypesSay DEF ChatInv
<1>2. ConversationIsShown
  <2> SUFFICES ASSUME \A k \in DOMAIN subs : subs[k].channel = <<>>,
                      \A a \in Agents : agents[a].at # "publish", ~disturbed
               PROVE  /\ \A i \in DOMAIN messages : Shows(chat, messages[i])
                      /\ \A i \in DOMAIN chat.items : \E j \in DOMAIN messages : messages[j].id = chat.items[i].id
    BY DEF ConversationIsShown
  <2>1. Forwarded
    BY DEF ChatInv
  <2>2. Way = <<>>
    <3>1. CASE subs = <<>>
      BY <3>1 DEF Way
    <3>2. CASE subs # <<>>
      BY <2>1, <3>2, OneWay DEF ChatInv, Forwarded
    <3> QED
      BY <3>1, <3>2
  <2>3. \A id : ~Unpublished(id) /\ ~Mentions(Way, id)
    BY <2>2 DEF Unpublished, IsPending, Mentions
  <2> QED
    BY <2>1, <2>3 DEF Forwarded, IsDrawn, ItemsTogether, IsMessage
<1> QED
  BY <1>1, <1>2 DEF ChatIsRight

\* The chat's invariant holds in every state.
LEMMA ChatInvariant == TerminalSpec => []ChatInv
<1> QED
  BY ChatBegins, ChatStep, PTL DEF TerminalSpec

\* Whatever bridges forward, and however late, doubled or lost its events are, the
\* chat's index names the first item of every message in its list and the window is
\* inside the list; and as long as no event was lost and nothing was cancelled or
\* cleared, the list is exactly the items of the messages once no event is under way
\* (AppendItems, UpdateItems, rebuildIndex, View, Publish).
THEOREM ChatStaysRight == TerminalSpec => []ChatIsRight
<1>1. ChatInv => ChatIsRight
  BY ChatSays
<1> QED
  BY <1>1, ChatInvariant, PTL

-----------------------------------------------------------------------------
(***************************************************************************)
(* The chunks of a run reach its chat in order and once each, and a turn   *)
(* that ends without any failure has forwarded all of it, for any number   *)
(* of chats, messages, replies and failures.                               *)
(*                                                                         *)
(* A forwarder counts in the trace of its run, and so it is the only one   *)
(* that may: a chat has one turn at a time (ChatIsHeld), and a run is only *)
(* ever one of its own chat (RunsBelong).  Then nothing that was sent of a *)
(* run is past the count of its forwarder (Ahead), also when a turn ended  *)
(* in the middle of a message and another one took over; and without a     *)
(* failure everything up to the count was sent, and everything there is    *)
(* once no forwarder is left (Complete).  A new run has no forwarder that  *)
(* knows it, but its message counts for it (Target).                       *)
(***************************************************************************)

\* A turn before agent.Run has given it a run, while its forwarder counts, and
\* while it has its chat.
Early == {"new", "chat", "find", "insert", "claim", "begin", "history", "start"}
Counting == {"start", "running", "flush", "final"}
Working == {"begin", "history", "finish", "completed", "failed", "release"} \union Counting

Live == [pc : LivePCs, chat : Chats \union {NoChat}, known : BOOLEAN, run : Runs, forward : Runs,
         seen : Nat, part : Nat, last : BOOLEAN, made : Nat]

WaTyped ==
  /\ WaTypeOK
  /\ live \in [Inbound -> Live]
  /\ outbox \in [Chats -> Seq(Sent)]

\* A chat has one turn at a time.
ChatIsHeld ==
  /\ \A m \in Inbound : ~On(m, "new") => ChatOf(m) \in Chats
  /\ \A m \in Inbound : live[m].pc \in Working => ChatOf(m) \in busyChats
  /\ \A m, n \in Inbound :
       live[m].pc \in Working /\ live[n].pc \in Working /\ ChatOf(m) = ChatOf(n) => m = n

\* The forwarder knows the run, or does not know any and has sent nothing.
TurnOK(m) ==
  /\ live[m].forward \in {NoAgentRun, live[m].run}
  /\ live[m].pc \in Early \ {"history", "start"} => live[m].run = NoAgentRun
  /\ live[m].pc \in Early \ {"start"} => live[m].forward = NoAgentRun
  /\ live[m].pc \in Early => live[m].part = 0
  /\ live[m].pc = "start" => live[m].forward = live[m].run
  /\ live[m].pc \in {"running", "flush", "final", "finish", "completed"} => live[m].run # NoAgentRun
  /\ live[m].pc \in {"final", "finish"} => live[m].forward # NoAgentRun
  /\ live[m].pc \in Counting /\ live[m].forward = NoAgentRun =>
       live[m].part = 0 /\ live[m].run \in {m, NoAgentRun}

TurnsOK == \A m \in Inbound : TurnOK(m)

\* A run is named by a message of its chat.
Belongs(r, c) ==
  r # NoAgentRun => live[r].chat = c /\ live[r].run = r /\ live[r].pc \notin Early

ChunkBelongs(c, k) ==
  /\ Belongs(outbox[c][k].run, c)
  /\ outbox[c][k].message <= Len(runTraces[outbox[c][k].run])

RunsBelong ==
  /\ \A c \in Chats : Belongs(conversations[c].run, c)
  /\ \A m \in Inbound : Belongs(live[m].run, ChatOf(m))
  /\ \A c \in Chats : \A k \in RunParts(c) : ChunkBelongs(c, k)

\* The run a turn is about, which may be its own to be.
Target(m) == IF live[m].run = NoAgentRun THEN m ELSE live[m].run

Upto(m, x) ==
  x.message <= live[m].seen \/ (x.message = live[m].seen + 1 /\ x.part <= live[m].part)

\* A forwarder stands behind everything that was sent of its run.
AheadOf(m) ==
  live[m].pc \in Counting =>
    \A k \in RunParts(ChatOf(m)) : outbox[ChatOf(m)][k].run = Target(m) =>
      live[m].forward # NoAgentRun /\ Upto(m, outbox[ChatOf(m)][k])

Ahead == ~miscounted => \A m \in Inbound : AheadOf(m)

Has(c, r, k, p) ==
  \E i \in RunParts(c) :
    outbox[c][i].run = r /\ outbox[c][i].message = k /\ outbox[c][i].part = p

Due(r) == {x \in Nat \X Nat : /\ bases[r] < x[1] /\ x[1] <= Len(runTraces[r])
                              /\ 1 <= x[2] /\ x[2] <= runTraces[r][x[1]]}

\* Without a failure the forwarder has sent what it has counted.
ToldOf(m) ==
  live[m].pc \in Counting =>
    /\ live[m].forward = NoAgentRun => bases[Target(m)] = live[m].seen
    /\ ~(On(m, "start") /\ live[m].run = NoAgentRun) =>
         /\ live[m].seen <= Len(runTraces[Target(m)])
         /\ live[m].seen = Len(runTraces[Target(m)]) => live[m].part = 0
         /\ \A x \in Due(Target(m)) :
              x[1] <= live[m].seen \/ (x[1] = live[m].seen + 1 /\ x[2] <= live[m].part)
                => Has(ChatOf(m), Target(m), x[1], x[2])

\* And the trace of a run whose turns are over has been sent.
WholeOf(r) ==
  live[r].pc \notin Early /\ live[r].run = r =>
    \/ \E m \in Inbound : live[m].run = r /\ live[m].pc \in Counting
    \/ \A x \in Due(r) : Has(live[r].chat, r, x[1], x[2])

Complete == waFailures = 0 => \A m \in Inbound : ToldOf(m) /\ WholeOf(m)

WaInv == /\ WaTyped /\ ChatIsHeld /\ TurnsOK /\ RunsBelong
         /\ Ahead /\ ForwardedInOrder /\ Complete

\* What Go makes of the record of a message.
Changed(l, r) ==
  [pc |-> IF "pc" \in DOMAIN r THEN r.pc ELSE l.pc,
   chat |-> IF "chat" \in DOMAIN r THEN r.chat ELSE l.chat,
   known |-> IF "known" \in DOMAIN r THEN r.known ELSE l.known,
   run |-> IF "run" \in DOMAIN r THEN r.run ELSE l.run,
   forward |-> IF "forward" \in DOMAIN r THEN r.forward ELSE l.forward,
   seen |-> IF "seen" \in DOMAIN r THEN r.seen ELSE l.seen,
   part |-> IF "part" \in DOMAIN r THEN r.part ELSE l.part,
   last |-> IF "last" \in DOMAIN r THEN r.last ELSE l.last,
   made |-> IF "made" \in DOMAIN r THEN r.made ELSE l.made]

\* Go changes the fields it is given.
LEMMA GoChanges ==
  ASSUME live \in [Inbound -> Live], NEW m \in Inbound, NEW r, Go(m, r)
  PROVE  live' = [live EXCEPT ![m] = Changed(live[m], r)]
<1>1. [f \in DOMAIN live[m] |-> IF f \in DOMAIN r THEN r[f] ELSE live[m][f]] = Changed(live[m], r)
  BY DEF Changed, Live
<1> QED
  BY <1>1 DEF Go

-----------------------------------------------------------------------------
\* The record of a message.
LEMMA LiveTyped ==
  ASSUME WaTyped, NEW m \in Inbound
  PROVE  /\ live[m] \in Live
         /\ live[m].pc \in LivePCs /\ live[m].chat \in Chats \union {NoChat}
         /\ live[m].known \in BOOLEAN /\ live[m].run \in Runs /\ live[m].forward \in Runs
         /\ live[m].seen \in Nat /\ live[m].part \in Nat /\ live[m].last \in BOOLEAN
         /\ live[m].made \in Nat
BY DEF WaTyped, Live

\* Go keeps the types.
LEMMA GoTyped ==
  ASSUME WaTyped, NEW m \in Inbound, NEW r, Go(m, r),
         "pc" \in DOMAIN r => r.pc \in LivePCs,
         "chat" \in DOMAIN r => r.chat \in Chats,
         "known" \in DOMAIN r => r.known \in BOOLEAN,
         "run" \in DOMAIN r => r.run \in Runs,
         "forward" \in DOMAIN r => r.forward \in Runs,
         "seen" \in DOMAIN r => r.seen \in Nat,
         "part" \in DOMAIN r => r.part \in Nat,
         "last" \in DOMAIN r => r.last \in BOOLEAN,
         "made" \in DOMAIN r => r.made \in Nat
  PROVE  live' \in [Inbound -> Live]
<1>1. Changed(live[m], r) \in Live
  BY LiveTyped DEF Changed, Live
<1> QED
  BY <1>1, GoChanges DEF WaTyped

\* Go changes one message.
LEMMA GoStep ==
  ASSUME WaTyped, NEW m \in Inbound, NEW r, Go(m, r)
  PROVE  live'[m] = Changed(live[m], r) /\ \A n \in Inbound \ {m} : live'[n] = live[n]
BY GoChanges DEF WaTyped

\* GoTo changes the place and nothing else.
LEMMA GoToStep ==
  ASSUME WaTyped, NEW m \in Inbound, NEW p \in LivePCs, GoTo(m, p)
  PROVE  /\ live' \in [Inbound -> Live]
         /\ \A n \in Inbound \ {m} : live'[n] = live[n]
         /\ live'[m].pc = p
         /\ live'[m].chat = live[m].chat /\ live'[m].run = live[m].run
         /\ live'[m].forward = live[m].forward /\ live'[m].seen = live[m].seen
         /\ live'[m].part = live[m].part /\ live'[m].last = live[m].last
         /\ live'[m].made = live[m].made
<1> DEFINE r == [pc |-> p]
<1>1. Go(m, r)
  BY DEF GoTo
<1>2. live'[m] = Changed(live[m], r) /\ \A n \in Inbound \ {m} : live'[n] = live[n]
  BY <1>1, GoStep
<1>3. live' \in [Inbound -> Live]
  BY <1>1, GoTyped
<1> QED
  BY <1>2, <1>3 DEF Changed

-----------------------------------------------------------------------------
\* What has been sent is a chunk or a text.
LEMMA SentKinds ==
  /\ \A x \in [run : Inbound, message : Nat, part : Nat] : x \in Sent /\ "run" \in DOMAIN x
  /\ \A t \in {"busy", "error", "Done."} : [text |-> t] \in Sent /\ "run" \notin DOMAIN [text |-> t]
  /\ \A x \in Sent : "run" \in DOMAIN x => x \in [run : Inbound, message : Nat, part : Nat]
BY DEF Sent

\* A chunk names a run, a message and a part.
LEMMA ChunkTyped ==
  ASSUME WaTyped, NEW c \in Chats, NEW k \in RunParts(c)
  PROVE  outbox[c][k].run \in Inbound /\ outbox[c][k].message \in Nat /\ outbox[c][k].part \in Nat
<1>1. outbox[c][k] \in Sent /\ "run" \in DOMAIN outbox[c][k]
  BY DEF WaTyped, RunParts
<1> QED
  BY <1>1, SentKinds

\* What a post does to the outbox.
LEMMA PostStep ==
  ASSUME WaTyped, NEW c \in Chats, NEW x \in Sent, Post(c, x)
  PROVE  /\ outbox' \in [Chats -> Seq(Sent)]
         /\ \A d \in Chats \ {c} : outbox'[d] = outbox[d] /\ RunParts(d)' = RunParts(d)
         /\ \A k \in 1..Len(outbox[c]) : outbox'[c][k] = outbox[c][k]
         /\ outbox'[c][Len(outbox[c]) + 1] = x
         /\ RunParts(c)' = RunParts(c) \union (IF "run" \in DOMAIN x THEN {Len(outbox[c]) + 1} ELSE {})
<1>1. outbox \in [Chats -> Seq(Sent)]
  BY DEF WaTyped
<1>2. /\ outbox'[c] = Append(outbox[c], x) /\ \A d \in Chats \ {c} : outbox'[d] = outbox[d]
      /\ outbox' \in [Chats -> Seq(Sent)]
  BY <1>1 DEF Post
<1>3. /\ Len(outbox'[c]) = Len(outbox[c]) + 1 /\ Len(outbox[c]) \in Nat
      /\ \A k \in 1..Len(outbox[c]) : outbox'[c][k] = outbox[c][k]
      /\ outbox'[c][Len(outbox[c]) + 1] = x
  BY <1>1, <1>2
<1>4. RunParts(c)' = RunParts(c) \union (IF "run" \in DOMAIN x THEN {Len(outbox[c]) + 1} ELSE {})
  BY <1>3 DEF RunParts
<1>5. \A d \in Chats \ {c} : RunParts(d)' = RunParts(d)
  BY <1>2 DEF RunParts
<1> QED
  BY <1>2, <1>3, <1>4, <1>5

SameChunks ==
  \A c \in Chats : RunParts(c)' = RunParts(c) /\ \A k \in RunParts(c) : outbox'[c][k] = outbox[c][k]

\* A text of the bridge is no chunk.
LEMMA TextPosted ==
  ASSUME WaTyped, NEW c \in Chats, NEW t \in {"busy", "error", "Done."},
         Post(c, [text |-> t]) \/ outbox' = outbox
  PROVE  SameChunks /\ outbox' \in [Chats -> Seq(Sent)]
<1>1. CASE outbox' = outbox
  BY <1>1 DEF SameChunks, RunParts, WaTyped
<1>2. CASE Post(c, [text |-> t])
  <2> DEFINE x == [text |-> t]
  <2>1. x \in Sent /\ "run" \notin DOMAIN x
    BY SentKinds
  <2> HIDE DEF x
  <2>2. Post(c, x)
    BY <1>2 DEF x
  <2>3. /\ outbox' \in [Chats -> Seq(Sent)]
        /\ \A d \in Chats \ {c} : outbox'[d] = outbox[d] /\ RunParts(d)' = RunParts(d)
        /\ \A k \in 1..Len(outbox[c]) : outbox'[c][k] = outbox[c][k]
        /\ RunParts(c)' = RunParts(c)
    BY <2>1, <2>2, PostStep
  <2>4. \A d \in Chats : \A k \in RunParts(d) : k \in 1..Len(outbox[d])
    BY DEF RunParts
  <2> QED
    BY <2>3, <2>4 DEF SameChunks
<1> QED
  BY <1>1, <1>2

-----------------------------------------------------------------------------
\* The chat of a turn and its claim.
LEMMA HeldKept ==
  ASSUME WaTyped, ChatIsHeld, NEW m \in Inbound,
         \A n \in Inbound \ {m} : live'[n] = live[n],
         live'[m].chat = live[m].chat, ~On(m, "new"),
         live'[m].pc \in Working => live[m].pc \in Working, busyChats' = busyChats
  PROVE  ChatIsHeld'
<1>1. \A n \in Inbound : /\ live'[n].chat = live[n].chat
                         /\ live'[n].pc \in Working => live[n].pc \in Working
                         /\ live'[n].pc # "new" => live[n].pc # "new"
  BY DEF On
<1> QED
  BY <1>1 DEF ChatIsHeld, ChatOf, On

\* A step that sends no chunk and counts none.
Plain(m) ==
  /\ SameChunks
  /\ UNCHANGED <<runTraces, bases, miscounted>>
  /\ waFailures' = 0 => waFailures = 0
  /\ \A n \in Inbound \ {m} : live'[n] = live[n]
  /\ live'[m].chat = live[m].chat \/ (live[m].pc = "new" /\ live'[m].pc = "chat")
  /\ \/ live'[m].run = live[m].run
     \/ On(m, "begin") /\ live'[m].pc = "history" /\ live'[m].run = conversations[ChatOf(m)].run
  /\ live'[m].forward = live[m].forward
  /\ live'[m].seen = live[m].seen /\ live'[m].part = live[m].part
  /\ live'[m].pc \in Early => live[m].pc \in Early
  /\ live'[m].pc \in Counting =>
       live[m].pc \in Counting /\ (live'[m].pc = "start" <=> live[m].pc = "start")
  /\ waFailures' = 0 /\ live[m].pc \in Counting /\ live'[m].pc \notin Counting =>
       live[m].pc = "final" /\ Flushed(m)
  /\ \A c \in Chats : \/ conversations'[c].run = conversations[c].run
                      \/ c = ChatOf(m) /\ conversations'[c].run = live[m].run

\* A run that belongs to a chat does so for good.
LEMMA StillBelongs ==
  ASSUME NEW r \in Runs, NEW c,
         r # NoAgentRun /\ live[r].pc \notin Early =>
           live'[r].chat = live[r].chat /\ live'[r].run = live[r].run /\ live'[r].pc \notin Early,
         Belongs(r, c)
  PROVE  Belongs(r, c)'
BY DEF Belongs

\* The target of a turn belongs to its chat, or is the turn itself.
LEMMA TargetsDiffer ==
  ASSUME WaTyped, ChatIsHeld, RunsBelong, NEW m \in Inbound, NEW n \in Inbound, m # n,
         live[m].pc \in Working, live[n].pc \in Working
  PROVE  ChatOf(m) # ChatOf(n) /\ Target(m) # Target(n)
<1>1. ChatOf(m) # ChatOf(n)
  BY DEF ChatIsHeld
<1>2. live[Target(m)].chat = ChatOf(m) /\ live[Target(n)].chat = ChatOf(n)
  BY DEF Target, RunsBelong, Belongs, ChatOf
<1> QED
  BY <1>1, <1>2

\* The target is a run with a trace.
LEMMA TargetTyped ==
  ASSUME WaTyped, NEW m \in Inbound
  PROVE  /\ Target(m) \in Inbound
         /\ runTraces[Target(m)] \in Seq(0..MaxParts) /\ Len(runTraces[Target(m)]) \in Nat
         /\ bases[Target(m)] \in Nat
BY LiveTyped DEF Target, Runs, WaTyped, WaTypeOK

-----------------------------------------------------------------------------
\* What the types say of the variables that are not of a turn.
Tables ==
  /\ stored \subseteq Inbound
  /\ conversations \in [Chats -> [run : Runs, status : {"none", "running", "failed", "completed"}]]
  /\ busyChats \subseteq Chats
  /\ sync \in [Inbound -> {"none", "found", "done"}]
  /\ runTraces \in [Inbound -> Seq(0..MaxParts)]
  /\ bases \in [Inbound -> Nat]
  /\ miscounted \in BOOLEAN
  /\ waFailures \in 0..MaxWaFailures

\* The types, variable by variable.
LEMMA TypesFromTables ==
  Tables /\ live \in [Inbound -> Live] /\ outbox \in [Chats -> Seq(Sent)] => WaTyped
BY DEF Tables, WaTyped, WaTypeOK, Live

\* Every step keeps the types.
LEMMA WaTypesOfStep ==
  ASSUME WaTyped, ChatIsHeld, TurnsOK, WaNext
  PROVE  WaTyped'
<1> USE WhatsAppAssumption
<1>0. Tables /\ live \in [Inbound -> Live] /\ outbox \in [Chats -> Seq(Sent)]
  BY DEF WaTyped, WaTypeOK, Tables
<1>1. SUFFICES Tables' /\ live' \in [Inbound -> Live] /\ outbox' \in [Chats -> Seq(Sent)]
  <2>1. (Tables /\ live \in [Inbound -> Live] /\ outbox \in [Chats -> Seq(Sent)] => WaTyped)'
    BY TypesFromTables, PTL
  <2> QED
    BY <2>1
<1>f. WaFail => waFailures' \in 0..MaxWaFailures
  BY <1>0 DEF Tables, WaFail
<1>2. ASSUME NEW m \in Inbound, NEW c \in Chats, HandleMessage(m, c)
      PROVE  Tables' /\ live' \in [Inbound -> Live] /\ outbox' \in [Chats -> Seq(Sent)]
  <2>1. live' \in [Inbound -> Live]
    BY <1>2, GoTyped DEF HandleMessage, LivePCs
  <2> QED
    BY <1>0, <1>2, <2>1 DEF HandleMessage, Tables
<1>3. ASSUME NEW m \in Inbound
      PROVE  \A p \in LivePCs : GoTo(m, p) => live' \in [Inbound -> Live]
  BY GoToStep
<1>4. ASSUME NEW m \in Inbound, SaveChat(m)
      PROVE  Tables' /\ live' \in [Inbound -> Live] /\ outbox' \in [Chats -> Seq(Sent)]
  BY <1>0, <1>f, <1>3, <1>4 DEF SaveChat, Tables, LivePCs
<1>5. ASSUME NEW m \in Inbound, FindMessage(m)
      PROVE  Tables' /\ live' \in [Inbound -> Live] /\ outbox' \in [Chats -> Seq(Sent)]
  <2>1. live' \in [Inbound -> Live]
    <3> DEFINE r == [pc |-> "insert", known |-> m \in stored]
    <3>1. Go(m, r) /\ DOMAIN r = {"pc", "known"} /\ r.pc = "insert" /\ r.known = (m \in stored)
      BY <1>5 DEF FindMessage
    <3>2. r.known \in BOOLEAN /\ r.pc \in LivePCs
      BY <3>1 DEF LivePCs
    <3> HIDE DEF r
    <3> QED
      BY <3>1, <3>2, GoTyped
  <2> QED
    BY <1>0, <1>5, <2>1 DEF FindMessage, Tables
<1>6. ASSUME NEW m \in Inbound, InsertMessage(m)
      PROVE  Tables' /\ live' \in [Inbound -> Live] /\ outbox' \in [Chats -> Seq(Sent)]
  BY <1>0, <1>3, <1>6 DEF InsertMessage, Tables, LivePCs
<1>7. ASSUME NEW m \in Inbound, SyncMessage(m)
      PROVE  Tables' /\ live' \in [Inbound -> Live] /\ outbox' \in [Chats -> Seq(Sent)]
  BY <1>0, <1>7 DEF SyncMessage, Tables
<1>8. ASSUME NEW m \in Inbound, StartReply(m)
      PROVE  Tables' /\ live' \in [Inbound -> Live] /\ outbox' \in [Chats -> Seq(Sent)]
  <2>1. ChatOf(m) \in Chats
    BY <1>8 DEF StartReply, ChatIsHeld, On
  <2>2. CASE ChatOf(m) \in busyChats
    <3>1. GoTo(m, "done") /\ SendText(ChatOf(m), "busy") /\ UNCHANGED busyChats
      BY <1>8, <2>2 DEF StartReply
    <3>2. outbox' \in [Chats -> Seq(Sent)]
      BY <2>1, <3>1, TextPosted DEF SendText
    <3> QED
      BY <1>0, <1>f, <1>3, <1>8, <3>1, <3>2 DEF StartReply, SendText, Tables, LivePCs
  <2>3. CASE ChatOf(m) \notin busyChats
    BY <1>0, <1>3, <1>8, <2>1, <2>3 DEF StartReply, Tables, LivePCs
  <2> QED
    BY <2>2, <2>3
<1>9. ASSUME NEW m \in Inbound, SaveRunning(m)
      PROVE  Tables' /\ live' \in [Inbound -> Live] /\ outbox' \in [Chats -> Seq(Sent)]
  <2>1. ChatOf(m) \in Chats
    BY <1>9 DEF SaveRunning, ChatIsHeld, On
  <2>0. waFailures' \in 0..MaxWaFailures /\ conversations' \in
          [Chats -> [run : Runs, status : {"none", "running", "failed", "completed"}]]
    <3>1. conversations[ChatOf(m)] \in [run : Runs, status : {"none", "running", "failed", "completed"}]
      BY <1>0, <2>1 DEF Tables
    <3>2. [conversations[ChatOf(m)] EXCEPT !.status = "running"]
             \in [run : Runs, status : {"none", "running", "failed", "completed"}]
      BY <3>1
    <3>3. CASE conversations' = [conversations EXCEPT ![ChatOf(m)].status = "running"] /\ UNCHANGED waFailures
      BY <1>0, <2>1, <3>2, <3>3 DEF Tables
    <3>4. CASE WaFail /\ UNCHANGED conversations
      BY <1>0, <1>f, <3>4 DEF Tables
    <3> QED
      BY <1>9, <3>3, <3>4 DEF SaveRunning
  <2>2. CASE Go(m, [pc |-> "history", run |-> conversations[ChatOf(m)].run])
    <3>1. live' \in [Inbound -> Live]
      BY <1>0, <2>1, <2>2, GoTyped DEF LivePCs, Tables
    <3> QED
      BY <1>0, <1>9, <2>0, <3>1 DEF SaveRunning, Tables
  <2>3. CASE GoTo(m, "release")
    BY <1>0, <1>3, <1>9, <2>0, <2>3 DEF SaveRunning, Tables, LivePCs
  <2> QED
    BY <1>9, <2>2, <2>3 DEF SaveRunning
<1>10. ASSUME NEW m \in Inbound, BuildHistory(m)
       PROVE  Tables' /\ live' \in [Inbound -> Live] /\ outbox' \in [Chats -> Seq(Sent)]
  <2>1. ChatOf(m) \in Chats /\ Len(outbox[ChatOf(m)]) \in Nat
    BY <1>0, <1>10 DEF BuildHistory, ChatIsHeld, On
  <2>2. live[m].run \in Runs /\ (live[m].run # NoAgentRun => live[m].run \in Inbound)
    BY LiveTyped DEF Runs
  <2>3. InitialCount(m) \in Nat
    BY <1>0, <2>1, <2>2 DEF InitialCount, Tables
  <2>4. live' \in [Inbound -> Live]
    <3>1. CASE \E n \in {InitialCount(m), Len(outbox[ChatOf(m)])} :
                 Go(m, [pc |-> "start", forward |-> live[m].run, seen |-> n])
      BY <2>1, <2>2, <2>3, <3>1, GoTyped DEF LivePCs
    <3>2. CASE GoTo(m, "release")
      BY <1>3, <3>2 DEF LivePCs
    <3> QED
      BY <1>10, <3>1, <3>2 DEF BuildHistory
  <2>5. bases' \in [Inbound -> Nat] /\ miscounted' \in BOOLEAN /\ waFailures' \in 0..MaxWaFailures
    <3>1. bases' = bases \/ bases' = [bases EXCEPT ![m] = Len(outbox[ChatOf(m)])]
      BY <1>10 DEF BuildHistory
    <3>2. miscounted' = miscounted \/ miscounted' = TRUE
      BY <1>10 DEF BuildHistory
    <3>3. waFailures' = waFailures \/ WaFail
      BY <1>10 DEF BuildHistory
    <3>4. bases' \in [Inbound -> Nat]
      BY <1>0, <2>1, <3>1 DEF Tables
    <3>5. miscounted' \in BOOLEAN
      BY <1>0, <3>2 DEF Tables
    <3>6. waFailures' \in 0..MaxWaFailures
      BY <1>0, <1>f, <3>3 DEF Tables
    <3> QED
      BY <3>4, <3>5, <3>6
  <2> QED
    BY <1>0, <1>10, <2>4, <2>5 DEF BuildHistory, Tables
<1>11. ASSUME NEW m \in Inbound, RunAgent(m)
       PROVE  Tables' /\ live' \in [Inbound -> Live] /\ outbox' \in [Chats -> Seq(Sent)]
  <2>1. live' \in [Inbound -> Live]
    <3>1. CASE Go(m, [pc |-> "running", run |-> IF live[m].run = NoAgentRun THEN m ELSE live[m].run])
      BY <3>1, LiveTyped, GoTyped DEF LivePCs, Runs
    <3> QED
      BY <1>3, <1>11, <3>1 DEF RunAgent, LivePCs
  <2>2. [k \in 1..bases[m] |-> 1] \in Seq(0..MaxParts)
    <3>1. bases[m] \in Nat /\ 1 \in 0..MaxParts
      BY <1>0 DEF Tables
    <3> QED
      BY <3>1, IsASeq
  <2>3. runTraces' \in [Inbound -> Seq(0..MaxParts)] /\ waFailures' \in 0..MaxWaFailures
    <3>1. CASE /\ runTraces' = [runTraces EXCEPT ![m] = [k \in 1..bases[m] |-> 1]]
               /\ UNCHANGED waFailures
      BY <1>0, <2>2, <3>1 DEF Tables
    <3>2. CASE UNCHANGED runTraces
      BY <1>0, <1>f, <1>11, <3>2 DEF RunAgent, Tables
    <3> QED
      BY <1>11, <3>1, <3>2 DEF RunAgent
  <2> QED
    BY <1>0, <1>11, <2>1, <2>3 DEF RunAgent, Tables
<1>t. ASSUME NEW m \in Inbound, On(m, "running"), \E parts \in 0..MaxParts : Say(m, parts)
      PROVE  runTraces' \in [Inbound -> Seq(0..MaxParts)]
  <2>1. live[m].run \in Inbound
    BY <1>t, LiveTyped DEF TurnsOK, TurnOK, Runs, On
  <2>2. PICK parts \in 0..MaxParts : Say(m, parts)
    BY <1>t
  <2>3. Append(runTraces[live[m].run], parts) \in Seq(0..MaxParts)
    BY <1>0, <2>1 DEF Tables
  <2> QED
    BY <1>0, <2>1, <2>2, <2>3 DEF Say, Tables
<1>12. ASSUME NEW m \in Inbound, OnToolResult(m)
       PROVE  Tables' /\ live' \in [Inbound -> Live] /\ outbox' \in [Chats -> Seq(Sent)]
  <2>1. live' \in [Inbound -> Live]
    BY <1>12, LiveTyped, GoTyped DEF OnToolResult, LivePCs
  <2>2. runTraces' \in [Inbound -> Seq(0..MaxParts)]
    BY <1>12, <1>t DEF OnToolResult
  <2> QED
    BY <1>0, <1>12, <2>1, <2>2 DEF OnToolResult, Tables
<1>13. ASSUME NEW m \in Inbound, EndRun(m)
       PROVE  Tables' /\ live' \in [Inbound -> Live] /\ outbox' \in [Chats -> Seq(Sent)]
  <2>1. live' \in [Inbound -> Live]
    <3>1. CASE Go(m, [pc |-> "final", forward |-> ForwardedRun(m)])
      BY <3>1, LiveTyped, GoTyped DEF ForwardedRun, LivePCs
    <3> QED
      BY <1>3, <1>13, <3>1 DEF EndRun, LivePCs
  <2>2. runTraces' \in [Inbound -> Seq(0..MaxParts)] /\ waFailures' \in 0..MaxWaFailures
    <3>1. CASE \E parts \in 0..MaxParts : Say(m, parts)
      BY <1>0, <1>f, <1>13, <1>t, <3>1 DEF EndRun, Tables
    <3>2. CASE UNCHANGED runTraces
      BY <1>0, <1>f, <1>13, <3>2 DEF EndRun, Tables
    <3> QED
      BY <1>13, <3>1, <3>2 DEF EndRun
  <2> QED
    BY <1>0, <1>13, <2>1, <2>2 DEF EndRun, Tables
<1>14. ASSUME NEW m \in Inbound, FlushMessage(m)
       PROVE  Tables' /\ live' \in [Inbound -> Live] /\ outbox' \in [Chats -> Seq(Sent)]
  <2>1. ChatOf(m) \in Chats
    BY <1>14 DEF FlushMessage, Flushing, ChatIsHeld, On
  <2>2. live[m].forward \in Inbound /\ live[m].seen + 1 \in Nat /\ live[m].part + 1 \in Nat
    BY <1>14, LiveTyped DEF FlushMessage, Flushed, Runs
  <2> DEFINE x == [run |-> live[m].forward, message |-> live[m].seen + 1, part |-> live[m].part + 1]
  <2>3. x \in Sent
    BY <2>2, SentKinds
  <2>4. CASE Go(m, [seen |-> live[m].seen + 1, part |-> 0]) /\ UNCHANGED <<outbox, waFailures>>
    <3>1. live' \in [Inbound -> Live]
      BY <2>2, <2>4, GoTyped
    <3> QED
      BY <1>0, <1>14, <2>4, <3>1 DEF FlushMessage, Tables
  <2>5. CASE /\ Post(ChatOf(m), x) /\ Go(m, [part |-> live[m].part + 1, last |-> TRUE])
             /\ UNCHANGED waFailures
    <3>1. live' \in [Inbound -> Live]
      BY <2>2, <2>5, GoTyped
    <3>2. outbox' \in [Chats -> Seq(Sent)]
      BY <2>1, <2>3, <2>5, PostStep
    <3> QED
      BY <1>0, <1>14, <2>5, <3>1, <3>2 DEF FlushMessage, Tables
  <2>6. CASE WaFail /\ GoTo(m, IF On(m, "flush") THEN "failed" ELSE "finish") /\ UNCHANGED outbox
    BY <1>0, <1>f, <1>3, <1>14, <2>6 DEF FlushMessage, Tables, LivePCs
  <2> QED
    BY <1>14, <2>4, <2>5, <2>6 DEF FlushMessage
<1>15. ASSUME NEW m \in Inbound, EndFlush(m)
       PROVE  Tables' /\ live' \in [Inbound -> Live] /\ outbox' \in [Chats -> Seq(Sent)]
  BY <1>0, <1>3, <1>15 DEF EndFlush, Tables, LivePCs
<1>16. ASSUME NEW m \in Inbound, SayDone(m)
       PROVE  Tables' /\ live' \in [Inbound -> Live] /\ outbox' \in [Chats -> Seq(Sent)]
  <2>1. ChatOf(m) \in Chats
    BY <1>16 DEF SayDone, ChatIsHeld, On
  <2>2. outbox' \in [Chats -> Seq(Sent)]
    BY <1>0, <1>16, <2>1, TextPosted DEF SayDone
  <2> QED
    BY <1>0, <1>f, <1>3, <1>16, <2>2 DEF SayDone, Tables, LivePCs
<1>17. ASSUME NEW m \in Inbound, SayError(m)
       PROVE  Tables' /\ live' \in [Inbound -> Live] /\ outbox' \in [Chats -> Seq(Sent)]
  <2>1. ChatOf(m) \in Chats /\ live[m].run \in Runs
    BY <1>17, LiveTyped DEF SayError, ChatIsHeld, On
  <2>2. outbox' \in [Chats -> Seq(Sent)]
    BY <1>0, <1>17, <2>1, TextPosted DEF SayError, SendText
  <2>3. waFailures' \in 0..MaxWaFailures /\ conversations' \in
          [Chats -> [run : Runs, status : {"none", "running", "failed", "completed"}]]
    <3>1. [run |-> live[m].run, status |-> "failed"]
            \in [run : Runs, status : {"none", "running", "failed", "completed"}]
      BY <2>1
    <3>2. CASE conversations' = [conversations EXCEPT ![ChatOf(m)] = [run |-> live[m].run, status |-> "failed"]]
      BY <1>0, <1>f, <1>17, <2>1, <3>1, <3>2 DEF SayError, SendText, Tables
    <3>3. CASE UNCHANGED conversations
      BY <1>0, <1>f, <1>17, <3>3 DEF SayError, SendText, Tables
    <3> QED
      BY <1>17, <3>2, <3>3 DEF SayError
  <2> QED
    BY <1>0, <1>3, <1>17, <2>2, <2>3 DEF SayError, Tables, LivePCs
<1>18. ASSUME NEW m \in Inbound, SaveCompleted(m)
       PROVE  Tables' /\ live' \in [Inbound -> Live] /\ outbox' \in [Chats -> Seq(Sent)]
  <2>1. ChatOf(m) \in Chats /\ live[m].run \in Runs
    BY <1>18, LiveTyped DEF SaveCompleted, ChatIsHeld, On
  <2>2. waFailures' \in 0..MaxWaFailures /\ conversations' \in
          [Chats -> [run : Runs, status : {"none", "running", "failed", "completed"}]]
    <3>1. [run |-> live[m].run, status |-> "completed"]
            \in [run : Runs, status : {"none", "running", "failed", "completed"}]
      BY <2>1
    <3>2. CASE conversations' = [conversations EXCEPT ![ChatOf(m)] = [run |-> live[m].run, status |-> "completed"]]
      BY <1>0, <1>f, <1>18, <2>1, <3>1, <3>2 DEF SaveCompleted, Tables
    <3>3. CASE UNCHANGED conversations
      BY <1>0, <1>f, <1>18, <3>3 DEF SaveCompleted, Tables
    <3> QED
      BY <1>18, <3>2, <3>3 DEF SaveCompleted
  <2> QED
    BY <1>0, <1>3, <1>18, <2>2 DEF SaveCompleted, Tables, LivePCs
<1>19. ASSUME NEW m \in Inbound, ReleaseChat(m)
       PROVE  Tables' /\ live' \in [Inbound -> Live] /\ outbox' \in [Chats -> Seq(Sent)]
  BY <1>0, <1>3, <1>19 DEF ReleaseChat, Tables, LivePCs
<1> QED
  BY <1>2, <1>4, <1>5, <1>6, <1>7, <1>8, <1>9, <1>10, <1>11, <1>12, <1>13, <1>14, <1>15, <1>16,
     <1>17, <1>18, <1>19 DEF WaNext

-----------------------------------------------------------------------------
\* The same chunks say the same.
LEMMA SameHas ==
  ASSUME SameChunks, NEW c \in Chats, NEW r, NEW k, NEW p
  PROVE  Has(c, r, k, p)' <=> Has(c, r, k, p)
BY DEF Has, SameChunks

\* A plain step leaves the runs with their chats,
LEMMA PlainBelongs ==
  ASSUME WaInv, NEW m \in Inbound, Plain(m)
  PROVE  /\ \A r \in Runs, c \in Chats \union {NoChat} : Belongs(r, c) => Belongs(r, c)'
         /\ RunsBelong'
<1> USE DEF WaInv
<1>1. ASSUME NEW r \in Runs, NEW c \in Chats \union {NoChat}, Belongs(r, c) PROVE Belongs(r, c)'
  <2>1. r \in Inbound \/ r = NoAgentRun
    BY DEF Runs
  <2>2. ASSUME r \in Inbound, live[r].pc \notin Early
        PROVE  live'[r].chat = live[r].chat /\ live'[r].run = live[r].run /\ live'[r].pc \notin Early
    BY <2>2 DEF Plain, Early, On
  <2> QED
    BY <1>1, <2>1, <2>2, StillBelongs
<1>2. \A c \in Chats : Belongs(conversations[c].run, c)'
  <2> TAKE c \in Chats
  <2>1. PICK r \in Runs : r = conversations'[c].run /\ Belongs(r, c)
    <3>1. conversations[c].run \in Runs /\ live[m].run \in Runs
      BY LiveTyped DEF WaTyped, WaTypeOK
    <3> QED
      BY <3>1 DEF Plain, RunsBelong
  <2>2. Belongs(r, c)'
    BY <1>1, <2>1
  <2> QED
    BY <2>1, <2>2 DEF Belongs
<1>3. \A n \in Inbound : Belongs(live[n].run, ChatOf(n))'
  <2> TAKE n \in Inbound
  <2>1. live[n].run \in Runs /\ ChatOf(n) \in Chats \union {NoChat}
    BY LiveTyped DEF ChatOf
  <2>2. CASE ChatOf(n)' = ChatOf(n) /\ live'[n].run = live[n].run
    <3>1. Belongs(live[n].run, ChatOf(n))
      BY DEF RunsBelong
    <3>2. PICK r \in Runs, c \in Chats \union {NoChat} : r = live[n].run /\ c = ChatOf(n)
      BY <2>1
    <3>3. Belongs(r, c)'
      BY <1>1, <3>1, <3>2
    <3> QED
      BY <2>2, <3>2, <3>3 DEF Belongs
  <2>3. CASE n = m /\ On(m, "begin") /\ live'[m].run = conversations[ChatOf(m)].run
    <3>1. ChatOf(m) \in Chats /\ ChatOf(m)' = ChatOf(m)
      BY <2>3 DEF ChatIsHeld, Plain, ChatOf, On
    <3>2. PICK r \in Runs, c \in Chats : r = conversations[ChatOf(m)].run /\ c = ChatOf(m)
      BY <3>1 DEF WaTyped, WaTypeOK
    <3>3. Belongs(r, c)'
      BY <1>1, <3>2 DEF RunsBelong
    <3> QED
      BY <2>3, <3>1, <3>2, <3>3 DEF Belongs
  <2>4. CASE n = m /\ On(m, "new") /\ live'[m].run = live[m].run
    BY <2>4 DEF TurnsOK, TurnOK, On, Early, Belongs
  <2> QED
    BY <2>2, <2>3, <2>4 DEF Plain, ChatOf, On
<1>4. \A c \in Chats : \A k \in RunParts(c)' : ChunkBelongs(c, k)'
  <2> TAKE c \in Chats
  <2>0. RunParts(c)' = RunParts(c)
    BY DEF Plain, SameChunks
  <2>1. ASSUME NEW k \in RunParts(c) PROVE ChunkBelongs(c, k)'
    <3>1. outbox'[c][k] = outbox[c][k] /\ runTraces' = runTraces
      BY DEF Plain, SameChunks
    <3>2. PICK r \in Runs : r = outbox[c][k].run
      BY ChunkTyped DEF Runs
    <3>3. Belongs(r, c) /\ outbox[c][k].message <= Len(runTraces[outbox[c][k].run])
      BY <3>2 DEF RunsBelong, ChunkBelongs
    <3>4. Belongs(r, c)'
      BY <1>1, <3>3
    <3> QED
      BY <3>1, <3>2, <3>3, <3>4 DEF ChunkBelongs, Belongs
  <2> QED
    BY <2>0, <2>1
<1> QED
  BY <1>1, <1>2, <1>3, <1>4 DEF RunsBelong

\* the forwarders ahead of what was sent,
LEMMA PlainAhead ==
  ASSUME WaInv, NEW m \in Inbound, Plain(m), ~miscounted'
  PROVE  \A n \in Inbound : AheadOf(n)'
<1> USE DEF WaInv
<1> TAKE n \in Inbound
<1>1. SUFFICES ASSUME live'[n].pc \in Counting PROVE AheadOf(n)'
  BY DEF AheadOf
<1>2. /\ live[n].pc \in Counting /\ ChatOf(n)' = ChatOf(n) /\ Target(n)' = Target(n)
      /\ live'[n].forward = live[n].forward
      /\ live'[n].seen = live[n].seen /\ live'[n].part = live[n].part
  BY <1>1 DEF Plain, ChatOf, Target, On, Counting
<1>3. ChatOf(n) \in Chats /\ ~miscounted
  BY <1>2 DEF ChatIsHeld, On, Counting, Plain
<1>4. AheadOf(n)
  BY <1>3 DEF Ahead
<1>5. \A k \in RunParts(ChatOf(n)) : outbox'[ChatOf(n)][k] = outbox[ChatOf(n)][k]
  BY <1>3 DEF Plain, SameChunks
<1>6. (RunParts(ChatOf(n)))' = RunParts(ChatOf(n))
  <2>1. PICK c \in Chats : c = ChatOf(n) /\ c = ChatOf(n)'
    BY <1>2, <1>3
  <2>2. RunParts(c)' = RunParts(c)
    BY DEF Plain, SameChunks
  <2> QED
    BY <2>1, <2>2 DEF RunParts
<1> QED
  BY <1>2, <1>4, <1>5, <1>6 DEF AheadOf, Upto

\* the chunks in order,
LEMMA PlainInOrder ==
  ASSUME WaInv, NEW m \in Inbound, Plain(m)
  PROVE  ForwardedInOrder'
<1>1. \A c \in Chats : RunParts(c)' = RunParts(c)
                       /\ \A k \in RunParts(c) : outbox'[c][k] = outbox[c][k]
  BY DEF Plain, SameChunks
<1>2. miscounted' = miscounted
  BY DEF Plain
<1> QED
  BY <1>1, <1>2 DEF WaInv, ForwardedInOrder, Before

\* what was counted sent,
LEMMA PlainTold ==
  ASSUME WaInv, NEW m \in Inbound, Plain(m), waFailures' = 0
  PROVE  \A n \in Inbound : ToldOf(n)'
<1> USE DEF WaInv
<1> TAKE n \in Inbound
<1>1. SUFFICES ASSUME live'[n].pc \in Counting PROVE ToldOf(n)'
  BY DEF ToldOf
<1>2. /\ live[n].pc \in Counting /\ ChatOf(n)' = ChatOf(n) /\ Target(n)' = Target(n)
      /\ live'[n].forward = live[n].forward /\ live'[n].run = live[n].run
      /\ live'[n].seen = live[n].seen /\ live'[n].part = live[n].part
      /\ On(n, "start")' = On(n, "start")
  BY <1>1 DEF Plain, ChatOf, Target, On, Counting
<1>3. ChatOf(n) \in Chats
  BY <1>2 DEF ChatIsHeld, On, Counting
<1>4. waFailures = 0 /\ ToldOf(n)
  BY DEF Complete, Plain
<1>5. Due(Target(n))' = Due(Target(n))
  BY <1>2 DEF Due, Plain
<1>6. PICK c \in Chats, r \in Inbound : c = ChatOf(n) /\ r = Target(n)
  BY <1>3, TargetTyped
<1>7. \A k, p : Has(c, r, k, p)' <=> Has(c, r, k, p)
  BY SameHas DEF Plain
<1>8. runTraces' = runTraces /\ bases' = bases
  BY DEF Plain
<1>9. \A k, p : Has(ChatOf(n), Target(n), k, p)' <=> Has(ChatOf(n), Target(n), k, p)
  BY <1>2, <1>6, <1>7 DEF Has
<1> QED
  BY <1>2, <1>4, <1>5, <1>8, <1>9 DEF ToldOf

\* and what is over complete: a forwarder ends once it has sent all there is.
LEMMA PlainWhole ==
  ASSUME WaInv, WaTyped', NEW m \in Inbound, Plain(m), waFailures' = 0
  PROVE  \A r \in Inbound : WholeOf(r)'
<1> USE DEF WaInv
<1> TAKE r \in Inbound
<1>1. SUFFICES ASSUME live'[r].pc \notin Early, live'[r].run = r PROVE WholeOf(r)'
  BY DEF WholeOf
<1>2. live[r].pc \notin Early /\ live[r].run = r /\ live'[r].chat = live[r].chat
  <2>1. CASE r # m
    BY <1>1, <2>1 DEF Plain
  <2>2. CASE r = m
    <3>1. live'[m].run = live[m].run
      BY <1>1, <2>2 DEF Plain, Early
    <3>2. r # NoAgentRun
      BY WhatsAppAssumption
    <3>3. live[r].pc \notin Early
      BY <1>1, <2>2, <3>1, <3>2 DEF RunsBelong, Belongs
    <3> QED
      BY <1>1, <2>2, <3>1, <3>3 DEF Plain, Early
  <2> QED
    BY <2>1, <2>2
<1>3. waFailures = 0 /\ WholeOf(r)
  BY DEF Complete, Plain
<1>4. live[r].chat \in Chats
  BY <1>2 DEF ChatIsHeld, On, ChatOf, Early
<1>5. PICK c \in Chats : c = live[r].chat
  BY <1>4
<1>6. \A k, p : Has(c, r, k, p)' <=> Has(c, r, k, p)
  BY SameHas DEF Plain
<1>7. Due(r)' = Due(r)
  BY DEF Due, Plain
<1>8. CASE \A x \in Due(r) : Has(c, r, x[1], x[2])
  <2>1. \A x \in Due(r)' : Has(c, r, x[1], x[2])'
    BY <1>6, <1>7, <1>8
  <2> QED
    BY <1>2, <1>5, <2>1 DEF WholeOf, Has
<1>9. ASSUME NEW n \in Inbound, live[n].run = r, live[n].pc \in Counting PROVE WholeOf(r)'
  <2>1. CASE live'[n].pc \in Counting
    <3>1. live'[n].run = r
      BY <1>9, <2>1 DEF Plain, On, Counting
    <3> QED
      BY <2>1, <3>1 DEF WholeOf
  <2>2. CASE live'[n].pc \notin Counting
    <3>1. n = m /\ live[m].pc = "final" /\ Flushed(m)
      BY <1>9, <2>2 DEF Plain
    <3>2. live[m].forward = r /\ live[m].seen >= Len(runTraces[r]) /\ Target(m) = r
      BY <1>9, <3>1, WhatsAppAssumption DEF TurnsOK, TurnOK, Flushed, Target
    <3>3. ChatOf(m) = c
      BY <1>5, <1>9, <3>1, WhatsAppAssumption DEF RunsBelong, Belongs
    <3>4. \A x \in Due(r) : x[1] <= live[m].seen
      BY <3>2, LiveTyped, TargetTyped DEF Due
    <3>5. \A x \in Due(r) : Has(c, r, x[1], x[2])
      <4>1. ToldOf(m)
        BY <1>3 DEF Complete
      <4> QED
        BY <3>1, <3>2, <3>3, <3>4, <4>1 DEF ToldOf, On, Counting
    <3> QED
      BY <1>8, <3>5
  <2> QED
    BY <2>1, <2>2
<1> QED
  BY <1>2, <1>3, <1>5, <1>8, <1>9 DEF WholeOf

\* A plain step keeps the invariant.
LEMMA PlainKeeps ==
  ASSUME WaInv, WaTyped', NEW m \in Inbound, Plain(m)
  PROVE  RunsBelong' /\ Ahead' /\ ForwardedInOrder' /\ Complete'
<1>1. Ahead'
  BY PlainAhead DEF Ahead
<1>2. Complete'
  BY PlainTold, PlainWhole DEF Complete
<1> QED
  BY <1>1, <1>2, PlainBelongs, PlainInOrder

-----------------------------------------------------------------------------
\* What a step makes of the claims and of a turn, for the turn it is of.
LEMMA HeldByOne ==
  ASSUME ChatIsHeld, TurnsOK, NEW m \in Inbound,
         \A n \in Inbound \ {m} : live'[n] = live[n],
         live'[m].chat = live[m].chat, ~On(m, "new"),
         live'[m].pc \in Working => live[m].pc \in Working, busyChats' = busyChats,
         TurnOK(m)'
  PROVE  ChatIsHeld' /\ TurnsOK'
<1>1. \A n \in Inbound : /\ live'[n].chat = live[n].chat
                         /\ live'[n].pc \in Working => live[n].pc \in Working
                         /\ live'[n].pc # "new" => live[n].pc # "new"
  BY DEF On
<1>2. ChatIsHeld'
  BY <1>1 DEF ChatIsHeld, ChatOf, On
<1>3. ASSUME NEW n \in Inbound \ {m} PROVE TurnOK(n)'
  BY <1>3 DEF TurnsOK, TurnOK
<1> QED
  BY <1>2, <1>3 DEF TurnsOK

\* Nothing is sent.
LEMMA SameOutbox ==
  ASSUME outbox' = outbox
  PROVE  SameChunks
BY DEF SameChunks, RunParts

\* A failure is counted.
LEMMA FailureCounts ==
  ASSUME WaTyped, WaFail
  PROVE  waFailures' # 0
BY DEF WaTyped, WaTypeOK, WaFail

\* What a turn does that is plain, and how it goes on.
Onward(m) == ChatIsHeld' /\ TurnsOK' /\ Plain(m)

\* A step to another place that is plain.
LEMMA PlainGoTo ==
  ASSUME WaInv, NEW m \in Inbound, NEW p \in LivePCs, GoTo(m, p), ~On(m, "new"),
         p \in Working => live[m].pc \in Working, busyChats' = busyChats,
         SameChunks, UNCHANGED <<runTraces, bases, miscounted>>,
         UNCHANGED waFailures \/ WaFail,
         p \notin {"begin", "history", "start", "final", "new", "chat", "flush"},
         p \in Early => live[m].pc \in Early,
         p \in {"find", "insert", "claim"} => live[m].pc \in {"chat", "find", "insert"},
         p = "running" => live[m].pc = "flush",
         p = "finish" => live[m].pc = "final",
         p = "completed" => live[m].pc = "finish",
         live[m].pc \in Counting /\ p \notin Counting =>
           WaFail \/ (live[m].pc = "final" /\ Flushed(m)),
         \A c \in Chats : \/ conversations'[c].run = conversations[c].run
                          \/ c = ChatOf(m) /\ conversations'[c].run = live[m].run
  PROVE  Onward(m)
<1> USE DEF WaInv
<1>1. /\ \A n \in Inbound \ {m} : live'[n] = live[n]
      /\ live'[m].pc = p
      /\ live'[m].chat = live[m].chat /\ live'[m].run = live[m].run
      /\ live'[m].forward = live[m].forward /\ live'[m].seen = live[m].seen
      /\ live'[m].part = live[m].part
  BY GoToStep
<1>2. waFailures' = 0 => waFailures = 0 /\ ~WaFail
  BY FailureCounts
<1>3. Plain(m)
  <2>1. live'[m].pc \in Early => live[m].pc \in Early
    BY <1>1
  <2>2. live'[m].pc \in Counting =>
          live[m].pc \in Counting /\ (live'[m].pc = "start" <=> live[m].pc = "start")
    BY <1>1 DEF Counting
  <2>3. waFailures' = 0 /\ live[m].pc \in Counting /\ live'[m].pc \notin Counting =>
          live[m].pc = "final" /\ Flushed(m)
    BY <1>1, <1>2
  <2> QED
    BY <1>1, <1>2, <2>1, <2>2, <2>3 DEF Plain
<1>4. TurnOK(m)'
  <2>1. TurnOK(m)
    BY DEF TurnsOK
  <2> QED
    BY <1>1, <2>1 DEF TurnOK, Early, Counting, Working, LivePCs, On
<1>5. ChatIsHeld' /\ TurnsOK'
  BY <1>1, <1>4, HeldByOne
<1> QED
  BY <1>3, <1>5 DEF Onward

-----------------------------------------------------------------------------
\* A message comes in, and is stored.
LEMMA HandlePlain ==
  ASSUME WaInv, NEW m \in Inbound, NEW c \in Chats, HandleMessage(m, c)
  PROVE  Onward(m)
<1> USE DEF WaInv
<1> DEFINE r == [pc |-> "chat", chat |-> c]
<1>1. live'[m] = Changed(live[m], r) /\ \A n \in Inbound \ {m} : live'[n] = live[n]
  BY GoStep DEF HandleMessage
<1>2. /\ live'[m].pc = "chat" /\ live'[m].chat = c /\ live'[m].run = live[m].run
      /\ live'[m].forward = live[m].forward /\ live'[m].seen = live[m].seen
      /\ live'[m].part = live[m].part
  BY <1>1 DEF Changed
<1>3. Plain(m)
  <2>1. SameChunks
    BY SameOutbox DEF HandleMessage
  <2> QED
    BY <1>1, <1>2, <2>1 DEF Plain, HandleMessage, On, Early, Counting
<1>4. ChatIsHeld'
  <2>1. \A n \in Inbound : live'[n].pc \in Working => n # m /\ live'[n] = live[n]
    BY <1>1, <1>2 DEF Working, Counting
  <2>2. \A n \in Inbound : live'[n].pc # "new" => live'[n].chat \in Chats
    BY <1>1, <1>2 DEF ChatIsHeld, ChatOf, On
  <2>3. busyChats' = busyChats
    BY DEF HandleMessage
  <2> QED
    BY <2>1, <2>2, <2>3 DEF ChatIsHeld, ChatOf, On
<1>5. TurnsOK'
  <2>1. \A n \in Inbound \ {m} : TurnOK(n)'
    BY <1>1 DEF TurnsOK, TurnOK
  <2>2. TurnOK(m)'
    BY <1>2 DEF TurnsOK, TurnOK, HandleMessage, On, Early, Counting
  <2> QED
    BY <2>1, <2>2 DEF TurnsOK
<1> QED
  BY <1>3, <1>4, <1>5 DEF Onward

\* Saving, looking up and inserting a message.
LEMMA StorePlain ==
  ASSUME WaInv, NEW m \in Inbound,
         SaveChat(m) \/ FindMessage(m) \/ InsertMessage(m) \/ SyncMessage(m)
  PROVE  Onward(m)
<1> USE DEF WaInv
<1>1. SameChunks
  BY SameOutbox DEF SaveChat, FindMessage, InsertMessage, SyncMessage
<1>2. /\ UNCHANGED <<runTraces, bases, miscounted>> /\ busyChats' = busyChats
      /\ conversations' = conversations
  BY DEF SaveChat, FindMessage, InsertMessage, SyncMessage
<1>3. CASE SaveChat(m)
  <2>1. PICK p \in {"find", "done"} : GoTo(m, p) /\ (UNCHANGED waFailures \/ WaFail)
    BY <1>3 DEF SaveChat
  <2>2. p \in LivePCs /\ live[m].pc = "chat"
    BY <1>3 DEF SaveChat, On, LivePCs
  <2> QED
    BY <1>1, <1>2, <2>1, <2>2, PlainGoTo DEF On, Working, Counting, Early
<1>4. CASE InsertMessage(m)
  <2>1. PICK p \in {"claim", "done"} : GoTo(m, p) /\ UNCHANGED waFailures
    BY <1>4 DEF InsertMessage
  <2>2. p \in LivePCs /\ live[m].pc = "insert"
    BY <1>4 DEF InsertMessage, On, LivePCs
  <2> QED
    BY <1>1, <1>2, <2>1, <2>2, PlainGoTo DEF On, Working, Counting, Early
<1>5. CASE FindMessage(m)
  <2>1. PICK r : r = [pc |-> "insert", known |-> m \in stored] /\ Go(m, r)
    BY <1>5 DEF FindMessage
  <2>2. live'[m] = Changed(live[m], r) /\ \A n \in Inbound \ {m} : live'[n] = live[n]
    BY <2>1, GoStep
  <2>3. DOMAIN r = {"pc", "known"} /\ r.pc = "insert"
    BY <2>1
  <2>4. /\ live'[m].pc = "insert" /\ live'[m].chat = live[m].chat /\ live'[m].run = live[m].run
        /\ live'[m].forward = live[m].forward /\ live'[m].seen = live[m].seen
        /\ live'[m].part = live[m].part
    BY <2>2, <2>3 DEF Changed
  <2>5. On(m, "find") /\ UNCHANGED waFailures
    BY <1>5 DEF FindMessage
  <2>6. Plain(m)
    BY <1>1, <1>2, <2>2, <2>4, <2>5 DEF Plain, On, Early, Counting
  <2>7. TurnOK(m)'
    BY <2>4, <2>5 DEF TurnsOK, TurnOK, On, Early, Counting
  <2>8. ChatIsHeld' /\ TurnsOK'
    BY <1>2, <2>2, <2>4, <2>5, <2>7, HeldByOne DEF On, Working, Counting
  <2> QED
    BY <2>6, <2>8 DEF Onward
<1>6. CASE SyncMessage(m)
  <2>1. live' = live /\ UNCHANGED waFailures
    BY <1>6 DEF SyncMessage
  <2>2. Plain(m)
    <3>1. live'[m].pc \in Counting => live[m].pc \in Counting
      BY <2>1
    <3>2. \A n \in Inbound : live'[n] = live[n]
      BY <2>1
    <3> QED
      BY <1>1, <1>2, <2>1, <3>2 DEF Plain
  <2>3. ChatIsHeld'
    BY <1>2, <2>1 DEF ChatIsHeld, ChatOf, On
  <2>4. TurnsOK'
    BY <2>1 DEF TurnsOK, TurnOK
  <2> QED
    BY <2>2, <2>3, <2>4 DEF Onward
<1> QED
  BY <1>3, <1>4, <1>5, <1>6

-----------------------------------------------------------------------------
\* A chat is claimed, and released.
LEMMA StartPlain ==
  ASSUME WaInv, NEW m \in Inbound, StartReply(m)
  PROVE  Onward(m)
<1> USE DEF WaInv
<1>1. ChatOf(m) \in Chats /\ live[m].pc = "claim"
  BY DEF StartReply, ChatIsHeld, On
<1>2. UNCHANGED <<runTraces, bases, miscounted>> /\ conversations' = conversations
  BY DEF StartReply
<1>3. CASE ChatOf(m) \in busyChats
  <2>1. GoTo(m, "done") /\ SendText(ChatOf(m), "busy") /\ UNCHANGED busyChats
    BY <1>3 DEF StartReply
  <2>2. SameChunks /\ (UNCHANGED waFailures \/ WaFail)
    BY <1>1, <2>1, TextPosted DEF SendText
  <2> QED
    BY <1>1, <1>2, <2>1, <2>2, PlainGoTo DEF On, LivePCs, Working, Counting, Early
<1>4. CASE ChatOf(m) \notin busyChats
  <2>1. /\ GoTo(m, "begin") /\ busyChats' = busyChats \union {ChatOf(m)}
        /\ UNCHANGED <<outbox, waFailures>>
    BY <1>4 DEF StartReply
  <2>2. /\ \A n \in Inbound \ {m} : live'[n] = live[n]
        /\ live'[m].pc = "begin"
        /\ live'[m].chat = live[m].chat /\ live'[m].run = live[m].run
        /\ live'[m].forward = live[m].forward /\ live'[m].seen = live[m].seen
        /\ live'[m].part = live[m].part
    BY <2>1, GoToStep DEF LivePCs
  <2>3. SameChunks
    BY <2>1, SameOutbox
  <2>4. Plain(m)
    BY <1>1, <1>2, <2>1, <2>2, <2>3 DEF Plain, Early, Counting
  <2>5. ChatIsHeld'
    <3>1. \A n \in Inbound : /\ live'[n].chat = live[n].chat
                             /\ live'[n].pc # "new" => live[n].pc # "new"
                             /\ live'[n].pc \in Working => n = m \/ live[n].pc \in Working
      BY <1>1, <2>2
    <3>2. \A n \in Inbound : live[n].pc \in Working => live[n].chat # live[m].chat
      BY <1>4 DEF ChatIsHeld, ChatOf
    <3> QED
      BY <1>1, <2>1, <3>1, <3>2 DEF ChatIsHeld, ChatOf, On
  <2>6. TurnsOK'
    <3>1. TurnOK(m)'
      BY <1>1, <2>2 DEF TurnsOK, TurnOK, Early, Counting
    <3>2. \A n \in Inbound \ {m} : TurnOK(n)'
      BY <2>2 DEF TurnsOK, TurnOK
    <3> QED
      BY <3>1, <3>2 DEF TurnsOK
  <2> QED
    BY <2>4, <2>5, <2>6 DEF Onward
<1> QED
  BY <1>3, <1>4

\* The chat is released.
LEMMA ReleasePlain ==
  ASSUME WaInv, NEW m \in Inbound, ReleaseChat(m)
  PROVE  Onward(m)
<1> USE DEF WaInv
<1>1. live[m].pc = "release" /\ busyChats' = busyChats \ {ChatOf(m)}
  BY DEF ReleaseChat, On
<1>2. /\ \A n \in Inbound \ {m} : live'[n] = live[n]
      /\ live'[m].pc = "done"
      /\ live'[m].chat = live[m].chat /\ live'[m].run = live[m].run
      /\ live'[m].forward = live[m].forward /\ live'[m].seen = live[m].seen
      /\ live'[m].part = live[m].part
  BY GoToStep DEF ReleaseChat, LivePCs
<1>3. SameChunks
  BY SameOutbox DEF ReleaseChat
<1>4. Plain(m)
  BY <1>1, <1>2, <1>3 DEF Plain, ReleaseChat, Early, Counting
<1>5. ChatIsHeld'
  <2>1. \A n \in Inbound : /\ live'[n].chat = live[n].chat
                           /\ live'[n].pc # "new" => live[n].pc # "new"
                           /\ live'[n].pc \in Working => n # m /\ live[n].pc \in Working
    BY <1>1, <1>2 DEF Working, Counting
  <2>2. \A n \in Inbound : live[n].pc \in Working /\ n # m => live[n].chat # live[m].chat
    BY <1>1 DEF ChatIsHeld, ChatOf, Working
  <2> QED
    BY <1>1, <2>1, <2>2 DEF ChatIsHeld, ChatOf, On
<1>6. TurnsOK'
  <2>1. TurnOK(m)'
    BY <1>1, <1>2 DEF TurnsOK, TurnOK, Early, Counting
  <2>2. \A n \in Inbound \ {m} : TurnOK(n)'
    BY <1>2 DEF TurnsOK, TurnOK
  <2> QED
    BY <2>1, <2>2 DEF TurnsOK
<1> QED
  BY <1>4, <1>5, <1>6 DEF Onward

\* The conversation is read once the chat is claimed.
LEMMA SaveRunningPlain ==
  ASSUME WaInv, NEW m \in Inbound, SaveRunning(m)
  PROVE  Onward(m)
<1> USE DEF WaInv
<1>1. ChatOf(m) \in Chats /\ live[m].pc = "begin"
  BY DEF SaveRunning, ChatIsHeld, On
<1>2. /\ UNCHANGED <<runTraces, bases, miscounted>> /\ busyChats' = busyChats
      /\ SameChunks
  BY SameOutbox DEF SaveRunning
<1>3. CASE WaFail /\ GoTo(m, "release") /\ UNCHANGED conversations
  BY <1>1, <1>2, <1>3, PlainGoTo DEF On, LivePCs, Working, Counting, Early
<1>4. CASE /\ Go(m, [pc |-> "history", run |-> conversations[ChatOf(m)].run])
           /\ conversations' = [conversations EXCEPT ![ChatOf(m)].status = "running"]
           /\ UNCHANGED waFailures
  <2> DEFINE r == [pc |-> "history", run |-> conversations[ChatOf(m)].run]
  <2>1. live'[m] = Changed(live[m], r) /\ \A n \in Inbound \ {m} : live'[n] = live[n]
    BY <1>4, GoStep
  <2>2. /\ live'[m].pc = "history" /\ live'[m].chat = live[m].chat
        /\ live'[m].run = conversations[ChatOf(m)].run
        /\ live'[m].forward = live[m].forward /\ live'[m].seen = live[m].seen
        /\ live'[m].part = live[m].part
    BY <2>1 DEF Changed
  <2>3. \A c \in Chats : conversations'[c].run = conversations[c].run
    BY <1>4 DEF WaTyped, WaTypeOK
  <2>4. Plain(m)
    BY <1>1, <1>2, <1>4, <2>1, <2>2, <2>3 DEF Plain, On, Early, Counting
  <2>5. TurnOK(m)'
    BY <1>1, <2>2 DEF TurnsOK, TurnOK, Early, Counting
  <2>6. ChatIsHeld' /\ TurnsOK'
    BY <1>1, <1>2, <2>1, <2>2, <2>5, HeldByOne DEF On, Working, Counting
  <2> QED
    BY <2>4, <2>6 DEF Onward
<1> QED
  BY <1>3, <1>4 DEF SaveRunning

\* A flush ends, and a turn ends.
LEMMA EndsPlain ==
  ASSUME WaInv, NEW m \in Inbound,
         EndFlush(m) \/ SayDone(m) \/ SayError(m) \/ SaveCompleted(m)
  PROVE  Onward(m)
<1> USE DEF WaInv
<1>1. UNCHANGED <<runTraces, bases, miscounted>> /\ busyChats' = busyChats
  BY DEF EndFlush, SayDone, SayError, SaveCompleted
<1>2. ChatOf(m) \in Chats
  BY DEF ChatIsHeld, On, EndFlush, Flushing, SayDone, SayError, SaveCompleted
<1>3. CASE EndFlush(m)
  <2>1. SameChunks /\ UNCHANGED waFailures /\ conversations' = conversations
    BY <1>3, SameOutbox DEF EndFlush
  <2>2. CASE live[m].pc = "flush"
    <3>1. GoTo(m, "running")
      BY <1>3, <2>2 DEF EndFlush, On
    <3> QED
      BY <1>1, <2>1, <2>2, <3>1, PlainGoTo DEF On, LivePCs, Working, Counting, Early
  <2>3. CASE live[m].pc = "final"
    <3>1. GoTo(m, "finish") /\ Flushed(m)
      BY <1>3, <2>3 DEF EndFlush, On
    <3> QED
      BY <1>1, <2>1, <2>3, <3>1, PlainGoTo DEF On, LivePCs, Working, Counting, Early
  <2> QED
    BY <1>3, <2>2, <2>3 DEF EndFlush, Flushing, On
<1>4. CASE SayDone(m)
  <2>1. SameChunks /\ (UNCHANGED waFailures \/ WaFail) /\ conversations' = conversations
    BY <1>2, <1>4, SameOutbox, TextPosted DEF SayDone
  <2>2. PICK p \in {"completed", "release"} : GoTo(m, p)
    BY <1>4 DEF SayDone
  <2> QED
    BY <1>1, <1>4, <2>1, <2>2, PlainGoTo DEF SayDone, On, LivePCs, Working, Counting, Early
<1>5. CASE SayError(m)
  <2>1. SameChunks /\ (UNCHANGED waFailures \/ WaFail)
    BY <1>2, <1>5, SameOutbox, TextPosted DEF SayError, SendText
  <2>2. \A c \in Chats : \/ conversations'[c].run = conversations[c].run
                         \/ c = ChatOf(m) /\ conversations'[c].run = live[m].run
    BY <1>5 DEF SayError, WaTyped, WaTypeOK
  <2> QED
    BY <1>1, <1>5, <2>1, <2>2, PlainGoTo DEF SayError, On, LivePCs, Working, Counting, Early
<1>6. CASE SaveCompleted(m)
  <2>1. SameChunks /\ (UNCHANGED waFailures \/ WaFail)
    BY <1>6, SameOutbox DEF SaveCompleted
  <2>2. \A c \in Chats : \/ conversations'[c].run = conversations[c].run
                         \/ c = ChatOf(m) /\ conversations'[c].run = live[m].run
    BY <1>6 DEF SaveCompleted, WaTyped, WaTypeOK
  <2> QED
    BY <1>1, <1>6, <2>1, <2>2, PlainGoTo DEF SaveCompleted, On, LivePCs, Working, Counting, Early
<1> QED
  BY <1>3, <1>4, <1>5, <1>6

\* A failure ends a turn, or its last flush.
LEMMA FailurePlain ==
  ASSUME WaInv, NEW m \in Inbound, WaFail,
         \/ On(m, "history") /\ GoTo(m, "release")
         \/ (On(m, "start") \/ On(m, "running") \/ On(m, "flush")) /\ GoTo(m, "failed")
         \/ On(m, "final") /\ ~Flushed(m) /\ GoTo(m, "finish"),
         UNCHANGED <<conversations, busyChats, runTraces, bases, outbox, miscounted>>
  PROVE  Onward(m)
<1>1. SameChunks
  BY SameOutbox
<1> QED
  BY <1>1, PlainGoTo DEF On, LivePCs, Working, Counting, Early

-----------------------------------------------------------------------------
\* A step of a turn that has a forwarder.
Turns(m) ==
  /\ live[m].pc \in Working /\ live'[m].pc \in Counting
  /\ \A n \in Inbound \ {m} : live'[n] = live[n]
  /\ live'[m].chat = live[m].chat
  /\ live'[m].run = IF live'[m].pc = "start" THEN live[m].run ELSE Target(m)
  /\ live'[m].pc \in Early => live[m].pc \in Early
  /\ TurnOK(m)'
  /\ UNCHANGED <<conversations, busyChats>>
  /\ miscounted => miscounted'
  /\ waFailures' = 0 => waFailures = 0
  /\ \A r \in Inbound \ {Target(m)} : runTraces'[r] = runTraces[r] /\ bases'[r] = bases[r]
  /\ \A c \in Chats : \A k \in RunParts(c) : k \in RunParts(c)' /\ outbox'[c][k] = outbox[c][k]
  /\ \A c \in Chats : \A k \in RunParts(c)' : k \notin RunParts(c) =>
       c = ChatOf(m) /\ outbox'[c][k].run = Target(m) /\ live'[m].pc # "start"

\* A step of a turn moves no claim.
LEMMA TurnHolds ==
  ASSUME WaInv, NEW m \in Inbound, Turns(m)
  PROVE  ChatIsHeld' /\ TurnsOK'
<1>1. ~On(m, "new") /\ live[m].pc \in Working
  BY DEF Turns, On, Working, Counting
<1> QED
  BY <1>1, HeldByOne DEF WaInv, Turns

\* The run a turn is about stays the same.
LEMMA SameTarget ==
  ASSUME WaInv, NEW m \in Inbound, Turns(m)
  PROVE  /\ Target(m)' = Target(m) /\ Target(m) \in Inbound
         /\ \A n \in Inbound \ {m} : Target(n)' = Target(n)
         /\ \A n \in Inbound : ChatOf(n)' = ChatOf(n)
         /\ ChatOf(m) \in Chats
<1>1. Target(m) \in Inbound /\ Target(m) # NoAgentRun
  BY TargetTyped, WhatsAppAssumption DEF WaInv
<1>2. Target(m)' = Target(m)
  BY <1>1 DEF Turns, Target
<1>3. \A n \in Inbound \ {m} : Target(n)' = Target(n)
  BY DEF Turns, Target
<1>4. \A n \in Inbound : ChatOf(n)' = ChatOf(n)
  BY DEF Turns, ChatOf
<1>5. ChatOf(m) \in Chats
  BY DEF WaInv, ChatIsHeld, Turns, On, Working, Counting
<1> QED
  BY <1>1, <1>2, <1>3, <1>4, <1>5

\* A step of a turn leaves the runs with their chats.
LEMMA TurnBelongs ==
  ASSUME WaInv, WaTyped', NEW m \in Inbound, Turns(m),
         \A c \in Chats : c = ChatOf(m) => \A k \in RunParts(c)' :
           outbox'[c][k].run = Target(m) => outbox'[c][k].message <= Len(runTraces'[Target(m)])
  PROVE  RunsBelong'
<1> USE DEF WaInv
<1>0. NoAgentRun \notin Inbound
  BY WhatsAppAssumption
<1>1. ASSUME NEW r \in Runs, NEW c, Belongs(r, c) PROVE Belongs(r, c)'
  <2>1. r \in Inbound \/ r = NoAgentRun
    BY DEF Runs
  <2>2. ASSUME r \in Inbound, r = m, live[m].run = m, live[m].pc \notin Early
        PROVE  live'[m].chat = live[m].chat /\ live'[m].run = m /\ live'[m].pc \notin Early
    <3>1. Target(m) = m
      BY <1>0, <2>2 DEF Target
    <3> QED
      BY <2>2, <3>1 DEF Turns
  <2>3. ASSUME r \in Inbound, live[r].pc \notin Early, live[r].run = r
        PROVE  live'[r].chat = live[r].chat /\ live'[r].run = live[r].run /\ live'[r].pc \notin Early
    BY <2>2, <2>3 DEF Turns
  <2> QED
    BY <1>1, <2>1, <2>3 DEF Belongs
<1>2. \A c \in Chats : Belongs(conversations[c].run, c)'
  <2> TAKE c \in Chats
  <2>1. PICK r \in Runs : r = conversations[c].run /\ r = conversations'[c].run /\ Belongs(r, c)
    BY DEF WaTyped, WaTypeOK, RunsBelong, Turns
  <2>2. Belongs(r, c)'
    BY <1>1, <2>1
  <2> QED
    BY <2>1, <2>2 DEF Belongs
<1>3. \A n \in Inbound : Belongs(live[n].run, ChatOf(n))'
  <2> TAKE n \in Inbound
  <2>1. CASE live'[n].run = live[n].run
    <3>1. PICK r \in Runs, c \in Chats \union {NoChat} : r = live[n].run /\ c = ChatOf(n)
      BY LiveTyped DEF ChatOf
    <3>2. Belongs(r, c)'
      BY <1>1, <3>1 DEF RunsBelong
    <3> QED
      BY <2>1, <3>1, <3>2, SameTarget DEF Belongs
  <2>2. CASE n = m /\ live[m].run = NoAgentRun /\ live'[m].run = m /\ live'[m].pc # "start"
    BY <2>2 DEF Belongs, Turns, ChatOf, Early, Counting
  <2>3. CASE n = m /\ live[m].run = NoAgentRun /\ live'[m].pc = "start" /\ live'[m].run = m
    BY <1>0, <2>3 DEF Turns, Target, TurnOK, Early, Counting, Belongs
  <2> QED
    BY <2>1, <2>2, <2>3 DEF Turns, Target
<1>4. \A c \in Chats : \A k \in RunParts(c)' : ChunkBelongs(c, k)'
  <2> TAKE c \in Chats
  <2>1. ASSUME NEW k \in RunParts(c)' PROVE ChunkBelongs(c, k)'
    <3>1. CASE k \in RunParts(c)
      <4>1. outbox'[c][k] = outbox[c][k] /\ outbox[c][k].run \in Inbound
        BY <3>1, ChunkTyped DEF Turns
      <4>2. PICK r \in Inbound : r = outbox[c][k].run
        BY <4>1
      <4>3. Belongs(r, c) /\ outbox[c][k].message <= Len(runTraces[r])
        BY <3>1, <4>2 DEF RunsBelong, ChunkBelongs
      <4>4. Belongs(r, c)'
        BY <1>1, <4>3 DEF Runs
      <4>5. outbox[c][k].message <= Len(runTraces'[r])
        <5>1. CASE r # Target(m)
          BY <4>3, <5>1 DEF Turns
        <5>2. CASE r = Target(m)
          <6>1. c = ChatOf(m)
            <7>1. CASE live[m].run = NoAgentRun
              BY <1>0, <4>3, <5>2, <7>1 DEF Target, Belongs, ChatOf
            <7>2. CASE live[m].run # NoAgentRun
              BY <1>0, <4>3, <5>2, <7>2 DEF Target, Belongs, RunsBelong, ChatOf
            <7> QED
              BY <7>1, <7>2
          <6> QED
            BY <4>1, <4>2, <5>2, <6>1
        <5> QED
          BY <5>1, <5>2
      <4> QED
        BY <4>1, <4>2, <4>4, <4>5 DEF ChunkBelongs, Belongs
    <3>2. CASE k \notin RunParts(c)
      <4>1. c = ChatOf(m) /\ outbox'[c][k].run = Target(m)
        BY <3>2 DEF Turns
      <4>2. live'[m].run = Target(m)
        BY <3>2 DEF Turns
      <4>3. PICK r \in Inbound : r = Target(m)
        BY SameTarget
      <4>4. Belongs(r, c)'
        BY <1>3, <4>1, <4>2, <4>3, SameTarget DEF Belongs
      <4>5. outbox'[c][k].message <= Len(runTraces'[r])
        BY <4>1, <4>3
      <4> QED
        BY <4>1, <4>3, <4>4, <4>5 DEF ChunkBelongs, Belongs
    <3> QED
      BY <3>1, <3>2
  <2> QED
    BY <2>1
<1> QED
  BY <1>2, <1>3, <1>4 DEF RunsBelong

\* The turns of other chats are left alone.
LEMMA OthersKept ==
  ASSUME WaInv, NEW m \in Inbound, Turns(m), NEW n \in Inbound \ {m}, live[n].pc \in Counting
  PROVE  /\ ~miscounted => AheadOf(n)'
         /\ waFailures = 0 => ToldOf(n)'
<1> USE DEF WaInv
<1>1. ChatOf(m) # ChatOf(n) /\ Target(n) # Target(m)
  BY TargetsDiffer DEF Turns, Working
<1>2. PICK c \in Chats, r \in Inbound :
        /\ c = ChatOf(n) /\ r = Target(n) /\ c = ChatOf(n)' /\ r = Target(n)'
        /\ r # Target(m) /\ c # ChatOf(m)
  <2>1. ChatOf(n) \in Chats
    BY DEF ChatIsHeld, On, Counting
  <2> QED
    BY <1>1, <2>1, SameTarget, TargetTyped
<1>3. live'[n] = live[n] /\ runTraces'[r] = runTraces[r] /\ bases'[r] = bases[r]
  BY <1>2 DEF Turns
<1>4. RunParts(c)' = RunParts(c) /\ \A k \in RunParts(c) : outbox'[c][k] = outbox[c][k]
  <2>1. \A k \in RunParts(c)' : k \in RunParts(c)
    BY <1>2 DEF Turns
  <2>2. \A k \in RunParts(c) : k \in RunParts(c)' /\ outbox'[c][k] = outbox[c][k]
    BY DEF Turns
  <2> QED
    BY <2>1, <2>2
<1>5. ASSUME ~miscounted PROVE AheadOf(n)'
  <2>1. AheadOf(n)
    BY <1>5 DEF Ahead
  <2>2. \A k \in RunParts(c) : outbox[c][k].run = r => live[n].forward # NoAgentRun /\ Upto(n, outbox[c][k])
    BY <1>2, <2>1 DEF AheadOf
  <2>3. \A k \in RunParts(c)' : outbox'[c][k].run = r =>
          live'[n].forward # NoAgentRun /\
          (\/ outbox'[c][k].message <= live'[n].seen
           \/ outbox'[c][k].message = live'[n].seen + 1 /\ outbox'[c][k].part <= live'[n].part)
    BY <1>3, <1>4, <2>2 DEF Upto
  <2> QED
    BY <1>2, <2>3 DEF AheadOf, Upto, RunParts
<1>6. ASSUME waFailures = 0 PROVE ToldOf(n)'
  <2>1. ToldOf(n)
    BY <1>6 DEF Complete
  <2>2. Due(r)' = Due(r)
    BY <1>3 DEF Due
  <2>3. \A k, p : Has(c, r, k, p)' <=> Has(c, r, k, p)
    BY <1>4 DEF Has
  <2>4. Due(Target(n))' = Due(Target(n))
    BY <1>2, <2>2 DEF Due
  <2>5. \A k, p : Has(ChatOf(n), Target(n), k, p)' <=> Has(ChatOf(n), Target(n), k, p)
    BY <1>2, <2>3 DEF Has, RunParts
  <2>6. runTraces'[Target(n)'] = runTraces[Target(n)] /\ bases'[Target(n)'] = bases[Target(n)]
    BY <1>2, <1>3
  <2> QED
    BY <1>3, <2>1, <2>4, <2>5, <2>6 DEF ToldOf, On
<1> QED
  BY <1>5, <1>6

\* The run of the turn has a forwarder, and the others stay as they are.
LEMMA TurnWhole ==
  ASSUME WaInv, WaTyped', RunsBelong', NEW m \in Inbound, Turns(m), waFailures' = 0
  PROVE  \A r \in Inbound : WholeOf(r)'
<1> USE DEF WaInv
<1> TAKE r \in Inbound
<1>0. NoAgentRun \notin Inbound
  BY WhatsAppAssumption
<1>1. SUFFICES ASSUME live'[r].pc \notin Early, live'[r].run = r PROVE WholeOf(r)'
  BY DEF WholeOf
<1>2. CASE r = Target(m)
  <2>1. CASE live'[m].run = r
    BY <2>1 DEF WholeOf, Turns
  <2>2. CASE live'[m].pc = "start" /\ live[m].run = NoAgentRun
    BY <1>1, <1>2, <2>2 DEF Target, Early
  <2> QED
    BY <1>2, <2>1, <2>2 DEF Turns, Target
<1>3. CASE r # Target(m)
  <2>1. r # m
    BY <1>0, <1>1, <1>3 DEF Turns, Early
  <2>2. live'[r] = live[r] /\ WholeOf(r)
    BY <2>1 DEF Turns, Complete
  <2>3. ASSUME NEW n \in Inbound, live[n].run = r, live[n].pc \in Counting PROVE WholeOf(r)'
    <3>1. n # m
      BY <1>0, <1>3, <2>3 DEF Target
    <3>2. live'[n] = live[n]
      BY <3>1 DEF Turns
    <3> QED
      BY <2>3, <3>2 DEF WholeOf
  <2>4. CASE \A x \in Due(r) : Has(live[r].chat, r, x[1], x[2])
    <3>1. PICK c \in Chats : c = live[r].chat
      BY <1>1, <2>2 DEF ChatIsHeld, ChatOf, On, Early
    <3>2. Due(r)' = Due(r)
      BY <1>3 DEF Due, Turns
    <3>3. ASSUME NEW k, NEW p, Has(c, r, k, p) PROVE Has(c, r, k, p)'
      BY <3>3 DEF Has, Turns
    <3>4. \A x \in Due(r)' : Has(c, r, x[1], x[2])'
      BY <2>4, <3>1, <3>2, <3>3
    <3> QED
      BY <2>2, <3>1, <3>4 DEF WholeOf, Has, RunParts
  <2> QED
    BY <1>1, <2>2, <2>3, <2>4 DEF WholeOf
<1> QED
  BY <1>2, <1>3

\* What is left to show of a step of a turn.
LEMMA TurnKeeps ==
  ASSUME WaInv, WaTyped', NEW m \in Inbound, Turns(m),
         \A c \in Chats : c = ChatOf(m) => \A k \in RunParts(c)' :
           outbox'[c][k].run = Target(m) => outbox'[c][k].message <= Len(runTraces'[Target(m)]),
         ~miscounted' => AheadOf(m)', waFailures' = 0 => ToldOf(m)'
  PROVE  RunsBelong' /\ Ahead' /\ Complete'
<1>1. RunsBelong'
  BY TurnBelongs
<1>2. \A n \in Inbound \ {m} : live'[n] = live[n]
  BY DEF Turns
<1>3. Ahead'
  <2>1. ASSUME ~miscounted', NEW n \in Inbound PROVE AheadOf(n)'
    BY <1>2, <2>1, OthersKept DEF Turns, AheadOf
  <2> QED
    BY <2>1 DEF Ahead
<1>4. Complete'
  <2>1. ASSUME waFailures' = 0, NEW n \in Inbound PROVE ToldOf(n)'
    BY <1>2, <2>1, OthersKept DEF Turns, ToldOf
  <2> QED
    BY <1>1, <2>1, TurnWhole DEF Complete
<1> QED
  BY <1>1, <1>3, <1>4

-----------------------------------------------------------------------------
\* The steps of a turn: what is left to show of each.
Kept == ChatIsHeld' /\ TurnsOK' /\ RunsBelong' /\ Ahead' /\ ForwardedInOrder' /\ Complete'

\* Nothing is sent, so nothing is out of order.
LEMMA SameOrder ==
  ASSUME WaInv, outbox' = outbox, miscounted => miscounted'
  PROVE  ForwardedInOrder'
<1>1. \A c \in Chats : RunParts(c)' = RunParts(c)
  BY DEF RunParts
<1> QED
  BY <1>1 DEF WaInv, ForwardedInOrder, Before

\* Where nothing is sent, the chunks are those of before.
LEMMA NothingSent ==
  ASSUME outbox' = outbox, NEW m \in Inbound
  PROVE  /\ \A c \in Chats : \A k \in RunParts(c) : k \in RunParts(c)' /\ outbox'[c][k] = outbox[c][k]
         /\ \A c \in Chats : \A k \in RunParts(c)' : k \in RunParts(c)
BY DEF RunParts

\* A chunk that says a run is of the chat the run belongs to.
LEMMA ChunksOfTarget ==
  ASSUME WaInv, NEW m \in Inbound, ChatOf(m) \in Chats,
         NEW k \in RunParts(ChatOf(m)), outbox[ChatOf(m)][k].run = Target(m)
  PROVE  /\ outbox[ChatOf(m)][k].message <= Len(runTraces[Target(m)])
         /\ live[Target(m)].pc \notin Early
BY WhatsAppAssumption, TargetTyped DEF WaInv, RunsBelong, ChunkBelongs, Belongs

\* A turn before its start has no other forwarder of its run.
LEMMA RunIsWhole ==
  ASSUME WaInv, waFailures = 0, NEW m \in Inbound, On(m, "history"), live[m].run # NoAgentRun
  PROVE  \A x \in Due(live[m].run) : Has(ChatOf(m), live[m].run, x[1], x[2])
<1> USE DEF WaInv
<1>1. PICK r \in Inbound : r = live[m].run
  BY LiveTyped DEF Runs
<1>2. live[r].chat = ChatOf(m) /\ live[r].run = r /\ live[r].pc \notin Early
  BY <1>1, WhatsAppAssumption DEF RunsBelong, Belongs
<1>3. WholeOf(r)
  BY DEF Complete
<1>4. ASSUME NEW n \in Inbound, live[n].run = r, live[n].pc \in Counting PROVE FALSE
  <2>1. live[r].chat = ChatOf(n)
    BY <1>4, WhatsAppAssumption DEF RunsBelong, Belongs
  <2>2. n = m
    BY <1>2, <1>4, <2>1 DEF ChatIsHeld, ChatOf, On, Working
  <2> QED
    BY <1>4, <2>2 DEF On, Counting
<1> QED
  BY <1>1, <1>2, <1>3, <1>4 DEF WholeOf

\* The forwarder starts to count at the end of the trace, or of the history.
LEMMA HistoryKeeps ==
  ASSUME WaInv, WaTyped', NEW m \in Inbound, BuildHistory(m)
  PROVE  Kept \/ Onward(m)
<1> USE DEF WaInv
<1>0. /\ ChatOf(m) \in Chats /\ live[m].pc = "history" /\ live[m].part = 0
      /\ live[m].run \in Runs /\ NoAgentRun \notin Inbound
      /\ outbox' = outbox /\ runTraces' = runTraces /\ UNCHANGED <<conversations, busyChats>>
  BY LiveTyped, WhatsAppAssumption DEF BuildHistory, ChatIsHeld, TurnsOK, TurnOK, On, Early
<1>1. CASE WaFail /\ GoTo(m, "release") /\ UNCHANGED <<bases, miscounted>>
  <2>1. Onward(m)
    BY <1>0, <1>1, FailurePlain DEF On
  <2> QED
    BY <2>1
<1>2. ASSUME NEW n, Go(m, [pc |-> "start", forward |-> live[m].run, seen |-> n]),
             bases' = IF live[m].run = NoAgentRun THEN [bases EXCEPT ![m] = Len(outbox[ChatOf(m)])] ELSE bases,
             \/ n = InitialCount(m) /\ UNCHANGED <<miscounted, waFailures>>
             \/ WaFail /\ miscounted' = TRUE
      PROVE  Kept
  <2> DEFINE u == [pc |-> "start", forward |-> live[m].run, seen |-> n]
  <2>1. live'[m] = Changed(live[m], u) /\ \A h \in Inbound \ {m} : live'[h] = live[h]
    BY <1>2, GoStep
  <2>2. /\ live'[m].pc = "start" /\ live'[m].chat = live[m].chat /\ live'[m].run = live[m].run
        /\ live'[m].forward = live[m].run /\ live'[m].seen = n /\ live'[m].part = 0
    BY <1>0, <2>1 DEF Changed
  <2>3. waFailures' = 0 => waFailures = 0 /\ n = InitialCount(m)
    BY <1>2, FailureCounts
  <2>4. Turns(m)
    <3>1. TurnOK(m)'
      BY <1>0, <2>2 DEF TurnsOK, TurnOK, Early, Counting
    <3>2. \A r \in Inbound \ {Target(m)} : runTraces'[r] = runTraces[r] /\ bases'[r] = bases[r]
      BY <1>0, <1>2 DEF Target, WaTyped, WaTypeOK
    <3>3. /\ live[m].pc \in Working /\ live'[m].pc \in Counting
          /\ live'[m].pc \in Early => live[m].pc \in Early
      BY <1>0, <2>2 DEF Working, Counting, Early
    <3>4. miscounted => miscounted'
      BY <1>2
    <3> QED
      BY <1>0, <2>1, <2>2, <2>3, <3>1, <3>2, <3>3, <3>4, NothingSent DEF Turns
  <2>5. ~miscounted' => n = InitialCount(m) /\ ~miscounted
    BY <1>2
  <2>6. PICK c \in Chats, r \in Inbound :
          c = ChatOf(m) /\ r = Target(m) /\ c = ChatOf(m)' /\ r = Target(m)'
    BY <2>4, SameTarget
  <2>7. ASSUME ~miscounted' PROVE AheadOf(m)'
    <3>1. ASSUME NEW k \in RunParts(c), outbox[c][k].run = r
          PROVE  live[m].run # NoAgentRun /\ outbox[c][k].message <= n
      <4>1. outbox[c][k].message <= Len(runTraces[r]) /\ live[r].pc \notin Early
        BY <2>6, <3>1, ChunksOfTarget
      <4>2. live[m].run # NoAgentRun
        BY <1>0, <2>6, <4>1 DEF Target, Early
      <4> QED
        BY <2>5, <2>6, <2>7, <4>1, <4>2 DEF InitialCount, Target
    <3>2. \A k \in RunParts(c)' : outbox'[c][k].run = r =>
            live'[m].forward # NoAgentRun /\ outbox'[c][k].message <= live'[m].seen
      BY <1>0, <2>2, <3>1, NothingSent
    <3> QED
      BY <2>6, <3>2 DEF AheadOf, Upto, RunParts
  <2>8. ASSUME waFailures' = 0 PROVE ToldOf(m)'
    <3>1. n = InitialCount(m) /\ waFailures = 0
      BY <2>3, <2>8
    <3>2. CASE live[m].run = NoAgentRun
      <4>1. r = m /\ bases'[m] = n
        BY <1>2, <2>6, <3>1, <3>2 DEF Target, InitialCount, WaTyped, WaTypeOK
      <4> QED
        BY <2>2, <2>6, <3>2, <4>1 DEF ToldOf, On
    <3>3. CASE live[m].run # NoAgentRun
      <4>1. r = live[m].run /\ n = Len(runTraces[r]) /\ n \in Nat
        BY <2>6, <3>1, <3>3, TargetTyped DEF Target, InitialCount
      <4>2. \A x \in Due(r) : Has(c, r, x[1], x[2])
        BY <1>0, <2>6, <3>1, <3>3, <4>1, RunIsWhole DEF On
      <4>3. bases' = bases
        BY <1>2, <3>3
      <4>4. \A x \in Due(r)' : Has(c, r, x[1], x[2])'
        BY <1>0, <4>2, <4>3 DEF Due, Has, RunParts
      <4>5. \A x \in Due(Target(m))' : Has(ChatOf(m), Target(m), x[1], x[2])'
        BY <2>6, <4>4 DEF Due, Has, RunParts
      <4>6. n <= Len(runTraces'[r])
        BY <1>0, <4>1
      <4> QED
        BY <2>2, <2>6, <3>3, <4>1, <4>5, <4>6 DEF ToldOf, On
    <3> QED
      BY <3>2, <3>3
  <2>9. \A d \in Chats : d = ChatOf(m) => \A k \in RunParts(d)' :
          outbox'[d][k].run = Target(m) => outbox'[d][k].message <= Len(runTraces'[Target(m)])
    BY <1>0, ChunksOfTarget, NothingSent
  <2>10. RunsBelong' /\ Ahead' /\ Complete'
    BY <2>4, <2>7, <2>8, <2>9, TurnKeeps
  <2>11. ForwardedInOrder'
    BY <1>0, <1>2, SameOrder
  <2> QED
    BY <2>4, <2>10, <2>11, TurnHolds DEF Kept
<1> QED
  BY <1>1, <1>2 DEF BuildHistory

\* The run begins; the trace of a new one is as long as the count.
LEMMA StartKeeps ==
  ASSUME WaInv, WaTyped', NEW m \in Inbound, RunAgent(m)
  PROVE  Kept \/ Onward(m)
<1> USE DEF WaInv
<1>0. /\ ChatOf(m) \in Chats /\ live[m].pc = "start" /\ live[m].part = 0
      /\ live[m].run \in Runs /\ NoAgentRun \notin Inbound /\ live[m].forward = live[m].run
      /\ outbox' = outbox /\ UNCHANGED <<conversations, busyChats, bases, miscounted>>
  BY LiveTyped, WhatsAppAssumption DEF RunAgent, ChatIsHeld, TurnsOK, TurnOK, On, Early
<1>1. CASE WaFail /\ GoTo(m, "failed") /\ UNCHANGED runTraces
  <2>1. Onward(m)
    BY <1>0, <1>1, FailurePlain DEF On
  <2> QED
    BY <2>1
<1>2. CASE /\ Go(m, [pc |-> "running", run |-> Target(m)])
           /\ runTraces' = IF live[m].run = NoAgentRun
                           THEN [runTraces EXCEPT ![m] = [k \in 1..bases[m] |-> 1]] ELSE runTraces
           /\ UNCHANGED waFailures
  <2> DEFINE u == [pc |-> "running", run |-> Target(m)]
  <2>1. live'[m] = Changed(live[m], u) /\ \A h \in Inbound \ {m} : live'[h] = live[h]
    BY <1>2, GoStep
  <2>2. /\ live'[m].pc = "running" /\ live'[m].chat = live[m].chat /\ live'[m].run = Target(m)
        /\ live'[m].forward = live[m].forward /\ live'[m].seen = live[m].seen /\ live'[m].part = 0
    BY <1>0, <2>1 DEF Changed
  <2>3. Turns(m)
    <3>1. TurnOK(m)'
      BY <1>0, <2>2 DEF TurnsOK, TurnOK, Early, Counting, Target
    <3>2. \A r \in Inbound \ {Target(m)} : runTraces'[r] = runTraces[r] /\ bases'[r] = bases[r]
      BY <1>0, <1>2 DEF Target, WaTyped, WaTypeOK
    <3>3. /\ live[m].pc \in Working /\ live'[m].pc \in Counting
          /\ live'[m].pc \in Early => live[m].pc \in Early
      BY <1>0, <2>2 DEF Working, Counting, Early
    <3> QED
      BY <1>0, <1>2, <2>1, <2>2, <3>1, <3>2, <3>3, NothingSent DEF Turns
  <2>4. PICK c \in Chats, r \in Inbound :
          c = ChatOf(m) /\ r = Target(m) /\ c = ChatOf(m)' /\ r = Target(m)'
    BY <2>3, SameTarget
  <2>5. live[m].pc \in Counting /\ live'[m].pc \in Counting
    BY <1>0, <2>2 DEF Counting
  <2>6. ASSUME ~miscounted' PROVE AheadOf(m)'
    <3>1. AheadOf(m)
      BY <1>0, <2>6 DEF Ahead
    <3>2. \A k \in RunParts(c)' : outbox'[c][k].run = r =>
            /\ live'[m].forward # NoAgentRun
            /\ \/ outbox'[c][k].message <= live'[m].seen
               \/ outbox'[c][k].message = live'[m].seen + 1 /\ outbox'[c][k].part <= live'[m].part
      BY <1>0, <2>2, <2>4, <2>5, <3>1, NothingSent DEF AheadOf, Upto
    <3> QED
      BY <2>4, <3>2 DEF AheadOf, Upto, RunParts
  <2>7. ASSUME waFailures' = 0 PROVE ToldOf(m)'
    <3>1. ToldOf(m)
      BY <1>2, <2>7 DEF Complete
    <3>2. CASE live[m].run = NoAgentRun
      <4>1. r = m /\ bases[r] = live[m].seen /\ bases' = bases /\ bases[r] \in Nat
        BY <1>0, <2>4, <2>5, <3>1, <3>2, TargetTyped DEF ToldOf, Target
      <4>2. runTraces'[r] = [k \in 1..bases[r] |-> 1]
        BY <1>2, <3>2, <4>1 DEF WaTyped, WaTypeOK
      <4>3. Len(runTraces'[r]) = bases[r]
        <5>1. Len([k \in 1..bases[r] |-> 1]) = bases[r]
          BY <4>1, LenProperties, IsASeq
        <5> QED
          BY <4>2, <5>1
      <4>4. \A x \in Due(r)' : FALSE
        BY <4>1, <4>3 DEF Due
      <4>5. \A x \in Due(Target(m))' : FALSE
        BY <2>4, <4>4 DEF Due
      <4> QED
        BY <2>2, <2>4, <4>1, <4>3, <4>5 DEF ToldOf
    <3>3. CASE live[m].run # NoAgentRun
      <4>1. runTraces' = runTraces /\ bases' = bases
        BY <1>0, <1>2, <3>3
      <4>2. /\ live[m].seen <= Len(runTraces[r])
            /\ \A x \in Due(r) : x[1] <= live[m].seen \/ (x[1] = live[m].seen + 1 /\ x[2] <= live[m].part)
                 => Has(c, r, x[1], x[2])
        BY <2>4, <2>5, <3>1, <3>3 DEF ToldOf
      <4>3. \A x \in Due(r)' : x[1] <= live'[m].seen \/ (x[1] = live'[m].seen + 1 /\ x[2] <= live'[m].part)
                 => Has(c, r, x[1], x[2])'
        BY <1>0, <2>2, <4>1, <4>2 DEF Due, Has, RunParts
      <4>4. \A x \in Due(Target(m))' : x[1] <= live'[m].seen \/ (x[1] = live'[m].seen + 1 /\ x[2] <= live'[m].part)
                 => Has(ChatOf(m), Target(m), x[1], x[2])'
        BY <2>4, <4>3 DEF Due, Has, RunParts
      <4> QED
        BY <1>0, <2>2, <2>4, <3>3, <4>1, <4>2, <4>4 DEF ToldOf
    <3> QED
      BY <3>2, <3>3
  <2>8. \A d \in Chats : d = ChatOf(m) => \A k \in RunParts(d)' :
          outbox'[d][k].run = Target(m) => outbox'[d][k].message <= Len(runTraces'[Target(m)])
    <3>1. ASSUME NEW k \in RunParts(c), outbox[c][k].run = r
          PROVE  outbox[c][k].message <= Len(runTraces'[r])
      <4>1. outbox[c][k].message <= Len(runTraces[r]) /\ live[r].pc \notin Early
        BY <2>4, <3>1, ChunksOfTarget
      <4>2. live[m].run # NoAgentRun
        BY <1>0, <2>4, <4>1 DEF Target, Early
      <4> QED
        BY <1>2, <4>1, <4>2
    <3> QED
      BY <1>0, <2>4, <3>1, NothingSent
  <2>9. RunsBelong' /\ Ahead' /\ Complete'
    BY <2>3, <2>6, <2>7, <2>8, TurnKeeps
  <2>10. ForwardedInOrder'
    BY <1>0, SameOrder
  <2> QED
    BY <2>3, <2>9, <2>10, TurnHolds DEF Kept
<1> QED
  BY <1>1, <1>2 DEF RunAgent, Target

\* The assistant says something while the turn is running.
LEMMA SayKeeps ==
  ASSUME WaInv, WaTyped', NEW m \in Inbound, On(m, "running"),
         NEW parts \in 0..MaxParts, Say(m, parts), NEW p \in {"flush", "final"},
         \A n \in Inbound \ {m} : live'[n] = live[n],
         live'[m].pc = p, live'[m].chat = live[m].chat, live'[m].run = live[m].run,
         live'[m].forward = IF p = "final" THEN live[m].run ELSE live[m].forward,
         live'[m].seen = live[m].seen, live'[m].part = live[m].part,
         UNCHANGED <<conversations, busyChats, bases, outbox, miscounted, waFailures>>
  PROVE  Kept
<1> USE DEF WaInv
<1>0. /\ ChatOf(m) \in Chats /\ live[m].pc = "running"
      /\ live[m].run \in Inbound /\ NoAgentRun \notin Inbound /\ Target(m) = live[m].run
      /\ outbox' = outbox
  BY LiveTyped, WhatsAppAssumption DEF ChatIsHeld, TurnsOK, TurnOK, On, Runs, Target
<1>1. PICK r \in Inbound : r = live[m].run
  BY <1>0
<1>2. /\ Len(runTraces[r]) \in Nat /\ Len(runTraces'[r]) = Len(runTraces[r]) + 1
      /\ \A k \in 1..Len(runTraces[r]) : runTraces'[r][k] = runTraces[r][k]
      /\ \A h \in Inbound \ {r} : runTraces'[h] = runTraces[h]
  BY <1>1 DEF Say, WaTyped, WaTypeOK
<1>3. Turns(m)
  <2>1. TurnOK(m)'
    BY <1>0 DEF TurnsOK, TurnOK, Early, Counting
  <2>2. \A h \in Inbound \ {Target(m)} : runTraces'[h] = runTraces[h] /\ bases'[h] = bases[h]
    BY <1>0, <1>1, <1>2
  <2>3. /\ live[m].pc \in Working /\ live'[m].pc \in Counting /\ live'[m].pc # "start"
        /\ live'[m].pc \in Early => live[m].pc \in Early
    BY <1>0 DEF Working, Counting, Early
  <2> QED
    BY <1>0, <2>1, <2>2, <2>3, NothingSent DEF Turns
<1>4. PICK c \in Chats : c = ChatOf(m) /\ c = ChatOf(m)' /\ r = Target(m) /\ r = Target(m)'
  BY <1>0, <1>1, <1>3, SameTarget
<1>5. live[m].pc \in Counting /\ live'[m].pc \in Counting
  BY <1>0 DEF Counting
<1>6. ASSUME ~miscounted' PROVE AheadOf(m)'
  <2>1. AheadOf(m)
    BY <1>0, <1>6 DEF Ahead
  <2>2. \A k \in RunParts(c)' : outbox'[c][k].run = r =>
          /\ live'[m].forward # NoAgentRun
          /\ \/ outbox'[c][k].message <= live'[m].seen
             \/ outbox'[c][k].message = live'[m].seen + 1 /\ outbox'[c][k].part <= live'[m].part
    BY <1>0, <1>4, <1>5, <2>1, NothingSent DEF AheadOf, Upto
  <2> QED
    BY <1>4, <2>2 DEF AheadOf, Upto, RunParts
<1>7. ASSUME waFailures' = 0 PROVE ToldOf(m)'
  <2>1. ToldOf(m)
    BY <1>7 DEF Complete
  <2>2. /\ live[m].seen <= Len(runTraces[r])
        /\ live[m].seen = Len(runTraces[r]) => live[m].part = 0
        /\ \A x \in Due(r) : x[1] <= live[m].seen \/ (x[1] = live[m].seen + 1 /\ x[2] <= live[m].part)
             => Has(c, r, x[1], x[2])
    BY <1>0, <1>4, <1>5, <2>1 DEF ToldOf, On
  <2>3. live[m].seen \in Nat /\ live[m].part \in Nat
    BY LiveTyped
  <2>4. ASSUME NEW x \in Due(r)', x[1] <= live[m].seen \/ (x[1] = live[m].seen + 1 /\ x[2] <= live[m].part)
        PROVE  Has(c, r, x[1], x[2])'
    <3>1. /\ x \in Nat \X Nat /\ x[1] \in Nat /\ x[2] \in Nat
          /\ bases[r] < x[1] /\ 1 <= x[2] /\ x[2] <= runTraces'[r][x[1]]
      BY <2>4 DEF Due
    <3>2. x[1] <= Len(runTraces[r])
      BY <1>2, <2>2, <2>3, <2>4, <3>1
    <3>3. x[1] \in 1..Len(runTraces[r])
      <4>1. bases[r] \in Nat
        BY TargetTyped, <1>4
      <4> QED
        BY <1>2, <3>1, <3>2, <4>1
    <3>4. x \in Due(r)
      BY <1>2, <3>1, <3>3 DEF Due
    <3> QED
      BY <1>0, <2>2, <2>4, <3>4 DEF Has, RunParts
  <2>5. \A x \in Due(Target(m))' :
          x[1] <= live'[m].seen \/ (x[1] = live'[m].seen + 1 /\ x[2] <= live'[m].part)
            => Has(ChatOf(m), Target(m), x[1], x[2])'
    BY <1>4, <2>4 DEF Due, Has, RunParts
  <2>6. live'[m].forward = NoAgentRun => live[m].forward = NoAgentRun
    BY <1>0
  <2>7. live'[m].forward = NoAgentRun => bases'[r] = live'[m].seen
    BY <1>4, <1>5, <2>1, <2>6 DEF ToldOf
  <2>8. live'[m].seen <= Len(runTraces'[r]) /\ live'[m].seen # Len(runTraces'[r])
    BY <1>2, <2>2, <2>3
  <2> QED
    BY <1>4, <2>5, <2>7, <2>8 DEF ToldOf
<1>8. \A d \in Chats : d = ChatOf(m) => \A k \in RunParts(d)' :
        outbox'[d][k].run = Target(m) => outbox'[d][k].message <= Len(runTraces'[Target(m)])
  <2>1. ASSUME NEW k \in RunParts(c), outbox[c][k].run = r
        PROVE  outbox[c][k].message <= Len(runTraces'[r])
    <3>1. outbox[c][k].message <= Len(runTraces[r]) /\ outbox[c][k].message \in Nat
      BY <1>4, <2>1, ChunksOfTarget, ChunkTyped
    <3> QED
      BY <1>2, <3>1
  <2> QED
    BY <1>0, <1>4, <2>1, NothingSent
<1>9. RunsBelong' /\ Ahead' /\ Complete'
  BY <1>3, <1>6, <1>7, <1>8, TurnKeeps
<1>10. ForwardedInOrder'
  BY <1>0, SameOrder
<1> QED
  BY <1>3, <1>9, <1>10, TurnHolds DEF Kept

\* A step of the model ends with a tool result or is the last one.
LEMMA RunningKeeps ==
  ASSUME WaInv, WaTyped', NEW m \in Inbound, OnToolResult(m) \/ EndRun(m)
  PROVE  Kept \/ Onward(m)
<1> USE DEF WaInv
<1>1. CASE OnToolResult(m)
  <2> DEFINE u == [pc |-> "flush", made |-> live[m].made + 1]
  <2>1. live'[m] = Changed(live[m], u) /\ \A h \in Inbound \ {m} : live'[h] = live[h]
    BY <1>1, GoStep DEF OnToolResult
  <2>2. /\ live'[m].pc = "flush" /\ live'[m].chat = live[m].chat /\ live'[m].run = live[m].run
        /\ live'[m].forward = live[m].forward /\ live'[m].seen = live[m].seen
        /\ live'[m].part = live[m].part
    BY <2>1 DEF Changed
  <2>3. PICK parts \in 0..MaxParts : Say(m, parts)
    BY <1>1 DEF OnToolResult
  <2>4. /\ On(m, "running")
        /\ UNCHANGED <<conversations, busyChats, bases, outbox, miscounted, waFailures>>
    BY <1>1 DEF OnToolResult
  <2> QED
    BY <2>1, <2>2, <2>3, <2>4, SayKeeps
<1>2. CASE EndRun(m)
  <2>1. /\ On(m, "running") /\ UNCHANGED <<conversations, busyChats, bases, outbox, miscounted>>
    BY <1>2 DEF EndRun
  <2>2. CASE WaFail /\ GoTo(m, "failed") /\ UNCHANGED runTraces
    <3>1. Onward(m)
      BY <2>1, <2>2, FailurePlain
    <3> QED
      BY <3>1
  <2>3. CASE /\ \E parts \in 0..MaxParts : Say(m, parts)
             /\ Go(m, [pc |-> "final", forward |-> ForwardedRun(m)])
             /\ UNCHANGED waFailures
    <3> DEFINE u == [pc |-> "final", forward |-> ForwardedRun(m)]
    <3>1. live'[m] = Changed(live[m], u) /\ \A h \in Inbound \ {m} : live'[h] = live[h]
      BY <2>3, GoStep
    <3>2. /\ live'[m].pc = "final" /\ live'[m].chat = live[m].chat /\ live'[m].run = live[m].run
          /\ live'[m].forward = live[m].run /\ live'[m].seen = live[m].seen
          /\ live'[m].part = live[m].part
      BY <3>1 DEF Changed, ForwardedRun
    <3>3. PICK parts \in 0..MaxParts : Say(m, parts)
      BY <2>3
    <3> QED
      BY <2>1, <2>3, <3>1, <3>2, <3>3, SayKeeps
  <2> QED
    BY <1>2, <2>2, <2>3 DEF EndRun
<1> QED
  BY <1>1, <1>2

\* The forwarder counts a message, or sends a chunk of the next one.
LEMMA FlushKeeps ==
  ASSUME WaInv, WaTyped', NEW m \in Inbound, FlushMessage(m)
  PROVE  Kept \/ Onward(m)
<1> USE DEF WaInv
<1>0. /\ ChatOf(m) \in Chats /\ live[m].pc \in {"flush", "final"}
      /\ live[m].forward # NoAgentRun /\ live[m].run # NoAgentRun
      /\ live[m].forward = live[m].run /\ Target(m) = live[m].run
      /\ NoAgentRun \notin Inbound
      /\ UNCHANGED <<conversations, busyChats, runTraces, bases, miscounted>>
  BY WhatsAppAssumption
     DEF FlushMessage, Flushing, Flushed, ChatIsHeld, TurnsOK, TurnOK, On, Target
<1>1. PICK r \in Inbound : r = live[m].run
  BY <1>0, LiveTyped DEF Runs
<1> DEFINE next == live[m].seen + 1
           part == live[m].part + 1
<1>2. /\ live[m].seen \in Nat /\ live[m].part \in Nat /\ Len(runTraces[r]) \in Nat
      /\ live[m].seen < Len(runTraces[r]) /\ live[m].pc \in Counting
      /\ runTraces[r][next] \in Nat
  <2>1. live[m].seen \in Nat /\ live[m].part \in Nat /\ Len(runTraces[r]) \in Nat
        /\ runTraces[r] \in Seq(0..MaxParts)
    BY LiveTyped DEF WaTyped, WaTypeOK
  <2>2. ~(live[m].seen >= Len(runTraces[r]))
    BY <1>0, <1>1 DEF FlushMessage, Flushed
  <2>3. next \in 1..Len(runTraces[r])
    BY <2>1, <2>2
  <2>4. runTraces[r][next] \in 0..MaxParts
    BY <2>1, <2>3, ElementOfSeq
  <2> QED
    BY <1>0, <2>1, <2>2, <2>4, WhatsAppAssumption DEF Counting
<1>3. CASE WaFail /\ GoTo(m, IF On(m, "flush") THEN "failed" ELSE "finish") /\ UNCHANGED outbox
  <2>1. ~Flushed(m)
    BY DEF FlushMessage
  <2>2. Onward(m)
    BY <1>0, <1>3, <2>1, FailurePlain DEF On
  <2> QED
    BY <2>2
<1>4. ASSUME ~miscounted PROVE AheadOf(m)
  BY <1>4 DEF Ahead
<1>5. ASSUME waFailures = 0
      PROVE  \A x \in Due(r) : x[1] <= live[m].seen \/ (x[1] = live[m].seen + 1 /\ x[2] <= live[m].part)
                  => Has(ChatOf(m), r, x[1], x[2])
  <2>1. ToldOf(m)
    BY <1>5 DEF Complete
  <2> QED
    BY <1>0, <1>1, <1>2, <2>1 DEF ToldOf, On
<1>6. CASE /\ part > runTraces[r][next]
           /\ Go(m, [seen |-> next, part |-> 0]) /\ UNCHANGED <<outbox, waFailures>>
  <2> DEFINE u == [seen |-> next, part |-> 0]
  <2>1. live'[m] = Changed(live[m], u) /\ \A h \in Inbound \ {m} : live'[h] = live[h]
    BY <1>6, GoStep
  <2>2. /\ live'[m].pc = live[m].pc /\ live'[m].chat = live[m].chat /\ live'[m].run = live[m].run
        /\ live'[m].forward = live[m].forward /\ live'[m].seen = next /\ live'[m].part = 0
    BY <2>1 DEF Changed
  <2> HIDE DEF u
  <2>3. Turns(m)
    <3>1. TurnOK(m)'
      BY <1>0, <2>2 DEF TurnsOK, TurnOK, Early, Counting
    <3>2. /\ live[m].pc \in Working /\ live'[m].pc \in Counting /\ live'[m].pc # "start"
          /\ live'[m].pc \in Early => live[m].pc \in Early
      BY <1>0, <2>2 DEF Working, Counting, Early
    <3> QED
      BY <1>0, <1>6, <2>1, <2>2, <3>1, <3>2, NothingSent DEF Turns
  <2>4. PICK c \in Chats : c = ChatOf(m) /\ c = ChatOf(m)' /\ r = Target(m) /\ r = Target(m)'
    BY <1>0, <1>1, <2>3, SameTarget
  <2>5. ASSUME ~miscounted' PROVE AheadOf(m)'
    <3>1. AheadOf(m)
      BY <1>0, <1>4, <2>5
    <3>2. \A k \in RunParts(c) : outbox[c][k].run = r => outbox[c][k].message <= next
      <4>1. ASSUME NEW k \in RunParts(c), outbox[c][k].run = r PROVE outbox[c][k].message <= next
        <5>1. outbox[c][k].message <= live[m].seen \/ outbox[c][k].message = live[m].seen + 1
          BY <1>2, <2>4, <3>1, <4>1 DEF AheadOf, Upto
        <5>2. outbox[c][k].message \in Nat
          BY ChunkTyped
        <5> QED
          BY <1>2, <5>1, <5>2
      <4> QED
        BY <4>1
    <3>3. \A k \in RunParts(c)' : outbox'[c][k].run = r =>
            /\ live'[m].forward # NoAgentRun /\ outbox'[c][k].message <= live'[m].seen
      BY <1>0, <1>6, <2>2, <3>2, NothingSent
    <3> QED
      BY <2>4, <3>3 DEF AheadOf, Upto, RunParts
  <2>6. ASSUME waFailures' = 0 PROVE ToldOf(m)'
    <3>1. ASSUME NEW x \in Due(r), x[1] <= next \/ (x[1] = next + 1 /\ x[2] <= 0)
          PROVE  Has(c, r, x[1], x[2])
      <4>1. x[1] \in Nat /\ x[2] \in Nat /\ 1 <= x[2] /\ x[2] <= runTraces[r][x[1]]
        BY DEF Due
      <4>2. x[1] <= live[m].seen \/ (x[1] = live[m].seen + 1 /\ x[2] <= live[m].part)
        <5>1. CASE x[1] = next
          <6>1. x[2] <= runTraces[r][next] /\ runTraces[r][next] < part
            BY <1>2, <1>6, <4>1, <5>1
          <6> QED
            BY <1>2, <4>1, <5>1, <6>1
        <5>2. CASE x[1] # next
          BY <1>2, <3>1, <4>1, <5>2
        <5> QED
          BY <5>1, <5>2
      <4> QED
        BY <1>5, <1>6, <2>4, <2>6, <4>2
    <3>2. \A x \in Due(Target(m))' :
            x[1] <= live'[m].seen \/ (x[1] = live'[m].seen + 1 /\ x[2] <= live'[m].part)
              => Has(ChatOf(m), Target(m), x[1], x[2])'
      BY <1>0, <1>6, <2>2, <2>4, <3>1 DEF Due, Has, RunParts
    <3>3. live'[m].seen <= Len(runTraces'[r]) /\ live'[m].part = 0 /\ live'[m].forward # NoAgentRun
      BY <1>0, <1>2, <2>2
    <3> QED
      BY <2>4, <3>2, <3>3 DEF ToldOf
  <2>7. \A d \in Chats : d = ChatOf(m) => \A k \in RunParts(d)' :
          outbox'[d][k].run = Target(m) => outbox'[d][k].message <= Len(runTraces'[Target(m)])
    BY <1>0, <1>6, ChunksOfTarget, NothingSent
  <2>8. RunsBelong' /\ Ahead' /\ Complete'
    BY <2>3, <2>5, <2>6, <2>7, TurnKeeps
  <2>9. ForwardedInOrder'
    BY <1>0, <1>6, SameOrder
  <2> QED
    BY <2>3, <2>8, <2>9, TurnHolds DEF Kept
<1>7. CASE /\ ~(part > runTraces[r][next])
           /\ Post(ChatOf(m), [run |-> r, message |-> next, part |-> part])
           /\ Go(m, [part |-> part, last |-> TRUE])
           /\ UNCHANGED waFailures
  <2> DEFINE u == [part |-> part, last |-> TRUE]
             y == [run |-> r, message |-> next, part |-> part]
  <2>1. live'[m] = Changed(live[m], u) /\ \A h \in Inbound \ {m} : live'[h] = live[h]
    BY <1>7, GoStep
  <2>2. /\ live'[m].pc = live[m].pc /\ live'[m].chat = live[m].chat /\ live'[m].run = live[m].run
        /\ live'[m].forward = live[m].forward /\ live'[m].seen = live[m].seen /\ live'[m].part = part
    BY <2>1 DEF Changed
  <2> HIDE DEF u
  <2>3. y \in Sent /\ "run" \in DOMAIN y /\ y.run = r /\ y.message = next /\ y.part = part
    BY <1>2, SentKinds
  <2>4. Post(ChatOf(m), y)
    BY <1>7
  <2> HIDE DEF y
  <2>5. PICK c \in Chats : c = ChatOf(m) /\ r = Target(m)
    BY <1>0, <1>1
  <2> DEFINE new == Len(outbox[c]) + 1
  <2>6. /\ \A d \in Chats \ {c} : outbox'[d] = outbox[d] /\ RunParts(d)' = RunParts(d)
        /\ \A k \in 1..Len(outbox[c]) : outbox'[c][k] = outbox[c][k]
        /\ outbox'[c][new] = y
        /\ RunParts(c)' = RunParts(c) \union {new}
    BY <2>3, <2>4, <2>5, PostStep
  <2>7. \A d \in Chats : \A k \in RunParts(d) : k \in 1..Len(outbox[d])
    BY DEF RunParts
  <2>8. Len(outbox[c]) \in Nat
    BY DEF WaTyped
  <2>9. Turns(m)
    <3>1. TurnOK(m)'
      BY <1>0, <2>2 DEF TurnsOK, TurnOK, Early, Counting
    <3>2. /\ live[m].pc \in Working /\ live'[m].pc \in Counting /\ live'[m].pc # "start"
          /\ live'[m].pc \in Early => live[m].pc \in Early
      BY <1>0, <2>2 DEF Working, Counting, Early
    <3>3. \A d \in Chats : \A k \in RunParts(d) : k \in RunParts(d)' /\ outbox'[d][k] = outbox[d][k]
      BY <2>6, <2>7
    <3>4. \A d \in Chats : \A k \in RunParts(d)' : k \notin RunParts(d) =>
            d = ChatOf(m) /\ outbox'[d][k].run = Target(m)
      BY <2>3, <2>5, <2>6
    <3> QED
      BY <1>0, <1>7, <2>1, <2>2, <3>1, <3>2, <3>3, <3>4 DEF Turns
  <2>10. c = ChatOf(m)' /\ r = Target(m)'
    BY <2>5, <2>9, SameTarget
  <2>11. ASSUME NEW k \in RunParts(c), outbox[c][k].run = r, ~miscounted
         PROVE  Upto(m, outbox[c][k])
    BY <1>2, <1>4, <2>5, <2>11 DEF AheadOf
  <2>12. ASSUME ~miscounted' PROVE AheadOf(m)'
    <3>1. ASSUME NEW k \in RunParts(c)', outbox'[c][k].run = r
          PROVE  \/ outbox'[c][k].message <= live[m].seen
                 \/ outbox'[c][k].message = next /\ outbox'[c][k].part <= part
      <4>1. CASE k \in RunParts(c)
        <5>1. outbox'[c][k] = outbox[c][k] /\ outbox[c][k].part \in Nat
          BY <2>6, <2>7, <4>1, ChunkTyped
        <5>2. Upto(m, outbox[c][k])
          BY <1>0, <2>11, <2>12, <3>1, <4>1, <5>1
        <5> QED
          BY <1>2, <5>1, <5>2 DEF Upto
      <4>2. CASE k = new
        BY <1>2, <2>3, <2>6, <4>2
      <4> QED
        BY <2>6, <4>1, <4>2
    <3>2. \A k \in RunParts(c)' : outbox'[c][k].run = r =>
            /\ live'[m].forward # NoAgentRun
            /\ \/ outbox'[c][k].message <= live'[m].seen
               \/ outbox'[c][k].message = live'[m].seen + 1 /\ outbox'[c][k].part <= live'[m].part
      BY <1>0, <2>2, <3>1
    <3> QED
      BY <2>10, <3>2 DEF AheadOf, Upto, RunParts
  <2>13. ASSUME waFailures' = 0 PROVE ToldOf(m)'
    <3>1. ASSUME NEW x \in Due(r), x[1] <= live[m].seen \/ (x[1] = next /\ x[2] <= part)
          PROVE  Has(c, r, x[1], x[2])'
      <4>1. x[1] \in Nat /\ x[2] \in Nat
        BY DEF Due
      <4>2. CASE x[1] = next /\ x[2] = part
        BY <2>3, <2>6, <4>2 DEF Has
      <4>3. CASE ~(x[1] = next /\ x[2] = part)
        <5>1. x[1] <= live[m].seen \/ (x[1] = live[m].seen + 1 /\ x[2] <= live[m].part)
          BY <1>2, <3>1, <4>1, <4>3
        <5>2. Has(c, r, x[1], x[2])
          BY <1>5, <1>7, <2>5, <2>13, <5>1
        <5> QED
          BY <2>6, <2>7, <5>2 DEF Has
      <4> QED
        BY <4>2, <4>3
    <3>2. Due(r)' = Due(r)
      BY <1>0 DEF Due
    <3>3. \A x \in Due(r)' : x[1] <= live'[m].seen \/ (x[1] = live'[m].seen + 1 /\ x[2] <= live'[m].part)
              => Has(c, r, x[1], x[2])'
      BY <2>2, <3>1, <3>2
    <3>4. \A x \in Due(Target(m))' :
            x[1] <= live'[m].seen \/ (x[1] = live'[m].seen + 1 /\ x[2] <= live'[m].part)
              => Has(ChatOf(m), Target(m), x[1], x[2])'
      BY <2>10, <2>5, <3>3 DEF Due, Has, RunParts
    <3>5. /\ live'[m].seen <= Len(runTraces'[r]) /\ live'[m].seen # Len(runTraces'[r])
          /\ live'[m].forward # NoAgentRun
      BY <1>0, <1>2, <2>2
    <3> QED
      BY <2>10, <3>4, <3>5 DEF ToldOf
  <2>14. \A d \in Chats : d = ChatOf(m) => \A k \in RunParts(d)' :
           outbox'[d][k].run = Target(m) => outbox'[d][k].message <= Len(runTraces'[Target(m)])
    <3>1. ASSUME NEW k \in RunParts(c)', outbox'[c][k].run = r
          PROVE  outbox'[c][k].message <= Len(runTraces[r])
      <4>1. CASE k \in RunParts(c)
        <5>1. outbox'[c][k] = outbox[c][k]
          BY <2>6, <2>7, <4>1
        <5> QED
          BY <2>5, <3>1, <4>1, <5>1, ChunksOfTarget
      <4>2. CASE k = new
        BY <1>2, <2>3, <2>6, <4>2
      <4> QED
        BY <2>6, <4>1, <4>2
    <3> QED
      BY <1>0, <2>5, <3>1
  <2>15. RunsBelong' /\ Ahead' /\ Complete'
    BY <2>9, <2>12, <2>13, <2>14, TurnKeeps
  <2>16. ForwardedInOrder'
    <3>1. ASSUME NEW d \in Chats, NEW j \in RunParts(d)', NEW k \in RunParts(d)', ~miscounted', j < k,
                 outbox'[d][j].run = outbox'[d][k].run
          PROVE  Before(outbox'[d][j], outbox'[d][k])
      <4>0. ~miscounted
        BY <1>0, <3>1
      <4>1. CASE j \in RunParts(d) /\ k \in RunParts(d)
        <5>1. outbox'[d][j] = outbox[d][j] /\ outbox'[d][k] = outbox[d][k]
          BY <2>6, <2>7, <4>1
        <5> QED
          BY <3>1, <4>0, <4>1, <5>1 DEF ForwardedInOrder
      <4>2. CASE d = c /\ j \in RunParts(d) /\ k = new
        <5>1. outbox'[c][j] = outbox[c][j] /\ outbox'[c][k] = y /\ outbox[c][j].run = r
          BY <2>3, <2>6, <2>7, <3>1, <4>2
        <5>2. Upto(m, outbox[c][j]) /\ outbox[c][j].message \in Nat /\ outbox[c][j].part \in Nat
          BY <2>11, <4>0, <4>2, <5>1, ChunkTyped
        <5> QED
          BY SMTT(30), <1>2, <2>3, <4>2, <5>1, <5>2 DEF Upto, Before
      <4>3. CASE d = c /\ j = new
        <5>1. k \in 1..Len(outbox[c]) \/ k = new
          BY <2>6, <2>7, <4>3
        <5> QED
          BY <2>8, <3>1, <4>3, <5>1
      <4> QED
        BY <2>6, <4>1, <4>2, <4>3
    <3> QED
      BY <3>1 DEF ForwardedInOrder, Before
  <2> QED
    BY <2>9, <2>15, <2>16, TurnHolds DEF Kept
<1> QED
  BY <1>0, <1>1, <1>3, <1>6, <1>7 DEF FlushMessage

-----------------------------------------------------------------------------
\* The invariant.
LEMMA WaInvHolds ==
  WaSpec => []WaInv
<1>1. WaInit => WaInv
  <2> SUFFICES ASSUME WaInit PROVE WaInv
    OBVIOUS
  <2> USE WhatsAppAssumption
  <2>1. WaTyped
    <3>1. live \in [Inbound -> Live]
      BY DEF WaInit, Live, LivePCs, Runs
    <3>2. outbox \in [Chats -> Seq(Sent)]
      <4>1. <<>> \in Seq(Sent)
        OBVIOUS
      <4> QED
        BY <4>1 DEF WaInit
    <3>3. Tables
      <4>1. <<>> \in Seq(0..MaxParts)
        OBVIOUS
      <4>2. [run |-> NoAgentRun, status |-> "none"]
              \in [run : Runs, status : {"none", "running", "failed", "completed"}]
        BY DEF Runs
      <4>3. runTraces \in [Inbound -> Seq(0..MaxParts)] /\ waFailures \in 0..MaxWaFailures
        BY <4>1 DEF WaInit
      <4>4. conversations \in [Chats -> [run : Runs, status : {"none", "running", "failed", "completed"}]]
        BY <4>2 DEF WaInit
      <4> QED
        BY <4>3, <4>4 DEF WaInit, Tables
    <3> QED
      BY <3>1, <3>2, <3>3, TypesFromTables
  <2>2. ChatIsHeld
    BY DEF WaInit, ChatIsHeld, ChatOf, On, Working, Counting
  <2>3. TurnsOK
    BY DEF WaInit, TurnsOK, TurnOK, On, Early, Counting
  <2>4. \A c \in Chats : RunParts(c) = {}
    <3> TAKE c \in Chats
    <3>1. outbox[c] = <<>> /\ Len(<<>>) = 0
      BY DEF WaInit
    <3> QED
      BY <3>1 DEF RunParts
  <2>5. RunsBelong
    BY <2>4 DEF WaInit, RunsBelong, Belongs
  <2>6. Ahead /\ ForwardedInOrder
    BY <2>4 DEF WaInit, Ahead, AheadOf, ForwardedInOrder, Counting
  <2>7. Complete
    BY DEF WaInit, Complete, ToldOf, WholeOf, Counting, Early
  <2> QED
    BY <2>1, <2>2, <2>3, <2>5, <2>6, <2>7 DEF WaInv
<1>2. WaInv /\ [WaNext]_waVars => WaInv'
  <2> SUFFICES ASSUME WaInv, [WaNext]_waVars PROVE WaInv'
    OBVIOUS
  <2>1. CASE WaNext
    <3>1. WaTyped'
      BY <2>1, WaTypesOfStep DEF WaInv
    <3>2. ASSUME NEW m \in Inbound, Kept \/ Onward(m) PROVE WaInv'
      <4>1. Kept
        BY <3>1, <3>2, PlainKeeps DEF Kept, Onward
      <4> QED
        BY <3>1, <4>1 DEF Kept, WaInv
    <3>3. ASSUME NEW m \in Inbound, NEW c \in Chats, HandleMessage(m, c) PROVE WaInv'
      BY <3>2, <3>3, HandlePlain
    <3>4. ASSUME NEW m \in Inbound,
                 SaveChat(m) \/ FindMessage(m) \/ InsertMessage(m) \/ SyncMessage(m)
          PROVE  WaInv'
      BY <3>2, <3>4, StorePlain
    <3>5. ASSUME NEW m \in Inbound, StartReply(m) \/ SaveRunning(m) \/ ReleaseChat(m) PROVE WaInv'
      BY <3>2, <3>5, StartPlain, SaveRunningPlain, ReleasePlain
    <3>6. ASSUME NEW m \in Inbound,
                 EndFlush(m) \/ SayDone(m) \/ SayError(m) \/ SaveCompleted(m)
          PROVE  WaInv'
      BY <3>2, <3>6, EndsPlain
    <3>7. ASSUME NEW m \in Inbound,
                 BuildHistory(m) \/ RunAgent(m) \/ OnToolResult(m) \/ EndRun(m) \/ FlushMessage(m)
          PROVE  WaInv'
      BY <3>1, <3>2, <3>7, HistoryKeeps, StartKeeps, RunningKeeps, FlushKeeps
    <3> QED
      BY <2>1, <3>3, <3>4, <3>5, <3>6, <3>7 DEF WaNext
  <2>2. CASE UNCHANGED waVars
    BY SMTT(30), <2>2 DEF waVars, WaInv, WaTyped, WaTypeOK, ChatIsHeld, TurnsOK, TurnOK, RunsBelong, Belongs,
                ChunkBelongs, Ahead, AheadOf, ForwardedInOrder, Before, Complete, ToldOf, WholeOf,
                Due, Has, Upto, Target, RunParts, ChatOf, On
  <2> QED
    BY <2>1, <2>2
<1> QED
  BY <1>1, <1>2, PTL DEF WaSpec

\* A turn that is completed was the only one of its run, and has no forwarder.
LEMMA WaTells ==
  WaInv => CompletedIsForwarded
<1> SUFFICES ASSUME WaInv, NEW m \in Inbound, On(m, "completed"), waFailures = 0,
                    NEW k \in (bases[live[m].run] + 1)..Len(runTraces[live[m].run]),
                    NEW p \in 1..runTraces[live[m].run][k]
             PROVE  \E i \in {i \in RunParts(ChatOf(m)) : outbox[ChatOf(m)][i].run = live[m].run} :
                      <<k, p>> = <<outbox[ChatOf(m)][i].message, outbox[ChatOf(m)][i].part>>
  BY DEF CompletedIsForwarded
<1> USE DEF WaInv
<1>0. NoAgentRun \notin Inbound
  BY WhatsAppAssumption
<1>1. live[m].run # NoAgentRun
  BY DEF TurnsOK, TurnOK, On
<1>2. PICK r \in Inbound : r = live[m].run
  BY <1>1, LiveTyped DEF Runs
<1>3. live[r].chat = ChatOf(m) /\ live[r].run = r /\ live[r].pc \notin Early
  BY <1>0, <1>2 DEF RunsBelong, Belongs
<1>4. ASSUME NEW n \in Inbound, live[n].run = r, live[n].pc \in Counting PROVE FALSE
  <2>1. ChatOf(n) = ChatOf(m)
    BY <1>0, <1>3, <1>4 DEF RunsBelong, Belongs
  <2>2. n = m
    BY <1>4, <2>1 DEF ChatIsHeld, On, Working
  <2> QED
    BY <1>4, <2>2 DEF On, Counting
<1>5. \A x \in Due(r) : Has(ChatOf(m), r, x[1], x[2])
  BY <1>3, <1>4 DEF Complete, WholeOf
<1>6. <<k, p>> \in Due(r)
  <2>1. bases[r] \in Nat /\ Len(runTraces[r]) \in Nat /\ runTraces[r] \in Seq(0..MaxParts)
    BY DEF WaTyped, WaTypeOK
  <2>2. k \in Nat /\ bases[r] < k /\ k <= Len(runTraces[r]) /\ k \in 1..Len(runTraces[r])
    BY <1>2, <2>1
  <2>3. runTraces[r][k] \in 0..MaxParts
    BY <2>1, <2>2, ElementOfSeq
  <2>4. p \in Nat /\ 1 <= p /\ p <= runTraces[r][k]
    BY <1>2, <2>3, WhatsAppAssumption
  <2> QED
    BY <2>2, <2>4 DEF Due
<1>7. Has(ChatOf(m), r, k, p)
  BY <1>5, <1>6
<1> QED
  BY <1>2, <1>7 DEF Has

\* The chunks of a run reach its chat in order and once each, over all turns
\* of the run and whatever send fails in between: FlushMessage sends what its
\* forwarder has not counted, and no other forwarder counts in the run.
THEOREM RepliesInOrder == WaSpec => []ForwardedInOrder
<1>1. WaInv => ForwardedInOrder
  BY DEF WaInv
<1> QED
  BY <1>1, WaInvHolds, PTL

\* A turn that ends without any failure has forwarded all that the assistant
\* said in it, also when its run got its id only at the end (EndRun).
THEOREM RepliesComplete == WaSpec => []CompletedIsForwarded
BY WaInvHolds, WaTells, PTL

\* What the bridge keeps has the type it should have.
THEOREM WaTypes == WaSpec => []WaTypeOK
<1>1. WaInv => WaTypeOK
  BY DEF WaInv, WaTyped
<1> QED
  BY <1>1, WaInvHolds, PTL

-----------------------------------------------------------------------------
(***************************************************************************)
(* Two turns of the Discord bot never execute one agent run, for any       *)
(* number of channels and messages.  The row that names the run was read   *)
(* before the conversation was claimed, so the claim alone is not enough:  *)
(* what saves the run is that a run, however old the row it was read from, *)
(* is only ever one of the channel itself.                                 *)
(***************************************************************************)

\* Where a turn has its conversation's claim.
Claims == {"history", "run", "running", "reply", "save", "release"}

\* A turn with the claim has its channel in flight, and no other turn of the
\* channel has it.
ClaimIsHeld ==
  \A m \in TextMessages : turns[m].pc \in Claims =>
    /\ Chan(m) \in inFlight
    /\ \A n \in TextMessages : n # m /\ turns[n].pc \in Claims => Chan(n) # Chan(m)

\* In the turns ts, run r is named by a message of channel c, which has been handled.
RunOf(ts, r, c) == r # NoRun => ts[r].channel = c /\ ts[r].pc # "unsent"

\* Rows and turns name runs of their own channel.
RunsStay ==
  /\ \A c \in TextChannels : rows[c] # NoRow => c \in DMChannels /\ RunOf(turns, rows[c], c)
  /\ \A m \in TextMessages : RunOf(turns, turns[m].conv, Chan(m)) /\ RunOf(turns, turns[m].run, Chan(m))

\* A message has a channel from the moment it is handled, which is a direct one
\* when it asks for the claim, and a run while it is executed.
Sited ==
  \A m \in TextMessages :
    IF turns[m].pc = "unsent" THEN turns[m].conv = NoRun /\ turns[m].run = NoRun
    ELSE /\ turns[m].channel \in TextChannels
         /\ turns[m].pc \in Claims \union {"claim"} => turns[m].channel \in DMChannels
         /\ turns[m].pc = "running" => turns[m].run # NoRun

ClaimInv == TextTypeOK /\ Sited /\ ClaimIsHeld /\ RunsStay

-----------------------------------------------------------------------------
Turn == [pc : TextPCs, channel : TextChannels \union {NoRow},
         conv : TextMessages \union {NoRun}, run : TextMessages \union {NoRun},
         answer : Answers]

\* The invariant holds at the start: nothing is claimed and no run is named.
LEMMA ClaimInit == TextInit => ClaimInv
  BY DiscordTextAssumption DEF TextInit, ClaimInv, TextTypeOK, Sited, ClaimIsHeld, RunsStay, RunOf, Claims, TextPCs,
     Answers, Chan

\* A stuttering step keeps it.
LEMMA ClaimStutter == ClaimInv /\ UNCHANGED textVars => ClaimInv'
  BY DEF textVars, ClaimInv, TextTypeOK, Sited, ClaimIsHeld, RunsStay, RunOf, Chan

\* A step of turn m that leaves its channel keeps the invariant, when what it
\* writes names runs of that channel and a claim that it makes is a new one.
LEMMA TurnMoves ==
  ASSUME ClaimInv, NEW m \in TextMessages, NEW t \in Turn,
         turns' = [turns EXCEPT ![m] = t],
         turns[m].pc # "unsent", t.pc # "unsent", t.channel = turns[m].channel,
         RunOf(turns, t.conv, t.channel), RunOf(turns, t.run, t.channel),
         rows' \in [TextChannels -> TextMessages \union {NoRun, NoRow}],
         \A c \in TextChannels : rows'[c] # NoRow => c \in DMChannels /\ RunOf(turns, rows'[c], c),
         t.pc \in Claims \union {"claim"} => t.channel \in DMChannels,
         t.pc = "running" => t.run # NoRun,
         inFlight' \subseteq DMChannels,
         t.pc \in Claims => /\ t.channel \in inFlight'
                            /\ turns[m].pc \in Claims \/ t.channel \notin inFlight,
         \A n \in TextMessages : n # m /\ turns[n].pc \in Claims => Chan(n) \in inFlight',
         traces' \in [TextMessages -> SUBSET TextMessages],
         mishaps' \in 0..MaxTextFailures
  PROVE  ClaimInv'
  <1>0. turns \in [TextMessages -> Turn] /\ TextTypeOK
    BY DEF ClaimInv, TextTypeOK, Turn
  <1>1. turns' \in [TextMessages -> Turn]
    BY <1>0
  <1>2. turns'[m] = t /\ \A n \in TextMessages : n # m => turns'[n] = turns[n]
    BY <1>0
  <1>3. TextTypeOK'
    BY <1>1 DEF TextTypeOK, Turn
  <1>4. \A n \in TextMessages : /\ turns'[n].channel = turns[n].channel
                                /\ turns[n].pc # "unsent" => turns'[n].pc # "unsent"
    BY <1>2
  <1>5. \A r \in TextMessages \union {NoRun} : \A c : RunOf(turns, r, c) => RunOf(turns', r, c)
    BY <1>4 DEF RunOf
  <1>6. Sited'
    BY <1>2 DEF ClaimInv, Sited
  <1>7. ClaimIsHeld'
    BY <1>0, <1>2, <1>4 DEF ClaimInv, ClaimIsHeld, Chan
  <1>8. RunsStay'
    <2>1. ASSUME NEW c \in TextChannels, rows'[c] # NoRow PROVE RunOf(turns', rows'[c], c)
      BY <2>1, <1>5
    <2>2. ASSUME NEW n \in TextMessages 
      PROVE  RunOf(turns', turns'[n].conv, turns'[n].channel) /\ RunOf(turns', turns'[n].run, turns'[n].channel)
      <3>1. CASE n = m
        BY <3>1, <1>2, <1>5 DEF Turn
      <3>2. CASE n # m
        BY <3>2, <1>0, <1>2, <1>5 DEF ClaimInv, RunsStay, Chan, Turn
      <3> QED BY <3>1, <3>2
    <2> QED BY <2>1, <2>2 DEF RunsStay, Chan
  <1> QED BY <1>3, <1>6, <1>7, <1>8 DEF ClaimInv

\* What the invariant says of a turn that has begun.
LEMMA TurnFacts ==
  ASSUME ClaimInv, NEW m \in TextMessages, turns[m].pc # "unsent"
  PROVE  /\ turns \in [TextMessages -> Turn] /\ turns[m] \in Turn
         /\ rows \in [TextChannels -> TextMessages \union {NoRun, NoRow}]
         /\ traces \in [TextMessages -> SUBSET TextMessages]
         /\ inFlight \subseteq DMChannels /\ mishaps \in 0..MaxTextFailures
         /\ Chan(m) \in TextChannels
         /\ RunOf(turns, turns[m].conv, Chan(m)) /\ RunOf(turns, turns[m].run, Chan(m))
         /\ \A c \in TextChannels : rows[c] # NoRow => c \in DMChannels /\ RunOf(turns, rows[c], c)
         /\ turns[m].pc \in Claims \union {"claim"} => Chan(m) \in DMChannels
         /\ turns[m].pc = "running" => turns[m].run # NoRun
         /\ \A n \in TextMessages : turns[n].pc \in Claims => Chan(n) \in inFlight
         /\ turns[m].pc \in Claims =>
              \A n \in TextMessages : n # m /\ turns[n].pc \in Claims => Chan(n) # Chan(m)
  BY DEF ClaimInv, TextTypeOK, Sited, ClaimIsHeld, RunsStay, Turn, Chan

\* A step that neither makes nor gives up a claim.
LEMMA SameClaim ==
  ASSUME ClaimInv, NEW m \in TextMessages, NEW t \in Turn,
         turns' = [turns EXCEPT ![m] = t],
         turns[m].pc # "unsent", t.pc # "unsent", t.channel = turns[m].channel,
         t.pc \in Claims => turns[m].pc \in Claims, UNCHANGED inFlight,
         RunOf(turns, t.conv, t.channel), RunOf(turns, t.run, t.channel),
         rows' \in [TextChannels -> TextMessages \union {NoRun, NoRow}],
         \A c \in TextChannels : rows'[c] # NoRow => c \in DMChannels /\ RunOf(turns, rows'[c], c),
         t.pc \in Claims \union {"claim"} => t.channel \in DMChannels,
         t.pc = "running" => t.run # NoRun,
         traces' \in [TextMessages -> SUBSET TextMessages],
         Mishap \/ UNCHANGED mishaps
  PROVE  ClaimInv'
  <1>1. mishaps' \in 0..MaxTextFailures
    BY TurnFacts, DiscordTextAssumption DEF Mishap
  <1>2. inFlight' \subseteq DMChannels
    BY TurnFacts
  <1>3. t.pc \in Claims => t.channel \in inFlight' /\ turns[m].pc \in Claims
    BY TurnFacts DEF Chan
  <1>4. \A n \in TextMessages : n # m /\ turns[n].pc \in Claims => Chan(n) \in inFlight'
    BY TurnFacts
  <1> QED BY <1>1, <1>2, <1>3, <1>4, TurnMoves

\* A message is handled: it names no run yet and has no claim.
LEMMA CreateKeeps ==
  ASSUME ClaimInv, NEW m \in TextMessages, NEW c \in TextChannels, MessageCreate(m, c)
  PROVE  ClaimInv'
  <1> DEFINE new(pc) == [turns[m] EXCEPT !.pc = pc, !.channel = c]
  <1>1. PICK pc \in {"resolve", "done"} : turns' = [turns EXCEPT ![m].pc = pc, ![m].channel = c]
    BY DEF MessageCreate
  <1>2. turns \in [TextMessages -> Turn] /\ turns[m].pc = "unsent" /\ pc \in TextPCs \ (Claims \union {"claim", "unsent"})
    BY DEF ClaimInv, TextTypeOK, Turn, MessageCreate, At, TextPCs, Claims
  <1>3. /\ turns'[m] = new(pc) /\ \A n \in TextMessages : n # m => turns'[n] = turns[n]
        /\ turns' \in [TextMessages -> Turn]
    BY <1>1, <1>2 DEF Turn
  <1>4. turns'[m].pc = pc /\ turns'[m].channel = c /\ turns'[m].conv = NoRun /\ turns'[m].run = NoRun
    BY <1>2, <1>3 DEF ClaimInv, Sited, Turn
  <1>5. TextTypeOK'
    BY <1>3 DEF ClaimInv, TextTypeOK, Turn, MessageCreate
  <1>6. Sited'
    BY ZenonT(60), <1>2, <1>3, <1>4 DEF ClaimInv, Sited, Claims
  <1>7. ClaimIsHeld'
    BY <1>2, <1>3, <1>4 DEF ClaimInv, ClaimIsHeld, Chan, MessageCreate
  <1>8. \A r : \A d : r \in TextMessages \union {NoRun} /\ RunOf(turns, r, d) => RunOf(turns', r, d)
    BY <1>2, <1>3 DEF RunOf
  <1>9. RunsStay'
    <2>1. ASSUME NEW d \in TextChannels, rows'[d] # NoRow
          PROVE  d \in DMChannels /\ RunOf(turns', rows'[d], d)
      BY <2>1, <1>8 DEF ClaimInv, RunsStay, TextTypeOK, MessageCreate
    <2>2. ASSUME NEW n \in TextMessages
          PROVE  RunOf(turns', turns'[n].conv, turns'[n].channel) /\ RunOf(turns', turns'[n].run, turns'[n].channel)
      <3>1. CASE n = m
        BY <3>1, <1>4 DEF RunOf
      <3>2. CASE n # m
        BY <3>2, <1>2, <1>3, <1>8 DEF ClaimInv, RunsStay, Chan, Turn
      <3> QED BY <3>1, <3>2
    <2> QED BY <2>1, <2>2 DEF RunsStay, Chan
  <1> QED BY <1>5, <1>6, <1>7, <1>9 DEF ClaimInv

\* The claim stays, or it is to be released.
LEMMA LoadConversationHistoryKeeps ==
  ASSUME ClaimInv, NEW m \in TextMessages, LoadConversationHistory(m)
  PROVE  ClaimInv'
  <1>1. turns[m].pc # "unsent"
    BY DEF LoadConversationHistory, At
  <1> USE <1>1, TurnFacts
  <1>2. CASE turns' = [turns EXCEPT ![m] = [turns[m] EXCEPT !.pc = "run"]]
    <2> DEFINE t == [turns[m] EXCEPT !.pc = "run"]
    <2>1. t \in Turn /\ t.pc # "unsent" /\ t.channel = turns[m].channel /\ t.conv = turns[m].conv /\ t.run = turns[m].run
          /\ (t.pc \in Claims => turns[m].pc \in Claims)
          /\ (t.pc \in Claims \union {"claim"} => t.channel \in DMChannels)
          /\ (t.pc = "running" => t.run # NoRun)
      BY <1>2 DEF LoadConversationHistory, At, Turn, TextPCs, Answers, Claims, Chan
    <2>2. RunOf(turns, t.conv, t.channel) /\ RunOf(turns, t.run, t.channel)
      BY <1>2, <2>1 DEF RunOf, Chan
    <2>3. /\ rows' \in [TextChannels -> TextMessages \union {NoRun, NoRow}]
          /\ \A c \in TextChannels : rows'[c] # NoRow => c \in DMChannels /\ RunOf(turns, rows'[c], c)
      BY DEF LoadConversationHistory
    <2>4. UNCHANGED inFlight /\ traces' \in [TextMessages -> SUBSET TextMessages] /\ (Mishap \/ UNCHANGED mishaps)
      BY DEF LoadConversationHistory
    <2> HIDE DEF t
    <2> QED BY <1>2, <2>1, <2>2, <2>3, <2>4, SameClaim DEF t
  <1>3. CASE turns' = [turns EXCEPT ![m] = [turns[m] EXCEPT !.answer = "error", !.pc = "release"]]
    <2> DEFINE t == [turns[m] EXCEPT !.answer = "error", !.pc = "release"]
    <2>1. t \in Turn /\ t.pc # "unsent" /\ t.channel = turns[m].channel /\ t.conv = turns[m].conv /\ t.run = turns[m].run
          /\ (t.pc \in Claims => turns[m].pc \in Claims)
          /\ (t.pc \in Claims \union {"claim"} => t.channel \in DMChannels)
          /\ (t.pc = "running" => t.run # NoRun)
      BY <1>3 DEF LoadConversationHistory, At, Turn, TextPCs, Answers, Claims, Chan
    <2>2. RunOf(turns, t.conv, t.channel) /\ RunOf(turns, t.run, t.channel)
      BY <1>3, <2>1 DEF RunOf, Chan
    <2>3. /\ rows' \in [TextChannels -> TextMessages \union {NoRun, NoRow}]
          /\ \A c \in TextChannels : rows'[c] # NoRow => c \in DMChannels /\ RunOf(turns, rows'[c], c)
      BY DEF LoadConversationHistory
    <2>4. UNCHANGED inFlight /\ traces' \in [TextMessages -> SUBSET TextMessages] /\ (Mishap \/ UNCHANGED mishaps)
      BY DEF LoadConversationHistory
    <2> HIDE DEF t
    <2> QED BY <1>3, <2>1, <2>2, <2>3, <2>4, SameClaim DEF t
  <1> QED BY <1>2, <1>3 DEF LoadConversationHistory, Continue, Answer, Turn

\* The row as it is read names a run of its channel.
LEMMA ResolveConversationKeeps ==
  ASSUME ClaimInv, NEW m \in TextMessages, ResolveConversation(m)
  PROVE  ClaimInv'
  <1>1. turns[m].pc # "unsent"
    BY DEF ResolveConversation, At
  <1> USE <1>1, TurnFacts
  <1>2. CASE turns' = [turns EXCEPT ![m] = [turns[m] EXCEPT !.pc = "create"]]
    <2> DEFINE t == [turns[m] EXCEPT !.pc = "create"]
    <2>1. t \in Turn /\ t.pc # "unsent" /\ t.channel = turns[m].channel /\ t.conv = turns[m].conv /\ t.run = turns[m].run
          /\ (t.pc \in Claims => turns[m].pc \in Claims)
          /\ (t.pc \in Claims \union {"claim"} => t.channel \in DMChannels)
          /\ (t.pc = "running" => t.run # NoRun)
      BY <1>2 DEF ResolveConversation, At, Turn, TextPCs, Answers, Claims, Chan
    <2>2. RunOf(turns, t.conv, t.channel) /\ RunOf(turns, t.run, t.channel)
      BY <1>2, <2>1 DEF RunOf, Chan
    <2>3. /\ rows' \in [TextChannels -> TextMessages \union {NoRun, NoRow}]
          /\ \A c \in TextChannels : rows'[c] # NoRow => c \in DMChannels /\ RunOf(turns, rows'[c], c)
      BY DEF ResolveConversation
    <2>4. UNCHANGED inFlight /\ traces' \in [TextMessages -> SUBSET TextMessages] /\ (Mishap \/ UNCHANGED mishaps)
      BY DEF ResolveConversation
    <2> HIDE DEF t
    <2> QED BY <1>2, <2>1, <2>2, <2>3, <2>4, SameClaim DEF t
  <1>3. CASE turns' = [turns EXCEPT ![m] = [turns[m] EXCEPT !.pc = "claim", !.conv = rows[Chan(m)]]]
                 /\ rows[Chan(m)] # NoRow
    <2> DEFINE t == [turns[m] EXCEPT !.pc = "claim", !.conv = rows[Chan(m)]]
    <2>1. t \in Turn /\ t.pc # "unsent" /\ t.channel = turns[m].channel /\ t.conv = rows[Chan(m)] /\ t.run = turns[m].run
          /\ (t.pc \in Claims => turns[m].pc \in Claims)
          /\ (t.pc \in Claims \union {"claim"} => t.channel \in DMChannels)
          /\ (t.pc = "running" => t.run # NoRun)
      BY <1>3 DEF ResolveConversation, At, Turn, TextPCs, Answers, Claims, Chan
    <2>2. RunOf(turns, t.conv, t.channel) /\ RunOf(turns, t.run, t.channel)
      BY <1>3, <2>1 DEF RunOf, Chan
    <2>3. /\ rows' \in [TextChannels -> TextMessages \union {NoRun, NoRow}]
          /\ \A c \in TextChannels : rows'[c] # NoRow => c \in DMChannels /\ RunOf(turns, rows'[c], c)
      BY DEF ResolveConversation
    <2>4. UNCHANGED inFlight /\ traces' \in [TextMessages -> SUBSET TextMessages] /\ (Mishap \/ UNCHANGED mishaps)
      BY DEF ResolveConversation
    <2> HIDE DEF t
    <2> QED BY <1>3, <2>1, <2>2, <2>3, <2>4, SameClaim DEF t
  <1>4. CASE turns' = [turns EXCEPT ![m] = [turns[m] EXCEPT !.answer = "error", !.pc = "done"]]
    <2> DEFINE t == [turns[m] EXCEPT !.answer = "error", !.pc = "done"]
    <2>1. t \in Turn /\ t.pc # "unsent" /\ t.channel = turns[m].channel /\ t.conv = turns[m].conv /\ t.run = turns[m].run
          /\ (t.pc \in Claims => turns[m].pc \in Claims)
          /\ (t.pc \in Claims \union {"claim"} => t.channel \in DMChannels)
          /\ (t.pc = "running" => t.run # NoRun)
      BY <1>4 DEF ResolveConversation, At, Turn, TextPCs, Answers, Claims, Chan
    <2>2. RunOf(turns, t.conv, t.channel) /\ RunOf(turns, t.run, t.channel)
      BY <1>4, <2>1 DEF RunOf, Chan
    <2>3. /\ rows' \in [TextChannels -> TextMessages \union {NoRun, NoRow}]
          /\ \A c \in TextChannels : rows'[c] # NoRow => c \in DMChannels /\ RunOf(turns, rows'[c], c)
      BY DEF ResolveConversation
    <2>4. UNCHANGED inFlight /\ traces' \in [TextMessages -> SUBSET TextMessages] /\ (Mishap \/ UNCHANGED mishaps)
      BY DEF ResolveConversation
    <2> HIDE DEF t
    <2> QED BY <1>4, <2>1, <2>2, <2>3, <2>4, SameClaim DEF t
  <1> QED BY <1>2, <1>3, <1>4 DEF ResolveConversation, Continue, Answer, Turn

\* A new row names no run.
LEMMA CreateConversationKeeps ==
  ASSUME ClaimInv, NEW m \in TextMessages, CreateConversation(m)
  PROVE  ClaimInv'
  <1>1. turns[m].pc # "unsent"
    BY DEF CreateConversation, At
  <1> USE <1>1, TurnFacts
  <1>2. CASE turns' = [turns EXCEPT ![m] = [turns[m] EXCEPT !.pc = "claim"]]
                 /\ Chan(m) \in DMChannels
    <2> DEFINE t == [turns[m] EXCEPT !.pc = "claim"]
    <2>1. t \in Turn /\ t.pc # "unsent" /\ t.channel = turns[m].channel /\ t.conv = turns[m].conv /\ t.run = turns[m].run
          /\ (t.pc \in Claims => turns[m].pc \in Claims)
          /\ (t.pc \in Claims \union {"claim"} => t.channel \in DMChannels)
          /\ (t.pc = "running" => t.run # NoRun)
      BY <1>2 DEF CreateConversation, At, Turn, TextPCs, Answers, Claims, Chan
    <2>2. RunOf(turns, t.conv, t.channel) /\ RunOf(turns, t.run, t.channel)
      BY <1>2, <2>1 DEF RunOf, Chan
    <2>3. /\ rows' \in [TextChannels -> TextMessages \union {NoRun, NoRow}]
          /\ \A c \in TextChannels : rows'[c] # NoRow => c \in DMChannels /\ RunOf(turns, rows'[c], c)
      BY DEF CreateConversation, RunOf, Chan, At, Claims, Turn
    <2>4. UNCHANGED inFlight /\ traces' \in [TextMessages -> SUBSET TextMessages] /\ (Mishap \/ UNCHANGED mishaps)
      BY DEF CreateConversation
    <2> HIDE DEF t
    <2> QED BY <1>2, <2>1, <2>2, <2>3, <2>4, SameClaim DEF t
  <1>3. CASE turns' = [turns EXCEPT ![m] = [turns[m] EXCEPT !.answer = "error", !.pc = "done"]]
    <2> DEFINE t == [turns[m] EXCEPT !.answer = "error", !.pc = "done"]
    <2>1. t \in Turn /\ t.pc # "unsent" /\ t.channel = turns[m].channel /\ t.conv = turns[m].conv /\ t.run = turns[m].run
          /\ (t.pc \in Claims => turns[m].pc \in Claims)
          /\ (t.pc \in Claims \union {"claim"} => t.channel \in DMChannels)
          /\ (t.pc = "running" => t.run # NoRun)
      BY <1>3 DEF CreateConversation, At, Turn, TextPCs, Answers, Claims, Chan
    <2>2. RunOf(turns, t.conv, t.channel) /\ RunOf(turns, t.run, t.channel)
      BY <1>3, <2>1 DEF RunOf, Chan
    <2>3. /\ rows' \in [TextChannels -> TextMessages \union {NoRun, NoRow}]
          /\ \A c \in TextChannels : rows'[c] # NoRow => c \in DMChannels /\ RunOf(turns, rows'[c], c)
      BY DEF CreateConversation, RunOf, Chan, At, Claims, Turn
    <2>4. UNCHANGED inFlight /\ traces' \in [TextMessages -> SUBSET TextMessages] /\ (Mishap \/ UNCHANGED mishaps)
      BY DEF CreateConversation
    <2> HIDE DEF t
    <2> QED BY <1>3, <2>1, <2>2, <2>3, <2>4, SameClaim DEF t
  <1> QED BY <1>2, <1>3 DEF CreateConversation, Continue, Answer, Turn

\* The turn executes the run of the row, or a new one that it names itself.
LEMMA RunChatKeeps ==
  ASSUME ClaimInv, NEW m \in TextMessages, RunChat(m)
  PROVE  ClaimInv'
  <1>1. turns[m].pc # "unsent"
    BY DEF RunChat, At
  <1> USE <1>1, TurnFacts
  <1>2. CASE turns' = [turns EXCEPT ![m] = [turns[m] EXCEPT !.pc = "running", !.run = turns[m].conv]]
                 /\ turns[m].conv # NoRun
    <2> DEFINE t == [turns[m] EXCEPT !.pc = "running", !.run = turns[m].conv]
    <2>1. t \in Turn /\ t.pc # "unsent" /\ t.channel = turns[m].channel /\ t.conv = turns[m].conv /\ t.run = turns[m].conv
          /\ (t.pc \in Claims => turns[m].pc \in Claims)
          /\ (t.pc \in Claims \union {"claim"} => t.channel \in DMChannels)
          /\ (t.pc = "running" => t.run # NoRun)
      BY <1>2, DiscordTextAssumption DEF RunChat, At, Turn, TextPCs, Answers, Claims, Chan
    <2>2. RunOf(turns, t.conv, t.channel) /\ RunOf(turns, t.run, t.channel)
      BY <1>2, <2>1 DEF RunOf, Chan
    <2>3. /\ rows' \in [TextChannels -> TextMessages \union {NoRun, NoRow}]
          /\ \A c \in TextChannels : rows'[c] # NoRow => c \in DMChannels /\ RunOf(turns, rows'[c], c)
      BY DEF RunChat
    <2>4. UNCHANGED inFlight /\ traces' \in [TextMessages -> SUBSET TextMessages] /\ (Mishap \/ UNCHANGED mishaps)
      BY DEF RunChat
    <2> HIDE DEF t
    <2> QED BY <1>2, <2>1, <2>2, <2>3, <2>4, SameClaim DEF t
  <1>3. CASE turns' = [turns EXCEPT ![m] = [turns[m] EXCEPT !.pc = "running", !.run = m]]
    <2> DEFINE t == [turns[m] EXCEPT !.pc = "running", !.run = m]
    <2>1. t \in Turn /\ t.pc # "unsent" /\ t.channel = turns[m].channel /\ t.conv = turns[m].conv /\ t.run = m
          /\ (t.pc \in Claims => turns[m].pc \in Claims)
          /\ (t.pc \in Claims \union {"claim"} => t.channel \in DMChannels)
          /\ (t.pc = "running" => t.run # NoRun)
      BY <1>3, DiscordTextAssumption DEF RunChat, At, Turn, TextPCs, Answers, Claims, Chan
    <2>2. RunOf(turns, t.conv, t.channel) /\ RunOf(turns, t.run, t.channel)
      BY <1>3, <2>1 DEF RunOf, Chan
    <2>3. /\ rows' \in [TextChannels -> TextMessages \union {NoRun, NoRow}]
          /\ \A c \in TextChannels : rows'[c] # NoRow => c \in DMChannels /\ RunOf(turns, rows'[c], c)
      BY DEF RunChat
    <2>4. UNCHANGED inFlight /\ traces' \in [TextMessages -> SUBSET TextMessages] /\ (Mishap \/ UNCHANGED mishaps)
      BY DEF RunChat
    <2> HIDE DEF t
    <2> QED BY <1>3, <2>1, <2>2, <2>3, <2>4, SameClaim DEF t
  <1> QED BY <1>2, <1>3 DEF RunChat, Continue, Answer, Turn

\* The trace is stored, or the turn has no run any more.
LEMMA EndChatKeeps ==
  ASSUME ClaimInv, NEW m \in TextMessages, EndChat(m)
  PROVE  ClaimInv'
  <1>1. turns[m].pc # "unsent"
    BY DEF EndChat, At
  <1> USE <1>1, TurnFacts
  <1>2. CASE turns' = [turns EXCEPT ![m] = [turns[m] EXCEPT !.pc = "reply"]]
    <2> DEFINE t == [turns[m] EXCEPT !.pc = "reply"]
    <2>1. t \in Turn /\ t.pc # "unsent" /\ t.channel = turns[m].channel /\ t.conv = turns[m].conv /\ t.run = turns[m].run
          /\ (t.pc \in Claims => turns[m].pc \in Claims)
          /\ (t.pc \in Claims \union {"claim"} => t.channel \in DMChannels)
          /\ (t.pc = "running" => t.run # NoRun)
      BY <1>2 DEF EndChat, At, Turn, TextPCs, Answers, Claims, Chan
    <2>2. RunOf(turns, t.conv, t.channel) /\ RunOf(turns, t.run, t.channel)
      BY <1>2, <2>1 DEF RunOf, Chan
    <2>3. /\ rows' \in [TextChannels -> TextMessages \union {NoRun, NoRow}]
          /\ \A c \in TextChannels : rows'[c] # NoRow => c \in DMChannels /\ RunOf(turns, rows'[c], c)
      BY DEF EndChat
    <2>4. UNCHANGED inFlight /\ traces' \in [TextMessages -> SUBSET TextMessages] /\ (Mishap \/ UNCHANGED mishaps)
      BY DEF EndChat, Turn
    <2> HIDE DEF t
    <2> QED BY <1>2, <2>1, <2>2, <2>3, <2>4, SameClaim DEF t
  <1>3. CASE turns' = [turns EXCEPT ![m] = [turns[m] EXCEPT !.pc = "reply", !.run = NoRun]]
    <2> DEFINE t == [turns[m] EXCEPT !.pc = "reply", !.run = NoRun]
    <2>1. t \in Turn /\ t.pc # "unsent" /\ t.channel = turns[m].channel /\ t.conv = turns[m].conv /\ t.run = NoRun
          /\ (t.pc \in Claims => turns[m].pc \in Claims)
          /\ (t.pc \in Claims \union {"claim"} => t.channel \in DMChannels)
          /\ (t.pc = "running" => t.run # NoRun)
      BY <1>3 DEF EndChat, At, Turn, TextPCs, Answers, Claims, Chan
    <2>2. RunOf(turns, t.conv, t.channel) /\ RunOf(turns, t.run, t.channel)
      BY <1>3, <2>1 DEF RunOf, Chan
    <2>3. /\ rows' \in [TextChannels -> TextMessages \union {NoRun, NoRow}]
          /\ \A c \in TextChannels : rows'[c] # NoRow => c \in DMChannels /\ RunOf(turns, rows'[c], c)
      BY DEF EndChat
    <2>4. UNCHANGED inFlight /\ traces' \in [TextMessages -> SUBSET TextMessages] /\ (Mishap \/ UNCHANGED mishaps)
      BY DEF EndChat, Turn
    <2> HIDE DEF t
    <2> QED BY <1>3, <2>1, <2>2, <2>3, <2>4, SameClaim DEF t
  <1> QED BY <1>2, <1>3 DEF EndChat, Continue, Answer, Turn

\* The reply is sent, or not.
LEMMA SendReplyChunksKeeps ==
  ASSUME ClaimInv, NEW m \in TextMessages, SendReplyChunks(m)
  PROVE  ClaimInv'
  <1>1. turns[m].pc # "unsent"
    BY DEF SendReplyChunks, At
  <1> USE <1>1, TurnFacts
  <1>2. CASE turns' = [turns EXCEPT ![m] = [turns[m] EXCEPT !.answer = "reply", !.pc = "save"]]
    <2> DEFINE t == [turns[m] EXCEPT !.answer = "reply", !.pc = "save"]
    <2>1. t \in Turn /\ t.pc # "unsent" /\ t.channel = turns[m].channel /\ t.conv = turns[m].conv /\ t.run = turns[m].run
          /\ (t.pc \in Claims => turns[m].pc \in Claims)
          /\ (t.pc \in Claims \union {"claim"} => t.channel \in DMChannels)
          /\ (t.pc = "running" => t.run # NoRun)
      BY <1>2 DEF SendReplyChunks, At, Turn, TextPCs, Answers, Claims, Chan
    <2>2. RunOf(turns, t.conv, t.channel) /\ RunOf(turns, t.run, t.channel)
      BY <1>2, <2>1 DEF RunOf, Chan
    <2>3. /\ rows' \in [TextChannels -> TextMessages \union {NoRun, NoRow}]
          /\ \A c \in TextChannels : rows'[c] # NoRow => c \in DMChannels /\ RunOf(turns, rows'[c], c)
      BY DEF SendReplyChunks
    <2>4. UNCHANGED inFlight /\ traces' \in [TextMessages -> SUBSET TextMessages] /\ (Mishap \/ UNCHANGED mishaps)
      BY DEF SendReplyChunks
    <2> HIDE DEF t
    <2> QED BY <1>2, <2>1, <2>2, <2>3, <2>4, SameClaim DEF t
  <1>3. CASE turns' = [turns EXCEPT ![m] = [turns[m] EXCEPT !.pc = "release"]]
    <2> DEFINE t == [turns[m] EXCEPT !.pc = "release"]
    <2>1. t \in Turn /\ t.pc # "unsent" /\ t.channel = turns[m].channel /\ t.conv = turns[m].conv /\ t.run = turns[m].run
          /\ (t.pc \in Claims => turns[m].pc \in Claims)
          /\ (t.pc \in Claims \union {"claim"} => t.channel \in DMChannels)
          /\ (t.pc = "running" => t.run # NoRun)
      BY <1>3 DEF SendReplyChunks, At, Turn, TextPCs, Answers, Claims, Chan
    <2>2. RunOf(turns, t.conv, t.channel) /\ RunOf(turns, t.run, t.channel)
      BY <1>3, <2>1 DEF RunOf, Chan
    <2>3. /\ rows' \in [TextChannels -> TextMessages \union {NoRun, NoRow}]
          /\ \A c \in TextChannels : rows'[c] # NoRow => c \in DMChannels /\ RunOf(turns, rows'[c], c)
      BY DEF SendReplyChunks
    <2>4. UNCHANGED inFlight /\ traces' \in [TextMessages -> SUBSET TextMessages] /\ (Mishap \/ UNCHANGED mishaps)
      BY DEF SendReplyChunks
    <2> HIDE DEF t
    <2> QED BY <1>3, <2>1, <2>2, <2>3, <2>4, SameClaim DEF t
  <1> QED BY <1>2, <1>3 DEF SendReplyChunks, Continue, Answer, Turn

\* The row names the run of the turn, which is one of the channel.
LEMMA SaveConversationKeeps ==
  ASSUME ClaimInv, NEW m \in TextMessages, SaveConversation(m)
  PROVE  ClaimInv'
  <1>1. turns[m].pc # "unsent"
    BY DEF SaveConversation, At
  <1> USE <1>1, TurnFacts
  <1>2. CASE turns' = [turns EXCEPT ![m] = [turns[m] EXCEPT !.pc = "release"]]
    <2> DEFINE t == [turns[m] EXCEPT !.pc = "release"]
    <2>1. t \in Turn /\ t.pc # "unsent" /\ t.channel = turns[m].channel /\ t.conv = turns[m].conv /\ t.run = turns[m].run
          /\ (t.pc \in Claims => turns[m].pc \in Claims)
          /\ (t.pc \in Claims \union {"claim"} => t.channel \in DMChannels)
          /\ (t.pc = "running" => t.run # NoRun)
      BY <1>2 DEF SaveConversation, At, Turn, TextPCs, Answers, Claims, Chan
    <2>2. RunOf(turns, t.conv, t.channel) /\ RunOf(turns, t.run, t.channel)
      BY <1>2, <2>1 DEF RunOf, Chan
    <2>3. /\ rows' \in [TextChannels -> TextMessages \union {NoRun, NoRow}]
          /\ \A c \in TextChannels : rows'[c] # NoRow => c \in DMChannels /\ RunOf(turns, rows'[c], c)
      BY DEF SaveConversation, RunOf, Chan, At, Claims, Turn
    <2>4. UNCHANGED inFlight /\ traces' \in [TextMessages -> SUBSET TextMessages] /\ (Mishap \/ UNCHANGED mishaps)
      BY DEF SaveConversation
    <2> HIDE DEF t
    <2> QED BY <1>2, <2>1, <2>2, <2>3, <2>4, SameClaim DEF t
  <1> QED BY <1>2 DEF SaveConversation, Continue, Answer, Turn

\* The claim is made when nobody has it.
LEMMA TryStartConversationKeeps ==
  ASSUME ClaimInv, NEW m \in TextMessages, TryStartConversation(m)
  PROVE  ClaimInv'
  <1>1. turns[m].pc = "claim"
    BY DEF TryStartConversation, At
  <1> USE <1>1, TurnFacts
  <1>2. CASE Chan(m) \in inFlight
    <2> DEFINE t == [turns[m] EXCEPT !.answer = "busy", !.pc = "done"]
    <2>1. turns' = [turns EXCEPT ![m] = t] /\ UNCHANGED <<rows, inFlight, traces, mishaps>>
      BY <1>2 DEF TryStartConversation, Answer, Turn
    <2>2. t \in Turn /\ t.pc = "done" /\ t.channel = turns[m].channel
          /\ t.conv = turns[m].conv /\ t.run = turns[m].run
      BY DEF Turn, TextPCs, Answers
    <2> HIDE DEF t
    <2> QED BY <2>1, <2>2, SameClaim DEF Claims, Chan
  <1>3. CASE Chan(m) \notin inFlight
    <2> DEFINE t == [turns[m] EXCEPT !.pc = "history"]
    <2>1. /\ turns' = [turns EXCEPT ![m] = t] /\ inFlight' = inFlight \union {Chan(m)}
          /\ UNCHANGED <<rows, traces, mishaps>>
      BY <1>3 DEF TryStartConversation, Continue, Turn
    <2>2. t \in Turn /\ t.pc = "history" /\ t.channel = turns[m].channel
          /\ t.conv = turns[m].conv /\ t.run = turns[m].run
      BY DEF Turn, TextPCs
    <2>3. Chan(m) \in DMChannels /\ inFlight' \subseteq DMChannels
      BY <2>1
    <2> HIDE DEF t
    <2> QED BY <1>3, <2>1, <2>2, <2>3, TurnMoves DEF Claims, Chan
  <1> QED BY <1>2, <1>3

\* The claim is released by the turn that has it.
LEMMA ReleaseKeeps ==
  ASSUME ClaimInv, NEW m \in TextMessages, Release(m)
  PROVE  ClaimInv'
  <1>1. turns[m].pc = "release"
    BY DEF Release, At
  <1> USE <1>1, TurnFacts
  <1> DEFINE t == [turns[m] EXCEPT !.pc = "done"]
  <1>2. /\ turns' = [turns EXCEPT ![m] = t] /\ inFlight' = inFlight \ {Chan(m)}
        /\ UNCHANGED <<rows, traces, mishaps>>
    BY DEF Release, Continue, Turn
  <1>3. t \in Turn /\ t.pc = "done" /\ t.channel = turns[m].channel
        /\ t.conv = turns[m].conv /\ t.run = turns[m].run
    BY DEF Turn, TextPCs
  <1>4. \A n \in TextMessages : n # m /\ turns[n].pc \in Claims => Chan(n) \in inFlight'
    BY <1>2 DEF Claims
  <1>5. inFlight' \subseteq DMChannels /\ t.pc \notin Claims
    BY <1>2, <1>3 DEF Claims
  <1> HIDE DEF t
  <1> QED BY <1>2, <1>3, <1>4, <1>5, TurnMoves DEF Chan

\* The invariant holds in every state.
LEMMA ClaimInvariant == TextSpec => []ClaimInv
  <1>1. ASSUME ClaimInv, TextNext PROVE ClaimInv'
    <2>1. ASSUME NEW m \in TextMessages, NEW c \in TextChannels, MessageCreate(m, c) PROVE ClaimInv'
      BY <1>1, <2>1, CreateKeeps
    <2>2. ASSUME NEW m \in TextMessages, ProcessTextMessage(m) PROVE ClaimInv'
      BY <1>1, <2>2, ResolveConversationKeeps, CreateConversationKeeps, TryStartConversationKeeps,
         LoadConversationHistoryKeeps, RunChatKeeps, EndChatKeeps, SendReplyChunksKeeps,
         SaveConversationKeeps, ReleaseKeeps DEF ProcessTextMessage
    <2> QED BY <1>1, <2>1, <2>2 DEF TextNext
  <1>2. ClaimInv /\ [TextNext]_textVars => ClaimInv'
    BY <1>1, ClaimStutter
  <1> QED BY <1>2, ClaimInit, PTL DEF TextSpec

\* The state of the text bridge has its types.
THEOREM TextTypes == TextSpec => []TextTypeOK
  <1>1. ClaimInv => TextTypeOK
    BY DEF ClaimInv
  <1> QED BY <1>1, ClaimInvariant, PTL

\* Two messages never have their turns in one agent run at a time: they would be
\* messages of one channel, and its claim is held once (processTextMessage,
\* reusableRunID, tryStartConversation).
THEOREM TurnsExclude == TextSpec => []TurnsAreExclusive
  <1>1. ASSUME ClaimInv PROVE TurnsAreExclusive
    <2> SUFFICES ASSUME NEW m \in TextMessages, NEW n \in TextMessages, m # n,
                        At(m, "running"), At(n, "running"), turns[m].run = turns[n].run
                 PROVE  FALSE
      BY DEF TurnsAreExclusive
    <2>1. Chan(m) # Chan(n)
      BY <1>1 DEF ClaimInv, ClaimIsHeld, Claims, At
    <2>2. turns[m].run # NoRun /\ turns[n].run # NoRun
      BY <1>1 DEF ClaimInv, Sited, At
    <2> QED BY <1>1, <2>1, <2>2 DEF ClaimInv, RunsStay, RunOf, Chan
  <1> QED BY <1>1, ClaimInvariant, PTL

-----------------------------------------------------------------------------
(***************************************************************************)
(* An open voice connection always has an owner, and the row of a call that*)
(* was shut down is written no more, for any number of members, channels,  *)
(* moves and failures.  Ownership is handed on three times: by the         *)
(* goroutine that builds the call to the map of sessions, which must not   *)
(* have another call of the channel then; by the map to a shutdown; and by *)
(* the shutdown to nobody, which must have closed the connection.          *)
(***************************************************************************)

\* The call of starter i has the place of its channel in live.starting.
Underway(i) == starters[i].pc = "open" \/ Building(i)

\* The call has been registered, so that its goroutines run.
Built(i) == starters[i].pc = "done" /\ calls[i].receiver # "none"

\* A call is built by one goroutine, and one call of a channel at a time.
StartersOK ==
  \A i \in Moves :
    /\ starters[i].pc # "idle" => i <= moves /\ starters[i].channel \in LiveChannels
    /\ starters[i].pc \in {"idle", "check", "open"} => calls[i].voice = "none"
    /\ starters[i].pc # "done" => calls[i].capture = "none" /\ calls[i].row # "ended"
    /\ starters[i].pc = "register" => calls[i].receiver # "none"
    /\ Underway(i) =>
         /\ starters[i].channel \in starting
         /\ registered[starters[i].channel] = NoCall
         /\ \A j \in Moves : j # i /\ Underway(j) => starters[j].channel # starters[i].channel

\* Whoever has a call has one that was built.
CallsOK ==
  \A i \in Moves :
    /\ calls[i].capture = "running" => Built(i)
    /\ calls[i].row = "ended" => calls[i].receiver = "done"
    /\ \A c \in LiveChannels : registered[c] = i => Built(i)
    /\ \A e \in Enders : i \in enders[e].todo => Built(i)

\* A shutdown has calls until it is done, and what it has waited for stays so.
EndersOK ==
  /\ \A e \in Enders :
       /\ enders[e].pc \in {"idle", "take", "done"} <=> enders[e].todo = {}
       /\ enders[e].pc = "take" => enders[e].channel \in LiveChannels
       /\ enders[e].pc \in {"close", "played", "disconnect", "save"} =>
            calls[Current(e)].receiver = "done"
       /\ enders[e].pc = "save" => calls[Current(e)].voice = "closed"
  /\ \A i \in Moves :
       /\ enders[<<"stop", i>>].pc # "idle" => i <= moves
       /\ enders[<<"again", i>>].pc # "idle" => i <= moves
       /\ enders[<<"decoder", i>>].pc # "idle" => calls[i].capture = "done"
  /\ ~stopped => enders[<<"close", 0>>].pc = "idle"

VoiceInv == VoiceTypeOK /\ StartersOK /\ CallsOK /\ EndersOK /\ VoiceIsOwned

-----------------------------------------------------------------------------
\* The invariant holds at the start: there are no calls.
LEMMA VoiceInitOK == VoiceInit => VoiceInv
  <1> SUFFICES ASSUME VoiceInit PROVE VoiceInv
    OBVIOUS
  <1>1. NewCall \in Call
    BY DEF NewCall, Call
  <1>2. VoiceTypeOK
    <2>1. /\ starters \in [Moves -> [pc : StarterPCs, channel : LiveChannels \union {NoChannel}]]
          /\ enders \in [Enders -> [pc : EnderPCs, channel : LiveChannels \union {NoChannel},
                                    todo : SUBSET Moves]]
      BY DEF VoiceInit, StarterPCs, EnderPCs
    <2>2. calls \in [Moves -> Call] /\ \A i \in Moves : Len(calls[i].queue) <= QueueCapacity
      BY <1>1, LiveVoiceAssumption DEF VoiceInit, NewCall
    <2>3. moves \in 0..MaxMoves /\ failures \in 0..MaxFailures
      BY LiveVoiceAssumption DEF VoiceInit
    <2> QED BY <2>1, <2>2, <2>3 DEF VoiceInit, VoiceTypeOK
  <1>3. /\ \A i \in Moves : starters[i].pc = "idle" /\ calls[i] = NewCall
        /\ \A e \in Enders : enders[e].pc = "idle" /\ enders[e].todo = {}
        /\ \A c \in LiveChannels : registered[c] \notin Moves
    BY LiveVoiceAssumption DEF VoiceInit
  <1>4. \A i \in Moves : /\ <<"stop", i>> \in Enders /\ <<"again", i>> \in Enders
                         /\ <<"decoder", i>> \in Enders
    BY DEF Enders
  <1>5. <<"close", 0>> \in Enders
    BY DEF Enders
  <1>6. StartersOK
    BY <1>3 DEF StartersOK, Underway, Building, NewCall
  <1>7. CallsOK
    BY <1>3 DEF CallsOK, NewCall
  <1>8. EndersOK
    BY <1>3, <1>4, <1>5 DEF EndersOK
  <1>9. VoiceIsOwned
    BY <1>3 DEF VoiceIsOwned, NewCall
  <1> QED BY <1>2, <1>6, <1>7, <1>8, <1>9 DEF VoiceInv

\* A stuttering step keeps it.
LEMMA VoiceStutter == VoiceInv /\ UNCHANGED voiceVars => VoiceInv'
  BY DEF voiceVars, VoiceInv, VoiceTypeOK, StartersOK, CallsOK, EndersOK, VoiceIsOwned,
     Underway, Building, Built, Current

\* The names of the goroutines that shut calls down.
LEMMA EnderNames ==
  /\ \A i \in Moves : /\ <<"stop", i>> \in Enders /\ <<"again", i>> \in Enders
                      /\ <<"decoder", i>> \in Enders
  /\ <<"close", 0>> \in Enders
  BY DEF Enders

\* Call i becomes t, and the others stay as they are.
LEMMA OneCall ==
  ASSUME VoiceInv, NEW i \in Moves, NEW t \in Call, calls' = [calls EXCEPT ![i] = t],
         Len(t.queue) <= QueueCapacity
  PROVE  /\ calls' \in [Moves -> Call] /\ calls'[i] = t
         /\ \A j \in Moves : j # i => calls'[j] = calls[j]
         /\ \A j \in Moves : Len(calls'[j].queue) <= QueueCapacity
  BY DEF VoiceInv, VoiceTypeOK

\* What the types say of a call.
LEMMA CallFacts ==
  ASSUME VoiceInv, NEW i \in Moves
  PROVE  /\ calls \in [Moves -> Call] /\ calls[i] \in Call
         /\ Len(calls[i].queue) <= QueueCapacity /\ calls[i].queue \in Seq({"audio", "close"})
         /\ starters \in [Moves -> [pc : StarterPCs, channel : LiveChannels \union {NoChannel}]]
         /\ failures \in 0..MaxFailures /\ (Fail => failures' \in 0..MaxFailures)
  BY LiveVoiceAssumption DEF VoiceInv, VoiceTypeOK, Call, Fail

\* A goroutine of call i makes a step.
LEMMA CallStep ==
  ASSUME VoiceInv, NEW i \in Moves, NEW t \in Call, calls' = [calls EXCEPT ![i] = t],
         Len(t.queue) <= QueueCapacity, failures' \in 0..MaxFailures,
         UNCHANGED <<occupants, moves, starters, enders, registered, starting, stopped>>,
         t.voice = calls[i].voice,
         t.capture = calls[i].capture \/ (calls[i].capture = "running" /\ t.capture = "done"),
         calls[i].receiver # "none" => t.receiver # "none",
         calls[i].receiver = "done" => t.receiver = "done",
         t.row = calls[i].row \/ t.row # "ended"
  PROVE  VoiceInv'
  <1>1. /\ calls' \in [Moves -> Call] /\ calls'[i] = t
        /\ \A j \in Moves : j # i => calls'[j] = calls[j]
        /\ \A j \in Moves : Len(calls'[j].queue) <= QueueCapacity
    BY OneCall
  <1>2. VoiceTypeOK'
    BY <1>1 DEF VoiceInv, VoiceTypeOK
  <1>3. StartersOK'
    BY <1>1 DEF VoiceInv, StartersOK, Underway, Building
  <1>4. CallsOK'
    BY <1>1 DEF VoiceInv, CallsOK, Built
  <1>5. EndersOK'
    <2>1. \A e \in Enders : enders[e].todo # {} => Current(e) \in Moves
      BY DEF VoiceInv, VoiceTypeOK, Current
    <2>2. \A e \in Enders : Current(e)' = Current(e)
      BY DEF Current
    <2>3. \A e \in Enders :
             enders[e].pc \in {"close", "played", "disconnect", "save"} => enders[e].todo # {}
      BY DEF VoiceInv, EndersOK
    <2> QED BY <1>1, <2>1, <2>2, <2>3 DEF VoiceInv, EndersOK
  <1>6. VoiceIsOwned'
    BY <1>1 DEF VoiceInv, VoiceIsOwned, Building
  <1> QED BY <1>2, <1>3, <1>4, <1>5, <1>6 DEF VoiceInv

\* The goroutine that builds call i goes on or gives up, before the call is
\* registered: nobody else has the call.
LEMMA StarterStep ==
  ASSUME VoiceInv, NEW i \in Moves, NEW t \in Call, calls' = [calls EXCEPT ![i] = t],
         NEW pc \in {"ready", "thread", "build", "connect", "register", "done"}, GoOn(i, pc),
         Underway(i), Len(t.queue) <= QueueCapacity, failures' \in 0..MaxFailures,
         UNCHANGED <<occupants, moves, enders, registered, stopped>>,
         starting' = IF pc = "done" THEN starting \ {starters[i].channel} ELSE starting,
         t.capture = calls[i].capture, t.row # "ended", pc = "done" => t.voice # "open",
         pc = "register" => t.receiver # "none"
  PROVE  VoiceInv'
  <1>1. /\ calls' \in [Moves -> Call] /\ calls'[i] = t
        /\ \A j \in Moves : j # i => calls'[j] = calls[j]
        /\ \A j \in Moves : Len(calls'[j].queue) <= QueueCapacity
    BY OneCall
  <1>2. /\ starters' \in [Moves -> [pc : StarterPCs, channel : LiveChannels \union {NoChannel}]]
        /\ starters'[i].pc = pc /\ starters'[i].channel = starters[i].channel
        /\ \A j \in Moves : j # i => starters'[j] = starters[j]
    BY CallFacts DEF GoOn, StarterPCs
  <1>3. starters[i].pc \notin {"idle", "done"} /\ ~Built(i) /\ pc \notin {"idle", "check", "open"}
    BY DEF Underway, Building, Built
  <1>4. VoiceTypeOK'
    BY <1>1, <1>2 DEF VoiceInv, VoiceTypeOK
  <1>5. StartersOK'
    <2>1. \A j \in Moves : Underway(j)' => Underway(j)
      BY <1>2 DEF Underway, Building
    <2>2. \A j \in Moves : Underway(j)' => starters[j].channel \in starting'
      <3> SUFFICES ASSUME NEW j \in Moves, Underway(j)' PROVE starters[j].channel \in starting'
        OBVIOUS
      <3>1. starters[j].channel \in starting
        BY <2>1 DEF VoiceInv, StartersOK
      <3>2. CASE pc = "done"
        <4>1. j # i
          BY <3>2, <1>2 DEF Underway, Building
        <4>2. starters[j].channel # starters[i].channel
          BY <4>1, <2>1 DEF VoiceInv, StartersOK
        <4> QED BY <3>1, <3>2, <4>2
      <3> QED BY <3>1, <3>2
    <2>3. \A j \in Moves : starters'[j].channel = starters[j].channel
      BY <1>2
    <2>4. \A j \in Moves : Underway(j)' =>
             /\ registered[starters[j].channel] = NoCall
             /\ \A k \in Moves : k # j /\ Underway(k)' => starters[k].channel # starters[j].channel
      BY <2>1 DEF VoiceInv, StartersOK
    <2>5. \A j \in Moves :
             /\ starters'[j].pc # "idle" => j <= moves' /\ starters'[j].channel \in LiveChannels
             /\ starters'[j].pc \in {"idle", "check", "open"} => calls'[j].voice = "none"
             /\ starters'[j].pc # "done" => calls'[j].capture = "none" /\ calls'[j].row # "ended"
             /\ starters'[j].pc = "register" => calls'[j].receiver # "none"
      BY <1>1, <1>2, <1>3 DEF VoiceInv, StartersOK
    <2> QED BY <2>2, <2>3, <2>4, <2>5 DEF StartersOK
  <1>6. \A j \in Moves : Built(j) => j # i /\ Built(j)'
    BY <1>1, <1>2, <1>3 DEF Built
  <1>7. CallsOK'
    <2>1. calls[i].capture # "running"
      BY <1>3 DEF VoiceInv, CallsOK
    <2> QED BY <1>1, <1>6, <2>1 DEF VoiceInv, CallsOK
  <1>8. EndersOK'
    <2>1. \A e \in Enders : enders[e].todo # {} => Current(e) \in Moves /\ Current(e) # i
      <3> SUFFICES ASSUME NEW e \in Enders, enders[e].todo # {}
                   PROVE  Current(e) \in Moves /\ Current(e) # i
        OBVIOUS
      <3>1. Current(e) \in enders[e].todo
        BY DEF Current
      <3>2. enders[e].todo \subseteq Moves
        BY DEF VoiceInv, VoiceTypeOK
      <3> QED BY <3>1, <3>2, <1>3 DEF VoiceInv, CallsOK
    <2>2. \A e \in Enders : Current(e)' = Current(e)
      BY DEF Current
    <2>3. \A e \in Enders :
             enders[e].pc \in {"close", "played", "disconnect", "save"} => enders[e].todo # {}
      BY DEF VoiceInv, EndersOK
    <2> QED BY <1>1, <2>1, <2>2, <2>3 DEF VoiceInv, EndersOK
  <1>9. VoiceIsOwned'
    <2>1. pc # "done" => Building(i)'
      BY <1>2 DEF Building
    <2>2. \A j \in Moves : j # i => (Building(j)' <=> Building(j))
      BY <1>2 DEF Building
    <2> QED BY <1>1, <2>1, <2>2 DEF VoiceInv, VoiceIsOwned
  <1> QED BY <1>4, <1>5, <1>7, <1>8, <1>9 DEF VoiceInv

\* A step of a shutdown with its present call, before the last one.
LEMMA EnderStep ==
  ASSUME VoiceInv, NEW e \in Enders, NEW t \in Call, calls' = [calls EXCEPT ![Current(e)] = t],
         NEW from \in EnderPCs \ {"idle", "take", "done"}, NEW to \in EnderPCs \ {"idle", "take", "done"},
         Step(e, from, to), Len(t.queue) <= QueueCapacity,
         t.voice = calls[Current(e)].voice \/ t.voice = "closed",
         t.capture = calls[Current(e)].capture, t.row = calls[Current(e)].row,
         t.receiver = calls[Current(e)].receiver,
         to \in {"close", "played", "disconnect", "save"} => t.receiver = "done",
         to = "save" => t.voice = "closed"
  PROVE  VoiceInv'
  <1> DEFINE i == Current(e)
  <1>1. /\ enders[e].todo # {} /\ i \in enders[e].todo /\ i \in Moves /\ Built(i)
    <2>1. enders[e].todo # {} /\ enders[e].todo \subseteq Moves
      BY DEF VoiceInv, EndersOK, VoiceTypeOK, Step
    <2>2. i \in enders[e].todo
      BY <2>1 DEF Current
    <2> QED BY <2>1, <2>2 DEF VoiceInv, CallsOK
  <1> HIDE DEF i
  <1>2. calls' = [calls EXCEPT ![i] = t]
    BY DEF i
  <1>3. /\ calls' \in [Moves -> Call] /\ calls'[i] = t
        /\ \A j \in Moves : j # i => calls'[j] = calls[j]
        /\ \A j \in Moves : Len(calls'[j].queue) <= QueueCapacity
    BY <1>1, <1>2, OneCall
  <1>4. /\ enders' \in [Enders -> [pc : EnderPCs, channel : LiveChannels \union {NoChannel},
                                   todo : SUBSET Moves]]
        /\ enders'[e].pc = to /\ enders'[e].todo = enders[e].todo
        /\ \A f \in Enders : f # e => enders'[f] = enders[f]
        /\ \A f \in Enders : enders'[f].todo = enders[f].todo
    BY DEF VoiceInv, VoiceTypeOK, Step
  <1>5. UNCHANGED <<occupants, moves, starters, registered, starting, stopped, failures>>
        /\ enders[e].pc = from
    BY DEF Step
  <1>6. VoiceTypeOK'
    BY <1>3, <1>4, <1>5 DEF VoiceInv, VoiceTypeOK
  <1>7. /\ t.voice = calls[i].voice \/ t.voice = "closed"
        /\ t.capture = calls[i].capture /\ t.row = calls[i].row /\ t.receiver = calls[i].receiver
    BY DEF i
  <1>8. StartersOK'
    <2>1. starters[i].pc = "done"
      BY <1>1 DEF Built
    <2> QED BY <1>3, <1>5, <1>7, <2>1 DEF VoiceInv, StartersOK, Underway, Building
  <1>9. CallsOK'
    BY <1>3, <1>4, <1>5, <1>7 DEF VoiceInv, CallsOK, Built
  <1>10. EndersOK'
    <2>1. \A f \in Enders : Current(f)' = Current(f)
      BY <1>4 DEF Current
    <2>2. \A f \in Enders : enders[f].todo # {} => Current(f) \in Moves
      BY DEF VoiceInv, VoiceTypeOK, Current
    <2>3. ASSUME NEW f \in Enders
          PROVE  /\ enders'[f].pc \in {"idle", "take", "done"} <=> enders'[f].todo = {}
                 /\ enders'[f].pc = "take" => enders'[f].channel \in LiveChannels
                 /\ enders'[f].pc \in {"close", "played", "disconnect", "save"} =>
                      calls'[Current(f)'].receiver = "done"
                 /\ enders'[f].pc = "save" => calls'[Current(f)'].voice = "closed"
      <3>1. CASE f = e
        BY <3>1, <1>1, <1>3, <1>4, <2>1 DEF EnderPCs, i
      <3>2. CASE f # e
        <4>1. enders[f].pc \in {"close", "played", "disconnect", "save"} => enders[f].todo # {}
          BY DEF VoiceInv, EndersOK
        <4> QED BY <3>2, <4>1, <1>3, <1>4, <1>7, <2>1, <2>2 DEF VoiceInv, EndersOK
      <3> QED BY <3>1, <3>2
    <2>4. ASSUME NEW j \in Moves
          PROVE  /\ enders'[<<"stop", j>>].pc # "idle" => j <= moves
                 /\ enders'[<<"again", j>>].pc # "idle" => j <= moves
                 /\ enders'[<<"decoder", j>>].pc # "idle" => calls'[j].capture = "done"
      <3>1. enders[e].pc # "idle"
        BY <1>5
      <3> QED BY <3>1, <1>3, <1>4, <1>7, EnderNames DEF VoiceInv, EndersOK
    <2>5. ~stopped => enders'[<<"close", 0>>].pc = "idle"
      BY <1>4, <1>5, EnderNames DEF VoiceInv, EndersOK
    <2> QED BY <1>5, <2>3, <2>4, <2>5 DEF EndersOK
  <1>11. VoiceIsOwned'
    BY <1>3, <1>4, <1>5, <1>7 DEF VoiceInv, VoiceIsOwned, Building
  <1> QED BY <1>6, <1>8, <1>9, <1>10, <1>11 DEF VoiceInv

-----------------------------------------------------------------------------
\* A message of the model changes the row of a call that is received.
LEMMA ReceiveStatusKeeps ==
  ASSUME VoiceInv, NEW i \in Moves, ReceiveStatus(i) PROVE VoiceInv'
  <1> DEFINE t == [calls[i] EXCEPT !.row = Saved(i, "talking")]
  <1>1. t \in Call
    BY CallFacts DEF Call, Saved
  <1>2. calls' = [calls EXCEPT ![i] = t]
    BY CallFacts DEF ReceiveStatus, Call
  <1>3. /\ t.voice = calls[i].voice /\ t.capture = calls[i].capture /\ t.queue = calls[i].queue
        /\ t.receiver = calls[i].receiver /\ (t.row = calls[i].row \/ t.row # "ended")
    BY CallFacts DEF Call, Saved
  <1>4. UNCHANGED <<occupants, moves, starters, enders, registered, starting, stopped, failures>>
    BY DEF ReceiveStatus
  <1> HIDE DEF t
  <1> QED BY <1>1, <1>2, <1>3, <1>4, CallFacts, CallStep

\* Audio of the model is to be played.
LEMMA ReceiveAudioKeeps ==
  ASSUME VoiceInv, NEW i \in Moves, ReceiveAudio(i) PROVE VoiceInv'
  <1> DEFINE t == [calls[i] EXCEPT !.receiver = "sending"]
  <1>1. t \in Call
    BY CallFacts DEF Call
  <1>2. calls' = [calls EXCEPT ![i] = t] /\ calls[i].receiver = "idle"
    BY CallFacts DEF ReceiveAudio, Call
  <1>3. /\ t.voice = calls[i].voice /\ t.capture = calls[i].capture /\ t.queue = calls[i].queue
        /\ t.receiver = "sending" /\ t.row = calls[i].row
    BY CallFacts DEF Call
  <1>4. UNCHANGED <<occupants, moves, starters, enders, registered, starting, stopped, failures>>
    BY DEF ReceiveAudio
  <1> HIDE DEF t
  <1> QED BY <1>1, <1>2, <1>3, <1>4, CallFacts, CallStep

\* The channel of the playback has room.
LEMMA EnqueueKeeps ==
  ASSUME VoiceInv, NEW i \in Moves, Enqueue(i) PROVE VoiceInv'
  <1> DEFINE t == [calls[i] EXCEPT !.receiver = "idle", !.queue = Append(@, "audio")]
  <1>1. Append(calls[i].queue, "audio") \in Seq({"audio", "close"})
        /\ Len(Append(calls[i].queue, "audio")) <= QueueCapacity
    BY CallFacts, LiveVoiceAssumption DEF Enqueue
  <1>2. t \in Call /\ Len(t.queue) <= QueueCapacity
    BY <1>1, CallFacts DEF Call
  <1>3. calls' = [calls EXCEPT ![i] = t] /\ calls[i].receiver = "sending"
    BY CallFacts DEF Enqueue, Call
  <1>4. /\ t.voice = calls[i].voice /\ t.capture = calls[i].capture
        /\ t.receiver = "idle" /\ t.row = calls[i].row
    BY CallFacts DEF Call
  <1>5. UNCHANGED <<occupants, moves, starters, enders, registered, starting, stopped, failures>>
    BY DEF Enqueue
  <1> HIDE DEF t
  <1> QED BY <1>2, <1>3, <1>4, <1>5, CallFacts, CallStep

\* The stream of the model breaks.
LEMMA BreakStreamKeeps ==
  ASSUME VoiceInv, NEW i \in Moves, BreakStream(i) PROVE VoiceInv'
  <1> DEFINE t == [calls[i] EXCEPT !.gemini = "failed"]
  <1>1. t \in Call
    BY CallFacts DEF Call
  <1>2. calls' = [calls EXCEPT ![i] = t]
    BY CallFacts DEF BreakStream, Call
  <1>3. /\ t.voice = calls[i].voice /\ t.capture = calls[i].capture /\ t.queue = calls[i].queue
        /\ t.receiver = calls[i].receiver /\ t.row = calls[i].row
    BY CallFacts DEF Call
  <1>4. UNCHANGED <<occupants, moves, starters, enders, registered, starting, stopped>>
        /\ failures' \in 0..MaxFailures
    BY CallFacts DEF BreakStream
  <1> HIDE DEF t
  <1> QED BY <1>1, <1>2, <1>3, <1>4, CallFacts, CallStep

\* The receive loop returns.
LEMMA EndReceiveKeeps ==
  ASSUME VoiceInv, NEW i \in Moves, EndReceive(i) PROVE VoiceInv'
  <1> DEFINE t == [calls[i] EXCEPT !.receiver = "done", !.row = Saved(i, "failed")]
  <1>1. t \in Call
    BY CallFacts DEF Call, Saved
  <1>2. calls' = [calls EXCEPT ![i] = t]
    BY CallFacts DEF EndReceive, Call
  <1>3. /\ t.voice = calls[i].voice /\ t.capture = calls[i].capture /\ t.queue = calls[i].queue
        /\ t.receiver = "done" /\ (t.row = calls[i].row \/ t.row # "ended")
    BY CallFacts DEF Call, Saved
  <1>4. UNCHANGED <<occupants, moves, starters, enders, registered, starting, stopped, failures>>
    BY DEF EndReceive
  <1> HIDE DEF t
  <1> QED BY <1>1, <1>2, <1>3, <1>4, CallFacts, CallStep

\* The playback takes an event.
LEMMA PlayKeeps ==
  ASSUME VoiceInv, NEW i \in Moves, Play(i) PROVE VoiceInv'
  <1> DEFINE t == [calls[i] EXCEPT !.queue = Tail(@),
                     !.playback = IF Head(calls[i].queue) = "close" THEN "done" ELSE @]
  <1>1. Tail(calls[i].queue) \in Seq({"audio", "close"}) /\ Len(Tail(calls[i].queue)) <= QueueCapacity
    BY CallFacts, LiveVoiceAssumption DEF Play
  <1>2. t \in Call /\ Len(t.queue) <= QueueCapacity
    BY <1>1, CallFacts DEF Call
  <1>3. calls' = [calls EXCEPT ![i] = t]
    BY CallFacts DEF Play, Call
  <1>4. /\ t.voice = calls[i].voice /\ t.capture = calls[i].capture
        /\ t.receiver = calls[i].receiver /\ t.row = calls[i].row
    BY CallFacts DEF Call
  <1>5. UNCHANGED <<occupants, moves, starters, enders, registered, starting, stopped, failures>>
    BY DEF Play
  <1> HIDE DEF t
  <1> QED BY <1>2, <1>3, <1>4, <1>5, CallFacts, CallStep

\* The capture returns.
LEMMA EndCaptureKeeps ==
  ASSUME VoiceInv, NEW i \in Moves, EndCapture(i) PROVE VoiceInv'
  <1> DEFINE t == [calls[i] EXCEPT !.capture = "done"]
  <1>1. t \in Call
    BY CallFacts DEF Call
  <1>2. calls' = [calls EXCEPT ![i] = t] /\ calls[i].capture = "running"
    BY CallFacts DEF EndCapture, Call
  <1>3. /\ t.voice = calls[i].voice /\ t.capture = "done" /\ t.queue = calls[i].queue
        /\ t.receiver = calls[i].receiver /\ t.row = calls[i].row
    BY CallFacts DEF Call
  <1>4. UNCHANGED <<occupants, moves, starters, enders, registered, starting, stopped, failures>>
    BY DEF EndCapture
  <1> HIDE DEF t
  <1> QED BY <1>1, <1>2, <1>3, <1>4, CallFacts, CallStep

-----------------------------------------------------------------------------

\* The connection is opened, or nothing is.
LEMMA OpenVoiceKeeps ==
  ASSUME VoiceInv, NEW i \in Moves, OpenVoice(i) PROVE VoiceInv'
  <1>1. starters[i].pc = "open" /\ Underway(i) /\ calls[i].row # "ended"
        /\ UNCHANGED <<occupants, moves, enders, registered, stopped>>
        /\ failures' \in 0..MaxFailures
    BY CallFacts DEF OpenVoice, Underway, Building, VoiceInv, StartersOK
  <1>2. CASE GoOn(i, "ready") /\ UNCHANGED starting
             /\ calls' = [calls EXCEPT ![i].voice = "open"]
    <2> DEFINE t == [calls[i] EXCEPT !.voice = "open"]
    <2>1. t \in Call /\ t.queue = calls[i].queue /\ t.capture = calls[i].capture
      BY CallFacts DEF Call
    <2>2. calls' = [calls EXCEPT ![i] = t]
      BY <1>2, CallFacts DEF Call
    <2>3. t.row # "ended"
      BY <1>1, CallFacts DEF Call
    <2> HIDE DEF t
    <2> QED BY <1>1, <1>2, <2>1, <2>2, <2>3, CallFacts, StarterStep
  <1>3. CASE Return(i)
             /\ UNCHANGED calls
    <2> DEFINE t == calls[i]
    <2>1. t \in Call /\ t.queue = calls[i].queue /\ t.capture = calls[i].capture
      BY CallFacts DEF Call
    <2>2. calls' = [calls EXCEPT ![i] = t]
      BY <1>3, CallFacts DEF Call
    <2>3. t.row # "ended" /\ t.voice # "open"
      BY <1>1 DEF VoiceInv, StartersOK
    <2>4. GoOn(i, "done") /\ starting' = starting \ {starters[i].channel}
      BY <1>3 DEF Return
    <2> HIDE DEF t
    <2> QED BY <1>1, <2>1, <2>2, <2>3, <2>4, CallFacts, StarterStep
  <1> QED BY <1>2, <1>3 DEF OpenVoice

\* The connection is ready, or closed again.
LEMMA WaitReadyKeeps ==
  ASSUME VoiceInv, NEW i \in Moves, WaitReady(i) PROVE VoiceInv'
  <1>1. starters[i].pc = "ready" /\ Underway(i) /\ calls[i].row # "ended"
        /\ UNCHANGED <<occupants, moves, enders, registered, stopped>>
        /\ failures' \in 0..MaxFailures
    BY CallFacts DEF WaitReady, Underway, Building, VoiceInv, StartersOK
  <1>2. CASE GoOn(i, "thread") /\ UNCHANGED starting
             /\ UNCHANGED calls
    <2> DEFINE t == calls[i]
    <2>1. t \in Call /\ t.queue = calls[i].queue /\ t.capture = calls[i].capture
      BY CallFacts DEF Call
    <2>2. calls' = [calls EXCEPT ![i] = t]
      BY <1>2, CallFacts DEF Call
    <2>3. t.row # "ended"
      BY <1>1, CallFacts DEF Call
    <2> HIDE DEF t
    <2> QED BY <1>1, <1>2, <2>1, <2>2, <2>3, CallFacts, StarterStep
  <1>3. CASE Return(i)
             /\ calls' = [calls EXCEPT ![i].voice = "closed"]
    <2> DEFINE t == [calls[i] EXCEPT !.voice = "closed"]
    <2>1. t \in Call /\ t.queue = calls[i].queue /\ t.capture = calls[i].capture
      BY ZenonT(60), CallFacts DEF Call
    <2>2. calls' = [calls EXCEPT ![i] = t]
      BY <1>3, CallFacts DEF Call
    <2>3. t.row # "ended" /\ t.voice # "open"
      BY <1>1, CallFacts DEF Call
    <2>4. GoOn(i, "done") /\ starting' = starting \ {starters[i].channel}
      BY <1>3 DEF Return
    <2> HIDE DEF t
    <2> QED BY <1>1, <2>1, <2>2, <2>3, <2>4, CallFacts, StarterStep
  <1> QED BY <1>2, <1>3 DEF WaitReady

\* The row is made, or the connection closed again.
LEMMA EnsureLiveCallThreadKeeps ==
  ASSUME VoiceInv, NEW i \in Moves, EnsureLiveCallThread(i) PROVE VoiceInv'
  <1>1. starters[i].pc = "thread" /\ Underway(i) /\ calls[i].row # "ended"
        /\ UNCHANGED <<occupants, moves, enders, registered, stopped>>
        /\ failures' \in 0..MaxFailures
    BY CallFacts DEF EnsureLiveCallThread, Underway, Building, VoiceInv, StartersOK
  <1>2. CASE GoOn(i, "build") /\ UNCHANGED starting
             /\ calls' = [calls EXCEPT ![i].row = "connecting"]
    <2> DEFINE t == [calls[i] EXCEPT !.row = "connecting"]
    <2>1. t \in Call /\ t.queue = calls[i].queue /\ t.capture = calls[i].capture
      BY CallFacts DEF Call
    <2>2. calls' = [calls EXCEPT ![i] = t]
      BY <1>2, CallFacts DEF Call
    <2>3. t.row # "ended"
      BY <1>1, CallFacts DEF Call
    <2> HIDE DEF t
    <2> QED BY <1>1, <1>2, <2>1, <2>2, <2>3, CallFacts, StarterStep
  <1>3. CASE Return(i)
             /\ calls' = [calls EXCEPT ![i].voice = "closed"]
    <2> DEFINE t == [calls[i] EXCEPT !.voice = "closed"]
    <2>1. t \in Call /\ t.queue = calls[i].queue /\ t.capture = calls[i].capture
      BY ZenonT(60), CallFacts DEF Call
    <2>2. calls' = [calls EXCEPT ![i] = t]
      BY <1>3, CallFacts DEF Call
    <2>3. t.row # "ended" /\ t.voice # "open"
      BY <1>1, CallFacts DEF Call
    <2>4. GoOn(i, "done") /\ starting' = starting \ {starters[i].channel}
      BY <1>3 DEF Return
    <2> HIDE DEF t
    <2> QED BY <1>1, <2>1, <2>2, <2>3, <2>4, CallFacts, StarterStep
  <1> QED BY <1>2, <1>3 DEF EnsureLiveCallThread

\* The playback runs, or the connection is closed again.
LEMMA NewVoicePlaybackKeeps ==
  ASSUME VoiceInv, NEW i \in Moves, NewVoicePlayback(i) PROVE VoiceInv'
  <1>1. starters[i].pc = "build" /\ Underway(i) /\ calls[i].row # "ended"
        /\ UNCHANGED <<occupants, moves, enders, registered, stopped>>
        /\ failures' \in 0..MaxFailures
    BY CallFacts DEF NewVoicePlayback, Underway, Building, VoiceInv, StartersOK
  <1>2. CASE GoOn(i, "connect") /\ UNCHANGED starting
             /\ calls' = [calls EXCEPT ![i].playback = "running", ![i].row = Saved(i, "connecting")]
    <2> DEFINE t == [calls[i] EXCEPT !.playback = "running", !.row = Saved(i, "connecting")]
    <2>1. t \in Call /\ t.queue = calls[i].queue /\ t.capture = calls[i].capture
      BY CallFacts DEF Call, Saved
    <2>2. calls' = [calls EXCEPT ![i] = t]
      BY <1>2, CallFacts DEF Call
    <2>3. t.row # "ended"
      BY <1>1, CallFacts DEF Call, Saved
    <2> HIDE DEF t
    <2> QED BY <1>1, <1>2, <2>1, <2>2, <2>3, CallFacts, StarterStep
  <1>3. CASE Return(i)
             /\ calls' = [calls EXCEPT ![i].voice = "closed"]
    <2> DEFINE t == [calls[i] EXCEPT !.voice = "closed"]
    <2>1. t \in Call /\ t.queue = calls[i].queue /\ t.capture = calls[i].capture
      BY ZenonT(60), CallFacts DEF Call
    <2>2. calls' = [calls EXCEPT ![i] = t]
      BY <1>3, CallFacts DEF Call
    <2>3. t.row # "ended" /\ t.voice # "open"
      BY <1>1, CallFacts DEF Call
    <2>4. GoOn(i, "done") /\ starting' = starting \ {starters[i].channel}
      BY <1>3 DEF Return
    <2> HIDE DEF t
    <2> QED BY <1>1, <2>1, <2>2, <2>3, <2>4, CallFacts, StarterStep
  <1> QED BY <1>2, <1>3 DEF NewVoicePlayback

\* The model is connected, or everything is closed again.
LEMMA StartConversationKeeps ==
  ASSUME VoiceInv, NEW i \in Moves, StartConversation(i) PROVE VoiceInv'
  <1>1. starters[i].pc = "connect" /\ Underway(i) /\ calls[i].row # "ended"
        /\ UNCHANGED <<occupants, moves, enders, registered, stopped>>
        /\ failures' \in 0..MaxFailures
    BY CallFacts DEF StartConversation, Underway, Building, VoiceInv, StartersOK
  <1>2. CASE GoOn(i, "register") /\ UNCHANGED starting
             /\ calls' = [calls EXCEPT ![i].gemini = "open", ![i].receiver = "idle"]
    <2> DEFINE t == [calls[i] EXCEPT !.gemini = "open", !.receiver = "idle"]
    <2>1. t \in Call /\ t.queue = calls[i].queue /\ t.capture = calls[i].capture
      BY CallFacts DEF Call
    <2>2. calls' = [calls EXCEPT ![i] = t]
      BY <1>2, CallFacts DEF Call
    <2>3. t.row # "ended" /\ t.receiver = "idle"
      BY <1>1, CallFacts DEF Call
    <2> HIDE DEF t
    <2> QED BY <1>1, <1>2, <2>1, <2>2, <2>3, CallFacts, StarterStep
  <1>3. CASE Return(i)
             /\ calls' = [calls EXCEPT ![i].playback = "done", ![i].voice = "closed", ![i].cancelled = TRUE]
    <2> DEFINE t == [calls[i] EXCEPT !.playback = "done", !.voice = "closed", !.cancelled = TRUE]
    <2>1. t \in Call /\ t.queue = calls[i].queue /\ t.capture = calls[i].capture
      BY CallFacts DEF Call
    <2>2. calls' = [calls EXCEPT ![i] = t]
      BY <1>3, CallFacts DEF Call
    <2>3. t.row # "ended" /\ t.voice # "open"
      BY <1>1, CallFacts DEF Call
    <2>4. GoOn(i, "done") /\ starting' = starting \ {starters[i].channel}
      BY <1>3 DEF Return
    <2> HIDE DEF t
    <2> QED BY <1>1, <2>1, <2>2, <2>3, <2>4, CallFacts, StarterStep
  <1> QED BY <1>2, <1>3 DEF StartConversation

-----------------------------------------------------------------------------
\* The present call of a shutdown.
LEMMA CurrentFacts ==
  ASSUME VoiceInv, NEW e \in Enders, enders[e].pc \notin {"idle", "take", "done"}
  PROVE  /\ enders[e].todo # {} /\ Current(e) \in enders[e].todo /\ Current(e) \in Moves
         /\ Built(Current(e))
  <1>1. enders[e].todo # {} /\ enders[e].todo \subseteq Moves
    BY DEF VoiceInv, EndersOK, VoiceTypeOK
  <1>2. Current(e) \in enders[e].todo
    BY <1>1 DEF Current
  <1> QED BY <1>1, <1>2 DEF VoiceInv, CallsOK

\* The call's context is cancelled.
LEMMA CancelCallKeeps ==
  ASSUME VoiceInv, NEW e \in Enders, CancelCall(e) PROVE VoiceInv'
  <1> DEFINE i == Current(e)
             t == [calls[i] EXCEPT !.cancelled = TRUE]
  <1>1. Step(e, "cancel", "hangup") /\ enders[e].pc = "cancel"
    BY DEF CancelCall, Step
  <1>2. i \in Moves /\ Built(i)
    BY <1>1, CurrentFacts
  <1>3. Len(calls[i].queue) <= QueueCapacity
    BY <1>2, CallFacts
  <1>4. calls' = [calls EXCEPT ![i] = t]
    BY <1>2, CallFacts DEF CancelCall, Call
  <1> HIDE DEF i
  <1>6. t \in Call /\ Len(t.queue) <= QueueCapacity /\ t.voice = calls[i].voice
        /\ t.capture = calls[i].capture /\ t.row = calls[i].row /\ t.receiver = calls[i].receiver
    BY <1>2, <1>3, CallFacts DEF Call
  <1> HIDE DEF t
  <1> QED BY <1>1, <1>4, <1>6, EnderStep DEF i, EnderPCs

\* The conversation is closed.
LEMMA CloseConversationKeeps ==
  ASSUME VoiceInv, NEW e \in Enders, CloseConversation(e) PROVE VoiceInv'
  <1> DEFINE i == Current(e)
             t == [calls[i] EXCEPT !.gemini = IF @ = "none" THEN @ ELSE "closed"]
  <1>1. Step(e, "hangup", "drain") /\ enders[e].pc = "hangup"
    BY DEF CloseConversation, Step
  <1>2. i \in Moves /\ Built(i)
    BY <1>1, CurrentFacts
  <1>3. Len(calls[i].queue) <= QueueCapacity
    BY <1>2, CallFacts
  <1>4. calls' = [calls EXCEPT ![i] = t]
    BY <1>2, CallFacts DEF CloseConversation, Call
  <1> HIDE DEF i
  <1>6. t \in Call /\ Len(t.queue) <= QueueCapacity /\ t.voice = calls[i].voice
        /\ t.capture = calls[i].capture /\ t.row = calls[i].row /\ t.receiver = calls[i].receiver
    BY <1>2, <1>3, CallFacts DEF Call
  <1> HIDE DEF t
  <1> QED BY <1>1, <1>4, <1>6, EnderStep DEF i, EnderPCs

\* The receive loop has returned, as the call was built.
LEMMA AwaitReceiverKeeps ==
  ASSUME VoiceInv, NEW e \in Enders, AwaitReceiver(e) PROVE VoiceInv'
  <1> DEFINE i == Current(e)
             t == calls[i]
  <1>1. Step(e, "drain", "close") /\ enders[e].pc = "drain"
    BY DEF AwaitReceiver, Step
  <1>2. i \in Moves /\ Built(i)
    BY <1>1, CurrentFacts
  <1>3. Len(calls[i].queue) <= QueueCapacity
    BY <1>2, CallFacts
  <1>4. calls' = [calls EXCEPT ![i] = t]
    BY <1>2, CallFacts DEF AwaitReceiver, Call
  <1>5. calls[i].receiver = "done"
    BY <1>2 DEF AwaitReceiver, Built
  <1> HIDE DEF i
  <1>6. t \in Call /\ Len(t.queue) <= QueueCapacity /\ t.voice = calls[i].voice
        /\ t.capture = calls[i].capture /\ t.row = calls[i].row /\ t.receiver = calls[i].receiver
    BY <1>2, <1>3, CallFacts DEF Call
  <1> HIDE DEF t
  <1> QED BY <1>1, <1>4, <1>5, <1>6, EnderStep DEF i, EnderPCs

\* The playback is told to end.
LEMMA ClosePlaybackKeeps ==
  ASSUME VoiceInv, NEW e \in Enders, ClosePlayback(e) PROVE VoiceInv'
  <1> DEFINE i == Current(e)
             t == [calls[i] EXCEPT !.queue = Append(@, "close")]
  <1>1. Step(e, "close", "played") /\ enders[e].pc = "close"
    BY DEF ClosePlayback, Step
  <1>2. i \in Moves /\ Built(i)
    BY <1>1, CurrentFacts
  <1>3. Append(calls[i].queue, "close") \in Seq({"audio", "close"})
        /\ Len(Append(calls[i].queue, "close")) <= QueueCapacity
    BY <1>2, CallFacts, LiveVoiceAssumption DEF ClosePlayback
  <1>4. calls' = [calls EXCEPT ![i] = t]
    BY <1>2, CallFacts DEF ClosePlayback, Call
  <1>5. calls[i].receiver = "done"
    BY <1>1 DEF VoiceInv, EndersOK
  <1> HIDE DEF i
  <1>6. t \in Call /\ Len(t.queue) <= QueueCapacity /\ t.voice = calls[i].voice
        /\ t.capture = calls[i].capture /\ t.row = calls[i].row /\ t.receiver = calls[i].receiver
    BY <1>2, <1>3, CallFacts DEF Call
  <1> HIDE DEF t
  <1> QED BY <1>1, <1>4, <1>5, <1>6, EnderStep DEF i, EnderPCs

\* The playback has ended.
LEMMA AwaitPlaybackKeeps ==
  ASSUME VoiceInv, NEW e \in Enders, AwaitPlayback(e) PROVE VoiceInv'
  <1> DEFINE i == Current(e)
             t == calls[i]
  <1>1. Step(e, "played", "disconnect") /\ enders[e].pc = "played"
    BY DEF AwaitPlayback, Step
  <1>2. i \in Moves /\ Built(i)
    BY <1>1, CurrentFacts
  <1>3. Len(calls[i].queue) <= QueueCapacity
    BY <1>2, CallFacts
  <1>4. calls' = [calls EXCEPT ![i] = t]
    BY <1>2, CallFacts DEF AwaitPlayback, Call
  <1>5. calls[i].receiver = "done"
    BY <1>1 DEF VoiceInv, EndersOK
  <1> HIDE DEF i
  <1>6. t \in Call /\ Len(t.queue) <= QueueCapacity /\ t.voice = calls[i].voice
        /\ t.capture = calls[i].capture /\ t.row = calls[i].row /\ t.receiver = calls[i].receiver
    BY <1>2, <1>3, CallFacts DEF Call
  <1> HIDE DEF t
  <1> QED BY <1>1, <1>4, <1>5, <1>6, EnderStep DEF i, EnderPCs

\* The connection is closed.
LEMMA DisconnectKeeps ==
  ASSUME VoiceInv, NEW e \in Enders, Disconnect(e) PROVE VoiceInv'
  <1> DEFINE i == Current(e)
             t == [calls[i] EXCEPT !.voice = "closed"]
  <1>1. Step(e, "disconnect", "save") /\ enders[e].pc = "disconnect"
    BY DEF Disconnect, Step
  <1>2. i \in Moves /\ Built(i)
    BY <1>1, CurrentFacts
  <1>3. Len(calls[i].queue) <= QueueCapacity
    BY <1>2, CallFacts
  <1>4. calls' = [calls EXCEPT ![i] = t]
    BY <1>2, CallFacts DEF Disconnect, Call
  <1>5. calls[i].receiver = "done"
    BY <1>1 DEF VoiceInv, EndersOK
  <1> HIDE DEF i
  <1>6. t \in Call /\ Len(t.queue) <= QueueCapacity /\ t.voice = "closed"
        /\ t.capture = calls[i].capture /\ t.row = calls[i].row /\ t.receiver = calls[i].receiver
    BY <1>2, <1>3, CallFacts DEF Call
  <1> HIDE DEF t
  <1> QED BY <1>1, <1>4, <1>5, <1>6, EnderStep DEF i, EnderPCs

-----------------------------------------------------------------------------
\* A start takes the place of its channel, if it is free, or returns at once.
LEMMA CheckSessionsKeeps ==
  ASSUME VoiceInv, NEW i \in Moves, CheckSessions(i) PROVE VoiceInv'
  <1> DEFINE c == starters[i].channel
  <1>1. starters[i].pc = "check" /\ c \in LiveChannels /\ calls[i].voice = "none" /\ ~Built(i)
        /\ UNCHANGED <<occupants, moves, enders, registered, calls, stopped, failures>>
    BY DEF CheckSessions, VoiceInv, StartersOK, Built
  <1>2. PICK pc \in {"done", "open"} :
          /\ GoOn(i, pc)
          /\ pc = "done" => UNCHANGED starting
          /\ pc = "open" => /\ starting' = starting \union {c}
                            /\ registered[c] = NoCall /\ c \notin starting
    BY DEF CheckSessions
  <1>3. /\ starters' \in [Moves -> [pc : StarterPCs, channel : LiveChannels \union {NoChannel}]]
        /\ starters'[i].pc = pc /\ starters'[i].channel = c
        /\ \A j \in Moves : j # i => starters'[j] = starters[j]
    BY <1>2, CallFacts DEF GoOn, StarterPCs
  <1> HIDE DEF c
  <1>4. VoiceTypeOK'
    BY <1>1, <1>2, <1>3 DEF VoiceInv, VoiceTypeOK
  <1>5. StartersOK'
    <2>1. \A j \in Moves : j # i => (Underway(j)' <=> Underway(j))
      BY <1>3 DEF Underway, Building
    <2>2. Underway(i)' => pc = "open"
      BY <1>3 DEF Underway, Building
    <2>3. ASSUME NEW j \in Moves, Underway(j)'
          PROVE  /\ starters'[j].channel \in starting' /\ registered[starters'[j].channel] = NoCall
                 /\ \A k \in Moves : k # j /\ Underway(k)' => starters'[k].channel # starters'[j].channel
      <3>1. CASE j = i
        <4>1. \A k \in Moves : k # i /\ Underway(k) => starters[k].channel \in starting
          BY DEF VoiceInv, StartersOK
        <4> QED BY <2>1, <2>2, <2>3, <3>1, <4>1, <1>2, <1>3
      <3>2. CASE j # i
        <4>1. starters[j].channel \in starting /\ registered[starters[j].channel] = NoCall
              /\ \A k \in Moves : k # j /\ Underway(k) => starters[k].channel # starters[j].channel
          BY <2>1, <2>3, <3>2 DEF VoiceInv, StartersOK
        <4> QED BY <2>1, <2>2, <3>2, <4>1, <1>2, <1>3
      <3> QED BY <3>1, <3>2
    <2>4. \A j \in Moves :
             /\ starters'[j].pc # "idle" => j <= moves /\ starters'[j].channel \in LiveChannels
             /\ starters'[j].pc \in {"idle", "check", "open"} => calls[j].voice = "none"
             /\ starters'[j].pc # "done" => calls[j].capture = "none" /\ calls[j].row # "ended"
             /\ starters'[j].pc = "register" => calls[j].receiver # "none"
      BY <1>1, <1>3 DEF VoiceInv, StartersOK, c
    <2> QED BY <1>1, <2>3, <2>4 DEF StartersOK
  <1>6. CallsOK'
    BY <1>1, <1>3 DEF VoiceInv, CallsOK, Built
  <1>7. EndersOK'
    BY <1>1 DEF VoiceInv, EndersOK, Current
  <1>8. VoiceIsOwned'
    BY <1>1, <1>3 DEF VoiceInv, VoiceIsOwned, Building
  <1> QED BY <1>4, <1>5, <1>6, <1>7, <1>8 DEF VoiceInv

\* The call is handed to the sessions, which have no other call of its channel.
LEMMA RegisterKeeps ==
  ASSUME VoiceInv, NEW i \in Moves, Register(i) PROVE VoiceInv'
  <1> DEFINE c == starters[i].channel
             t == [calls[i] EXCEPT !.capture = "running"]
  <1>1. starters[i].pc = "register" /\ Underway(i) /\ Building(i)
        /\ UNCHANGED <<occupants, moves, enders, stopped, failures>>
    BY DEF Register, Underway, Building
  <1>2. c \in LiveChannels /\ c \in starting /\ registered[c] = NoCall /\ calls[i].row # "ended"
        /\ calls[i].capture = "none" /\ \A j \in Moves : j # i /\ Underway(j) => starters[j].channel # c
    BY <1>1 DEF VoiceInv, StartersOK
  <1>3. /\ starters' \in [Moves -> [pc : StarterPCs, channel : LiveChannels \union {NoChannel}]]
        /\ starters'[i].pc = "done" /\ starters'[i].channel = c
        /\ \A j \in Moves : j # i => starters'[j] = starters[j]
    BY CallFacts DEF Register, Return, GoOn, StarterPCs
  <1>4. t \in Call /\ t.queue = calls[i].queue /\ t.voice = calls[i].voice /\ t.capture = "running"
        /\ t.row = calls[i].row /\ t.receiver = calls[i].receiver /\ t.receiver # "none"
    <2>1. calls[i].receiver # "none"
      BY <1>1 DEF VoiceInv, StartersOK
    <2>2. calls[i] \in Call
      BY CallFacts
    <2> QED
      BY <2>1, <2>2 DEF Call
  <1>5. /\ calls' \in [Moves -> Call] /\ calls'[i] = t
        /\ \A j \in Moves : j # i => calls'[j] = calls[j]
        /\ \A j \in Moves : Len(calls'[j].queue) <= QueueCapacity
    <2>1. calls' = [calls EXCEPT ![i] = t]
      BY CallFacts DEF Register, Call
    <2> HIDE DEF t
    <2> QED BY <1>4, <2>1, CallFacts, OneCall
  <1>6. /\ registered' \in [LiveChannels -> Moves \union {NoCall}] /\ registered'[c] = i
        /\ \A d \in LiveChannels : d # c => registered'[d] = registered[d]
        /\ starting' = starting \ {c}
    BY <1>2 DEF Register, Return, VoiceInv, VoiceTypeOK
  <1> HIDE DEF c, t
  <1>7. VoiceTypeOK'
    BY <1>1, <1>3, <1>5, <1>6 DEF VoiceInv, VoiceTypeOK
  <1>8. \A j \in Moves : Underway(j)' => j # i /\ Underway(j)
    BY <1>3 DEF Underway, Building
  <1>9. StartersOK'
    <2>1. ASSUME NEW j \in Moves, Underway(j)'
          PROVE  /\ starters'[j].channel \in starting' /\ registered'[starters'[j].channel] = NoCall
                 /\ \A k \in Moves : k # j /\ Underway(k)' => starters'[k].channel # starters'[j].channel
      <3>1. j # i /\ Underway(j) /\ starters[j].channel # c
        BY <1>2, <1>8, <2>1
      <3>2. starters[j].channel \in starting /\ registered[starters[j].channel] = NoCall
            /\ starters[j].channel \in LiveChannels
            /\ \A k \in Moves : k # j /\ Underway(k) => starters[k].channel # starters[j].channel
        BY <3>1 DEF VoiceInv, StartersOK, Underway, Building
      <3> QED BY <3>1, <3>2, <1>3, <1>6, <1>8
    <2>2. \A j \in Moves :
             /\ starters'[j].pc # "idle" => j <= moves /\ starters'[j].channel \in LiveChannels
             /\ starters'[j].pc \in {"idle", "check", "open"} => calls'[j].voice = "none"
             /\ starters'[j].pc # "done" => calls'[j].capture = "none" /\ calls'[j].row # "ended"
             /\ starters'[j].pc = "register" => calls'[j].receiver # "none"
      BY <1>1, <1>2, <1>3, <1>5 DEF VoiceInv, StartersOK
    <2> QED BY <1>1, <2>1, <2>2 DEF StartersOK
  <1>10. Built(i)' /\ \A j \in Moves : Built(j) => Built(j)'
    BY <1>3, <1>4, <1>5 DEF Built
  <1>11. CallsOK'
    BY <1>1, <1>2, <1>4, <1>5, <1>6, <1>10 DEF VoiceInv, CallsOK
  <1>12. EndersOK'
    <2>1. \A e \in Enders : Current(e)' = Current(e)
      BY <1>1 DEF Current
    <2>2. \A e \in Enders : enders[e].pc \notin {"idle", "take", "done"} => Current(e) \in Moves
      BY CurrentFacts
    <2>3. enders[<<"decoder", i>>].pc = "idle"
      BY <1>2 DEF VoiceInv, EndersOK
    <2>4. \A j \in Moves : calls'[j].voice = calls[j].voice /\ calls'[j].receiver = calls[j].receiver
      BY <1>4, <1>5
    <2> QED BY <1>1, <1>5, <2>1, <2>2, <2>3, <2>4 DEF VoiceInv, EndersOK
  <1>13. VoiceIsOwned'
    <2> SUFFICES ASSUME NEW j \in Moves, calls'[j].voice = "open"
                 PROVE  \/ Building(j)'
                        \/ \E d \in LiveChannels : registered'[d] = j
                        \/ \E e \in Enders : j \in enders[e].todo
      BY <1>1 DEF VoiceIsOwned
    <2>1. CASE j = i
      BY <2>1, <1>2, <1>6
    <2>2. CASE j # i
      <3>1. \/ Building(j) \/ \E d \in LiveChannels : registered[d] = j
            \/ \E e \in Enders : j \in enders[e].todo
        BY <2>2, <1>5 DEF VoiceInv, VoiceIsOwned
      <3>2. Building(j) => Building(j)'
        BY <2>2, <1>3 DEF Building
      <3>3. registered[c] # j
        BY <1>2, LiveVoiceAssumption
      <3> QED BY <3>1, <3>2, <3>3, <1>6
    <2> QED BY <2>1, <2>2
  <1> QED BY <1>7, <1>9, <1>11, <1>12, <1>13 DEF VoiceInv

\* A member moves: nothing that is there is named by the new event.
LEMMA VoiceStateUpdateKeeps ==
  ASSUME VoiceInv, NEW u \in Members, NEW c \in LiveChannels \union {NoChannel}, VoiceStateUpdate(u, c)
  PROVE  VoiceInv'
  <1> DEFINE i == moves + 1
  <1>1. /\ i \in Moves /\ moves' = i /\ moves \in Nat /\ moves' \in 0..MaxMoves
        /\ UNCHANGED <<registered, starting, calls, stopped, failures>>
    BY LiveVoiceAssumption DEF VoiceStateUpdate, VoiceInv, VoiceTypeOK, Moves
  <1>2. /\ starters[i].pc = "idle"
        /\ \A e \in {<<"stop", i>>, <<"again", i>>} :
             e \in Enders /\ enders[e].pc = "idle" /\ enders[e].todo = {}
    <2>1. i \in Moves /\ ~(i <= moves)
      BY <1>1
    <2> HIDE DEF i
    <2>2. starters[i].pc = "idle"
      BY <2>1 DEF VoiceInv, StartersOK
    <2>3. enders[<<"stop", i>>].pc = "idle" /\ enders[<<"again", i>>].pc = "idle"
      BY <2>1 DEF VoiceInv, EndersOK
    <2>4. enders[<<"stop", i>>].todo = {} /\ enders[<<"again", i>>].todo = {}
      BY <2>1, <2>3, EnderNames DEF VoiceInv, EndersOK
    <2> QED BY <2>1, <2>2, <2>3, <2>4, EnderNames
  <1>3. /\ starters' \in [Moves -> [pc : StarterPCs, channel : LiveChannels \union {NoChannel}]]
        /\ starters'[i].pc \in {"idle", "check"}
        /\ starters'[i].pc = "check" => starters'[i].channel \in LiveChannels
        /\ \A j \in Moves : j # i => starters'[j] = starters[j]
    BY <1>1, <1>2, CallFacts DEF VoiceStateUpdate, StarterPCs
  <1>4. /\ enders' \in [Enders -> [pc : EnderPCs, channel : LiveChannels \union {NoChannel},
                                   todo : SUBSET Moves]]
        /\ \A e \in {<<"stop", i>>, <<"again", i>>} :
             /\ enders'[e].pc \in {"idle", "take"} /\ enders'[e].todo = {}
             /\ enders'[e].pc = "take" => enders'[e].channel \in LiveChannels
        /\ \A e \in Enders : e \notin {<<"stop", i>>, <<"again", i>>} => enders'[e] = enders[e]
    <2> DEFINE new == [pc |-> "take", channel |-> occupants[u], todo |-> {}]
    <2>1. enders \in [Enders -> [pc : EnderPCs, channel : LiveChannels \union {NoChannel},
                                 todo : SUBSET Moves]]
      BY DEF VoiceInv, VoiceTypeOK
    <2>2. PICK stops \in SUBSET {"stop", "again"} :
             /\ stops # {} => occupants[u] \in LiveChannels
             /\ enders' = [e \in Enders |-> IF e \in stops \X {i} THEN new ELSE enders[e]]
      <3> DEFINE alone == ~(occupants[u] \notin LiveChannels \ {c} \/ Others(u, occupants[u]) # {})
                 ending == IF ~alone THEN {}
                           ELSE IF c = NoChannel THEN {"stop", "again"} ELSE {"stop"}
      <3>1. ending \in SUBSET {"stop", "again"} /\ (ending # {} => occupants[u] \in LiveChannels)
        OBVIOUS
      <3>2. enders' = [e \in Enders |-> IF e \in ending \X {i} THEN new ELSE enders[e]]
        BY Zenon DEF VoiceStateUpdate
      <3> HIDE DEF ending, new, i
      <3> QED BY <3>1, <3>2
    <2>3. new.pc = "take" /\ new.channel = occupants[u] /\ new.todo = {}
      OBVIOUS
    <2>4. stops # {} => new \in [pc : EnderPCs, channel : LiveChannels \union {NoChannel},
                                 todo : SUBSET Moves]
      BY <2>2 DEF EnderPCs
    <2> HIDE DEF new, i
    <2>5. \A e \in stops \X {i} : stops # {} /\ e \in {<<"stop", i>>, <<"again", i>>}
      BY <2>2
    <2>6. \A e \in Enders : enders'[e] = IF e \in stops \X {i} THEN new ELSE enders[e]
      BY <2>2
    <2>7. \A e \in Enders : enders'[e] \in [pc : EnderPCs, channel : LiveChannels \union {NoChannel},
                                            todo : SUBSET Moves]
      BY <2>1, <2>4, <2>5, <2>6
    <2>8. enders' \in [Enders -> [pc : EnderPCs, channel : LiveChannels \union {NoChannel},
                                  todo : SUBSET Moves]]
      BY <2>2, <2>7
    <2>9. \A e \in {<<"stop", i>>, <<"again", i>>} :
             /\ enders'[e].pc \in {"idle", "take"} /\ enders'[e].todo = {}
             /\ enders'[e].pc = "take" => enders'[e].channel \in LiveChannels
      BY <1>2, <2>2, <2>3, <2>5, <2>6
    <2>10. \A e \in Enders : e \notin {<<"stop", i>>, <<"again", i>>} => enders'[e] = enders[e]
      BY <2>5, <2>6
    <2> QED BY <2>8, <2>9, <2>10
  <1>5. occupants' \in [Members -> LiveChannels \union {NoChannel}]
    BY DEF VoiceStateUpdate, VoiceInv, VoiceTypeOK
  <1> HIDE DEF i
  <1>6. VoiceTypeOK'
    BY <1>1, <1>3, <1>4, <1>5 DEF VoiceInv, VoiceTypeOK
  <1>7. \A j \in Moves : (Underway(j)' <=> Underway(j)) /\ (Building(j)' <=> Building(j))
    BY <1>2, <1>3 DEF Underway, Building
  <1>8. \A j \in Moves : Built(j)' <=> Built(j)
    BY <1>1, <1>2, <1>3 DEF Built
  <1>9. i <= moves' /\ \A j \in Moves : j <= moves => j <= moves'
    BY <1>1 DEF i, Moves
  <1>10. StartersOK'
    <2>1. \A j \in Moves : Underway(j) => j # i
      BY <1>2 DEF Underway, Building
    <2>2. \A j \in Moves : Underway(j)' =>
             /\ starters'[j].channel \in starting /\ registered[starters'[j].channel] = NoCall
             /\ \A k \in Moves : k # j /\ Underway(k)' => starters'[k].channel # starters'[j].channel
      BY <1>3, <1>7, <2>1 DEF VoiceInv, StartersOK
    <2>3. \A j \in Moves :
             /\ starters'[j].pc # "idle" => j <= moves' /\ starters'[j].channel \in LiveChannels
             /\ starters'[j].pc \in {"idle", "check", "open"} => calls[j].voice = "none"
             /\ starters'[j].pc # "done" => calls[j].capture = "none" /\ calls[j].row # "ended"
             /\ starters'[j].pc = "register" => calls[j].receiver # "none"
      BY <1>2, <1>3, <1>9 DEF VoiceInv, StartersOK
    <2> QED BY <1>1, <2>2, <2>3 DEF StartersOK
  <1>11. \A e \in Enders : enders'[e].todo = enders[e].todo
    <2> SUFFICES ASSUME NEW e \in Enders PROVE enders'[e].todo = enders[e].todo
      OBVIOUS
    <2>1. CASE e \in {<<"stop", i>>, <<"again", i>>}
      BY <2>1, <1>2, <1>4
    <2>2. CASE e \notin {<<"stop", i>>, <<"again", i>>}
      BY <2>2, <1>4
    <2> QED BY <2>1, <2>2
  <1>12. CallsOK'
    BY <1>1, <1>8, <1>11 DEF VoiceInv, CallsOK
  <1>13. EndersOK'
    <2>1. \A e \in Enders : Current(e)' = Current(e)
      BY <1>11 DEF Current
    <2>2. ASSUME NEW e \in Enders
          PROVE  /\ enders'[e].pc \in {"idle", "take", "done"} <=> enders'[e].todo = {}
                 /\ enders'[e].pc = "take" => enders'[e].channel \in LiveChannels
                 /\ enders'[e].pc \in {"close", "played", "disconnect", "save"} =>
                      calls[Current(e)].receiver = "done"
                 /\ enders'[e].pc = "save" => calls[Current(e)].voice = "closed"
      <3>1. CASE e \in {<<"stop", i>>, <<"again", i>>}
        BY <3>1, <1>4
      <3>2. CASE e \notin {<<"stop", i>>, <<"again", i>>}
        BY <3>2, <1>4 DEF VoiceInv, EndersOK
      <3> QED BY <3>1, <3>2
    <2>3. ASSUME NEW j \in Moves
          PROVE  /\ enders'[<<"stop", j>>].pc # "idle" => j <= moves'
                 /\ enders'[<<"again", j>>].pc # "idle" => j <= moves'
                 /\ enders'[<<"decoder", j>>].pc # "idle" => calls[j].capture = "done"
      <3>1. enders'[<<"decoder", j>>] = enders[<<"decoder", j>>]
        BY <1>4, EnderNames
      <3>2. j # i => /\ enders'[<<"stop", j>>] = enders[<<"stop", j>>]
                     /\ enders'[<<"again", j>>] = enders[<<"again", j>>]
        BY <1>4, EnderNames
      <3> QED BY <3>1, <3>2, <1>9 DEF VoiceInv, EndersOK
    <2>4. ~stopped => enders'[<<"close", 0>>].pc = "idle"
      BY <1>4, EnderNames DEF VoiceInv, EndersOK
    <2> QED BY <1>1, <2>1, <2>2, <2>3, <2>4 DEF EndersOK
  <1>14. VoiceIsOwned'
    BY <1>1, <1>7, <1>11 DEF VoiceInv, VoiceIsOwned
  <1> QED BY <1>6, <1>10, <1>12, <1>13, <1>14 DEF VoiceInv

-----------------------------------------------------------------------------
\* A stream without decoder: the capture hands its own call to a shutdown.
LEMMA DecoderErrorKeeps ==
  ASSUME VoiceInv, NEW i \in Moves, DecoderError(i) PROVE VoiceInv'
  <1> DEFINE d == <<"decoder", i>>
             t == [calls[i] EXCEPT !.capture = "done"]
  <1>1. /\ calls[i].capture = "running" /\ Built(i) /\ d \in Enders
        /\ UNCHANGED <<occupants, moves, starters, registered, starting, stopped>>
        /\ failures' \in 0..MaxFailures
    BY CallFacts, EnderNames DEF DecoderError, VoiceInv, CallsOK
  <1>2. enders[d].pc = "idle" /\ enders[d].todo = {}
    <2>1. enders[d].pc = "idle"
      BY <1>1 DEF VoiceInv, EndersOK
    <2> QED BY <1>1, <2>1 DEF VoiceInv, EndersOK
  <1>3. t \in Call /\ t.queue = calls[i].queue /\ t.voice = calls[i].voice /\ t.capture = "done"
        /\ t.row = calls[i].row /\ t.receiver = calls[i].receiver
    BY CallFacts DEF Call
  <1>4. calls' = [calls EXCEPT ![i] = t]
    BY CallFacts DEF DecoderError, Call
  <1> HIDE DEF t
  <1>5. /\ calls' \in [Moves -> Call] /\ calls'[i] = t
        /\ \A j \in Moves : j # i => calls'[j] = calls[j]
        /\ \A j \in Moves : Len(calls'[j].queue) <= QueueCapacity
    BY <1>3, <1>4, CallFacts, OneCall
  <1>6. /\ enders' \in [Enders -> [pc : EnderPCs, channel : LiveChannels \union {NoChannel},
                                   todo : SUBSET Moves]]
        /\ enders'[d].pc = "cancel" /\ enders'[d].todo = {i}
        /\ \A e \in Enders : e # d => enders'[e] = enders[e]
    <2>1. enders \in [Enders -> [pc : EnderPCs, channel : LiveChannels \union {NoChannel},
                                 todo : SUBSET Moves]]
          /\ starters[i].channel \in LiveChannels \union {NoChannel}
      BY DEF VoiceInv, VoiceTypeOK
    <2> QED BY <1>1, <2>1 DEF DecoderError, EnderPCs
  <1>7. \A j \in Moves : <<"stop", j>> # d /\ <<"again", j>> # d /\ (j # i => <<"decoder", j>> # d)
    OBVIOUS
  <1>8. <<"close", 0>> # d
    OBVIOUS
  <1> HIDE DEF d
  <1>9. VoiceTypeOK'
    BY <1>1, <1>5, <1>6 DEF VoiceInv, VoiceTypeOK
  <1>10. StartersOK'
    BY <1>1, <1>3, <1>5 DEF VoiceInv, StartersOK, Underway, Building, Built
  <1>11. \A j \in Moves : Built(j) => Built(j)'
    BY <1>1, <1>3, <1>5 DEF Built
  <1>12. CallsOK'
    BY <1>1, <1>3, <1>5, <1>6, <1>11 DEF VoiceInv, CallsOK
  <1>13. EndersOK'
    <2>1. ASSUME NEW e \in Enders
          PROVE  /\ enders'[e].pc \in {"idle", "take", "done"} <=> enders'[e].todo = {}
                 /\ enders'[e].pc = "take" => enders'[e].channel \in LiveChannels
                 /\ enders'[e].pc \in {"close", "played", "disconnect", "save"} =>
                      calls'[Current(e)'].receiver = "done"
                 /\ enders'[e].pc = "save" => calls'[Current(e)'].voice = "closed"
      <3>1. CASE e = d
        BY <3>1, <1>6
      <3>2. CASE e # d
        <4>1. enders'[e] = enders[e] /\ Current(e)' = Current(e)
          BY <3>2, <1>6 DEF Current
        <4>2. enders[e].pc \notin {"idle", "take", "done"} => Current(e) \in Moves
          BY CurrentFacts
        <4>3. \A j \in Moves : calls'[j].voice = calls[j].voice /\ calls'[j].receiver = calls[j].receiver
          BY <1>3, <1>5
        <4> QED BY <4>1, <4>2, <4>3 DEF VoiceInv, EndersOK
      <3> QED BY <3>1, <3>2
    <2>2. ASSUME NEW j \in Moves
          PROVE  /\ enders'[<<"stop", j>>].pc # "idle" => j <= moves
                 /\ enders'[<<"again", j>>].pc # "idle" => j <= moves
                 /\ enders'[<<"decoder", j>>].pc # "idle" => calls'[j].capture = "done"
      <3>1. /\ enders'[<<"stop", j>>] = enders[<<"stop", j>>]
            /\ enders'[<<"again", j>>] = enders[<<"again", j>>]
            /\ (j # i => enders'[<<"decoder", j>>] = enders[<<"decoder", j>>])
        BY <1>6, <1>7, EnderNames
      <3> QED BY <3>1, <1>3, <1>5 DEF VoiceInv, EndersOK
    <2>3. ~stopped => enders'[<<"close", 0>>].pc = "idle"
      BY <1>6, <1>8, EnderNames DEF VoiceInv, EndersOK
    <2> QED BY <1>1, <2>1, <2>2, <2>3 DEF EndersOK
  <1>14. VoiceIsOwned'
    BY <1>1, <1>2, <1>3, <1>5, <1>6 DEF VoiceInv, VoiceIsOwned, Building
  <1> QED BY <1>9, <1>10, <1>12, <1>13, <1>14 DEF VoiceInv

\* The call of a channel goes from the sessions to the shutdown.
LEMMA TakeSessionKeeps ==
  ASSUME VoiceInv, NEW e \in Enders, TakeSession(e) PROVE VoiceInv'
  <1> DEFINE c == enders[e].channel
             taken == {registered[c]} \ {NoCall}
  <1>1. /\ enders[e].pc = "take" /\ c \in LiveChannels /\ enders[e].todo = {}
        /\ UNCHANGED <<occupants, moves, starters, starting, calls, stopped, failures>>
    BY DEF TakeSession, VoiceInv, EndersOK
  <1>2. /\ registered' \in [LiveChannels -> Moves \union {NoCall}] /\ registered'[c] = NoCall
        /\ \A b \in LiveChannels : b # c => registered'[b] = registered[b]
    BY <1>1 DEF TakeSession, VoiceInv, VoiceTypeOK
  <1>3. taken \subseteq Moves /\ (taken = {} <=> registered[c] = NoCall)
    BY <1>1 DEF VoiceInv, VoiceTypeOK
  <1>4. /\ enders' \in [Enders -> [pc : EnderPCs, channel : LiveChannels \union {NoChannel},
                                   todo : SUBSET Moves]]
        /\ enders'[e].pc = IF taken = {} THEN "done" ELSE "cancel"
        /\ enders'[e].todo = taken
        /\ \A f \in Enders : f # e => enders'[f] = enders[f]
    <2>1. enders' = [enders EXCEPT ![e].pc = IF taken = {} THEN "done" ELSE "cancel", ![e].todo = taken]
      BY <1>3 DEF TakeSession
    <2>2. taken \subseteq Moves
      BY <1>3
    <2>3. enders \in [Enders -> [pc : EnderPCs, channel : LiveChannels \union {NoChannel},
                                 todo : SUBSET Moves]]
      BY DEF VoiceInv, VoiceTypeOK
    <2> HIDE DEF taken
    <2> QED BY <2>1, <2>2, <2>3 DEF EnderPCs
  <1>5. \A i \in taken : i \in Moves /\ Built(i)
    BY <1>1, <1>3 DEF VoiceInv, CallsOK
  <1>6. \A i \in Moves : registered[c] = i => i \in taken
    BY LiveVoiceAssumption
  <1> HIDE DEF c, taken
  <1>7. VoiceTypeOK'
    BY <1>1, <1>2, <1>4 DEF VoiceInv, VoiceTypeOK
  <1>8. StartersOK'
    BY <1>1, <1>2 DEF VoiceInv, StartersOK, Underway, Building
  <1>9. CallsOK'
    BY <1>1, <1>2, <1>4, <1>5, LiveVoiceAssumption DEF VoiceInv, CallsOK, Built
  <1>10. EndersOK'
    <2>1. ASSUME NEW f \in Enders
          PROVE  /\ enders'[f].pc \in {"idle", "take", "done"} <=> enders'[f].todo = {}
                 /\ enders'[f].pc = "take" => enders'[f].channel \in LiveChannels
                 /\ enders'[f].pc \in {"close", "played", "disconnect", "save"} =>
                      calls[Current(f)'].receiver = "done"
                 /\ enders'[f].pc = "save" => calls[Current(f)'].voice = "closed"
      <3>1. CASE f = e
        BY <3>1, <1>4
      <3>2. CASE f # e
        <4>1. enders'[f] = enders[f] /\ Current(f)' = Current(f)
          BY <3>2, <1>4 DEF Current
        <4> QED BY <4>1 DEF VoiceInv, EndersOK
      <3> QED BY <3>1, <3>2
    <2>2. \A f \in Enders : enders'[f].pc # "idle" => enders[f].pc # "idle"
      BY <1>1, <1>4
    <2> QED BY <1>1, <2>1, <2>2, EnderNames DEF VoiceInv, EndersOK
  <1>11. VoiceIsOwned'
    BY <1>1, <1>2, <1>4, <1>6 DEF VoiceInv, VoiceIsOwned, Building
  <1> QED BY <1>7, <1>8, <1>9, <1>10, <1>11 DEF VoiceInv

\* All calls go from the sessions to Close.
LEMMA CloseServiceKeeps ==
  ASSUME VoiceInv, CloseService PROVE VoiceInv'
  <1> DEFINE z == <<"close", 0>>
             taken == {registered[c] : c \in LiveChannels} \ {NoCall}
  <1>1. /\ ~stopped /\ stopped' = TRUE /\ z \in Enders
        /\ UNCHANGED <<occupants, moves, starters, starting, calls, failures>>
    BY EnderNames DEF CloseService
  <1>2. enders[z].pc = "idle" /\ enders[z].todo = {}
    <2>1. enders[z].pc = "idle"
      BY <1>1 DEF VoiceInv, EndersOK
    <2> QED BY <1>1, <2>1 DEF VoiceInv, EndersOK
  <1>3. registered' \in [LiveChannels -> Moves \union {NoCall}]
        /\ \A c \in LiveChannels : registered'[c] = NoCall
    BY DEF CloseService
  <1>4. taken \subseteq Moves
    BY DEF VoiceInv, VoiceTypeOK
  <1>5. /\ enders' \in [Enders -> [pc : EnderPCs, channel : LiveChannels \union {NoChannel},
                                   todo : SUBSET Moves]]
        /\ enders'[z].pc = IF taken = {} THEN "done" ELSE "cancel"
        /\ enders'[z].todo = taken
        /\ \A f \in Enders : f # z => enders'[f] = enders[f]
    <2>1. enders' = [enders EXCEPT ![z] = [pc |-> IF taken = {} THEN "done" ELSE "cancel",
                                           channel |-> NoChannel, todo |-> taken]]
      BY DEF CloseService
    <2>2. enders \in [Enders -> [pc : EnderPCs, channel : LiveChannels \union {NoChannel},
                                 todo : SUBSET Moves]]
      BY DEF VoiceInv, VoiceTypeOK
    <2> HIDE DEF taken, z
    <2> QED BY <1>1, <1>4, <2>1, <2>2 DEF EnderPCs
  <1>6. \A i \in taken : i \in Moves /\ Built(i)
    BY <1>4 DEF VoiceInv, CallsOK
  <1>7. \A i \in Moves, c \in LiveChannels : registered[c] = i => i \in taken
    BY LiveVoiceAssumption
  <1> HIDE DEF taken
  <1>8. \A j \in Moves : <<"stop", j>> # z /\ <<"again", j>> # z /\ <<"decoder", j>> # z
    OBVIOUS
  <1> HIDE DEF z
  <1>9. VoiceTypeOK'
    BY <1>1, <1>3, <1>5 DEF VoiceInv, VoiceTypeOK
  <1>10. StartersOK'
    BY <1>1, <1>3 DEF VoiceInv, StartersOK, Underway, Building
  <1>11. CallsOK'
    BY <1>1, <1>3, <1>5, <1>6, LiveVoiceAssumption DEF VoiceInv, CallsOK, Built
  <1>12. EndersOK'
    <2>1. ASSUME NEW f \in Enders
          PROVE  /\ enders'[f].pc \in {"idle", "take", "done"} <=> enders'[f].todo = {}
                 /\ enders'[f].pc = "take" => enders'[f].channel \in LiveChannels
                 /\ enders'[f].pc \in {"close", "played", "disconnect", "save"} =>
                      calls[Current(f)'].receiver = "done"
                 /\ enders'[f].pc = "save" => calls[Current(f)'].voice = "closed"
      <3>1. CASE f = z
        BY <3>1, <1>5
      <3>2. CASE f # z
        <4>1. enders'[f] = enders[f] /\ Current(f)' = Current(f)
          BY <3>2, <1>5 DEF Current
        <4> QED BY <4>1 DEF VoiceInv, EndersOK
      <3> QED BY <3>1, <3>2
    <2>2. \A j \in Moves : /\ enders'[<<"stop", j>>] = enders[<<"stop", j>>]
                           /\ enders'[<<"again", j>>] = enders[<<"again", j>>]
                           /\ enders'[<<"decoder", j>>] = enders[<<"decoder", j>>]
      BY <1>5, <1>8, EnderNames
    <2> QED BY <1>1, <2>1, <2>2 DEF VoiceInv, EndersOK
  <1>13. VoiceIsOwned'
    BY <1>1, <1>2, <1>5, <1>7 DEF VoiceInv, VoiceIsOwned, Building
  <1> QED BY <1>9, <1>10, <1>11, <1>12, <1>13 DEF VoiceInv

\* The row says "ended"; the shutdown lets go of a call that is closed.
LEMMA SaveEndKeeps ==
  ASSUME VoiceInv, NEW e \in Enders, SaveEnd(e) PROVE VoiceInv'
  <1> DEFINE i == Current(e)
             left == enders[e].todo \ {i}
             t == [calls[i] EXCEPT !.row = Saved(i, "ended")]
  <1>1. /\ enders[e].pc = "save"
        /\ UNCHANGED <<occupants, moves, starters, registered, starting, stopped, failures>>
    BY DEF SaveEnd
  <1>2. i \in Moves /\ Built(i) /\ calls[i].receiver = "done" /\ calls[i].voice = "closed"
    BY <1>1, CurrentFacts DEF VoiceInv, EndersOK
  <1>3. calls' = [calls EXCEPT ![i] = t]
    BY <1>2, CallFacts DEF SaveEnd, Call
  <1>4. /\ enders' \in [Enders -> [pc : EnderPCs, channel : LiveChannels \union {NoChannel},
                                   todo : SUBSET Moves]]
        /\ enders'[e].pc = IF left = {} THEN "done" ELSE "cancel"
        /\ enders'[e].todo = left
        /\ \A f \in Enders : f # e => enders'[f] = enders[f]
    <2>1. enders' = [enders EXCEPT ![e].pc = IF left = {} THEN "done" ELSE "cancel", ![e].todo = left]
      BY DEF SaveEnd
    <2>2. left \subseteq Moves
      BY DEF VoiceInv, VoiceTypeOK
    <2>3. enders \in [Enders -> [pc : EnderPCs, channel : LiveChannels \union {NoChannel},
                                 todo : SUBSET Moves]]
      BY DEF VoiceInv, VoiceTypeOK
    <2> HIDE DEF left
    <2> QED BY <2>1, <2>2, <2>3 DEF EnderPCs
  <1>5. left \subseteq enders[e].todo /\ \A j \in Moves : j \in enders[e].todo => j = i \/ j \in left
    OBVIOUS
  <1> HIDE DEF i, left
  <1>6. t \in Call /\ t.queue = calls[i].queue /\ t.voice = "closed" /\ t.receiver = "done"
        /\ t.capture = calls[i].capture
    BY <1>2, CallFacts DEF Call, Saved
  <1> HIDE DEF t
  <1>7. /\ calls' \in [Moves -> Call] /\ calls'[i] = t
        /\ \A j \in Moves : j # i => calls'[j] = calls[j]
        /\ \A j \in Moves : Len(calls'[j].queue) <= QueueCapacity
    BY <1>2, <1>3, <1>6, CallFacts, OneCall
  <1>8. VoiceTypeOK'
    BY <1>1, <1>4, <1>7 DEF VoiceInv, VoiceTypeOK
  <1>9. StartersOK'
    BY <1>1, <1>2, <1>7 DEF VoiceInv, StartersOK, Underway, Building, Built
  <1>10. \A j \in Moves : Built(j) => Built(j)'
    BY <1>1, <1>2, <1>6, <1>7 DEF Built
  <1>11. CallsOK'
    BY <1>1, <1>2, <1>4, <1>5, <1>6, <1>7, <1>10 DEF VoiceInv, CallsOK
  <1>12. EndersOK'
    <2>1. ASSUME NEW f \in Enders
          PROVE  /\ enders'[f].pc \in {"idle", "take", "done"} <=> enders'[f].todo = {}
                 /\ enders'[f].pc = "take" => enders'[f].channel \in LiveChannels
                 /\ enders'[f].pc \in {"close", "played", "disconnect", "save"} =>
                      calls'[Current(f)'].receiver = "done"
                 /\ enders'[f].pc = "save" => calls'[Current(f)'].voice = "closed"
      <3>1. CASE f = e
        BY <3>1, <1>4
      <3>2. CASE f # e
        <4>1. enders'[f] = enders[f] /\ Current(f)' = Current(f)
          BY <3>2, <1>4 DEF Current
        <4>2. enders[f].pc \notin {"idle", "take", "done"} => Current(f) \in Moves
          BY CurrentFacts
        <4>3. \A j \in Moves : calls'[j].voice = calls[j].voice /\ calls'[j].receiver = calls[j].receiver
          BY <1>2, <1>6, <1>7
        <4> QED BY <4>1, <4>2, <4>3 DEF VoiceInv, EndersOK
      <3> QED BY <3>1, <3>2
    <2>2. \A f \in Enders : enders'[f].pc # "idle" => enders[f].pc # "idle"
      BY <1>1, <1>4
    <2>3. \A j \in Moves : calls'[j].capture = calls[j].capture
      BY <1>6, <1>7
    <2> QED BY <1>1, <2>1, <2>2, <2>3, EnderNames DEF VoiceInv, EndersOK
  <1>13. VoiceIsOwned'
    <2> SUFFICES ASSUME NEW j \in Moves, calls'[j].voice = "open"
                 PROVE  \/ Building(j)'
                        \/ \E c \in LiveChannels : registered[c] = j
                        \/ \E f \in Enders : j \in enders'[f].todo
      BY <1>1 DEF VoiceIsOwned
    <2>1. j # i /\ calls[j].voice = "open"
      BY <1>6, <1>7
    <2>2. \/ Building(j) \/ \E c \in LiveChannels : registered[c] = j
          \/ \E f \in Enders : j \in enders[f].todo
      BY <2>1 DEF VoiceInv, VoiceIsOwned
    <2>3. Building(j) => Building(j)'
      BY <1>1 DEF Building
    <2>4. \A f \in Enders : j \in enders[f].todo => j \in enders'[f].todo
      BY <1>4, <1>5, <2>1
    <2> QED BY <2>2, <2>3, <2>4
  <1> QED BY <1>8, <1>9, <1>11, <1>12, <1>13 DEF VoiceInv

-----------------------------------------------------------------------------
\* Every step keeps the invariant.
LEMMA VoiceNextKeeps == VoiceInv /\ [VoiceNext]_voiceVars => VoiceInv'
  <1> SUFFICES ASSUME VoiceInv, VoiceNext PROVE VoiceInv'
    BY VoiceStutter
  <1>1. ASSUME NEW u \in Members, NEW c \in LiveChannels \union {NoChannel}, VoiceStateUpdate(u, c)
        PROVE  VoiceInv'
    BY <1>1, VoiceStateUpdateKeeps
  <1>2. ASSUME NEW i \in Moves, EnsureLiveSession(i) PROVE VoiceInv'
    BY <1>2, CheckSessionsKeeps, OpenVoiceKeeps, WaitReadyKeeps, EnsureLiveCallThreadKeeps,
       NewVoicePlaybackKeeps, StartConversationKeeps, RegisterKeeps DEF EnsureLiveSession
  <1>3. ASSUME NEW i \in Moves, Conversation(i) PROVE VoiceInv'
    BY <1>3, EnqueueKeeps, EndReceiveKeeps, PlayKeeps, EndCaptureKeeps DEF Conversation
  <1>4. ASSUME NEW i \in Moves, ReceiveStatus(i) \/ ReceiveAudio(i) \/ BreakStream(i) \/ DecoderError(i)
        PROVE  VoiceInv'
    BY <1>4, ReceiveStatusKeeps, ReceiveAudioKeeps, BreakStreamKeeps, DecoderErrorKeeps
  <1>5. ASSUME NEW e \in Enders, Shutdown(e) PROVE VoiceInv'
    BY <1>5, TakeSessionKeeps, CancelCallKeeps, CloseConversationKeeps, AwaitReceiverKeeps,
       ClosePlaybackKeeps, AwaitPlaybackKeeps, DisconnectKeeps, SaveEndKeeps DEF Shutdown
  <1>6. CASE CloseService
    BY <1>6, CloseServiceKeeps
  <1> QED BY <1>1, <1>2, <1>3, <1>4, <1>5, <1>6 DEF VoiceNext

\* The strengthened invariant of live voice.
LEMMA VoiceInvariant == VoiceSpec => []VoiceInv
  BY VoiceInitOK, VoiceNextKeeps, PTL DEF VoiceSpec

\* The maps, the goroutines and the calls have the types that live_voice.go
\* gives them, and the playback's channel never holds more than its capacity.
THEOREM VoiceTypes == VoiceSpec => []VoiceTypeOK
  <1>1. VoiceInv => VoiceTypeOK
    BY DEF VoiceInv
  <1> QED BY <1>1, VoiceInvariant, PTL

\* However the goroutines of ensureLiveSession, stopLiveSession, a decoder
\* error and Close interleave, an open connection is with one of them or in
\* the sessions map: none is forgotten.
THEOREM ConnectionsAreOwned == VoiceSpec => []VoiceIsOwned
  <1>1. VoiceInv => VoiceIsOwned
    BY DEF VoiceInv
  <1> QED BY <1>1, VoiceInvariant, PTL

-----------------------------------------------------------------------------
\* A call whose row says "ended" has no goroutine left that would write it: it
\* was built, and its receive loop has returned.
LEMMA EndedIsQuiet ==
  ASSUME VoiceInv, NEW i \in Moves, calls[i].row = "ended"
  PROVE  starters[i].pc = "done" /\ calls[i].receiver = "done"
  BY DEF VoiceInv, StartersOK, CallsOK

\* A step of one call leaves the rows of the others.
LEMMA EndedStays ==
  ASSUME VoiceInv, VoiceNext, NEW j \in Moves, calls[j].row = "ended"
  PROVE  calls'[j].row = "ended"
  <1>1. starters[j].pc = "done" /\ calls[j].receiver = "done"
    BY EndedIsQuiet
  <1>2. calls \in [Moves -> Call]
    BY DEF VoiceInv, VoiceTypeOK
  <1>3. ASSUME NEW u \in Members, NEW c \in LiveChannels \union {NoChannel}, VoiceStateUpdate(u, c)
        PROVE  calls'[j].row = "ended"
    BY <1>3 DEF VoiceStateUpdate
  <1>4. ASSUME NEW i \in Moves, EnsureLiveSession(i) PROVE calls'[j].row = "ended"
    <2>1. CASE j = i
      <3>1. CheckSessions(i) \/ OpenVoice(i) \/ WaitReady(i) \/ EnsureLiveCallThread(i)
              \/ NewVoicePlayback(i) \/ StartConversation(i) \/ Register(i) => starters[i].pc # "done"
        BY DEF CheckSessions, OpenVoice, WaitReady, EnsureLiveCallThread, NewVoicePlayback,
               StartConversation, Register
      <3> QED BY <1>1, <1>4, <2>1, <3>1 DEF EnsureLiveSession
    <2>2. CASE j # i
      <3>1. CheckSessions(i) => calls' = calls
        BY DEF CheckSessions
      <3>2. OpenVoice(i) => calls'[j] = calls[j]
        BY <1>2, <2>2 DEF OpenVoice
      <3>3. WaitReady(i) => calls'[j] = calls[j]
        BY <1>2, <2>2 DEF WaitReady
      <3>4. EnsureLiveCallThread(i) => calls'[j] = calls[j]
        BY <1>2, <2>2 DEF EnsureLiveCallThread
      <3>5. NewVoicePlayback(i) => calls'[j] = calls[j]
        BY <1>2, <2>2 DEF NewVoicePlayback
      <3>6. StartConversation(i) => calls'[j] = calls[j]
        BY <1>2, <2>2 DEF StartConversation
      <3>7. Register(i) => calls'[j] = calls[j]
        BY <1>2, <2>2 DEF Register
      <3> QED BY <1>4, <3>1, <3>2, <3>3, <3>4, <3>5, <3>6, <3>7 DEF EnsureLiveSession
    <2> QED BY <2>1, <2>2
  <1>5. ASSUME NEW i \in Moves, Conversation(i) PROVE calls'[j].row = "ended"
    BY <1>1, <1>2, <1>5 DEF Conversation, Enqueue, EndReceive, Play, EndCapture, Call
  <1>6. ASSUME NEW i \in Moves, ReceiveStatus(i) \/ ReceiveAudio(i) \/ BreakStream(i) \/ DecoderError(i)
        PROVE  calls'[j].row = "ended"
    BY <1>1, <1>2, <1>6 DEF ReceiveStatus, ReceiveAudio, BreakStream, DecoderError, Call
  <1>7. ASSUME NEW e \in Enders, Shutdown(e) PROVE calls'[j].row = "ended"
    <2>1. CASE TakeSession(e) \/ AwaitReceiver(e) \/ AwaitPlayback(e)
      BY <2>1 DEF TakeSession, AwaitReceiver, AwaitPlayback
    <2>2. CASE CancelCall(e) \/ CloseConversation(e) \/ ClosePlayback(e) \/ Disconnect(e)
      <3> DEFINE i == Current(e)
      <3>1. calls[j] \in Call
        BY <1>2
      <3>2. CancelCall(e) => calls'[j] = IF j = i THEN [calls[j] EXCEPT !.cancelled = TRUE] ELSE calls[j]
        BY <1>2 DEF CancelCall
      <3>3. CloseConversation(e) =>
              calls'[j] = IF j = i THEN [calls[j] EXCEPT !.gemini = IF @ = "none" THEN @ ELSE "closed"]
                          ELSE calls[j]
        BY <1>2 DEF CloseConversation
      <3>4. ClosePlayback(e) =>
              calls'[j] = IF j = i THEN [calls[j] EXCEPT !.queue = Append(@, "close")] ELSE calls[j]
        BY <1>2 DEF ClosePlayback
      <3>5. Disconnect(e) => calls'[j] = IF j = i THEN [calls[j] EXCEPT !.voice = "closed"] ELSE calls[j]
        BY <1>2 DEF Disconnect
      <3> HIDE DEF i
      <3> QED BY <2>2, <3>1, <3>2, <3>3, <3>4, <3>5 DEF Call
    <2>3. CASE SaveEnd(e)
      BY <1>2, <2>3 DEF SaveEnd, Saved, Call
    <2> QED BY <1>7, <2>1, <2>2, <2>3 DEF Shutdown
  <1>8. CASE CloseService
    BY <1>8 DEF CloseService
  <1> QED BY <1>3, <1>4, <1>5, <1>6, <1>7, <1>8 DEF VoiceNext

\* The last status of a call that was shut down is "ended": shutdown waits for
\* the receive loop, whose statuses could be saved after it, before it saves.
THEOREM EndStays == VoiceSpec => EndIsLastStatus
  <1>1. VoiceInv /\ [VoiceNext]_voiceVars =>
          [\A i \in Moves : calls[i].row = "ended" => calls'[i].row = "ended"]_voiceVars
    BY EndedStays
  <1> QED BY <1>1, VoiceInvariant, PTL DEF VoiceSpec, EndIsLastStatus

-----------------------------------------------------------------------------
(***************************************************************************)
(* The playback of a call (VoicePlayback).                                 *)
(***************************************************************************)
\* Never both timers would send: a frame that waits for the transport is not
\* scheduled too.
OneTimer == ~(timers.playback /\ timers.retry)

PlaybackInv == PlaybackTypeOK /\ BufferedFrameIsTimed /\ OneTimer

Timers == [playback : BOOLEAN, retry : BOOLEAN, idle : BOOLEAN]
TransportStates ==
  {"opening", "session_described", "audio_ready", "reconnecting", "closing", "closed"}

\* The types of what the loop of the playback writes.
BufferTyped ==
  /\ loop \in {"running", "done"}
  /\ pending \in Nat
  /\ since \in BOOLEAN
  /\ speaking \in BOOLEAN
  /\ timers \in Timers
  /\ transport \in TransportStates
  /\ microphone \in BOOLEAN

\* The type invariant of the playback, as the steps use it.
LEMMA BufferTypes == PlaybackTypeOK => BufferTyped
  BY DEF PlaybackTypeOK, BufferTyped, Timers, TransportStates

\* The buffer and its timers agree: what a step of the loop has to restore.
BufferIsTimed(p, t) == ~(t.playback /\ t.retry) /\ (p >= Frame => t.playback \/ t.retry)

\* At the start.
LEMMA PlaybackInitOK == PlaybackInit => PlaybackInv
<1> SUFFICES ASSUME PlaybackInit PROVE PlaybackInv
  OBVIOUS
<1>1. /\ 0 \in 0..MaxPadding /\ 0 \in 0..MaxChunks /\ 0 \in 0..MaxPackets /\ 0 \in 0..1
      /\ 0 <= ChannelCapacity
  BY VoicePlaybackAssumption
<1>2. channel \in Seq(Event) /\ Len(channel) <= ChannelCapacity
  BY <1>1 DEF PlaybackInit
<1>3. /\ speech \in [active : BOOLEAN, candidates : 0..1]
      /\ endpoint \in [open : BOOLEAN, ended : BOOLEAN, pads : 0..MaxPadding]
      /\ timers \in [playback : BOOLEAN, retry : BOOLEAN, idle : BOOLEAN]
  BY <1>1 DEF PlaybackInit
<1>4. PlaybackTypeOK
  BY <1>1, <1>2, <1>3 DEF PlaybackInit, PlaybackTypeOK
<1> QED
  BY <1>4 DEF PlaybackInit, PlaybackInv, BufferedFrameIsTimed, OneTimer, Frame

\* Two timers are never armed at once, and one is for a whole frame.
LEMMA TimedIsInv ==
  ASSUME PlaybackTypeOK
  PROVE  BufferedFrameIsTimed /\ OneTimer
           <=> OneTimer /\ (loop = "running" => BufferIsTimed(pending, timers))
  BY DEF PlaybackTypeOK, BufferedFrameIsTimed, OneTimer, BufferIsTimed

\* scheduleNextPlaybackFrame arms the one timer that is missing.
LEMMA ScheduledTimes ==
  ASSUME NEW t \in Timers, NEW p \in Nat, ~(t.playback /\ t.retry)
  PROVE  Scheduled(t, p) \in Timers /\ BufferIsTimed(p, Scheduled(t, p))
  BY DEF Timers, Scheduled, BufferIsTimed

\* What StopMicrophone may leave.
LEMMA MicrophoneTyped ==
  ASSUME PlaybackTypeOK, NEW s \in TransportStates, StopMicrophone(s)
  PROVE  transport' \in TransportStates /\ microphone' \in BOOLEAN
  BY DEF PlaybackTypeOK, StopMicrophone, TransportStates

\* stopSpeaking leaves a transport and a microphone.
LEMMA StopSpeakingTyped ==
  ASSUME PlaybackTypeOK, StopSpeaking
  PROVE  transport' \in TransportStates /\ microphone' \in BOOLEAN
  BY MicrophoneTyped, BufferTypes DEF StopSpeaking, BufferTyped

\* clearPending leaves no frame, and arms no timer.
LEMMA ClearPendingTimes ==
  ASSUME PlaybackTypeOK, OneTimer, ClearPending
  PROVE  /\ pending' \in Nat /\ since' \in BOOLEAN /\ speaking' \in BOOLEAN /\ timers' \in Timers
         /\ BufferIsTimed(pending', timers')
<1> DEFINE empty == pending = 0
<1>1. /\ (timers.playback /\ empty) \in BOOLEAN /\ (timers.retry /\ empty) \in BOOLEAN
      /\ (timers.idle /\ ~speaking) \in BOOLEAN /\ (since /\ empty) \in BOOLEAN
  OBVIOUS
<1>2. timers' \in Timers /\ since' \in BOOLEAN
  BY <1>1 DEF ClearPending, Timers
<1>3. timers'.playback = (timers.playback /\ empty) /\ timers'.retry = (timers.retry /\ empty)
  BY DEF ClearPending
<1>4. ~(timers'.playback /\ timers'.retry)
  BY <1>3 DEF OneTimer
<1>5. pending' = 0 /\ speaking' = FALSE
  BY DEF ClearPending
<1>6. pending' \in Nat /\ ~(pending' >= Frame)
  BY <1>5 DEF Frame
<1>7. speaking' \in BOOLEAN
  BY <1>5
<1>8. BufferIsTimed(pending', timers')
  BY <1>4, <1>6, Zenon DEF BufferIsTimed
<1> QED
  BY <1>2, <1>6, <1>7, <1>8

\* A timer has fired, and no other was armed for the buffer.
LEMMA SendTimes ==
  ASSUME PlaybackTypeOK, OneTimer, NEW fired \in Timers, ~fired.playback, ~fired.retry,
         SendOnePendingFrame(fired)
  PROVE  /\ pending' \in Nat /\ since' \in BOOLEAN /\ speaking' \in BOOLEAN /\ timers' \in Timers
         /\ transport' \in TransportStates /\ microphone' \in BOOLEAN
         /\ BufferIsTimed(pending', timers')
<1>0. BufferTyped
  BY BufferTypes
<1>1. CASE pending < Frame /\ since' = (since /\ pending > 0)
           /\ timers' = [fired EXCEPT !.retry = @ /\ pending > 0]
           /\ UNCHANGED <<pending, speaking, transport, microphone>>
  <2>1. timers' \in Timers /\ ~timers'.playback /\ ~timers'.retry
    BY <1>1 DEF Timers
  <2> QED
    BY <1>0, <1>1, <2>1 DEF BufferTyped, BufferIsTimed, Frame
<1>2. CASE pending >= Frame /\ NotReady(fired)
  <2>1. CASE Postpone(fired) /\ UNCHANGED <<speaking, transport, microphone>>
    <3>1. timers' \in Timers /\ ~timers'.playback /\ timers'.retry
      BY <2>1 DEF Postpone, Timers
    <3> QED
      BY <1>0, <2>1, <3>1 DEF Postpone, BufferTyped, BufferIsTimed
  <2>2. CASE ClearPending /\ StopSpeaking
    BY <2>2, ClearPendingTimes, StopSpeakingTyped
  <2> QED
    BY <1>2, <2>1, <2>2 DEF NotReady
<1>3. CASE pending >= Frame /\ SendFrame(fired)
  <2> DEFINE t == [fired EXCEPT !.idle = TRUE, !.retry = @ /\ pending > Frame]
  <2>1. t \in Timers /\ ~t.playback /\ ~t.retry
    BY DEF Timers
  <2>2. pending - Frame \in Nat
    BY <1>0, <1>3 DEF BufferTyped, Frame
  <2>3. DropFrame(t)
    BY <1>3 DEF SendFrame
  <2> HIDE DEF t
  <2>4. /\ pending' \in Nat /\ timers' \in Timers /\ BufferIsTimed(pending', timers')
    BY <2>1, <2>2, <2>3, ScheduledTimes DEF DropFrame
  <2> QED
    BY <1>0, <1>3, <2>4 DEF SendFrame, BufferTyped
<1>4. CASE pending >= Frame /\ LoseFrame(fired)
  <2>1. pending - Frame \in Nat
    BY <1>0, <1>4 DEF BufferTyped, Frame
  <2>2. pending' \in Nat /\ timers' \in Timers /\ BufferIsTimed(pending', timers')
    BY <1>4, <2>1, ScheduledTimes DEF LoseFrame, DropFrame
  <2> QED
    BY <1>0, <1>4, <2>2 DEF LoseFrame, BufferTyped
<1>5. CASE pending >= Frame /\ LoseGateway(fired)
  <2>1. timers' \in Timers /\ ~timers'.playback /\ timers'.retry
    BY <1>5 DEF LoseGateway, Postpone, Timers
  <2> QED
    BY <1>0, <1>5, <2>1 DEF LoseGateway, Postpone, BufferTyped, BufferIsTimed, TransportStates
<1> QED
  BY <1>1, <1>2, <1>3, <1>4, <1>5 DEF SendOnePendingFrame

\* The buffer is as it was, so is what times it.
LEMMA BufferKept ==
  ASSUME PlaybackInv, PlaybackTypeOK', UNCHANGED <<loop, pending, timers>>
  PROVE  PlaybackInv'
  BY DEF PlaybackInv, BufferedFrameIsTimed, OneTimer

\* What the loop writes is typed and timed.
LEMMA BufferDone ==
  ASSUME PlaybackInv, BufferTyped', BufferIsTimed(pending', timers'),
         channel' \in Seq(Event), Len(channel') <= ChannelCapacity,
         UNCHANGED <<described, everReady, captureVars, chunks>>
  PROVE  PlaybackInv'
<1>1. PlaybackTypeOK'
  BY DEF PlaybackInv, PlaybackTypeOK, BufferTyped, Timers, TransportStates, captureVars
<1> QED
  BY <1>1 DEF PlaybackInv, BufferedFrameIsTimed, OneTimer, BufferIsTimed, BufferTyped, Timers

\* The channel after an event was taken or put.
LEMMA ChannelTyped ==
  ASSUME PlaybackTypeOK
  PROVE  /\ channel # <<>> => /\ Tail(channel) \in Seq(Event) /\ Len(Tail(channel)) <= ChannelCapacity
                              /\ Head(channel) \in Event
         /\ \A e \in Event : Room => /\ Append(channel, e) \in Seq(Event)
                                     /\ Len(Append(channel, e)) <= ChannelCapacity
         /\ Interrupted \in Seq(Event) /\ Len(Interrupted) <= ChannelCapacity
<1>1. channel \in Seq(Event) /\ Len(channel) \in Nat /\ Len(channel) <= ChannelCapacity
  BY DEF PlaybackTypeOK
<1>2. \A e \in Event : Room => /\ Append(channel, e) \in Seq(Event)
                               /\ Len(Append(channel, e)) <= ChannelCapacity
  BY <1>1, VoicePlaybackAssumption DEF Room
<1>3. [kind |-> "reset", size |-> 0] \in Event
  BY DEF Event
<1>4. channel # <<>> => /\ Tail(channel) \in Seq(Event) /\ Len(Tail(channel)) <= ChannelCapacity
                        /\ Head(channel) \in Event
  BY <1>1, VoicePlaybackAssumption
<1> QED
  BY <1>1, <1>2, <1>3, <1>4 DEF Interrupted

\* The transport.
LEMMA TransportKeeps ==
  ASSUME PlaybackInv, SyncTransportState \/ MarkSessionDescribed \/ BeginDisconnect \/ EndDisconnect
  PROVE  PlaybackInv'
<1>1. \A d, r \in BOOLEAN : Sync(d, r) => transport' \in TransportStates /\ everReady' \in BOOLEAN
  BY DEF PlaybackInv, PlaybackTypeOK, Sync, Synced, TransportStates
<1>2. BeginDisconnect => transport' \in TransportStates /\ microphone' \in BOOLEAN
  BY MicrophoneTyped DEF PlaybackInv, BeginDisconnect, TransportStates
<1>3. UNCHANGED <<bufferVars, captureVars, chunks>>
  BY DEF SyncTransportState, MarkSessionDescribed, BeginDisconnect, EndDisconnect
<1>4. /\ transport' \in TransportStates /\ everReady' \in BOOLEAN
      /\ described' \in BOOLEAN /\ microphone' \in BOOLEAN
  <2>1. CASE SyncTransportState
    BY <1>1, <2>1 DEF SyncTransportState, PlaybackInv, PlaybackTypeOK
  <2>2. CASE MarkSessionDescribed
    BY <1>1, <2>2 DEF MarkSessionDescribed, PlaybackInv, PlaybackTypeOK
  <2>3. CASE BeginDisconnect
    BY <1>2, <2>3 DEF BeginDisconnect, PlaybackInv, PlaybackTypeOK
  <2>4. CASE EndDisconnect
    BY <2>4 DEF EndDisconnect, PlaybackInv, PlaybackTypeOK, TransportStates
  <2> QED
    BY <2>1, <2>2, <2>3, <2>4
<1>5. PlaybackTypeOK'
  BY <1>3, <1>4 DEF PlaybackInv, PlaybackTypeOK, bufferVars, captureVars, TransportStates
<1> QED
  BY <1>3, <1>5, BufferKept DEF bufferVars

\* The producers of events.
LEMMA ProducersKeep ==
  ASSUME PlaybackInv, OnInterrupted \/ ClosePlaybackLoop \/ \E size \in AudioSizes : OnAudio(size)
  PROVE  PlaybackInv'
<1>0. PlaybackTypeOK
  BY DEF PlaybackInv
<1>1. /\ UNCHANGED <<loop, pending, since, speaking, timers, transportVars, captureVars>>
      /\ chunks' \in 0..MaxChunks
  <2>1. UNCHANGED <<loop, pending, since, speaking, timers, transportVars, captureVars>>
    BY DEF OnInterrupted, ClosePlaybackLoop, OnAudio
  <2>2. chunks \in 0..MaxChunks /\ MaxChunks \in Nat
    BY <1>0, VoicePlaybackAssumption DEF PlaybackTypeOK
  <2>3. chunks' = chunks \/ (chunks < MaxChunks /\ chunks' = chunks + 1)
    BY DEF OnInterrupted, ClosePlaybackLoop, OnAudio
  <2> QED
    BY <2>1, <2>2, <2>3
<1>2. channel' \in Seq(Event) /\ Len(channel') <= ChannelCapacity
  <2>1. CASE OnInterrupted
    BY <1>0, <2>1, ChannelTyped DEF OnInterrupted
  <2>2. CASE ClosePlaybackLoop
    <3>1. [kind |-> "close", size |-> 0] \in Event
      BY DEF Event
    <3> QED
      BY <1>0, <2>2, <3>1, ChannelTyped DEF ClosePlaybackLoop
  <2>3. ASSUME NEW size \in AudioSizes, OnAudio(size)
        PROVE  channel' \in Seq(Event) /\ Len(channel') <= ChannelCapacity
    <3>1. [kind |-> "audio", size |-> size] \in Event
      BY DEF Event
    <3> QED
      BY <1>0, <2>3, <3>1, ChannelTyped DEF OnAudio
  <2> QED
    BY <2>1, <2>2, <2>3
<1>3. PlaybackTypeOK'
  BY <1>0, <1>1, <1>2 DEF PlaybackTypeOK, transportVars, captureVars
<1> QED
  BY <1>1, <1>3, BufferKept

\* The playback's loop.
LEMMA LoopKeeps ==
  ASSUME PlaybackInv, PlaybackTimer \/ RetryTimer \/ IdleTimer \/ TakeAudio \/ TakeReset
  PROVE  PlaybackInv'
<1>0. /\ PlaybackTypeOK /\ OneTimer /\ BufferTyped /\ loop = "running"
      /\ BufferIsTimed(pending, timers)
  BY BufferTypes, TimedIsInv
  DEF PlaybackInv, PlaybackTimer, RetryTimer, IdleTimer, TakeAudio, TakeReset
<1>1. CASE PlaybackTimer \/ RetryTimer
  <2>1. PICK fired \in Timers : ~fired.playback /\ ~fired.retry /\ SendOnePendingFrame(fired)
    <3>1. CASE PlaybackTimer
      <4>1. [timers EXCEPT !.playback = FALSE] \in Timers
        BY <1>0 DEF BufferTyped, Timers
      <4>2. ~[timers EXCEPT !.playback = FALSE].playback /\ ~[timers EXCEPT !.playback = FALSE].retry
        BY <1>0, <3>1 DEF PlaybackTimer, OneTimer, BufferTyped, Timers
      <4> QED
        BY <3>1, <4>1, <4>2 DEF PlaybackTimer
    <3>2. CASE RetryTimer
      <4>1. [timers EXCEPT !.retry = FALSE] \in Timers
        BY <1>0 DEF BufferTyped, Timers
      <4>2. ~[timers EXCEPT !.retry = FALSE].playback /\ ~[timers EXCEPT !.retry = FALSE].retry
        BY <1>0, <3>2 DEF RetryTimer, OneTimer, BufferTyped, Timers
      <4> QED
        BY <3>2, <4>1, <4>2 DEF RetryTimer
    <3> QED
      BY <1>1, <3>1, <3>2
  <2>2. /\ channel' = channel /\ loop' = loop
        /\ UNCHANGED <<described, everReady, captureVars, chunks>>
    BY <1>1 DEF PlaybackTimer, RetryTimer
  <2>3. BufferTyped' /\ BufferIsTimed(pending', timers')
    BY <1>0, <2>1, <2>2, SendTimes DEF BufferTyped
  <2> QED
    BY <1>0, <2>2, <2>3, BufferDone DEF PlaybackTypeOK
<1>2. CASE IdleTimer
  <2>1. /\ timers' \in Timers /\ timers'.playback = timers.playback /\ timers'.retry = timers.retry
    BY <1>0, <1>2 DEF IdleTimer, BufferTyped, Timers
  <2>2. BufferTyped' /\ BufferIsTimed(pending', timers')
    BY <1>0, <1>2, <2>1, StopSpeakingTyped DEF IdleTimer, BufferTyped, BufferIsTimed
  <2> QED
    BY <1>0, <1>2, <2>2, BufferDone DEF IdleTimer, PlaybackTypeOK
<1>3. CASE TakeAudio
  <2>1. Head(channel).size \in Nat
    <3>1. Head(channel) \in Event
      BY <1>0, <1>3, ChannelTyped DEF TakeAudio
    <3> QED
      BY <3>1 DEF Event, AudioSizes
  <2>2. pending' \in Nat
    BY <1>0, <1>3, <2>1 DEF TakeAudio, BufferTyped
  <2>3. timers' \in Timers /\ BufferIsTimed(pending', timers')
    BY <1>0, <1>3, <2>2, ScheduledTimes DEF TakeAudio, OneTimer, BufferTyped
  <2>4. BufferTyped'
    BY <1>0, <1>3, <2>2, <2>3 DEF TakeAudio, BufferTyped, transportVars
  <2>5. channel' \in Seq(Event) /\ Len(channel') <= ChannelCapacity
    BY <1>0, <1>3, ChannelTyped DEF TakeAudio
  <2> QED
    BY <1>3, <2>3, <2>4, <2>5, BufferDone DEF TakeAudio, transportVars
<1>4. CASE TakeReset
  <2>1. BufferTyped' /\ BufferIsTimed(pending', timers')
    BY <1>0, <1>4, ClearPendingTimes, StopSpeakingTyped DEF TakeReset, BufferTyped
  <2>2. channel' \in Seq(Event) /\ Len(channel') <= ChannelCapacity
    BY <1>0, <1>4, ChannelTyped DEF TakeReset
  <2> QED
    BY <1>4, <2>1, <2>2, BufferDone DEF TakeReset
<1> QED
  BY <1>1, <1>2, <1>3, <1>4

\* The capture's loop, whose interruption only puts an event in the channel.
LEMMA CaptureKeeps ==
  ASSUME PlaybackInv, SpeechPacket \/ QuietPacket \/ PadTicker
  PROVE  PlaybackInv'
<1>0. PlaybackTypeOK /\ MaxPadding \in Nat /\ MaxPackets \in Nat
  BY VoicePlaybackAssumption DEF PlaybackInv
<1>1. /\ UNCHANGED <<loop, pending, since, speaking, timers, transportVars, chunks>>
  BY DEF SpeechPacket, QuietPacket, PadTicker, bufferVars
<1>2. channel' \in Seq(Event) /\ Len(channel') <= ChannelCapacity
  <2>1. channel' \in {channel, Interrupted}
    BY DEF SpeechPacket, QuietPacket, PadTicker, bufferVars
  <2> QED
    BY <1>0, <2>1, ChannelTyped DEF PlaybackTypeOK
<1>3. packets' \in 0..MaxPackets
  BY <1>0 DEF SpeechPacket, QuietPacket, PadTicker, PlaybackTypeOK
<1> DEFINE Speech == [active : BOOLEAN, candidates : 0..1]
<1>s. /\ speech \in Speech /\ suppressing \in BOOLEAN
      /\ [active |-> FALSE, candidates |-> 0] \in Speech
      /\ [active |-> TRUE, candidates |-> 0] \in Speech
      /\ [speech EXCEPT !.candidates = 0] \in Speech
      /\ [speech EXCEPT !.candidates = 1] \in Speech
  BY <1>0 DEF PlaybackTypeOK
<1> HIDE DEF Speech
<1>4. Silence => speech' \in Speech /\ suppressing' \in BOOLEAN
  BY <1>s DEF Silence
<1>5. speech' \in Speech /\ suppressing' \in BOOLEAN
  <2>1. CASE SpeechPacket
    BY <1>s, <2>1 DEF SpeechPacket
  <2> QED
    BY <1>4, <2>1 DEF QuietPacket, PadTicker
<1>6. endpoint' \in [open : BOOLEAN, ended : BOOLEAN, pads : 0..MaxPadding]
  <2>1. CASE PadTicker
    <3>1. endpoint.pads < MaxPadding =>
            [endpoint EXCEPT !.pads = @ + 1] \in [open : BOOLEAN, ended : BOOLEAN, pads : 0..MaxPadding]
      BY <1>0 DEF PlaybackTypeOK
    <3>2. [endpoint EXCEPT !.ended = TRUE] \in [open : BOOLEAN, ended : BOOLEAN, pads : 0..MaxPadding]
      BY <1>0 DEF PlaybackTypeOK
    <3> QED
      BY <1>0, <2>1, <3>1, <3>2 DEF PadTicker, PlaybackTypeOK
  <2> QED
    <3>1. [open |-> TRUE, ended |-> FALSE, pads |-> 0]
            \in [open : BOOLEAN, ended : BOOLEAN, pads : 0..MaxPadding]
      BY <1>0
    <3> QED
      BY <2>1, <3>1 DEF SpeechPacket, QuietPacket
<1>7. PlaybackTypeOK'
  BY <1>0, <1>1, <1>2, <1>3, <1>5, <1>6 DEF PlaybackTypeOK, transportVars, Speech
<1> QED
  BY <1>1, <1>7, BufferKept

\* The invariant holds in every state.
LEMMA PlaybackInvariant == PlaybackSpec => []PlaybackInv
<1>1. PlaybackInv /\ UNCHANGED playbackVars => PlaybackInv'
  BY DEF PlaybackInv, PlaybackTypeOK, BufferedFrameIsTimed, OneTimer, playbackVars
<1>2. PlaybackInv /\ [PlaybackNext]_playbackVars => PlaybackInv'
  BY <1>1, TransportKeeps, ProducersKeep, LoopKeeps, CaptureKeeps DEF PlaybackNext
<1> QED
  BY <1>2, PlaybackInitOK, PTL DEF PlaybackSpec

\* What the playback keeps has the type it should have, and its channel of events
\* is never over its capacity.
THEOREM PlaybackTypes == PlaybackSpec => []PlaybackTypeOK
<1>1. PlaybackInv => PlaybackTypeOK
  BY DEF PlaybackInv
<1> QED
  BY <1>1, PlaybackInvariant, PTL

-----------------------------------------------------------------------------
(***************************************************************************)
(* The bridges together.                                                   *)
(***************************************************************************)
\* What the bridges have accepted they deliver: a voice connection is owned by a
\* call, a frame that is buffered for it has exactly one timer, a conversation has
\* one turn at a time, and the replies of a turn reach their chat in order and, once
\* it is reported completed, all of them; in any number of calls, chats and messages
\* and whatever the transport, the users, failures and shutdowns do meanwhile.
THEOREM BridgesKeepTheirWord == BridgesSpec => []BridgesDeliver
<1>1. BridgesInit => VoiceInit /\ PlaybackInit /\ TextInit /\ WaInit
  BY DEF BridgesInit
<1>2. [BridgesNext]_bridgeVars => [VoiceNext]_voiceVars
  BY DEF BridgesNext, bridgeVars
<1>3. [BridgesNext]_bridgeVars => [PlaybackNext]_playbackVars
  BY DEF BridgesNext, bridgeVars
<1>4. [BridgesNext]_bridgeVars => [TextNext]_textVars
  BY DEF BridgesNext, bridgeVars
<1>5. [BridgesNext]_bridgeVars => [WaNext]_waVars
  BY DEF BridgesNext, bridgeVars
<1>6. BridgesSpec => VoiceSpec /\ PlaybackSpec /\ TextSpec /\ WaSpec
  BY <1>1, <1>2, <1>3, <1>4, <1>5, PTL
     DEF BridgesSpec, VoiceSpec, PlaybackSpec, TextSpec, WaSpec
<1>7. PlaybackInv => BufferedFrameIsTimed
  BY DEF PlaybackInv
<1>8. VoiceIsOwned /\ BufferedFrameIsTimed /\ TurnsAreExclusive /\ ForwardedInOrder
        /\ CompletedIsForwarded => BridgesDeliver
  BY DEF BridgesDeliver
<1> QED
  BY <1>6, <1>7, <1>8, ConnectionsAreOwned, PlaybackInvariant, TurnsExclude, RepliesInOrder,
     RepliesComplete, PTL

\* Each bridge keeps its types while it runs: every call, turn, chunk, timer, message
\* and item is one the code can make, and no channel is ever over its capacity; and
\* the terminal's chat stays right.
THEOREM BridgesStayTyped == BridgesSpec => [](BridgesTypeOK /\ ChatIsRight)
<1>1. BridgesInit => VoiceInit /\ PlaybackInit /\ TextInit /\ WaInit /\ TerminalInit
  BY DEF BridgesInit
<1>2. [BridgesNext]_bridgeVars => [VoiceNext]_voiceVars
  BY DEF BridgesNext, bridgeVars
<1>3. [BridgesNext]_bridgeVars => [PlaybackNext]_playbackVars
  BY DEF BridgesNext, bridgeVars
<1>4. [BridgesNext]_bridgeVars => [TextNext]_textVars
  BY DEF BridgesNext, bridgeVars
<1>5. [BridgesNext]_bridgeVars => [WaNext]_waVars
  BY DEF BridgesNext, bridgeVars
<1>6. [BridgesNext]_bridgeVars => [TerminalNext]_terminalVars
  BY DEF BridgesNext, bridgeVars
<1>7. BridgesSpec => VoiceSpec /\ PlaybackSpec /\ TextSpec /\ WaSpec /\ TerminalSpec
  BY <1>1, <1>2, <1>3, <1>4, <1>5, <1>6, PTL
     DEF BridgesSpec, VoiceSpec, PlaybackSpec, TextSpec, WaSpec, TerminalSpec
<1>8. ChatInv => TerminalTypeOK /\ ChatIsRight
  BY ChatSays
<1>9. VoiceTypeOK /\ PlaybackTypeOK /\ TextTypeOK /\ WaTypeOK /\ TerminalTypeOK => BridgesTypeOK
  BY DEF BridgesTypeOK
<1> QED
  BY <1>7, <1>8, <1>9, VoiceTypes, PlaybackTypes, TextTypes, WaTypes, ChatInvariant, PTL
================================================================================
