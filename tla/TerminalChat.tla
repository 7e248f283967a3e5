------------------------------ MODULE TerminalChat ------------------------------
(***************************************************************************)
(* The terminal UI: internal/tui.  One loop handles keys, the messages of  *)
(* commands and the events that bridges forward.  A command runs the agent *)
(* in a goroutine of its own, which changes the messages of the service    *)
(* under a lock and publishes what they have become after it.  Publishing  *)
(* does not wait: an event for a full channel is lost.  Cancelling starts  *)
(* a second bridge while the first may still be forwarding.                *)
(*                                                                         *)
(* A text is as many lines as it was given in pieces, and bubbletea draws  *)
(* the view after every message it has handled.                            *)
(***************************************************************************)
EXTENDS Integers, Sequences, FiniteSets, SequencesExt, FiniteSetsExt

CONSTANTS
  ChannelSize,   \* the 64 events of Subscribe
  ViewHeights,   \* heights the chat may be given
  MaxSubmits, MaxPieces, MaxCancels, MaxScrolls   \* bounds

ASSUME TerminalAssumption ==
  /\ ChannelSize \in Nat \ {0} /\ ViewHeights \subseteq Nat \ {0} /\ ViewHeights # {}
  /\ MaxSubmits \in Nat /\ MaxPieces \in Nat /\ MaxCancels \in Nat /\ MaxScrolls \in Nat

VARIABLES
  messages,   \* service.messages
  subs,       \* the subscriptions: is it registered, is it cancelled, its channel
  chat,       \* the Chat: items, idIndex, offset, follow and height
  shows,      \* m.runID and m.running
  agents,     \* the goroutines of runAgent
  disturbed,  \* an event was lost, or the user has cancelled or cleared
  cancels, scrolls

terminalVars == <<messages, subs, chat, shows, agents, disturbed, cancels, scrolls>>

Agents == 1..MaxSubmits
NoEvent == [type |-> "none"]
UserMessage(a) == 3 * a        \* ids of messages: uuids
AssistantMessage(a) == 3 * a + 1
ErrorMessage(a) == 3 * a + 2
\* Its id is no message's, in the list and in the index.
StatusItem == [id |-> 0, part |-> "status", nr |-> 0, lines |-> 1, final |-> TRUE]

NewMessage(id, role) ==
  [id |-> id, role |-> role, text |-> 0, calls |-> 0, results |-> 0, done |-> FALSE, error |-> FALSE]
EmptyChat(height) == [items |-> <<>>, index |-> <<>>, offset |-> 0, follow |-> TRUE, height |-> height]

TerminalInit ==
  /\ messages = <<>> /\ subs = <<>>
  /\ \E h \in ViewHeights : chat = EmptyChat(h)
  /\ shows = [runID |-> 0, running |-> FALSE]
  /\ agents = [a \in Agents |-> [at |-> "idle"]]
  /\ disturbed = FALSE /\ cancels = 0 /\ scrolls = 0

-----------------------------------------------------------------------------
(* The list of items.                                                      *)

Item(id, part, nr, lines) == [id |-> id, part |-> part, nr |-> nr, lines |-> lines, final |-> FALSE]

ExtractItems(m) ==
  IF m.role = "user" THEN <<Item(m.id, "user", 0, 1)>>
  ELSE (IF m.text > 0 \/ ~m.done THEN <<Item(m.id, "text", 0, 1 + m.text)>> ELSE <<>>)
       \o [k \in 1..m.calls |-> Item(m.id, "call", k, 1)]
       \o [k \in 1..m.results |-> Item(m.id, "result", k, 1)]
       \o (IF m.error THEN <<Item(m.id, "error", 0, 1)>> ELSE <<>>)

Positions(items, id) == {i \in DOMAIN items : items[i].id = id}

\* rebuildIndex: where the first item of every message is.
RebuildIndex(items) == [id \in {items[i].id : i \in DOMAIN items} |-> Min(Positions(items, id))]

\* Mutant: the index is left as it was.
IndexAsItWas(index, items, moved) == index

\* Positions shift when a message has become more items, or fewer.
IndexAfter(index, items, moved) == IF moved THEN RebuildIndex(items) ELSE index

AppendItems(c, id, items) ==
  IF items = <<>> THEN c
  ELSE [c EXCEPT !.items = @ \o items,
                 !.index = IF id \in DOMAIN @ THEN @
                           ELSE [i \in DOMAIN @ \cup {id} |-> IF i = id THEN Len(c.items) + 1 ELSE @[i]]]

\* UpdateItems: the items that follow the first one, as long as they are the
\* message's, become the new ones.
UpdateItems(c, id, items) ==
  IF id \notin DOMAIN c.index THEN AppendItems(c, id, items)
  ELSE LET start == c.index[id]
           others == {i \in DOMAIN c.items : i >= start /\ c.items[i].id # id}
           end == IF others = {} THEN Len(c.items) + 1 ELSE Min(others)
           replaced == SubSeq(c.items, 1, start - 1) \o items \o SubSeq(c.items, end, Len(c.items))
       IN [c EXCEPT !.items = replaced,
                    !.index = IndexAfter(@, replaced, Len(items) # end - start)]

\* totalLines: an empty line stands between two items.
Lines(c) == UNION {{i} \X (1..c.items[i].lines) : i \in DOMAIN c.items}
TotalLines(c) == Cardinality(Lines(c)) + Len(c.items) - (IF c.items = <<>> THEN 0 ELSE 1)
MaxOffset(c) == Max({TotalLines(c) - c.height, 0})

\* View: following pins the end to the bottom.
View(c) ==
  IF c.items = <<>> THEN c
  ELSE [c EXCEPT !.offset = IF c.follow \/ @ > MaxOffset(c) THEN MaxOffset(c) ELSE @]

Draws(c) == chat' = View(c)

-----------------------------------------------------------------------------
(* The service and its broker.                                             *)

\* Publish: every registered subscriber whose channel has room gets the event.
Gets(s) == s.registered /\ Len(s.channel) < ChannelSize
Publish(subscribers, type, m) ==
  [k \in DOMAIN subscribers |->
     IF Gets(subscribers[k])
     THEN [subscribers[k] EXCEPT !.channel = Append(@, [type |-> type, message |-> m])]
     ELSE subscribers[k]]
\* One after the other, as many as there is room for.
PublishAll(subscribers, type, ms) ==
  [k \in DOMAIN subscribers |->
     LET s == subscribers[k]
         fit == Min({Len(ms), ChannelSize - Len(s.channel)})
     IN IF s.registered
        THEN [s EXCEPT !.channel = @ \o [i \in 1..fit |-> [type |-> type, message |-> ms[i]]]]
        ELSE s]
Lost == \A k \in DOMAIN subs : ~Gets(subs[k])

Create(m) ==
  /\ messages' = Append(messages, m)
  /\ subs' = Publish(subs, "created", m)
  /\ disturbed' = (disturbed \/ Lost)

\* Subscribe, and the goroutine of startBridge.
NewBridge(subscribers) == Append(subscribers, [registered |-> TRUE, over |-> FALSE, channel |-> <<>>])
Cancelled(subscribers) == [k \in DOMAIN subscribers |-> [subscribers[k] EXCEPT !.over = TRUE]]

\* ProgramRefMsg.
StartBridge ==
  /\ subs = <<>> /\ subs' = NewBridge(subs)
  /\ Draws(chat)
  /\ UNCHANGED <<messages, shows, agents, disturbed, cancels, scrolls>>

\* The goroutine that waits for the end of a subscription.
Unsubscribe(k) ==
  /\ subs[k].over /\ subs[k].registered
  /\ subs' = [subs EXCEPT ![k].registered = FALSE]
  /\ UNCHANGED <<messages, chat, shows, agents, disturbed, cancels, scrolls>>

\* Then it takes events from the channel as the bridge does.
Drain(k) ==
  /\ ~subs[k].registered /\ subs[k].channel # <<>>
  /\ subs' = [subs EXCEPT ![k].channel = Tail(@)]
  /\ UNCHANGED <<messages, chat, shows, agents, disturbed, cancels, scrolls>>

\* handleMessageEvent, of the event that a bridge forwards.
HandleMessageEvent(k) ==
  /\ subs[k].channel # <<>>
  /\ LET event == Head(subs[k].channel)
         items == ExtractItems(event.message)
     IN Draws(CASE event.type = "created" -> AppendItems(chat, event.message.id, items)
                [] event.type = "updated" -> UpdateItems(chat, event.message.id, items)
                [] event.type = "deleted" -> chat)
  /\ subs' = [subs EXCEPT ![k].channel = Tail(@)]
  /\ UNCHANGED <<messages, shows, agents, disturbed, cancels, scrolls>>

-----------------------------------------------------------------------------
(* Running the agent.                                                      *)

\* submit: also while a run goes on, which then is a run beside it.
Submit(a) ==
  /\ agents[a].at = "idle" /\ (a > 1 => agents[a - 1].at # "idle")
  /\ Create([NewMessage(UserMessage(a), "user") EXCEPT !.done = TRUE])
  /\ agents' = [agents EXCEPT ![a] = [at |-> "start", runID |-> shows.runID, pieces |-> 0,
                                      failed |-> FALSE, event |-> NoEvent]]
  /\ shows' = [shows EXCEPT !.running = TRUE]
  /\ Draws(chat)
  /\ UNCHANGED <<cancels, scrolls>>

\* The service is changed first, and the event is published after the lock.
AgentCreates(a) ==
  /\ agents[a].at = "start"
  /\ LET m == NewMessage(AssistantMessage(a), "assistant")
     IN /\ messages' = Append(messages, m)
        /\ agents' = [agents EXCEPT ![a].at = "publish",
                                    ![a].event = [type |-> "created", message |-> m]]
  /\ UNCHANGED <<subs, chat, shows, disturbed, cancels, scrolls>>

\* The message of the goroutine, if it has not been cleared.
Own(a) == {i \in DOMAIN messages : messages[i].id = AssistantMessage(a)}
OwnMessage(a) == messages[Min(Own(a))]

\* Update of the service, with the changed message: one that was cleared is not
\* published.
AgentUpdates(a, changed) ==
  /\ agents[a].at = "run"
  /\ IF Own(a) = {}
     THEN /\ agents' = [agents EXCEPT ![a].pieces = @ + 1]
          /\ UNCHANGED messages
     ELSE /\ messages' = [messages EXCEPT ![Min(Own(a))] = changed]
          /\ agents' = [agents EXCEPT ![a].at = "publish", ![a].pieces = @ + 1,
                                      ![a].event = [type |-> "updated", message |-> changed]]
  /\ UNCHANGED <<subs, chat, shows, disturbed, cancels, scrolls>>

\* onChunk and onToolResult.
Text(m) == [m EXCEPT !.text = @ + 1]
CallsTool(m) == [m EXCEPT !.calls = @ + 1]
ToolAnswers(m) == [m EXCEPT !.results = @ + 1]
Fails(m) == [m EXCEPT !.error = TRUE]
Finishes(m) == [m EXCEPT !.done = TRUE]

AddChunk(a) ==
  /\ agents[a].at = "run" /\ agents[a].pieces < MaxPieces /\ ~agents[a].failed
  /\ AgentUpdates(a, Text(OwnMessage(a))) \/ AgentUpdates(a, CallsTool(OwnMessage(a)))
AddToolResult(a) ==
  /\ agents[a].at = "run" /\ agents[a].pieces < MaxPieces /\ ~agents[a].failed
  /\ \A i \in Own(a) : messages[i].results < messages[i].calls
  /\ AgentUpdates(a, ToolAnswers(OwnMessage(a)))

AgentPublishes(a) ==
  /\ agents[a].at = "publish"
  /\ subs' = Publish(subs, agents[a].event.type, agents[a].event.message)
  /\ disturbed' = (disturbed \/ Lost)
  /\ agents' = [agents EXCEPT ![a].at = IF agents[a].event.message.done THEN "returns" ELSE "run",
                              ![a].event = NoEvent]
  /\ UNCHANGED <<messages, chat, shows, cancels, scrolls>>

\* agent.Run may fail before there is a chunk.
AgentFailsAtOnce(a) ==
  /\ agents[a].at = "run" /\ agents[a].pieces = 0 /\ ~agents[a].failed
  /\ agents' = [agents EXCEPT ![a].at = "returns", ![a].failed = TRUE]
  /\ UNCHANGED <<messages, subs, chat, shows, disturbed, cancels, scrolls>>

\* The last chunks of a run: an error, if there is one, and the end.  A run that
\* was cancelled may end either way.
AgentFails(a) ==
  /\ agents[a].at = "run" /\ ~agents[a].failed
  /\ IF Own(a) = {}
     THEN agents' = [agents EXCEPT ![a].failed = TRUE] /\ UNCHANGED messages
     ELSE /\ messages' = [messages EXCEPT ![Min(Own(a))] = Fails(@)]
          /\ agents' = [agents EXCEPT ![a].at = "publish", ![a].failed = TRUE,
                         ![a].event = [type |-> "updated", message |-> Fails(OwnMessage(a))]]
  /\ UNCHANGED <<subs, chat, shows, disturbed, cancels, scrolls>>

AgentFinishes(a) ==
  /\ agents[a].at = "run"
  /\ IF Own(a) = {}
     THEN /\ agents' = [agents EXCEPT ![a].at = "returns"]
          /\ UNCHANGED <<messages, subs, chat, shows, disturbed, cancels, scrolls>>
     ELSE AgentUpdates(a, Finishes(OwnMessage(a)))

\* finalizeAssistant: the last text there is, whoever's it is.
FinalizeAssistant(c) ==
  LET texts == {i \in DOMAIN c.items : c.items[i].part = "text"}
  IN IF texts = {} THEN c ELSE [c EXCEPT !.items[Max(texts)].final = TRUE]

AgentDone(a) ==
  /\ agents[a].at = "returns" /\ ~agents[a].failed
  /\ shows' = [runID |-> IF agents[a].runID = 0 THEN a ELSE agents[a].runID, running |-> FALSE]
  /\ Draws(FinalizeAssistant(chat))
  /\ agents' = [agents EXCEPT ![a].at = "done"]
  /\ UNCHANGED <<messages, subs, disturbed, cancels, scrolls>>

AgentError(a) ==
  /\ agents[a].at = "returns" /\ agents[a].failed
  /\ shows' = [shows EXCEPT !.running = FALSE]
  /\ Create([NewMessage(ErrorMessage(a), "assistant") EXCEPT !.done = TRUE, !.error = TRUE])
  /\ agents' = [agents EXCEPT ![a].at = "done"]
  /\ Draws(chat)
  /\ UNCHANGED <<cancels, scrolls>>

-----------------------------------------------------------------------------
(* Keys.                                                                   *)

\* The context of the runs and of the bridges is over, and a new one begins.
Cancels ==
  /\ cancels < MaxCancels /\ cancels' = cancels + 1
  /\ disturbed' = TRUE
  /\ UNCHANGED agents

CancelRun ==
  /\ shows.running /\ Cancels
  /\ subs' = NewBridge(Cancelled(subs))
  /\ Draws(chat)
  /\ UNCHANGED <<messages, shows, scrolls>>

\* clearConversation.
ClearConversation ==
  /\ Cancels
  /\ subs' = NewBridge(PublishAll(Cancelled(subs), "deleted", messages))
  /\ messages' = <<>>
  /\ shows' = [runID |-> 0, running |-> FALSE]
  /\ Draws(AppendItems(EmptyChat(chat.height), StatusItem.id, <<StatusItem>>))
  /\ UNCHANGED scrolls

Scrolls == scrolls < MaxScrolls /\ scrolls' = scrolls + 1
           /\ UNCHANGED <<messages, subs, shows, agents, disturbed, cancels>>

\* By a line, or by half a page.
ScrollUp(n) ==
  /\ Scrolls
  /\ Draws([chat EXCEPT !.follow = FALSE, !.offset = Max({@ - n, 0})])

ScrollDown(n) ==
  /\ Scrolls
  /\ LET bottom == chat.offset + n >= MaxOffset(chat)
     IN Draws([chat EXCEPT !.offset = IF bottom THEN MaxOffset(chat) ELSE @ + n,
                           !.follow = @ \/ bottom])

WindowSize(h) == Scrolls /\ Draws([chat EXCEPT !.height = h])

TerminalNext ==
  \/ StartBridge
  \/ \E k \in DOMAIN subs : Unsubscribe(k) \/ Drain(k) \/ HandleMessageEvent(k)
  \/ \E a \in Agents :
       \/ Submit(a) \/ AgentCreates(a) \/ AddChunk(a) \/ AddToolResult(a) \/ AgentPublishes(a)
       \/ AgentFailsAtOnce(a) \/ AgentFails(a) \/ AgentFinishes(a) \/ AgentDone(a) \/ AgentError(a)
  \/ CancelRun \/ ClearConversation
  \/ \E n \in {1, chat.height \div 2} : ScrollUp(n) \/ ScrollDown(n)
  \/ \E h \in ViewHeights : WindowSize(h)

TerminalSpec == TerminalInit /\ [][TerminalNext]_terminalVars

-----------------------------------------------------------------------------
(* Properties.                                                             *)

TerminalTypeOK ==
  /\ \A k \in DOMAIN subs : Len(subs[k].channel) <= ChannelSize
  /\ chat.height \in ViewHeights /\ chat.offset \in Nat /\ chat.follow \in BOOLEAN
  /\ shows.runID \in 0..MaxSubmits /\ shows.running \in BOOLEAN /\ disturbed \in BOOLEAN

\* The index names the first item of every message in the list, and none that is
\* not there, however updates move the items behind them, also when two bridges
\* forward one event twice and when events of a cleared conversation come late
\* (AppendItems, UpdateItems, rebuildIndex).
IndexIsRight == chat.index = RebuildIndex(chat.items)

\* As long as no event is lost and nothing is cancelled, the chat shows exactly the
\* items of the messages once no event is under way, those of a message together and
\* in their order (Publish, startBridge, UpdateItems).
Shows(c, m) ==
  LET items == ExtractItems(m)
  IN \E p \in 0..Len(c.items) :
       /\ Positions(c.items, m.id) = p + 1..p + Len(items)
       /\ \A k \in DOMAIN items : [c.items[p + k] EXCEPT !.final = FALSE] = items[k]

ConversationIsShown ==
  LET quiet == /\ \A k \in DOMAIN subs : subs[k].channel = <<>>
               /\ \A a \in Agents : agents[a].at # "publish"
  IN quiet /\ ~disturbed =>
       /\ \A i \in DOMAIN messages : Shows(chat, messages[i])
       /\ \A i \in DOMAIN chat.items : \E j \in DOMAIN messages : messages[j].id = chat.items[i].id

\* What is drawn is never past the end of the conversation, and is its end while
\* the chat follows (View, ScrollUp, ScrollDown).
WindowIsInside ==
  chat.items # <<>> => /\ chat.offset <= MaxOffset(chat)
                       /\ chat.follow => chat.offset = MaxOffset(chat)

ChatIsRight == IndexIsRight /\ ConversationIsShown /\ WindowIsInside
===============================================================================
