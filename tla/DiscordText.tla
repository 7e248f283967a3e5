---------------------------- MODULE DiscordText ----------------------------
(***************************************************************************)
(* The text conversations of the Discord bot.                              *)
(*                                                                         *)
(* Every message that is for the bot gets a goroutine of its own           *)
(* (processTextMessage).  It reads or creates the conversation's row, marks*)
(* the conversation as in flight, runs one turn of the conversation's agent*)
(* run, sends the reply and saves the run's id in the row.  The row is read*)
(* before the conversation is claimed and written after the reply is sent. *)
(*                                                                         *)
(* A new run is named by the message that started it.  What a run holds is *)
(* the set of messages whose turn was stored in its trace.                 *)
(***************************************************************************)
EXTENDS Naturals, FiniteSets

CONSTANTS
  DMChannels, GuildChannels,
  TextMessages,    \* messages the bot is sent
  MaxTextFailures, \* bound: failures of Discord, the database or the model
  NoRun, NoRow

TextChannels == DMChannels \union GuildChannels

ASSUME DiscordTextAssumption ==
  /\ DMChannels \intersect GuildChannels = {}
  /\ NoRun \notin TextMessages
  /\ NoRow \notin TextMessages \union {NoRun}
  /\ MaxTextFailures \in Nat

VARIABLES
  rows,     \* discord_conversations: the run of each channel's row
  inFlight, \* Service.inFlight
  turns,    \* a goroutine per message
  traces,   \* agent runs: the turns each run holds
  mishaps

textVars == <<rows, inFlight, turns, traces, mishaps>>

TextPCs == {"unsent", "resolve", "create", "claim", "history", "run", "running",
            "reply", "save", "release", "done"}

Answers == {"none", "reply", "busy", "error"}

TextInit ==
  /\ rows = [c \in TextChannels |-> NoRow]
  /\ inFlight = {}
  /\ turns = [m \in TextMessages |->
               [pc |-> "unsent", channel |-> NoRow, conv |-> NoRun, run |-> NoRun, answer |-> "none"]]
  /\ traces = [r \in TextMessages |-> {}]
  /\ mishaps = 0

Mishap == mishaps < MaxTextFailures /\ mishaps' = mishaps + 1

At(m, pc) == turns[m].pc = pc
Chan(m) == turns[m].channel

\* The goroutine of message m goes on at pc; it answers on the way.
Continue(m, pc) == turns' = [turns EXCEPT ![m].pc = pc]
Answer(m, a, pc) == turns' = [turns EXCEPT ![m].answer = a, ![m].pc = pc]

\* The handlers drop the bots' messages, the bot's own and those of other
\* guilds; a message without a prompt ends in resolveConversation.
MessageCreate(m, c) ==
  /\ At(m, "unsent")
  /\ \E pc \in {"resolve", "done"} :
       turns' = [turns EXCEPT ![m].pc = pc, ![m].channel = c]
  /\ UNCHANGED <<rows, inFlight, traces, mishaps>>

ResolveConversation(m) ==
  /\ At(m, "resolve")
  /\ \/ /\ IF rows[Chan(m)] = NoRow THEN Continue(m, "create")
           ELSE turns' = [turns EXCEPT ![m].pc = "claim", ![m].conv = rows[Chan(m)]]
        /\ UNCHANGED mishaps
     \/ Mishap /\ Answer(m, "error", "done")
  /\ UNCHANGED <<rows, inFlight, traces>>

\* The new row of a direct message has a unique channel; the one of a guild
\* has neither thread nor direct channel, and is refused by the store.
CreateConversation(m) ==
  /\ At(m, "create")
  /\ IF Chan(m) \in DMChannels /\ rows[Chan(m)] = NoRow
     THEN /\ rows' = [rows EXCEPT ![Chan(m)] = NoRun]
          /\ Continue(m, "claim")
     ELSE /\ Answer(m, "error", "done")
          /\ UNCHANGED rows
  /\ UNCHANGED <<inFlight, traces, mishaps>>

\* Mutant: the claim is not looked at.
StartConversationTwice(m) ==
  /\ At(m, "claim")
  /\ Continue(m, "history")
  /\ inFlight' = inFlight \union {Chan(m)}
  /\ UNCHANGED <<rows, traces, mishaps>>

TryStartConversation(m) ==
  /\ At(m, "claim")
  /\ IF Chan(m) \in inFlight
     THEN Answer(m, "busy", "done") /\ UNCHANGED inFlight
     ELSE Continue(m, "history") /\ inFlight' = inFlight \union {Chan(m)}
  /\ UNCHANGED <<rows, traces, mishaps>>

LoadConversationHistory(m) ==
  /\ At(m, "history")
  /\ \/ Continue(m, "run") /\ UNCHANGED mishaps
     \/ Mishap /\ Answer(m, "error", "release")
  /\ UNCHANGED <<rows, inFlight, traces>>

\* reusableRunID: the run of the row as it was read; a run that cannot be
\* loaded is replaced by a new one.
RunChat(m) ==
  /\ At(m, "run")
  /\ \/ /\ turns' = [turns EXCEPT ![m].pc = "running",
                                  ![m].run = IF turns[m].conv = NoRun THEN m ELSE turns[m].conv]
        /\ UNCHANGED mishaps
     \/ /\ turns[m].conv # NoRun /\ Mishap
        /\ turns' = [turns EXCEPT ![m].pc = "running", ![m].run = m]
  /\ UNCHANGED <<rows, inFlight, traces>>

\* The run ends and its trace is stored, or it fails before it has an id.
EndChat(m) ==
  /\ At(m, "running")
  /\ \/ /\ Continue(m, "reply")
        /\ traces' = [traces EXCEPT ![turns[m].run] = @ \union {m}]
        /\ UNCHANGED mishaps
     \/ /\ Mishap /\ UNCHANGED traces
        /\ turns' = [turns EXCEPT ![m].pc = "reply", ![m].run = NoRun]
  /\ UNCHANGED <<rows, inFlight>>

\* A reply that cannot be sent leaves the row as it was.
SendReplyChunks(m) ==
  /\ At(m, "reply")
  /\ \/ Answer(m, "reply", "save") /\ UNCHANGED mishaps
     \/ Mishap /\ Continue(m, "release")
  /\ UNCHANGED <<rows, inFlight, traces>>

SaveConversation(m) ==
  /\ At(m, "save")
  /\ Continue(m, "release")
  /\ \/ rows' = [rows EXCEPT ![Chan(m)] = turns[m].run] /\ UNCHANGED mishaps
     \/ Mishap /\ UNCHANGED rows
  /\ UNCHANGED <<inFlight, traces>>

\* The deferred release.
Release(m) ==
  /\ At(m, "release")
  /\ Continue(m, "done")
  /\ inFlight' = inFlight \ {Chan(m)}
  /\ UNCHANGED <<rows, traces, mishaps>>

ProcessTextMessage(m) ==
  ResolveConversation(m) \/ CreateConversation(m) \/ TryStartConversation(m)
    \/ LoadConversationHistory(m) \/ RunChat(m) \/ EndChat(m)
    \/ SendReplyChunks(m) \/ SaveConversation(m) \/ Release(m)

TextNext ==
  \/ \E m \in TextMessages, c \in TextChannels : MessageCreate(m, c)
  \/ \E m \in TextMessages : ProcessTextMessage(m)

TextSpec == TextInit /\ [][TextNext]_textVars

(***************************************************************************)
(* Properties.                                                             *)
(***************************************************************************)
TextTypeOK ==
  /\ rows \in [TextChannels -> TextMessages \union {NoRun, NoRow}]
  /\ inFlight \subseteq DMChannels
  /\ turns \in [TextMessages -> [pc : TextPCs, channel : TextChannels \union {NoRow},
                 conv : TextMessages \union {NoRun}, run : TextMessages \union {NoRun},
                 answer : Answers]]
  /\ traces \in [TextMessages -> SUBSET TextMessages]
  /\ mishaps \in 0..MaxTextFailures

\* Two turns never execute the same agent run: the second would write the
\* trace without the first one's turn.
TurnsAreExclusive ==
  \A m, n \in TextMessages :
    m # n /\ At(m, "running") /\ At(n, "running") => turns[m].run # turns[n].run
=============================================================================

