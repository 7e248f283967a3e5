------------------------------ MODULE WhatsApp ------------------------------
(***************************************************************************)
(* The WhatsApp bridge: messages are stored, and some start an agent turn. *)
(*                                                                         *)
(* Every event of the client gets a goroutine, so a live message and the   *)
(* history sync that holds the same message may store it at once.  A turn  *)
(* forwards the assistant's messages to the chat while the run goes on: the*)
(* forwarder counts the assistant messages of the stored trace and sends   *)
(* those past its count, in chunks, after every tool result and at the end.*)
(*                                                                         *)
(* A new run is named by the message that started it.  A trace is kept as  *)
(* the number of chunks of each of its assistant messages; 0 is a message  *)
(* without text, which is not sent.                                        *)
(***************************************************************************)
EXTENDS Naturals, Sequences

CONSTANTS
  Chats, Inbound,  \* chats, and messages that come in
  MaxReplies,      \* bound: assistant messages of a turn
  MaxParts,        \* bound: chunks of an assistant message
  MaxWaFailures,   \* bound: failures of WhatsApp, the database or the model
  NoChat, NoAgentRun

ASSUME WhatsAppAssumption ==
  /\ NoChat \notin Chats
  /\ NoAgentRun \notin Inbound
  /\ MaxReplies \in Nat /\ MaxParts \in Nat \ {0} /\ MaxWaFailures \in Nat

VARIABLES
  stored,       \* whatsapp_messages
  conversations,\* whatsapp_conversations: run and status of each chat
  busyChats,    \* Service.inFlight
  live,         \* the goroutine of each live message
  sync,         \* the history sync that holds each message
  runTraces,    \* the stored trace of each run
  bases,        \* how many messages of a run's trace come from the history
  outbox,       \* what the bridge has sent to each chat
  miscounted,   \* a forwarder could not read the trace it counts in
  waFailures

waVars == <<stored, conversations, busyChats, live, sync, runTraces, bases, outbox, miscounted, waFailures>>

LivePCs == {"new", "chat", "find", "insert", "claim", "begin", "history", "start", "running",
            "flush", "final", "finish", "completed", "failed", "release", "done"}

Runs == Inbound \union {NoAgentRun}

\* What is sent: a chunk of an assistant message, or a text of the bridge.
Sent == [run : Inbound, message : Nat, part : Nat] \union [text : {"busy", "error", "Done."}]

WaInit ==
  /\ stored = {}
  /\ conversations = [c \in Chats |-> [run |-> NoAgentRun, status |-> "none"]]
  /\ busyChats = {}
  /\ live = [m \in Inbound |-> [pc |-> "new", chat |-> NoChat, known |-> FALSE, run |-> NoAgentRun,
                                forward |-> NoAgentRun, seen |-> 0, part |-> 0, last |-> FALSE, made |-> 0]]
  /\ sync = [m \in Inbound |-> "none"]
  /\ runTraces = [r \in Inbound |-> <<>>]
  /\ bases = [r \in Inbound |-> 0]
  /\ outbox = [c \in Chats |-> <<>>]
  /\ miscounted = FALSE
  /\ waFailures = 0

WaFail == waFailures < MaxWaFailures /\ waFailures' = waFailures + 1

On(m, pc) == live[m].pc = pc
ChatOf(m) == live[m].chat
Go(m, r) == live' = [live EXCEPT ![m] = [f \in DOMAIN @ |-> IF f \in DOMAIN r THEN r[f] ELSE @[f]]]
GoTo(m, pc) == Go(m, [pc |-> pc])

Post(c, what) == outbox' = [outbox EXCEPT ![c] = Append(@, what)]

\* A text of the bridge may get lost without anybody noticing.
SendText(c, text) ==
  \/ Post(c, [text |-> text]) /\ UNCHANGED waFailures
  \/ WaFail /\ UNCHANGED outbox

(***************************************************************************)
(* Messages are stored.                                                    *)
(***************************************************************************)
HandleMessage(m, c) ==
  /\ On(m, "new")
  /\ Go(m, [pc |-> "chat", chat |-> c])
  /\ UNCHANGED <<stored, conversations, busyChats, sync, runTraces, bases, outbox, miscounted, waFailures>>

\* The chat is saved, and the media downloaded, which may fail unnoticed.
SaveChat(m) ==
  /\ On(m, "chat")
  /\ \/ GoTo(m, "find") /\ UNCHANGED waFailures
     \/ WaFail /\ GoTo(m, "done")
  /\ UNCHANGED <<stored, conversations, busyChats, sync, runTraces, bases, outbox, miscounted>>

\* SaveWhatsAppMessage looks the message up before it writes it.
FindMessage(m) ==
  /\ On(m, "find")
  /\ Go(m, [pc |-> "insert", known |-> m \in stored])
  /\ UNCHANGED <<stored, conversations, busyChats, sync, runTraces, bases, outbox, miscounted, waFailures>>

\* A row that somebody else wrote in between makes the insert fail: the
\* message is not handled.  Others start a turn or do not (triggerPrompt).
InsertMessage(m) ==
  /\ On(m, "insert")
  /\ stored' = stored \union {m}
  /\ IF m \in stored /\ ~live[m].known THEN GoTo(m, "done")
     ELSE GoTo(m, "claim") \/ GoTo(m, "done")
  /\ UNCHANGED <<conversations, busyChats, sync, runTraces, bases, outbox, miscounted, waFailures>>

\* The history sync stores the message in the same two steps.
SyncMessage(m) ==
  /\ \/ sync[m] = "none" /\ sync' = [sync EXCEPT ![m] = "found"] /\ UNCHANGED stored
     \/ sync[m] = "found" /\ sync' = [sync EXCEPT ![m] = "done"] /\ stored' = stored \union {m}
  /\ UNCHANGED <<conversations, busyChats, live, runTraces, bases, outbox, miscounted, waFailures>>

(***************************************************************************)
(* A turn of the agent (maybeRunAgent).                                    *)
(***************************************************************************)
StartReply(m) ==
  /\ On(m, "claim")
  /\ IF ChatOf(m) \in busyChats
     THEN GoTo(m, "done") /\ SendText(ChatOf(m), "busy") /\ UNCHANGED busyChats
     ELSE GoTo(m, "begin") /\ busyChats' = busyChats \union {ChatOf(m)} /\ UNCHANGED <<outbox, waFailures>>
  /\ UNCHANGED <<stored, conversations, sync, runTraces, bases, miscounted>>

\* The conversation is read once the chat is claimed, and says "running".
SaveRunning(m) ==
  LET c == ChatOf(m) IN
  /\ On(m, "begin")
  /\ \/ /\ Go(m, [pc |-> "history", run |-> conversations[c].run])
        /\ conversations' = [conversations EXCEPT ![c].status = "running"]
        /\ UNCHANGED waFailures
     \/ WaFail /\ GoTo(m, "release") /\ UNCHANGED conversations
  /\ UNCHANGED <<stored, busyChats, sync, runTraces, bases, outbox, miscounted>>

\* Mutant: what was sent to the chat is counted.
CountOfHistory(m) == Len(outbox[ChatOf(m)])

\* The assistant messages that are there before the turn: in the run's trace,
\* or in the history when there is no run.
InitialCount(m) ==
  IF live[m].run = NoAgentRun THEN Len(outbox[ChatOf(m)]) ELSE Len(runTraces[live[m].run])

\* The forwarder counts the history as well when the trace cannot be read.
\* Without history the turn ends as it is.
BuildHistory(m) ==
  LET r == live[m].run
      before == Len(outbox[ChatOf(m)])
  IN  /\ On(m, "history")
      /\ \/ /\ Go(m, [pc |-> "start", forward |-> r, seen |-> InitialCount(m)])
            /\ bases' = IF r = NoAgentRun THEN [bases EXCEPT ![m] = before] ELSE bases
            /\ UNCHANGED <<miscounted, waFailures>>
         \/ /\ r # NoAgentRun
            /\ WaFail
            /\ miscounted' = TRUE
            /\ Go(m, [pc |-> "start", forward |-> r, seen |-> before])
            /\ UNCHANGED bases
         \/ WaFail /\ GoTo(m, "release") /\ UNCHANGED <<bases, miscounted>>
      /\ UNCHANGED <<stored, conversations, busyChats, sync, runTraces, outbox>>

\* A new run's trace starts with the history the turn has read.
RunAgent(m) ==
  LET r == live[m].run IN
  /\ On(m, "start")
  /\ \/ /\ Go(m, [pc |-> "running", run |-> IF r = NoAgentRun THEN m ELSE r])
        /\ runTraces' = IF r = NoAgentRun THEN [runTraces EXCEPT ![m] = [k \in 1..bases[m] |-> 1]]
                        ELSE runTraces
        /\ UNCHANGED waFailures
     \/ WaFail /\ GoTo(m, "failed") /\ UNCHANGED runTraces
  /\ UNCHANGED <<stored, conversations, busyChats, sync, bases, outbox, miscounted>>

Say(m, parts) ==
  /\ live[m].made < MaxReplies
  /\ runTraces' = [runTraces EXCEPT ![live[m].run] = Append(@, parts)]

\* A step of the model ends with a tool result, which flushes the forwarder.
OnToolResult(m) ==
  /\ On(m, "running")
  /\ \E parts \in 0..MaxParts : Say(m, parts)
  /\ Go(m, [pc |-> "flush", made |-> live[m].made + 1])
  /\ UNCHANGED <<stored, conversations, busyChats, sync, bases, outbox, miscounted, waFailures>>

\* Mutant: the forwarder is not told the id of a new run.
FirstForwardedRun(m) == live[m].forward

ForwardedRun(m) == live[m].run

\* The last step has no tool result; the run's id is known by now.
EndRun(m) ==
  /\ On(m, "running")
  /\ \/ /\ \E parts \in 0..MaxParts : Say(m, parts)
        /\ Go(m, [pc |-> "final", forward |-> ForwardedRun(m)])
        /\ UNCHANGED waFailures
     \/ WaFail /\ GoTo(m, "failed") /\ UNCHANGED runTraces
  /\ UNCHANGED <<stored, conversations, busyChats, sync, bases, outbox, miscounted>>

Flushing(m) == On(m, "flush") \/ On(m, "final")
Flushed(m) == live[m].forward # NoAgentRun => live[m].seen >= Len(runTraces[live[m].forward])

\* One assistant message past the count, chunk by chunk.  It is counted once
\* all of it is sent.
FlushMessage(m) ==
  LET r == live[m].forward
      next == live[m].seen + 1
      part == live[m].part + 1
  IN  /\ Flushing(m) /\ ~Flushed(m)
      /\ IF part > runTraces[r][next]
         THEN Go(m, [seen |-> next, part |-> 0]) /\ UNCHANGED <<outbox, waFailures>>
         ELSE \/ /\ Post(ChatOf(m), [run |-> r, message |-> next, part |-> part])
                 /\ Go(m, [part |-> part, last |-> TRUE])
                 /\ UNCHANGED waFailures
              \* After a tool result this fails the run; at the end it is logged.
              \/ /\ WaFail
                 /\ GoTo(m, IF On(m, "flush") THEN "failed" ELSE "finish")
                 /\ UNCHANGED outbox
      /\ UNCHANGED <<stored, conversations, busyChats, sync, runTraces, bases, miscounted>>

EndFlush(m) ==
  /\ Flushing(m) /\ Flushed(m)
  /\ GoTo(m, IF On(m, "flush") THEN "running" ELSE "finish")
  /\ UNCHANGED <<stored, conversations, busyChats, sync, runTraces, bases, outbox, miscounted, waFailures>>

\* A turn that forwarded nothing says "Done.", or stays "running".
SayDone(m) ==
  /\ On(m, "finish")
  /\ \/ live[m].last /\ GoTo(m, "completed") /\ UNCHANGED <<outbox, waFailures>>
     \/ ~live[m].last /\ Post(ChatOf(m), [text |-> "Done."]) /\ GoTo(m, "completed") /\ UNCHANGED waFailures
     \/ ~live[m].last /\ WaFail /\ GoTo(m, "release") /\ UNCHANGED outbox
  /\ UNCHANGED <<stored, conversations, busyChats, sync, runTraces, bases, miscounted>>

\* Neither the text nor the save is looked at.
SayError(m) ==
  /\ On(m, "failed")
  /\ \/ /\ SendText(ChatOf(m), "error")
        /\ conversations' = [conversations EXCEPT ![ChatOf(m)] = [run |-> live[m].run, status |-> "failed"]]
     \/ WaFail /\ Post(ChatOf(m), [text |-> "error"]) /\ UNCHANGED conversations
  /\ GoTo(m, "release")
  /\ UNCHANGED <<stored, busyChats, sync, runTraces, bases, miscounted>>

\* An error of this save is ignored.
SaveCompleted(m) ==
  /\ On(m, "completed")
  /\ \/ /\ conversations' = [conversations EXCEPT ![ChatOf(m)] = [run |-> live[m].run, status |-> "completed"]]
        /\ UNCHANGED waFailures
     \/ WaFail /\ UNCHANGED conversations
  /\ GoTo(m, "release")
  /\ UNCHANGED <<stored, busyChats, sync, runTraces, bases, outbox, miscounted>>

ReleaseChat(m) ==
  /\ On(m, "release")
  /\ busyChats' = busyChats \ {ChatOf(m)}
  /\ GoTo(m, "done")
  /\ UNCHANGED <<stored, conversations, sync, runTraces, bases, outbox, miscounted, waFailures>>

WaNext ==
  \/ \E m \in Inbound, c \in Chats : HandleMessage(m, c)
  \/ \E m \in Inbound :
       \/ SaveChat(m) \/ FindMessage(m) \/ InsertMessage(m) \/ SyncMessage(m)
       \/ StartReply(m) \/ SaveRunning(m) \/ BuildHistory(m) \/ RunAgent(m)
       \/ OnToolResult(m) \/ EndRun(m) \/ FlushMessage(m) \/ EndFlush(m)
       \/ SayDone(m) \/ SayError(m) \/ SaveCompleted(m) \/ ReleaseChat(m)

WaSpec == WaInit /\ [][WaNext]_waVars

(***************************************************************************)
(* Properties.                                                             *)
(***************************************************************************)
WaTypeOK ==
  /\ stored \subseteq Inbound
  /\ conversations \in [Chats -> [run : Runs, status : {"none", "running", "failed", "completed"}]]
  /\ busyChats \subseteq Chats
  /\ \A m \in Inbound : live[m].pc \in LivePCs /\ live[m].chat \in Chats \union {NoChat}
  /\ sync \in [Inbound -> {"none", "found", "done"}]
  /\ runTraces \in [Inbound -> Seq(0..MaxParts)]
  /\ bases \in [Inbound -> Nat]
  /\ \A c \in Chats : \A k \in 1..Len(outbox[c]) : outbox[c][k] \in Sent
  /\ miscounted \in BOOLEAN
  /\ waFailures \in 0..MaxWaFailures

RunParts(c) == {k \in 1..Len(outbox[c]) : "run" \in DOMAIN outbox[c][k]}

Before(a, b) == a.message < b.message \/ (a.message = b.message /\ a.part < b.part)

\* The chunks of a run reach its chat in order and once each, over all turns
\* of the run and whatever send has failed in between, as long as every
\* forwarder could read the trace it counts in.
ForwardedInOrder ==
  \A c \in Chats : \A j, k \in RunParts(c) :
    ~miscounted /\ j < k /\ outbox[c][j].run = outbox[c][k].run
      => Before(outbox[c][j], outbox[c][k])

\* A turn that ends well without any failure has forwarded everything the
\* assistant said in it, also in the first turn, whose run has no id while it
\* goes on and whose trace starts with the chat's history.
CompletedIsForwarded ==
  \A m \in Inbound : On(m, "completed") /\ waFailures = 0 =>
    LET r == live[m].run
        sent == {<<outbox[ChatOf(m)][k].message, outbox[ChatOf(m)][k].part>> : k \in
                  {i \in RunParts(ChatOf(m)) : outbox[ChatOf(m)][i].run = r}}
    IN  \A k \in (bases[r] + 1)..Len(runTraces[r]) : \A p \in 1..runTraces[r][k] : <<k, p>> \in sent
=============================================================================
