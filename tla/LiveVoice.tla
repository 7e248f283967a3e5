----------------------------- MODULE LiveVoice -----------------------------
(***************************************************************************)
(* The live voice calls of the Discord bot, in one guild.                  *)
(*                                                                         *)
(* A member who enters a live channel makes the gateway's handler start a  *)
(* goroutine that builds a call (ensureLiveSession); the last one to leave *)
(* makes it start a goroutine that ends it (stopLiveSession).  Nothing     *)
(* orders these goroutines: they share the maps sessions and starting under*)
(* liveMu, and building a call takes seconds of network between two looks  *)
(* at them.  Every call has a receive loop of its own, which hands audio to*)
(* the playback's bounded channel, and is shut down by whoever took it out *)
(* of sessions, by its own decoder error, or by the service's Close.       *)
(*                                                                         *)
(* A goroutine is named by the voice-state event that started it, and a    *)
(* call by the goroutine that builds it.                                   *)
(***************************************************************************)
EXTENDS Naturals, Sequences, FiniteSets

CONSTANTS
  Members,       \* users who may enter voice channels
  LiveChannels,  \* discord.live.auto_join_voice_channel_ids
  MaxSessions,   \* discord.live.max_sessions, 0 for no limit
  QueueCapacity, \* events the playback channel holds
  MaxMoves,      \* bound: voice-state events
  MaxFailures,   \* bound: failures of the network, the decoder or the model
  NoChannel, NoCall

Moves == 1..MaxMoves

\* The goroutines that shut a call down: the stop that took it, its own
\* capture after a decoder error, and Close, which shuts down all it took.
Enders == ({"stop", "again", "decoder"} \X Moves) \union {<<"close", 0>>}

ASSUME LiveVoiceAssumption ==
  /\ MaxSessions \in Nat
  /\ QueueCapacity \in Nat \ {0}
  /\ MaxMoves \in Nat
  /\ MaxFailures \in Nat
  /\ NoChannel \notin LiveChannels
  /\ NoCall \notin Moves

VARIABLES
  occupants,  \* live.occupants: the channel of each member
  moves,      \* voice-state events handled
  starters,   \* the goroutines of ensureLiveSession
  enders,     \* the goroutines of shutdown
  registered, \* live.sessions: the call of each channel
  starting,   \* live.starting
  calls,      \* the calls
  stopped,    \* Close has cancelled the service's context
  failures

voiceVars == <<occupants, moves, starters, enders, registered, starting, calls, stopped, failures>>

StarterPCs == {"idle", "check", "open", "ready", "thread", "build", "connect", "register", "done"}

EnderPCs == {"idle", "take", "cancel", "hangup", "drain", "close", "played",
             "disconnect", "save", "done"}

Call == [ voice     : {"none", "open", "closed"},   \* the voice connection
          gemini    : {"none", "open", "failed", "closed"},
          receiver  : {"none", "idle", "sending", "done"}, \* recvLoop
          queue     : Seq({"audio", "close"}),      \* playback.events
          playback  : {"none", "running", "done"},
          capture   : {"none", "running", "done"},
          cancelled : BOOLEAN,
          row       : {"none", "connecting", "talking", "failed", "ended"} ]

NewCall == [voice |-> "none", gemini |-> "none", receiver |-> "none", queue |-> <<>>,
            playback |-> "none", capture |-> "none", cancelled |-> FALSE, row |-> "none"]

VoiceInit ==
  /\ occupants = [u \in Members |-> NoChannel]
  /\ moves = 0
  /\ starters = [i \in Moves |-> [pc |-> "idle", channel |-> NoChannel]]
  /\ enders = [e \in Enders |-> [pc |-> "idle", channel |-> NoChannel, todo |-> {}]]
  /\ registered = [c \in LiveChannels |-> NoCall]
  /\ starting = {}
  /\ calls = [i \in Moves |-> NewCall]
  /\ stopped = FALSE
  /\ failures = 0

\* Whoever else is in the channel.
Others(u, c) == {v \in Members \ {u} : occupants[v] = c}

\* handleGuildVoiceStateUpdate: a member is now in channel c, or in none.  An
\* event may also repeat the member's channel (mute, deafen).  The last one to
\* leave for no channel starts stopLiveSession twice.
VoiceStateUpdate(u, c) ==
  LET prev == occupants[u]
      i == moves + 1
      stops == IF prev \notin LiveChannels \ {c} \/ Others(u, prev) # {} THEN {}
               ELSE IF c = NoChannel THEN {"stop", "again"} ELSE {"stop"}
  IN  /\ moves < MaxMoves
      /\ c # NoChannel \/ prev # NoChannel
      /\ moves' = i
      /\ occupants' = [occupants EXCEPT ![u] = c]
      /\ starters' = IF c = NoChannel THEN starters
                     ELSE [starters EXCEPT ![i] = [pc |-> "check", channel |-> c]]
      /\ enders' = [e \in Enders |-> IF e \in stops \X {i}
                                     THEN [pc |-> "take", channel |-> prev, todo |-> {}]
                                     ELSE enders[e]]
      /\ UNCHANGED <<registered, starting, calls, stopped, failures>>

GoOn(i, next) == starters' = [starters EXCEPT ![i].pc = next]

Fail == failures < MaxFailures /\ failures' = failures + 1

\* The row that SaveDiscordLiveCall leaves: a cancelled context saves nothing.
Saved(i, status) == IF stopped THEN calls[i].row ELSE status

\* The goroutine returns, and its deferred function forgets the start.
Return(i) == GoOn(i, "done") /\ starting' = starting \ {starters[i].channel}

AtLimit == MaxSessions > 0 /\ Cardinality({c \in LiveChannels : registered[c] # NoCall}) >= MaxSessions

\* Mutant: another start under way is not noticed.
CheckSessionsOnly(i) ==
  LET c == starters[i].channel IN
  /\ starters[i].pc = "check"
  /\ IF registered[c] # NoCall \/ AtLimit
     THEN GoOn(i, "done") /\ UNCHANGED starting
     ELSE GoOn(i, "open") /\ starting' = starting \union {c}
  /\ UNCHANGED <<occupants, moves, enders, registered, calls, stopped, failures>>

\* The early returns come before the deferred function is installed.
CheckSessions(i) ==
  LET c == starters[i].channel IN
  /\ starters[i].pc = "check"
  /\ IF registered[c] # NoCall \/ c \in starting \/ AtLimit
     THEN GoOn(i, "done") /\ UNCHANGED starting
     ELSE GoOn(i, "open") /\ starting' = starting \union {c}
  /\ UNCHANGED <<occupants, moves, enders, registered, calls, stopped, failures>>

\* The connection is opened, or everything opened so far is closed again.
OpenVoice(i) ==
  /\ starters[i].pc = "open"
  /\ \/ /\ ~stopped
        /\ GoOn(i, "ready")
        /\ calls' = [calls EXCEPT ![i].voice = "open"]
        /\ UNCHANGED <<starting, failures>>
     \/ /\ Return(i)
        /\ IF stopped THEN UNCHANGED failures ELSE Fail
        /\ UNCHANGED calls
  /\ UNCHANGED <<occupants, moves, enders, registered, stopped>>

\* The connection is ready within its time, or is given up.
WaitReady(i) ==
  /\ starters[i].pc = "ready"
  /\ \/ GoOn(i, "thread") /\ UNCHANGED <<starting, calls, failures>>
     \/ /\ Return(i)
        /\ Fail
        /\ calls' = [calls EXCEPT ![i].voice = "closed"]
  /\ UNCHANGED <<occupants, moves, enders, registered, stopped>>

\* The thread of the transcript, and the call's row.
EnsureLiveCallThread(i) ==
  /\ starters[i].pc = "thread"
  /\ \/ /\ ~stopped
        /\ GoOn(i, "build")
        /\ calls' = [calls EXCEPT ![i].row = "connecting"]
        /\ UNCHANGED <<starting, failures>>
     \/ /\ Return(i)
        /\ IF stopped THEN UNCHANGED failures ELSE Fail
        /\ calls' = [calls EXCEPT ![i].voice = "closed"]
  /\ UNCHANGED <<occupants, moves, enders, registered, stopped>>

\* The playback's loop is started, with its recorders.
NewVoicePlayback(i) ==
  /\ starters[i].pc = "build"
  /\ \/ /\ GoOn(i, "connect")
        /\ calls' = [calls EXCEPT ![i].playback = "running", ![i].row = Saved(i, "connecting")]
        /\ UNCHANGED <<starting, failures>>
     \/ /\ Return(i)
        /\ Fail
        /\ calls' = [calls EXCEPT ![i].voice = "closed"]
  /\ UNCHANGED <<occupants, moves, enders, registered, stopped>>

\* The model is dialled; a failure closes the playback and the connection.
StartConversation(i) ==
  /\ starters[i].pc = "connect"
  /\ \/ /\ ~stopped
        /\ GoOn(i, "register")
        /\ calls' = [calls EXCEPT ![i].gemini = "open", ![i].receiver = "idle"]
        /\ UNCHANGED <<starting, failures>>
     \/ /\ Return(i)
        /\ IF stopped THEN UNCHANGED failures ELSE Fail
        /\ calls' = [calls EXCEPT ![i].playback = "done", ![i].voice = "closed", ![i].cancelled = TRUE]
  /\ UNCHANGED <<occupants, moves, enders, registered, stopped>>

\* Nobody looks again whether the channel still has an occupant.
Register(i) ==
  /\ starters[i].pc = "register"
  /\ registered' = [registered EXCEPT ![starters[i].channel] = i]
  /\ calls' = [calls EXCEPT ![i].capture = "running"]
  /\ Return(i)
  /\ UNCHANGED <<occupants, moves, enders, stopped, failures>>

(***************************************************************************)
(* The call's own goroutines.                                              *)
(***************************************************************************)
\* A message of the model changes the status (handleStatus, persistState).
ReceiveStatus(i) ==
  /\ calls[i].receiver = "idle"
  /\ calls[i].gemini = "open"
  /\ calls' = [calls EXCEPT ![i].row = Saved(i, "talking")]
  /\ UNCHANGED <<occupants, moves, starters, enders, registered, starting, stopped, failures>>

\* A message carries audio that is not suppressed.
ReceiveAudio(i) ==
  /\ calls[i].receiver = "idle"
  /\ calls[i].gemini = "open"
  /\ calls' = [calls EXCEPT ![i].receiver = "sending"]
  /\ UNCHANGED <<occupants, moves, starters, enders, registered, starting, stopped, failures>>

\* Mutant: the channel has no capacity.
EnqueueAnyway(i) ==
  /\ calls[i].receiver = "sending"
  /\ calls' = [calls EXCEPT ![i].receiver = "idle", ![i].queue = Append(@, "audio")]
  /\ UNCHANGED <<occupants, moves, starters, enders, registered, starting, stopped, failures>>

\* playback.Enqueue blocks the receive loop while the channel is full.
Enqueue(i) ==
  /\ calls[i].receiver = "sending"
  /\ Len(calls[i].queue) < QueueCapacity
  /\ calls' = [calls EXCEPT ![i].receiver = "idle", ![i].queue = Append(@, "audio")]
  /\ UNCHANGED <<occupants, moves, starters, enders, registered, starting, stopped, failures>>

\* The model's stream breaks by itself: nobody is told but the row.
BreakStream(i) ==
  /\ calls[i].gemini = "open"
  /\ Fail
  /\ calls' = [calls EXCEPT ![i].gemini = "failed"]
  /\ UNCHANGED <<occupants, moves, starters, enders, registered, starting, stopped>>

\* Receive returns an error: the loop says "failed" and returns.
EndReceive(i) ==
  /\ calls[i].receiver = "idle"
  /\ calls[i].gemini \in {"failed", "closed"}
  /\ calls' = [calls EXCEPT ![i].receiver = "done", ![i].row = Saved(i, "failed")]
  /\ UNCHANGED <<occupants, moves, starters, enders, registered, starting, stopped, failures>>

\* Mutant: the loop stops at once when the call is cancelled.
PlayUntilCancelled(i) ==
  /\ calls[i].playback = "running"
  /\ ~calls[i].cancelled
  /\ calls[i].queue # <<>>
  /\ calls' = [calls EXCEPT ![i].queue = Tail(@)]
  /\ UNCHANGED <<occupants, moves, starters, enders, registered, starting, stopped, failures>>

\* The playback's loop takes the next event of its channel.
Play(i) ==
  /\ calls[i].playback = "running"
  /\ calls[i].queue # <<>>
  /\ calls' = [calls EXCEPT ![i].queue = Tail(@),
                            ![i].playback = IF Head(calls[i].queue) = "close" THEN "done" ELSE @]
  /\ UNCHANGED <<occupants, moves, starters, enders, registered, starting, stopped, failures>>

\* The capture returns when its context is cancelled or its packets end.
EndCapture(i) ==
  /\ calls[i].capture = "running"
  /\ calls[i].cancelled \/ calls[i].voice = "closed" \/ stopped
  /\ calls' = [calls EXCEPT ![i].capture = "done"]
  /\ UNCHANGED <<occupants, moves, starters, enders, registered, starting, stopped, failures>>

\* A stream without decoder ends the call, which stays in sessions.
DecoderError(i) ==
  /\ calls[i].capture = "running"
  /\ Fail
  /\ calls' = [calls EXCEPT ![i].capture = "done"]
  /\ enders' = [enders EXCEPT ![<<"decoder", i>>] =
                 [pc |-> "cancel", channel |-> starters[i].channel, todo |-> {i}]]
  /\ UNCHANGED <<occupants, moves, starters, registered, starting, stopped>>

(***************************************************************************)
(* The end of a call.                                                      *)
(***************************************************************************)
\* stopLiveSession takes the call out of sessions, if there is one.
TakeSession(e) ==
  LET c == enders[e].channel IN
  /\ enders[e].pc = "take"
  /\ enders' = [enders EXCEPT ![e].pc = IF registered[c] = NoCall THEN "done" ELSE "cancel",
                              ![e].todo = {registered[c]} \ {NoCall}]
  /\ registered' = [registered EXCEPT ![c] = NoCall]
  /\ UNCHANGED <<occupants, moves, starters, starting, calls, stopped, failures>>

\* Close takes all of them and cancels the context everything hangs on.
CloseService ==
  LET taken == {registered[c] : c \in LiveChannels} \ {NoCall} IN
  /\ ~stopped
  /\ stopped' = TRUE
  /\ registered' = [c \in LiveChannels |-> NoCall]
  /\ enders' = [enders EXCEPT ![<<"close", 0>>] =
                 [pc |-> IF taken = {} THEN "done" ELSE "cancel", channel |-> NoChannel, todo |-> taken]]
  /\ UNCHANGED <<occupants, moves, starters, starting, calls, failures>>

\* The call an ender works on; Close takes them one after the other.
Current(e) == CHOOSE i \in enders[e].todo : TRUE

Step(e, from, to) ==
  /\ enders[e].pc = from
  /\ enders' = [enders EXCEPT ![e].pc = to]
  /\ UNCHANGED <<occupants, moves, starters, registered, starting, stopped, failures>>

\* It waits for the capture, but no longer than half a second.
CancelCall(e) ==
  /\ Step(e, "cancel", "hangup")
  /\ calls' = [calls EXCEPT ![Current(e)].cancelled = TRUE]

CloseConversation(e) ==
  /\ Step(e, "hangup", "drain")
  /\ calls' = [calls EXCEPT ![Current(e)].gemini = IF @ = "none" THEN @ ELSE "closed"]

\* Mutant: the receive loop is not waited for.
AwaitNobody(e) ==
  /\ Step(e, "drain", "close")
  /\ UNCHANGED calls

\* conversation.Close waits for the receive loop, which may be blocked on the
\* playback's channel: the playback must still be running.
AwaitReceiver(e) ==
  /\ Step(e, "drain", "close")
  /\ calls[Current(e)].receiver \in {"none", "done"}
  /\ UNCHANGED calls

ClosePlayback(e) ==
  /\ Step(e, "close", "played")
  /\ Len(calls[Current(e)].queue) < QueueCapacity
  /\ calls' = [calls EXCEPT ![Current(e)].queue = Append(@, "close")]

AwaitPlayback(e) ==
  /\ Step(e, "played", "disconnect")
  /\ calls[Current(e)].playback = "done"
  /\ UNCHANGED calls

Disconnect(e) ==
  /\ Step(e, "disconnect", "save")
  /\ calls' = [calls EXCEPT ![Current(e)].voice = "closed"]

\* The row gets the reason, and Close goes on with the next call.
SaveEnd(e) ==
  LET i == Current(e)
      left == enders[e].todo \ {i}
  IN  /\ enders[e].pc = "save"
      /\ enders' = [enders EXCEPT ![e].pc = IF left = {} THEN "done" ELSE "cancel", ![e].todo = left]
      /\ calls' = [calls EXCEPT ![i].row = Saved(i, "ended")]
      /\ UNCHANGED <<occupants, moves, starters, registered, starting, stopped, failures>>

EnsureLiveSession(i) ==
  CheckSessions(i) \/ OpenVoice(i) \/ WaitReady(i) \/ EnsureLiveCallThread(i)
    \/ NewVoicePlayback(i) \/ StartConversation(i) \/ Register(i)

Conversation(i) == Enqueue(i) \/ EndReceive(i) \/ Play(i) \/ EndCapture(i)

Shutdown(e) ==
  TakeSession(e) \/ CancelCall(e) \/ CloseConversation(e) \/ AwaitReceiver(e)
    \/ ClosePlayback(e) \/ AwaitPlayback(e) \/ Disconnect(e) \/ SaveEnd(e)

VoiceNext ==
  \/ \E u \in Members, c \in LiveChannels \union {NoChannel} : VoiceStateUpdate(u, c)
  \/ \E i \in Moves : EnsureLiveSession(i) \/ Conversation(i)
  \/ \E i \in Moves : ReceiveStatus(i) \/ ReceiveAudio(i) \/ BreakStream(i) \/ DecoderError(i)
  \/ \E e \in Enders : Shutdown(e)
  \/ CloseService

\* Goroutines run: a started call is built or given up, a shutdown goes on,
\* and the call's loops take what is there.  Members, the network, the model
\* and the operator are not obliged to do anything.
VoiceFairness ==
  /\ \A i \in Moves : WF_voiceVars(EnsureLiveSession(i))
  /\ \A i \in Moves : WF_voiceVars(Enqueue(i)) /\ WF_voiceVars(EndReceive(i)) /\ WF_voiceVars(Play(i))
  /\ \A e \in Enders : WF_voiceVars(Shutdown(e))

VoiceSpec == VoiceInit /\ [][VoiceNext]_voiceVars /\ VoiceFairness

(***************************************************************************)
(* Properties.                                                             *)
(***************************************************************************)
VoiceTypeOK ==
  /\ occupants \in [Members -> LiveChannels \union {NoChannel}]
  /\ moves \in 0..MaxMoves
  /\ starters \in [Moves -> [pc : StarterPCs, channel : LiveChannels \union {NoChannel}]]
  /\ enders \in [Enders -> [pc : EnderPCs, channel : LiveChannels \union {NoChannel},
                            todo : SUBSET Moves]]
  /\ registered \in [LiveChannels -> Moves \union {NoCall}]
  /\ starting \subseteq LiveChannels
  /\ calls \in [Moves -> Call]
  /\ \A i \in Moves : Len(calls[i].queue) <= QueueCapacity
  /\ stopped \in BOOLEAN
  /\ failures \in 0..MaxFailures

Building(i) == starters[i].pc \in {"ready", "thread", "build", "connect", "register"}

\* A voice connection that is open is in somebody's hands: the goroutine that
\* builds its call, the sessions map, or a shutdown under way.  Otherwise the
\* bot would sit in a channel with nothing left in the program to make it go.
VoiceIsOwned ==
  \A i \in Moves : calls[i].voice = "open" =>
    \/ Building(i)
    \/ \E c \in LiveChannels : registered[c] = i
    \/ \E e \in Enders : i \in enders[e].todo

\* The row of a call that a shutdown has closed keeps saying so: no status of
\* the model that was on its way when the call ended is written over it.
EndIsLastStatus ==
  [][\A i \in Moves : calls[i].row = "ended" => calls'[i].row = "ended"]_voiceVars

\* A shutdown that has begun ends, however full the playback's channel is and
\* whatever the receive loop is blocked on when the call is closed.
ShutdownsFinish ==
  \A e \in Enders : enders[e].pc # "idle" ~> enders[e].pc = "done"
=============================================================================
