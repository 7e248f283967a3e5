--------------------------- MODULE VoicePlayback ---------------------------
(***************************************************************************)
(* The two audio loops of one live call, and the voice transport they use. *)
(*                                                                         *)
(* voicePlayback.loop is one goroutine with three timers (the next frame,  *)
(* the retry while the transport is not ready, the end of speaking) and a  *)
(* bounded channel of events.  captureIncomingAudio is the other one: it   *)
(* watches the packets of the user for the start and the end of speech,    *)
(* pads a pause with silence and then ends the model's input.  The state of*)
(* the transport is set by a monitor, by gateway events and by whoever     *)
(* finds the gateway gone.                                                 *)
(*                                                                         *)
(* Audio is counted in half frames: only whole frames are sent.  Durations *)
(* are not counted: a condition on the clock may hold or not, once it can. *)
(***************************************************************************)
EXTENDS Naturals, Sequences

CONSTANTS
  ChannelCapacity, \* events the channel holds (32)
  MaxBuffered,     \* maxBufferedPlaybackFrameCount, in half frames
  MaxPadding,      \* endpointMaxSilencePadFrames
  MaxChunks,       \* bound: chunks of audio from the model
  MaxPackets       \* bound: packets from the user

Frame == 2

\* An empty chunk is not enqueued.
AudioSizes == 1..3

ASSUME VoicePlaybackAssumption ==
  /\ ChannelCapacity \in Nat \ {0}
  /\ MaxBuffered \in Nat
  /\ MaxPadding \in Nat
  /\ MaxChunks \in Nat
  /\ MaxPackets \in Nat

VARIABLES
  channel,    \* playback.events
  loop,       \* running, or done
  pending,    \* half frames buffered
  since,      \* pendingSince is set
  speaking,   \* the loop's speaking
  timers,     \* which of playbackC, retryC and idleC is armed
  transport,  \* daveVoiceConnection.state
  described,  \* sessionReady
  everReady,  \* everAudioReady
  microphone, \* daveVoiceConnection.speaking
  speech,     \* localSpeechCoordinator: active, candidate frames
  endpoint,   \* liveInputEndpointState
  suppressing,\* localUserSpeaking
  chunks, packets

playbackVars == <<channel, loop, pending, since, speaking, timers, transport, described,
                  everReady, microphone, speech, endpoint, suppressing, chunks, packets>>
bufferVars == <<channel, loop, pending, since, speaking, timers>>
transportVars == <<transport, described, everReady, microphone>>
captureVars == <<speech, endpoint, suppressing, packets>>

Event == [kind : {"audio"}, size : AudioSizes] \union [kind : {"reset", "close"}, size : {0}]

PlaybackInit ==
  /\ channel = <<>>
  /\ loop = "running"
  /\ pending = 0
  /\ since = FALSE
  /\ speaking = FALSE
  /\ timers = [playback |-> FALSE, retry |-> FALSE, idle |-> FALSE]
  /\ transport = "opening"
  /\ described = FALSE
  /\ everReady = FALSE
  /\ microphone = FALSE
  /\ speech = [active |-> FALSE, candidates |-> 0]
  /\ endpoint = [open |-> FALSE, ended |-> FALSE, pads |-> 0]
  /\ suppressing = FALSE
  /\ chunks = 0
  /\ packets = 0

(***************************************************************************)
(* The transport.                                                          *)
(***************************************************************************)
\* The state that syncTransportState derives from the gateway's status.
Synced(isDescribed, ready) ==
  IF ~isDescribed THEN "opening"
  ELSE IF ready THEN "audio_ready"
  ELSE IF everReady THEN "reconnecting"
  ELSE "session_described"

Sync(isDescribed, ready) ==
  IF transport \in {"closing", "closed"} THEN UNCHANGED <<transport, everReady>>
  ELSE /\ transport' = Synced(isDescribed, ready)
       /\ everReady' = (everReady \/ (isDescribed /\ ready))

\* The monitor's tick, and the events Ready and Resumed of the gateway.
SyncTransportState ==
  /\ \E ready \in BOOLEAN : Sync(described, ready)
  /\ UNCHANGED <<bufferVars, captureVars, described, microphone, chunks>>

\* The session description arrives, or Open has returned.
MarkSessionDescribed ==
  /\ ~described
  /\ described' = TRUE
  /\ \E ready \in BOOLEAN : Sync(TRUE, ready)
  /\ UNCHANGED <<bufferVars, captureVars, microphone, chunks>>

\* What becomes of the microphone when the loop, or Disconnect, stops
\* speaking: the gateway obeys, is gone, or refuses.
StopMicrophone(state) ==
  IF ~microphone THEN transport' = state /\ UNCHANGED microphone
  ELSE \/ transport' = state /\ microphone' = FALSE
       \/ transport' = "reconnecting" /\ microphone' = FALSE
       \/ transport' = state /\ UNCHANGED microphone

\* Disconnect comes after the playback has been closed.
BeginDisconnect ==
  /\ loop = "done"
  /\ transport \notin {"closing", "closed"}
  /\ StopMicrophone("closing")
  /\ UNCHANGED <<bufferVars, captureVars, described, everReady, chunks>>

\* The receiver has returned, and the monitor with it.
EndDisconnect ==
  /\ loop = "done"
  /\ transport # "closed"
  /\ transport' = "closed"
  /\ UNCHANGED <<bufferVars, captureVars, described, everReady, microphone, chunks>>

(***************************************************************************)
(* The producers of events.                                                *)
(***************************************************************************)
Room == Len(channel) < ChannelCapacity

\* The model's audio, unless it is suppressed while the user speaks; the
\* window of suppression may last longer than the speech.
OnAudio(size) ==
  /\ chunks < MaxChunks
  /\ Room
  /\ ~suppressing
  /\ chunks' = chunks + 1
  /\ channel' = Append(channel, [kind |-> "audio", size |-> size])
  /\ UNCHANGED <<loop, pending, since, speaking, timers, transportVars, captureVars>>

\* Interrupt gives up when the channel is full.
Interrupted == IF Room THEN Append(channel, [kind |-> "reset", size |-> 0]) ELSE channel

OnInterrupted ==
  /\ loop = "running"
  /\ chunks > 0
  /\ channel' = Interrupted
  /\ UNCHANGED <<loop, pending, since, speaking, timers, transportVars, captureVars, chunks>>

\* The shutdown closes the playback once; nothing is enqueued after it.
ClosePlaybackLoop ==
  /\ Room
  /\ \A k \in 1..Len(channel) : channel[k].kind # "close"
  /\ loop = "running"
  /\ chunks = MaxChunks
  /\ channel' = Append(channel, [kind |-> "close", size |-> 0])
  /\ UNCHANGED <<loop, pending, since, speaking, timers, transportVars, captureVars, chunks>>

(***************************************************************************)
(* The playback's loop.                                                    *)
(***************************************************************************)
\* Five silent frames and the gateway's indicator, if the loop is speaking.
StopSpeaking ==
  IF speaking THEN StopMicrophone(transport) ELSE UNCHANGED <<transport, microphone>>

\* clearPending does nothing when nothing is buffered.
ClearPending ==
  /\ pending' = 0
  /\ since' = (since /\ pending = 0)
  /\ timers' = [playback |-> timers.playback /\ pending = 0,
                retry |-> timers.retry /\ pending = 0,
                idle |-> timers.idle /\ ~speaking]
  /\ speaking' = FALSE

\* Mutant: a retry that waits is not looked at.
ScheduledAlways(t, p) == IF p >= Frame THEN [t EXCEPT !.playback = TRUE] ELSE t

\* scheduleNextPlaybackFrame, with t the timers and p what is buffered.
Scheduled(t, p) == IF p >= Frame /\ ~t.retry THEN [t EXCEPT !.playback = TRUE] ELSE t

\* The transport is not ready: wait for the retry.
Postpone(fired) ==
  /\ since' = TRUE
  /\ timers' = [fired EXCEPT !.playback = FALSE, !.retry = TRUE]
  /\ UNCHANGED pending

\* A frame leaves the buffer, sent or lost; t is the timers it leaves.
DropFrame(t) ==
  /\ pending' = pending - Frame
  /\ timers' = Scheduled(t, pending - Frame)

NotReady(fired) ==
  /\ transport # "audio_ready"
  /\ \/ /\ pending <= MaxBuffered
        /\ Postpone(fired)
        /\ UNCHANGED <<speaking, transport, microphone>>
     \* Too much is buffered, or the transport was not ready for too long.
     \/ /\ pending > MaxBuffered \/ since
        /\ ClearPending
        /\ StopSpeaking

\* The frame is sent, and the microphone opened before it if need be.  A
\* partial frame that stays behind keeps pendingSince as it is.
SendFrame(fired) ==
  /\ transport = "audio_ready"
  /\ DropFrame([fired EXCEPT !.idle = TRUE, !.retry = @ /\ pending > Frame])
  /\ since' = (since /\ pending > Frame)
  /\ speaking' = TRUE
  /\ microphone' = TRUE
  /\ UNCHANGED transport

\* The frame cannot be encoded or sent: it is lost.
LoseFrame(fired) ==
  /\ transport = "audio_ready"
  /\ DropFrame(fired)
  /\ UNCHANGED <<since, transport>>
  /\ \/ speaking' = TRUE /\ microphone' = TRUE
     \/ UNCHANGED <<speaking, microphone>>

\* The gateway is gone when the microphone is opened or the frame is sent.
LoseGateway(fired) ==
  /\ transport = "audio_ready"
  /\ Postpone(fired)
  /\ transport' = "reconnecting"
  /\ \/ speaking' = TRUE /\ microphone' = TRUE
     \/ UNCHANGED <<speaking, microphone>>

\* sendOnePendingFrame, with the timers that are left once one has fired.
SendOnePendingFrame(fired) ==
  \/ /\ pending < Frame
     /\ since' = (since /\ pending > 0)
     /\ timers' = [fired EXCEPT !.retry = @ /\ pending > 0]
     /\ UNCHANGED <<pending, speaking, transport, microphone>>
  \/ pending >= Frame /\ (NotReady(fired) \/ SendFrame(fired) \/ LoseFrame(fired) \/ LoseGateway(fired))

PlaybackTimer ==
  /\ loop = "running"
  /\ timers.playback
  /\ SendOnePendingFrame([timers EXCEPT !.playback = FALSE])
  /\ UNCHANGED <<channel, loop, described, everReady, captureVars, chunks>>

RetryTimer ==
  /\ loop = "running"
  /\ timers.retry
  /\ SendOnePendingFrame([timers EXCEPT !.retry = FALSE])
  /\ UNCHANGED <<channel, loop, described, everReady, captureVars, chunks>>

IdleTimer ==
  /\ loop = "running"
  /\ timers.idle
  /\ StopSpeaking
  /\ speaking' = FALSE
  /\ timers' = [timers EXCEPT !.idle = FALSE]
  /\ UNCHANGED <<channel, loop, pending, since, described, everReady, captureVars, chunks>>

TakeAudio ==
  /\ channel # <<>> /\ Head(channel).kind = "audio"
  /\ loop = "running"
  /\ channel' = Tail(channel)
  /\ pending' = pending + Head(channel).size
  /\ timers' = Scheduled(timers, pending')
  /\ UNCHANGED <<loop, since, speaking, transportVars, captureVars, chunks>>

\* A reset drops what is buffered, and so does the end.
TakeReset ==
  /\ channel # <<>> /\ Head(channel).kind \in {"reset", "close"}
  /\ loop = "running"
  /\ channel' = Tail(channel)
  /\ loop' = IF Head(channel).kind = "close" THEN "done" ELSE "running"
  /\ ClearPending
  /\ StopSpeaking
  /\ UNCHANGED <<described, everReady, captureVars, chunks>>

(***************************************************************************)
(* The capture's loop.                                                     *)
(***************************************************************************)
\* A packet with speech: two of them start the speech, unless the first has
\* grown too old.  The start suppresses the model and interrupts what plays.
SpeechPacket ==
  /\ packets < MaxPackets
  /\ packets' = packets + 1
  /\ endpoint' = [open |-> TRUE, ended |-> FALSE, pads |-> 0]
  /\ \/ /\ speech.active \/ speech.candidates = 0
        /\ speech' = IF speech.active THEN speech ELSE [speech EXCEPT !.candidates = 1]
        /\ UNCHANGED <<suppressing, channel>>
     \/ /\ ~speech.active /\ speech.candidates = 1
        /\ speech' = [active |-> TRUE, candidates |-> 0]
        /\ suppressing' = TRUE
        /\ channel' = IF speaking \/ pending > 0 THEN Interrupted ELSE channel
     \/ /\ ~speech.active /\ speech.candidates = 1 \* too old: starts again
        /\ UNCHANGED <<speech, suppressing, channel>>
  /\ UNCHANGED <<loop, pending, since, speaking, timers, transportVars, chunks>>

\* What a moment without speech does: the speech ends after a silence, a
\* lonely candidate is forgotten, or it is too early for both.
Silence ==
  \/ UNCHANGED <<speech, suppressing>>
  \/ /\ speech.active
     /\ speech' = [active |-> FALSE, candidates |-> 0]
     /\ suppressing' = FALSE
  \/ /\ ~speech.active /\ speech.candidates > 0
     /\ speech' = [speech EXCEPT !.candidates = 0]
     /\ UNCHANGED suppressing

QuietPacket ==
  /\ packets < MaxPackets
  /\ packets' = packets + 1
  /\ endpoint' = [open |-> TRUE, ended |-> FALSE, pads |-> 0]
  /\ Silence
  /\ UNCHANGED <<bufferVars, transportVars, chunks>>

\* Once a pause is long enough, every tick pads it with a frame of silence,
\* and after MaxPadding of them one tick ends the input.
PadTicker ==
  /\ Silence
  /\ endpoint' \in
       {endpoint} \union
       IF ~endpoint.open \/ endpoint.ended THEN {}
       ELSE IF endpoint.pads < MaxPadding THEN {[endpoint EXCEPT !.pads = @ + 1]}
       ELSE {[endpoint EXCEPT !.ended = TRUE]}
  /\ UNCHANGED <<bufferVars, transportVars, packets, chunks>>

PlaybackNext ==
  \/ SyncTransportState \/ MarkSessionDescribed \/ BeginDisconnect \/ EndDisconnect
  \/ \E size \in AudioSizes : OnAudio(size)
  \/ OnInterrupted \/ ClosePlaybackLoop
  \/ PlaybackTimer \/ RetryTimer \/ IdleTimer \/ TakeAudio \/ TakeReset
  \/ SpeechPacket \/ QuietPacket \/ PadTicker

PlaybackSpec == PlaybackInit /\ [][PlaybackNext]_playbackVars

(***************************************************************************)
(* Properties.                                                             *)
(***************************************************************************)
PlaybackTypeOK ==
  /\ channel \in Seq(Event)
  /\ Len(channel) <= ChannelCapacity
  /\ loop \in {"running", "done"}
  /\ pending \in Nat
  /\ since \in BOOLEAN
  /\ speaking \in BOOLEAN
  /\ timers \in [playback : BOOLEAN, retry : BOOLEAN, idle : BOOLEAN]
  /\ transport \in {"opening", "session_described", "audio_ready", "reconnecting", "closing", "closed"}
  /\ described \in BOOLEAN
  /\ everReady \in BOOLEAN
  /\ microphone \in BOOLEAN
  /\ speech \in [active : BOOLEAN, candidates : 0..1]
  /\ endpoint \in [open : BOOLEAN, ended : BOOLEAN, pads : 0..MaxPadding]
  /\ suppressing \in BOOLEAN
  /\ chunks \in 0..MaxChunks
  /\ packets \in 0..MaxPackets

\* While the playback runs, a buffered frame has exactly one timer that will
\* send it: whatever mix of late audio, interruptions, lost gateways and
\* retries came before, the voice never falls silent with audio in hand.
BufferedFrameIsTimed ==
  loop = "running" /\ pending >= Frame => (timers.playback # timers.retry)
=============================================================================
