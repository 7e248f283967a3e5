------------------------------- MODULE LiveTrace -------------------------------
(***************************************************************************)
(* The trace of a live call: internal/discordbot/live_trace.go.  Four      *)
(* goroutines write to one recorder.  A frame of audio is recorded twice,  *)
(* as an event and as audio, under the recorder's lock each time; the time *)
(* of an event is taken before the lock.  Close turns the events into the  *)
(* turns of the conversation; two shutdowns may close the same trace, and  *)
(* the capture loop and the gateway may still be writing.                  *)
(*                                                                         *)
(* Time is counted in ticks.  What nothing reads again of an event is left *)
(* out, and so are failures to write the files.                            *)
(***************************************************************************)
EXTENDS Integers, Sequences, FiniteSets, SequencesExt

CONSTANTS
  Users,             \* the people in the call, strings
  FrameTicks,        \* the length of a frame of audio
  MergeGap,          \* liveTraceMergeGapMS
  TranscriptWindow,  \* liveTraceTranscriptWindowMS
  AssistantWindow,   \* the 5000 ms of nearestWindowByDistance
  MaxTime, MaxRecords   \* bounds

ASSUME LiveTraceAssumption ==
  /\ "gemini" \notin Users
  /\ FrameTicks \in Nat \ {0} /\ MergeGap \in Nat
  /\ TranscriptWindow \in Nat /\ AssistantWindow \in Nat
  /\ MaxTime \in Nat /\ MaxRecords \in Nat

VARIABLES
  clock,
  names,        \* participants whose display name is known
  events, jsonl,    \* r.events, and the lines of events.jsonl
  segments,     \* r.segments
  recording,    \* where each goroutine is in a Record* call
  closed, latencies,
  closing,      \* where each Close is
  files,        \* the files that Close has written
  records

traceVars == <<clock, names, events, jsonl, segments, recording, closed, latencies,
               closing, files, records>>

Writers == {"capture", "playback", "receiver", "gateway"}
Closers == {"leave", "decoder"}   \* stopLiveSession, and a decoder that failed
NoRecord == [at |-> "idle"]
NoFiles == [written |-> FALSE]

TraceInit ==
  /\ clock = 0 /\ names = {} /\ events = <<>> /\ jsonl = <<>> /\ segments = {}
  /\ recording = [w \in Writers |-> NoRecord]
  /\ closed = FALSE /\ latencies = FALSE
  /\ closing = [c \in Closers |-> [at |-> "idle", left |-> 0]]
  /\ files = NoFiles /\ records = 0

Tick == clock < MaxTime /\ clock' = clock + 1
        /\ UNCHANGED <<names, events, jsonl, segments, recording, closed, latencies,
                       closing, files, records>>

-----------------------------------------------------------------------------
(* Recording.                                                              *)

\* The conversation and the playback are over before the trace is closed; the
\* capture loop is waited for, but not for long, unless it is over itself.
Stopped(w) == \/ w \in {"playback", "receiver"} /\ \E c \in Closers : closing[c].at # "idle"
              \/ w = "capture" /\ closing["decoder"].at # "idle"

\* The call of a Record* function: the event is made, with its time.
Begins(w, event) ==
  /\ recording[w] = NoRecord /\ ~Stopped(w) /\ records < MaxRecords
  /\ records' = records + 1
  /\ recording' = [recording EXCEPT ![w] = [at |-> "event", event |-> event]]
  /\ UNCHANGED <<clock, events, jsonl, segments, closed, latencies, closing, files>>

Event(kind, t, who) == [kind |-> kind, t |-> t, who |-> who, named |-> who \in names]

\* Frames arrive in the order in which they were received, some time before.
Received(t) == t <= clock /\ \A i \in 1..Len(events) :
                               events[i].kind \in {"frame", "quiet"} => events[i].t <= t

RecordInboundAudioFrame(who, loud, t) ==
  /\ Received(t)
  /\ Begins("capture", Event(IF loud THEN "frame" ELSE "quiet", t, who))
  /\ UNCHANGED names

RecordLocalSpeechEnd(t) ==
  /\ t <= clock /\ Begins("capture", Event("local_speech_end", t, "")) /\ UNCHANGED names

RecordPlaybackFrameSent == Begins("playback", Event("sent", clock, "gemini")) /\ UNCHANGED names
RecordPlaybackInterruptClear ==
  Begins("playback", Event("interrupted", clock, "")) /\ UNCHANGED names

RecordGeminiInterrupted ==
  Begins("receiver", Event("interrupted", clock, "")) /\ UNCHANGED names
RecordGeminiAudioChunk ==
  Begins("receiver", Event("gemini_audio_chunk", clock, "")) /\ UNCHANGED names
RecordTranscript(role) == Begins("receiver", Event("final", clock, role)) /\ UNCHANGED names

RecordParticipant(who) ==
  /\ Begins("gateway", Event("participant", clock, who))
  /\ names' = names \cup {who}

\* recordAt: what comes after the end is dropped.
RecordAt(event) ==
  IF closed THEN UNCHANGED <<events, jsonl>>
  ELSE /\ events' = Append(events, event)
       /\ jsonl' = Append(jsonl, Len(events) + 1)

WriteEvent(w) ==
  /\ recording[w].at = "event"
  /\ RecordAt(recording[w].event)
  /\ recording' = [recording EXCEPT ![w] =
       IF @.event.kind \in {"frame", "quiet", "sent"} THEN [@ EXCEPT !.at = "segment"] ELSE NoRecord]
  /\ UNCHANGED <<clock, names, segments, closed, latencies, closing, files, records>>

\* addAudioSegment.  The segments are a set: the same audio at the same time is
\* heard once.
AddAudioSegment(w) ==
  /\ recording[w].at = "segment"
  /\ segments' = IF closed THEN segments
                 ELSE segments \cup {[who |-> recording[w].event.who, t |-> recording[w].event.t]}
  /\ recording' = [recording EXCEPT ![w] = NoRecord]
  /\ UNCHANGED <<clock, names, events, jsonl, closed, latencies, closing, files, records>>

-----------------------------------------------------------------------------
(* The turns of the conversation.                                          *)

\* Mutant: a window goes on whoever speaks.
MergesAnyone(window, event) == event.t - window.end <= MergeGap

\* Does a frame go on with the window that was made last?
Merges(window, event) ==
  /\ window.who = event.who /\ window.named = event.named
  /\ event.t - window.end <= MergeGap

Larger(a, b) == IF a > b THEN a ELSE b
Smaller(a, b) == IF a < b THEN a ELSE b
Distance(a, b) == IF a < b THEN b - a ELSE a - b

\* synthesizeSpeechWindows: only the last window can be gone on with.
Windows(log, kind) ==
  LET add(s, event) ==
        LET end == event.t + FrameTicks
        IN IF s # <<>> /\ Merges(s[Len(s)], event)
           THEN [s EXCEPT ![Len(s)].end = Larger(@, end)]
           ELSE Append(s, [who |-> event.who, named |-> event.named, start |-> event.t, end |-> end])
  IN FoldLeft(add, <<>>, SelectSeq(log, LAMBDA e : e.kind = kind))

CandidateDistance(w, t) == IF w.start <= t /\ t <= w.end THEN 0 ELSE Distance(t, w.end)
IntervalDistance(w, t) ==
  IF t < w.start THEN w.start - t ELSE IF t > w.end THEN t - w.end ELSE 0
WindowsOverlap(a, b) == a.start <= b.end /\ b.start <= a.end

\* The first window that is nearest.
FirstBest(near, distance(_)) ==
  CHOOSE i \in near : \A j \in near : distance(i) < distance(j) \/ (distance(i) = distance(j) /\ i <= j)

\* candidateWindows: those whose words a transcript may be, as indices.
CandidateWindows(ws, t) ==
  LET near == {i \in DOMAIN ws : ws[i].start <= t /\ t <= ws[i].end + TranscriptWindow}
      distance(i) == CandidateDistance(ws[i], t)
      best == FirstBest(near, distance)
  IN {i \in near : i = best \/ WindowsOverlap(ws[best], ws[i])
                            \/ distance(i) - distance(best) <= MergeGap}

\* nearestWindowByDistance: no window, or one.
NearestWindow(ws, t) ==
  LET distance(i) == IntervalDistance(ws[i], t)
      near == {i \in DOMAIN ws : distance(i) <= AssistantWindow}
  IN IF near = {} THEN {} ELSE {FirstBest(near, distance)}

HasEventBetween(log, start, end) ==
  \E i \in DOMAIN log : log[i].kind = "interrupted" /\ start <= log[i].t /\ log[i].t <= end

\* A turn with the words of event i of the log, and the windows they belong to.
AssistantTurn(log, i, ws) ==
  LET t == log[i].t
      turn == [role |-> "assistant", speakers |-> {"gemini"}, start |-> t, end |-> t,
               text |-> i, interrupted |-> FALSE]
  IN IF ws = {} THEN turn
     ELSE LET w == CHOOSE x \in ws : TRUE
          IN [turn EXCEPT !.start = w.start, !.end = w.end,
                          !.interrupted = HasEventBetween(log, Smaller(w.start, t), Larger(w.end, t))]

\* More than one speaker may have said them: then the turn spans all of them.
UserTurn(log, i, ws) ==
  LET t == log[i].t
      starts == {w.start : w \in ws}
      ends == {w.end : w \in ws}
  IN [role |-> "user", speakers |-> {w.who : w \in ws},
      start |-> IF ws = {} THEN t ELSE CHOOSE x \in starts : \A y \in starts : x <= y,
      end |-> IF ws = {} THEN t ELSE CHOOSE x \in ends : \A y \in ends : x >= y,
      text |-> i, interrupted |-> FALSE]

\* A window whose words nothing has transcribed is a turn without text.
SilentTurn(log, role, w) ==
  [role |-> role, speakers |-> {w.who}, start |-> w.start, end |-> w.end, text |-> 0,
   interrupted |-> role = "assistant" /\ HasEventBetween(log, w.start, w.end)]

\* sort.SliceStable, one turn after the other.
Sorted(turns) ==
  LET before(a, b) == a.start < b.start \/ (a.start = b.start /\ a.end < b.end)
      insert(s, turn) ==
        LET k == Len(SelectSeq(s, LAMBDA x : ~before(turn, x)))
        IN SubSeq(s, 1, k) \o <<turn>> \o SubSeq(s, k + 1, Len(s))
  IN FoldLeft(insert, <<>>, turns)

\* synthesizeLiveTraceTurns.
Turns(log) ==
  LET humans == Windows(log, "frame")
      bot == Windows(log, "sent")
      chosen(i) == IF log[i].who = "assistant" THEN NearestWindow(bot, log[i].t)
                   ELSE CandidateWindows(humans, log[i].t)
      turn(i) == IF log[i].who = "assistant"
                 THEN AssistantTurn(log, i, {bot[k] : k \in chosen(i)})
                 ELSE UserTurn(log, i, {humans[k] : k \in chosen(i)})
      finals(role) == {i \in DOMAIN log : log[i].kind = "final" /\ log[i].who = role}
      unused(ws, role) ==
        LET left == {k \in DOMAIN ws : \A i \in finals(role) : k \notin chosen(i)}
        IN [k \in 1..Cardinality(left) |-> SilentTurn(log, role, ws[SetToSortSeq(left, <)[k]])]
      spoken == SetToSortSeq(finals("user") \cup finals("assistant"), <)
  IN Sorted([k \in DOMAIN spoken |-> turn(spoken[k])] \o unused(humans, "user") \o unused(bot, "assistant"))

\* renderLiveTraceDuplexWAV: where people sound on the left and the model on
\* the right of the recording.
DuplexWAV(segs) ==
  [left |-> UNION {s.t..(s.t + FrameTicks - 1) : s \in {x \in segs : x.who # "gemini"}},
   right |-> UNION {s.t..(s.t + FrameTicks - 1) : s \in {x \in segs : x.who = "gemini"}}]

-----------------------------------------------------------------------------
(* Close.                                                                  *)

\* nextEventMS: is there an event after this time to measure to?
NextEvent(log, t, kind) == \E i \in DOMAIN log : log[i].t >= t /\ log[i].kind = kind

\* recordLatencySummaries: the first Close measures every end of speech.
Summaries(log) ==
  LET measured(e) ==
        /\ e.kind = "local_speech_end"
        /\ \/ NextEvent(log, e.t, "gemini_audio_chunk") \/ NextEvent(log, e.t, "sent")
           \/ \E i \in DOMAIN log : log[i].t >= e.t /\ log[i].kind = "final" /\ log[i].who = "user"
  IN Cardinality({i \in DOMAIN log : measured(log[i])})

CloseBegins(c) ==
  /\ closing[c].at = "idle"
  /\ recording["playback"] = NoRecord /\ recording["receiver"] = NoRecord
  /\ c = "decoder" => recording["capture"] = NoRecord
  /\ closing' = [closing EXCEPT ![c] =
       [at |-> "summaries", left |-> IF closed \/ latencies THEN 0 ELSE Summaries(events)]]
  /\ latencies' = (latencies \/ ~closed)
  /\ UNCHANGED <<clock, names, events, jsonl, segments, recording, closed, files, records>>

RecordSummary(c) ==
  /\ closing[c].at = "summaries" /\ closing[c].left > 0
  /\ RecordAt([kind |-> "latency_summary", t |-> clock, who |-> "", named |-> FALSE])
  /\ closing' = [closing EXCEPT ![c].left = @ - 1]
  /\ UNCHANGED <<clock, names, segments, recording, closed, latencies, files, records>>

RecordClosed(c) ==
  /\ closing[c].at = "summaries" /\ closing[c].left = 0
  /\ RecordAt([kind |-> "trace_closed", t |-> clock, who |-> "", named |-> FALSE])
  /\ closing' = [closing EXCEPT ![c].at = "lock"]
  /\ UNCHANGED <<clock, names, segments, recording, closed, latencies, files, records>>

\* The second Close returns at once; the first copies what it will write.
CloseTrace(c) ==
  /\ closing[c].at = "lock"
  /\ closed' = TRUE
  /\ closing' = [closing EXCEPT ![c] =
       IF closed THEN [at |-> "done", left |-> 0]
       ELSE [at |-> "write", left |-> 0, events |-> events, segments |-> segments]]
  /\ UNCHANGED <<clock, names, events, jsonl, segments, recording, latencies, files, records>>

WriteFiles(c) ==
  /\ closing[c].at = "write"
  /\ files' = [written |-> TRUE, turns |-> Turns(closing[c].events),
               audio |-> DuplexWAV(closing[c].segments)]
  /\ closing' = [closing EXCEPT ![c] = [at |-> "done", left |-> 0]]
  /\ UNCHANGED <<clock, names, events, jsonl, segments, recording, closed, latencies, records>>

TraceNext ==
  \/ Tick
  \/ \E t \in 0..MaxTime :
       \/ \E who \in Users, loud \in BOOLEAN : RecordInboundAudioFrame(who, loud, t)
       \/ RecordLocalSpeechEnd(t)
  \/ RecordPlaybackFrameSent \/ RecordPlaybackInterruptClear
  \/ RecordGeminiInterrupted \/ RecordGeminiAudioChunk
  \/ \E role \in {"user", "assistant"} : RecordTranscript(role)
  \/ \E who \in Users : RecordParticipant(who)
  \/ \E w \in Writers : WriteEvent(w) \/ AddAudioSegment(w)
  \/ \E c \in Closers :
       CloseBegins(c) \/ RecordSummary(c) \/ RecordClosed(c) \/ CloseTrace(c) \/ WriteFiles(c)

TraceSpec == TraceInit /\ [][TraceNext]_traceVars

-----------------------------------------------------------------------------
(* Properties.                                                             *)

TraceTypeOK ==
  /\ clock \in 0..MaxTime /\ names \subseteq Users /\ records \in 0..MaxRecords
  /\ \A w \in Writers : recording[w].at \in {"idle", "event", "segment"}
  /\ \A c \in Closers : closing[c].at \in {"idle", "summaries", "lock", "write", "done"}
  /\ closed \in BOOLEAN /\ latencies \in BOOLEAN

Kind(kinds) == {i \in DOMAIN events : events[i].kind \in kinds}

\* The lines of events.jsonl are the events, numbered without a gap, whoever
\* writes them (recordAt), and no end of speech is measured twice by two Closes
\* (recordLatencySummaries).
EventsAreNumbered ==
  /\ jsonl = [i \in DOMAIN events |-> i]
  /\ Cardinality(Kind({"latency_summary"})) <= Cardinality(Kind({"local_speech_end"}))

\* In turns.json everybody's loud frames and the model's frames lie inside turns of
\* their speaker, every final transcript is the text of one turn, and the turns are
\* in the order of their beginnings (synthesizeLiveTraceTurns).
TurnsTellTheCall ==
  files.written =>
    LET within(e, turn) == e.who \in turn.speakers /\ turn.start <= e.t /\ e.t + FrameTicks <= turn.end
    IN /\ \A i \in Kind({"frame", "sent"}) : \E k \in DOMAIN files.turns : within(events[i], files.turns[k])
       /\ \A i \in Kind({"final"}) : Cardinality({k \in DOMAIN files.turns : files.turns[k].text = i}) = 1
       /\ \A k, m \in DOMAIN files.turns : k < m => files.turns[k].start <= files.turns[m].start

\* Words that are given to one person were spoken while nobody else was heard,
\* up to the moment of the transcript and as far back as it may reach.
WordsHaveOneSpeaker ==
  files.written =>
    \A k \in DOMAIN files.turns :
      LET turn == files.turns[k]
      IN turn.role = "user" /\ turn.text # 0 /\ Cardinality(turn.speakers) = 1 =>
           \A i \in Kind({"frame"}) :
             LET e == events[i]
                 t == events[turn.text].t
             IN e.who \notin turn.speakers => ~(/\ turn.start <= e.t /\ e.t <= turn.end
                                               /\ e.t <= t /\ t <= e.t + FrameTicks + TranscriptWindow)

\* What the events tell is heard in the recording, on the side it belongs to, but
\* for the frame that each of the two loops may have been recording at the end
\* (RecordInboundAudioFrame, RecordPlaybackFrameSent).
RecordingHasTheFrames ==
  files.written =>
    LET heard(i) == LET e == events[i]
                        side == IF e.who = "gemini" THEN files.audio.right ELSE files.audio.left
                    IN e.t..(e.t + FrameTicks - 1) \subseteq side
    IN /\ Cardinality({i \in Kind({"frame", "quiet"}) : ~heard(i)}) <= 1
       /\ Cardinality({i \in Kind({"sent"}) : ~heard(i)}) = 0

TraceTellsTheCall ==
  EventsAreNumbered /\ TurnsTellTheCall /\ WordsHaveOneSpeaker /\ RecordingHasTheFrames
===============================================================================
