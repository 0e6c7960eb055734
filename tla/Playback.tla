------------------------------ MODULE Playback ------------------------------
(***************************************************************************)
(* The playback path of one stream: audio received from OpenAI on the      *)
(* WebSocket thread, queued in AudioStreamer::m_audio_queue, moved to the  *)
(* stream's playback_buffer and played by write_frame on the media thread, *)
(* while API threads pause the stream and mute the playback.               *)
(*                                                                         *)
(* A step is one access to state the threads share: one critical section   *)
(* of m_audio_queue_mutex, or one load or store of an atomic.  Audio is    *)
(* counted in samples; accepted samples are numbered from 1, so a chunk is *)
(* an interval of numbers and the buffer a sequence of them.               *)
(***************************************************************************)
EXTENDS Integers, Sequences

CONSTANTS
    MaxChunk,      \* MAX_AUDIO_CHUNK_SAMPLES
    MaxQueue,      \* max_playback_queue_samples()
    BufCap,        \* playback_buflen, in samples
    FrameLen,      \* bytes_needed of a frame, in samples
    Reconnect,     \* isAutomaticReconnectionEnabled(): no STREAM_NO_RECONNECT
    RawAudioMode,  \* m_raw_audio_mode
    Lengths,       \* samples a received message converts to (0: empty or undecodable)
    MaxArrivals,   \* bound: samples accepted in a behaviour
    MaxBargeIns    \* bound: speech_started messages in a behaviour

ASSUME SizesAssumption ==
    /\ MaxChunk \in Nat \ {0} /\ FrameLen \in Nat \ {0}
    /\ MaxQueue \in Nat /\ BufCap \in Nat
    /\ MaxArrivals \in Nat /\ MaxBargeIns \in Nat
    /\ Lengths \subseteq Nat
    /\ Reconnect \in BOOLEAN /\ RawAudioMode \in BOOLEAN

\* 128000 bytes hold two frames (at most 8192 bytes each) less a sample and a chunk.
ASSUME CapacityAssumption == BufCap >= 2 * FrameLen - 1 + MaxChunk

VARIABLES
    m_audio_queue,           \* chunks [first, last]
    m_audio_queue_samples,
    m_playback_clear_gen,
    m_playback_clear_gen_seen,
    m_openai_speaking,
    m_response_audio_done,
    m_terminal_close,
    playback_buffer,         \* sample numbers, oldest first
    audio_paused,
    openai_audio_muted,
    close_requested,
    session_up,              \* switch_core_session_locate finds the session
    conn,                    \* connection state as the callbacks have reported it
    ws, ws_len,              \* WebSocket thread: pending step, samples to push
    wf,                      \* media thread: next step of write_frame
    terminal_close,          \* write_frame's snapshot of m_terminal_close
    chunk_enqueued,
    arrived,                 \* history: samples accepted so far
    taken,                   \* history: samples played or tossed so far
    barge_mark               \* history: value of arrived at the last barge-in

queueVars == <<m_audio_queue, m_audio_queue_samples>>
clearVars == <<m_playback_clear_gen, m_playback_clear_gen_seen>>
flagVars  == <<m_response_audio_done, m_terminal_close>>
apiVars   == <<audio_paused, openai_audio_muted>>
wsVars    == <<ws, ws_len, conn>>
frameVars == <<wf, terminal_close, chunk_enqueued>>
histVars  == <<arrived, taken, barge_mark>>
mediaVars == <<m_openai_speaking, playback_buffer>>

vars == <<queueVars, clearVars, flagVars, apiVars, wsVars, frameVars, histVars, mediaVars,
          close_requested, session_up>>

-----------------------------------------------------------------------------
Size(c) == c.last - c.first + 1

\* The sample numbers of chunk c, in order.
Samples(c) == [i \in 1..Size(c) |-> c.first + i - 1]

\* The chunks push_audio_queue cuts n > 0 samples numbered from first into.
NumChunks(n) == (n + MaxChunk - 1) \div MaxChunk

\* Faulty variants of Chunks: no re-chunking, an end that is not clamped to the
\* data, an offset that does not advance.
ChunksWhole(first, n) == << [first |-> first, last |-> first + n - 1] >>
ChunksUnclamped(first, n) ==
    [i \in 1..NumChunks(n) |->
        [first |-> first + (i - 1) * MaxChunk, last |-> first + i * MaxChunk - 1]]
ChunksSameOffset(first, n) ==
    [i \in 1..NumChunks(n) |-> [first |-> first, last |-> first + n - 1]]

Chunks(first, n) ==
    [i \in 1..NumChunks(n) |->
        [first |-> first + (i - 1) * MaxChunk,
         last  |-> IF i = NumChunks(n) THEN first + n - 1 ELSE first + i * MaxChunk - 1]]

\* The guard of push_audio_queue; a faulty variant that forgets the new samples.
OverflowsWithoutNew(n) == m_audio_queue_samples > MaxQueue
Overflows(n) == m_audio_queue_samples + n > MaxQueue

\* The condition of write_frame's fill loop; a faulty variant that fills the buffer.
WantsAudioToTheBrim == Len(playback_buffer) < BufCap
WantsAudio == Len(playback_buffer) < 2 * FrameLen

\* write_frame's two decisions when it has nothing to play.  Faulty variants: the
\* speaking state stays open under a mute; m_terminal_close is read after the pop;
\* a stream that never spoke is not torn down.
SpeechOverUnlessMuted == m_openai_speaking /\ m_response_audio_done /\ ~openai_audio_muted
TeardownDueLateRead == m_terminal_close
TeardownDueAfterSpeech == terminal_close /\ m_openai_speaking
SpeechOver == m_openai_speaking /\ m_response_audio_done
TeardownDue == terminal_close

Init ==
    /\ m_audio_queue = <<>> /\ m_audio_queue_samples = 0
    /\ m_playback_clear_gen = 0 /\ m_playback_clear_gen_seen = 0
    /\ m_openai_speaking = FALSE
    /\ m_response_audio_done = FALSE /\ m_terminal_close = FALSE
    /\ playback_buffer = <<>>
    /\ audio_paused = FALSE /\ openai_audio_muted = FALSE
    /\ close_requested = FALSE /\ session_up = TRUE
    /\ conn = "connecting" /\ ws = "idle" /\ ws_len = 0
    /\ wf = "idle" /\ terminal_close = FALSE /\ chunk_enqueued = FALSE
    /\ arrived = 0 /\ taken = 0 /\ barge_mark = 0

-----------------------------------------------------------------------------
(* WebSocket thread: the message callback. *)

\* eventCallback acts only while the session can be located.
Event(state) == ws = "idle" /\ conn = state /\ session_up

Open ==
    /\ ws = "idle" /\ conn = "connecting"
    /\ conn' = "open"
    /\ UNCHANGED <<queueVars, clearVars, flagVars, apiVars, ws, ws_len, frameVars, histVars,
                   mediaVars, close_requested, session_up>>

\* CONNECT_ERROR.  With reconnection the library tries again: nothing changes.
ConnectError ==
    /\ Event("connecting") /\ ~Reconnect
    /\ conn' = "closed"
    /\ close_requested' = TRUE
    /\ UNCHANGED <<queueVars, clearVars, flagVars, apiVars, ws, ws_len, frameVars, histVars,
                   mediaVars, session_up>>

\* CONNECTION_DROPPED.  Without reconnection m_response_audio_done is stored
\* here and m_terminal_close in the next step.
ConnectionDropped ==
    /\ ws = "idle" /\ conn = "open"
    /\ conn' = IF Reconnect THEN "connecting" ELSE "closed"
    /\ IF session_up /\ ~Reconnect
       THEN m_response_audio_done' = TRUE /\ ws' = "terminal"
       ELSE UNCHANGED <<m_response_audio_done, ws>>
    /\ UNCHANGED <<queueVars, clearVars, m_terminal_close, apiVars, ws_len, frameVars, histVars,
                   mediaVars, close_requested, session_up>>

SetTerminalClose ==
    /\ ws = "terminal"
    /\ m_terminal_close' = TRUE
    /\ ws' = "idle"
    /\ UNCHANGED <<queueVars, clearVars, m_response_audio_done, apiVars, ws_len, conn, frameVars,
                   histVars, mediaVars, close_requested, session_up>>

\* response.output_audio.delta converting to n samples: m_response_audio_done is
\* cleared before the payload is decoded, and an empty result is not pushed.
AudioDelta(n) ==
    /\ Event("open")
    /\ arrived + n <= MaxArrivals
    /\ m_response_audio_done' = FALSE
    /\ ws' = IF n > 0 THEN "push" ELSE "idle"
    /\ ws_len' = n
    /\ UNCHANGED <<queueVars, clearVars, m_terminal_close, apiVars, conn, frameVars, histVars,
                   mediaVars, close_requested, session_up>>

\* A binary message in raw audio mode: the session is not looked up, and
\* m_response_audio_done is cleared only when some sample results.
RawFrame(n) ==
    /\ RawAudioMode /\ ws = "idle" /\ conn = "open"
    /\ n > 0 /\ arrived + n <= MaxArrivals
    /\ m_response_audio_done' = FALSE
    /\ ws' = "push" /\ ws_len' = n
    /\ UNCHANGED <<queueVars, clearVars, m_terminal_close, apiVars, conn, frameVars, histVars,
                   mediaVars, close_requested, session_up>>

\* push_audio_queue, one critical section.
PushAudioQueue ==
    /\ ws = "push"
    /\ ws' = "idle" /\ ws_len' = 0
    /\ IF Overflows(ws_len)
       THEN UNCHANGED <<queueVars, arrived>>
       ELSE /\ m_audio_queue' = m_audio_queue \o Chunks(arrived + 1, ws_len)
            /\ m_audio_queue_samples' = m_audio_queue_samples + ws_len
            /\ arrived' = arrived + ws_len
    /\ UNCHANGED <<clearVars, flagVars, apiVars, conn, frameVars, taken, barge_mark, mediaVars,
                   close_requested, session_up>>

\* response.output_audio.done
AudioDone ==
    /\ Event("open")
    /\ m_response_audio_done' = TRUE
    /\ UNCHANGED <<queueVars, clearVars, m_terminal_close, apiVars, wsVars, frameVars, histVars,
                   mediaVars, close_requested, session_up>>

\* A faulty variant of the next action: the chunks stay.
ClearCounterOnly ==
    /\ Event("open")
    /\ m_playback_clear_gen < MaxBargeIns
    /\ m_audio_queue_samples' = 0
    /\ ws' = "bump"
    /\ UNCHANGED <<m_audio_queue, clearVars, flagVars, apiVars, ws_len, conn, frameVars, histVars,
                   mediaVars, close_requested, session_up>>

\* input_audio_buffer.speech_started: clear_audio_queue, then
\* request_playback_clear in a step of its own.
ClearAudioQueue ==
    /\ Event("open")
    /\ m_playback_clear_gen < MaxBargeIns
    /\ m_audio_queue' = <<>> /\ m_audio_queue_samples' = 0
    /\ ws' = "bump"
    /\ UNCHANGED <<clearVars, flagVars, apiVars, ws_len, conn, frameVars, histVars, mediaVars,
                   close_requested, session_up>>

RequestPlaybackClear ==
    /\ ws = "bump"
    /\ m_playback_clear_gen' = m_playback_clear_gen + 1
    /\ barge_mark' = arrived
    /\ ws' = "idle"
    /\ UNCHANGED <<queueVars, m_playback_clear_gen_seen, flagVars, apiVars, ws_len, conn, frameVars,
                   arrived, taken, mediaVars, close_requested, session_up>>

-----------------------------------------------------------------------------
(* API threads and the core. *)

PauseResume ==
    /\ audio_paused' = ~audio_paused
    /\ UNCHANGED <<queueVars, clearVars, flagVars, openai_audio_muted, wsVars, frameVars, histVars,
                   mediaVars, close_requested, session_up>>

SetOpenaiMute ==
    /\ openai_audio_muted' = ~openai_audio_muted
    /\ UNCHANGED <<queueVars, clearVars, flagVars, audio_paused, wsVars, frameVars, histVars,
                   mediaVars, close_requested, session_up>>

\* The channel goes down: the WebSocket thread no longer finds the session.
Hangup ==
    /\ session_up
    /\ session_up' = FALSE
    /\ UNCHANGED <<queueVars, clearVars, flagVars, apiVars, wsVars, frameVars, histVars, mediaVars,
                   close_requested>>

-----------------------------------------------------------------------------
(* Media thread: capture_callback for WRITE_REPLACE, then write_frame. *)

\* A callback that returns FALSE makes the core prune the bug.
Prune ==
    /\ wf = "idle" /\ close_requested
    /\ wf' = "pruned"
    /\ UNCHANGED <<queueVars, clearVars, flagVars, apiVars, wsVars, terminal_close, chunk_enqueued,
                   histVars, mediaVars, close_requested, session_up>>

EnterFrame ==
    /\ wf = "idle" /\ ~close_requested /\ ~audio_paused
    /\ wf' = "clear"
    /\ chunk_enqueued' = FALSE
    /\ UNCHANGED <<queueVars, clearVars, flagVars, apiVars, wsVars, terminal_close, histVars,
                   mediaVars, close_requested, session_up>>

\* consume_playback_clear and what write_frame does when it returns true.
ConsumePlaybackClear ==
    /\ wf = "clear"
    /\ wf' = "snapshot"
    /\ IF m_playback_clear_gen = m_playback_clear_gen_seen
       THEN UNCHANGED <<m_playback_clear_gen_seen, mediaVars>>
       ELSE /\ m_playback_clear_gen_seen' = m_playback_clear_gen
            /\ playback_buffer' = <<>>
            /\ m_openai_speaking' = FALSE
    /\ UNCHANGED <<queueVars, m_playback_clear_gen, flagVars, apiVars, wsVars, terminal_close,
                   chunk_enqueued, histVars, close_requested, session_up>>

SnapshotTerminalClose ==
    /\ wf = "snapshot"
    /\ terminal_close' = m_terminal_close
    /\ wf' = "fill"
    /\ UNCHANGED <<queueVars, clearVars, flagVars, apiVars, wsVars, chunk_enqueued, histVars,
                   mediaVars, close_requested, session_up>>

\* One turn of the fill loop that finds a chunk.  A chunk that does not fit is
\* dropped and ends the loop.
PopAudioQueue ==
    /\ wf = "fill"
    /\ WantsAudio /\ m_audio_queue # <<>>
    /\ LET chunk == Head(m_audio_queue)
           fits  == Len(playback_buffer) + Size(chunk) <= BufCap
       IN /\ m_audio_queue' = Tail(m_audio_queue)
          /\ m_audio_queue_samples' = m_audio_queue_samples - Size(chunk)
          /\ playback_buffer' = IF fits THEN playback_buffer \o Samples(chunk) ELSE playback_buffer
          /\ chunk_enqueued' = (chunk_enqueued \/ fits)
          /\ wf' = IF fits THEN "fill" ELSE "filled"
    /\ UNCHANGED <<clearVars, flagVars, apiVars, wsVars, terminal_close, histVars,
                   m_openai_speaking, close_requested, session_up>>

\* The loop ends with two frames buffered, or on an empty queue.
FillDone ==
    /\ wf = "fill"
    /\ ~WantsAudio \/ m_audio_queue = <<>>
    /\ wf' = "filled"
    /\ UNCHANGED <<queueVars, clearVars, flagVars, apiVars, wsVars, terminal_close, chunk_enqueued,
                   histVars, mediaVars, close_requested, session_up>>

NothingToPlay == ~chunk_enqueued /\ playback_buffer = <<>>

\* The branch that plays nothing: m_response_audio_done is read here, after the
\* pop that found the queue empty.
Drained ==
    /\ wf = "filled" /\ NothingToPlay
    /\ wf' = "idle"
    /\ m_openai_speaking' = (m_openai_speaking /\ ~SpeechOver)
    /\ close_requested' = (close_requested \/ TeardownDue)
    /\ terminal_close' = FALSE
    /\ UNCHANGED <<queueVars, clearVars, flagVars, apiVars, wsVars, chunk_enqueued, histVars,
                   playback_buffer, session_up>>

\* At most a frame leaves the buffer: tossed when muted, played otherwise.
Emit ==
    /\ wf = "filled" /\ ~NothingToPlay
    /\ LET inuse == IF Len(playback_buffer) > FrameLen THEN FrameLen ELSE Len(playback_buffer)
       IN /\ playback_buffer' = SubSeq(playback_buffer, inuse + 1, Len(playback_buffer))
          /\ taken' = taken + inuse
    /\ m_openai_speaking' = (m_openai_speaking \/ ~openai_audio_muted)
    /\ wf' = "idle" /\ terminal_close' = FALSE /\ chunk_enqueued' = FALSE
    /\ UNCHANGED <<queueVars, clearVars, flagVars, apiVars, wsVars, arrived, barge_mark,
                   close_requested, session_up>>

-----------------------------------------------------------------------------
WsInternal == SetTerminalClose \/ PushAudioQueue \/ RequestPlaybackClear

WsThread ==
    \/ Open \/ ConnectError \/ ConnectionDropped \/ AudioDone \/ ClearAudioQueue
    \/ \E n \in Lengths : AudioDelta(n) \/ RawFrame(n)
    \/ WsInternal

FrameBody ==
    \/ ConsumePlaybackClear \/ SnapshotTerminalClose \/ PopAudioQueue \/ FillDone
    \/ Drained \/ Emit

Next ==
    \/ WsThread
    \/ PauseResume \/ SetOpenaiMute \/ Hangup
    \/ Prune \/ EnterFrame \/ FrameBody

Spec == Init /\ [][Next]_vars

\* A handler that has begun ends, a write_frame that has begun ends, and the
\* core keeps delivering frames while the channel is up.  Nothing is assumed of
\* the server or of the API users.
Fairness ==
    /\ WF_vars(WsInternal)
    /\ WF_vars(FrameBody)
    /\ WF_vars(session_up /\ (Prune \/ EnterFrame))

FairSpec == Spec /\ Fairness

-----------------------------------------------------------------------------
\* The types; in particular the unsigned sample counter never goes below zero, and the
\* backlog, however it was cut, never exceeds MAX_PLAYBACK_QUEUE_SECONDS of audio.
TypeOK ==
    /\ m_audio_queue \in Seq([first : Nat, last : Nat])
    /\ m_audio_queue_samples \in 0..MaxQueue
    /\ m_playback_clear_gen \in Nat /\ m_playback_clear_gen_seen \in Nat
    /\ m_openai_speaking \in BOOLEAN
    /\ m_response_audio_done \in BOOLEAN /\ m_terminal_close \in BOOLEAN
    /\ playback_buffer \in Seq(Nat)
    /\ audio_paused \in BOOLEAN /\ openai_audio_muted \in BOOLEAN
    /\ close_requested \in BOOLEAN /\ session_up \in BOOLEAN
    /\ conn \in {"connecting", "open", "closed"}
    /\ ws \in {"idle", "push", "bump", "terminal"} /\ ws_len \in Nat
    /\ wf \in {"idle", "clear", "snapshot", "fill", "filled", "pruned"}
    /\ terminal_close \in BOOLEAN /\ chunk_enqueued \in BOOLEAN
    /\ arrived \in Nat /\ taken \in Nat /\ barge_mark \in Nat

-----------------------------------------------------------------------------
QueueEmpty == m_audio_queue = <<>>

\* m_audio_queue_samples is exactly the audio in the queue, which is an unbroken
\* run of the samples accepted last: the counter that the overflow guard trusts
\* is kept in step by three operations of two threads (push, pop, clear).
QueueExact ==
    /\ \A i \in 1..Len(m_audio_queue) : m_audio_queue[i].first <= m_audio_queue[i].last
    /\ \A i \in 1..Len(m_audio_queue) - 1 :
           m_audio_queue[i + 1].first = m_audio_queue[i].last + 1
    /\ IF QueueEmpty THEN m_audio_queue_samples = 0
       ELSE /\ m_audio_queue[Len(m_audio_queue)].last = arrived
            /\ Head(m_audio_queue).first = arrived - m_audio_queue_samples + 1

\* Samples are played in the order they were accepted and none twice: the buffer
\* is increasing, and everything in it is older than everything in the queue.
PlayoutOrdered ==
    /\ \A i \in 1..Len(playback_buffer) - 1 : playback_buffer[i] < playback_buffer[i + 1]
    /\ \A i \in 1..Len(playback_buffer) : playback_buffer[i] <= arrived - m_audio_queue_samples

\* As long as the user has not barged in, every accepted sample was played or
\* tossed, is in the buffer or is in the queue: re-chunking, the moves between
\* the containers and short frames lose nothing.
NoLossWithoutBargeIn ==
    m_playback_clear_gen = 0 /\ ws # "bump" =>
        arrived = taken + Len(playback_buffer) + m_audio_queue_samples

\* The "playback buffer full, dropping audio chunk" branch is dead: the fill loop
\* only pops while there is room for any chunk push_audio_queue can make.
ChunkAlwaysFits ==
    wf = "fill" /\ Len(playback_buffer) < 2 * FrameLen =>
        \A i \in 1..Len(m_audio_queue) :
            Len(playback_buffer) + Size(m_audio_queue[i]) <= BufCap

\* Once the media thread has seen the last barge-in, no sample accepted before it
\* is left to be played, wherever write_frame was when speech_started came.
BargeInFlushes ==
    m_playback_clear_gen_seen = m_playback_clear_gen =>
        /\ \A i \in 1..Len(m_audio_queue) : m_audio_queue[i].first > barge_mark
        /\ \A i \in 1..Len(playback_buffer) : playback_buffer[i] > barge_mark

\* The stream asks for its own teardown only with everything played and the
\* speaking state closed, although the close is reported by another thread than
\* the one that drains (README: "pending audio is played out and the stream stops").
TerminalPlayedOut ==
    close_requested => /\ QueueEmpty /\ playback_buffer = <<>>
                       /\ ~m_openai_speaking
                       /\ ws = "idle" /\ conn = "closed"

\* The samples that wait: those in the buffer and those in the queue.
Waiting ==
    {playback_buffer[i] : i \in 1..Len(playback_buffer)}
        \cup UNION {m_audio_queue[i].first..m_audio_queue[i].last : i \in 1..Len(m_audio_queue)}

\* Barge-ins that the media thread has not seen; one is counted before its generation.
Due == m_playback_clear_gen - m_playback_clear_gen_seen + (IF ws = "bump" THEN 1 ELSE 0)

Backlog == INSTANCE PlayoutBacklog WITH accepted <- arrived, waiting <- Waiting, due <- Due

\* Two threads, the chunks, the queue, the buffer and two-step barge-ins together behave
\* as one backlog: each sample leaves it once, oldest first, or falls to a barge-in.
ImplementsBacklog == Backlog!Spec

\* On an unpaused stream every accepted sample leaves the queue and the buffer, also when
\* the connection is closed for good behind it, unless the channel goes down.
BacklogDrains ==
    <>[]~audio_paused =>
        \A n \in 1..MaxArrivals : (n \in Waiting) ~> (n \notin Waiting \/ ~session_up)

\* An unpaused stream whose connection is closed for good stops, unless the
\* channel goes down first.
TerminalStreamStops ==
    <>[]~audio_paused => (m_terminal_close ~> (wf = "pruned" \/ ~session_up))

\* On an unpaused stream the end of a response is followed by the end of the
\* speaking state, unless more audio, a teardown or a hangup comes first.
SpeechStopFires ==
    <>[]~audio_paused =>
        (m_openai_speaking /\ m_response_audio_done
            ~> (~m_openai_speaking \/ ~m_response_audio_done \/ ~session_up))

\* The stop that is not a barge-in tells that everything received was played.
StopMeansDrained ==
    [][m_openai_speaking /\ ~m_openai_speaking' /\ wf = "filled"
        => QueueEmpty /\ playback_buffer = <<>>]_vars

\* A barge-in discards what was received before it and nothing received since.
FreshAudioKept ==
    [][wf = "clear" /\ playback_buffer' = <<>>
        => \A i \in 1..Len(playback_buffer) : playback_buffer[i] <= barge_mark]_vars
=============================================================================
