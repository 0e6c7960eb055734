------------------------------ MODULE Capture ------------------------------
(***************************************************************************)
(* The capture path of one stream: caller audio goes from the media bug    *)
(* through the aggregation buffer to the WebSocket.  The media thread runs *)
(* stream_frame, an API thread runs pause, resume, mute, unmute, send_json *)
(* and stop, one command at a time, and the WebSocket thread loses and     *)
(* reopens the connection.  Audio is a sequence of numbered samples, each  *)
(* stamped with the connection it was read for.                            *)
(***************************************************************************)
EXTENDS Naturals, Sequences, Functions

CONSTANTS
    FrameLen,      \* samples of one 20 ms packet at the send rate
    RtpPackets,    \* the settings of rtp_packets: packets aggregated into one message
    OutputSizes,   \* samples the resampler makes of one frame of the bug
    MaxPending,    \* bound: frames that wait in the bug's buffer
    MaxSamples,    \* bound: samples read
    MaxConns,      \* bound: connections
    MaxCommands    \* bound: API commands that send something

ASSUME AggregationAssumption ==
    FrameLen \in Nat \ {0} /\ RtpPackets \subseteq Nat \ {0} /\ OutputSizes \subseteq Nat
ASSUME BoundsAssumption ==
    MaxPending \in Nat /\ MaxSamples \in Nat /\ MaxConns \in Nat /\ MaxCommands \in Nat

VARIABLES
    rtp_packets,    \* set when the stream is created, and not again
    pending,        \* frames in the media bug's read buffer
    sbuffer,        \* the aggregation buffer
    audio_paused, user_audio_muted, capture_reset_pending,
    mutex,          \* tech_pvt->mutex: who holds it
    frame,          \* where the media thread is in stream_frame
    api,            \* what the API thread does
    link,           \* the WebSocket: readyState and reconnection
    conn,           \* history: number of the connection, or of the next one
    next,           \* history: samples read so far
    wire,           \* history: the messages sent
    commands        \* counts API commands

flags == <<audio_paused, user_audio_muted, capture_reset_pending>>
vars == <<rtp_packets, pending, sbuffer, flags, mutex, frame, api, link, conn, next, wire, commands>>

Capacity == FrameLen * rtp_packets

Connected == link = "open"

Message(kind, body) == [kind |-> kind, conn |-> conn, body |-> body, upto |-> next]

\* Messages reach an open connection; what is sent on any other is dropped.
Sent(messages) == IF Connected THEN wire \o messages ELSE wire

Init ==
    /\ rtp_packets \in RtpPackets
    /\ pending = 0 /\ sbuffer = <<>>
    /\ audio_paused = FALSE /\ user_audio_muted \in BOOLEAN /\ capture_reset_pending = FALSE
    /\ mutex = "free" /\ frame = "idle" /\ api = "idle"
    /\ link = "connecting" /\ conn = 1 /\ next = 0 /\ wire = <<>> /\ commands = 0

-----------------------------------------------------------------------------
(* The media thread: FreeSWITCH fills the bug and calls stream_frame.       *)

BugWrite ==
    /\ pending < MaxPending /\ api # "stopped" /\ pending' = pending + 1
    /\ UNCHANGED <<sbuffer, flags, mutex, frame, api, link, conn, next, wire, commands>>

FrameBegins ==
    /\ frame = "idle" /\ api # "stopped"
    /\ ~audio_paused /\ ~user_audio_muted
    /\ frame' = "flags"
    /\ UNCHANGED <<pending, sbuffer, flags, mutex, api, link, conn, next, wire, commands>>

TryLock ==
    /\ frame = "flags"
    /\ IF mutex = "free" THEN mutex' = "media" /\ frame' = "locked"
                         ELSE frame' = "idle" /\ UNCHANGED mutex
    /\ UNCHANGED <<pending, sbuffer, flags, api, link, conn, next, wire, commands>>

CheckConnected ==
    /\ frame = "locked"
    /\ IF Connected THEN frame' = "connected" /\ UNCHANGED mutex
                    ELSE frame' = "idle" /\ mutex' = "free"
    /\ UNCHANGED <<pending, sbuffer, flags, api, link, conn, next, wire, commands>>

\* A faulty variant of the next action: the request is consumed, the residue stays.
ConsumeResetOnly ==
    /\ frame = "connected" /\ frame' = "read"
    /\ capture_reset_pending' = FALSE
    /\ UNCHANGED <<pending, sbuffer, audio_paused, user_audio_muted, mutex, api, link, conn, next, wire,
                   commands>>

ConsumeCaptureReset ==
    /\ frame = "connected" /\ frame' = "read"
    /\ capture_reset_pending' = FALSE
    /\ sbuffer' = IF capture_reset_pending THEN <<>> ELSE sbuffer
    /\ UNCHANGED <<pending, audio_paused, user_audio_muted, mutex, api, link, conn, next, wire, commands>>

\* A faulty variant of the next operator: a buffer that is just full is not flushed.
FullBuffersLate(audio) == IF audio = <<>> THEN 0 ELSE (Len(audio) - 1) \div Capacity

\* send_or_buffer_audio: one message of each full buffer, what is left stays.
FullBuffers(audio) == Len(audio) \div Capacity

\* A faulty variant of the next operator: the buffer is flushed one sample early.
MessagesEarly(audio) ==
    LET n == Len(audio) \div Capacity + (IF Len(audio) % Capacity = Capacity - 1 THEN 1 ELSE 0)
    IN  [i \in 1..n |-> Message("frame", SubSeq(audio, (i - 1) * Capacity + 1,
                                                IF i * Capacity > Len(audio) THEN Len(audio) ELSE i * Capacity))]

Messages(audio) ==
    [i \in 1..FullBuffers(audio) |->
        Message("frame", SubSeq(audio, (i - 1) * Capacity + 1, i * Capacity))]

\* A faulty variant of the next operator: the tail of a write that did not fit is lost.
RestOverwritten(audio) ==
    IF FullBuffers(audio) > 0 THEN <<>> ELSE audio

Rest(audio) == SubSeq(audio, FullBuffers(audio) * Capacity + 1, Len(audio))

ReadFrame ==
    /\ frame = "read" /\ pending > 0 /\ pending' = pending - 1
    /\ \E n \in OutputSizes :
           LET samples == [i \in 1..n |-> [number |-> next + i, conn |-> conn]]
           IN  /\ next + n <= MaxSamples /\ next' = next + n
               /\ IF rtp_packets = 1
                  THEN /\ wire' = IF n = 0 THEN wire ELSE Sent(<<Message("frame", samples)>>)
                       /\ UNCHANGED sbuffer
                  ELSE /\ wire' = Sent(Messages(sbuffer \o samples))
                       /\ sbuffer' = Rest(sbuffer \o samples)
    /\ UNCHANGED <<flags, mutex, frame, api, link, conn, commands>>

FrameEnds ==
    /\ frame = "read" /\ pending = 0
    /\ frame' = "idle" /\ mutex' = "free"
    /\ UNCHANGED <<pending, sbuffer, flags, api, link, conn, next, wire, commands>>

-----------------------------------------------------------------------------
(* The API thread.  Pause and mute first flush the bug's buffer.            *)

BeginCommand ==
    /\ api = "idle" /\ commands < MaxCommands
    /\ api' \in {"pause", "resume", "mute", "unmute", "json", "stop"}
    /\ pending' = IF api' \in {"json", "stop"} THEN pending ELSE 0
    /\ commands' = commands + 1
    /\ UNCHANGED <<sbuffer, flags, mutex, frame, link, conn, next, wire>>

PauseResume ==
    /\ api \in {"pause", "resume"} /\ audio_paused' = (api = "pause") /\ api' = "idle"
    /\ UNCHANGED <<pending, sbuffer, user_audio_muted, capture_reset_pending, mutex, frame, link, conn, next,
                   wire, commands>>

\* Only a mute that changes the state goes on to send the residue and silence.
SetUserMute ==
    /\ api \in {"mute", "unmute"} /\ user_audio_muted' = (api = "mute")
    /\ api' = IF api = "mute" /\ ~user_audio_muted THEN "mute_lock" ELSE "idle"
    /\ UNCHANGED <<pending, sbuffer, audio_paused, capture_reset_pending, mutex, frame, link, conn, next, wire,
                   commands>>

LockContext ==
    /\ api \in {"mute_lock", "stop"} /\ mutex = "free"
    /\ mutex' = "api" /\ api' = IF api = "stop" THEN "stop_residue" ELSE "mute_residue"
    /\ UNCHANGED <<pending, sbuffer, flags, frame, link, conn, next, wire, commands>>

\* A faulty variant of the next action: the residue is left in the buffer.
NoResidueFlush ==
    /\ api \in {"mute_residue", "stop_residue"}
    /\ api' = IF api = "stop_residue" THEN "final" ELSE "silence"
    /\ UNCHANGED <<pending, sbuffer, flags, mutex, frame, link, conn, next, wire, commands>>

\* A faulty variant of the next action: the residue is sent, the buffer not emptied.
ResidueKept ==
    /\ api \in {"mute_residue", "stop_residue"}
    /\ wire' = IF sbuffer = <<>> THEN wire ELSE Sent(<<Message("residue", sbuffer)>>)
    /\ api' = IF api = "stop_residue" THEN "final" ELSE "silence"
    /\ UNCHANGED <<pending, sbuffer, flags, mutex, frame, link, conn, next, commands>>

FlushCaptureResidue ==
    /\ api \in {"mute_residue", "stop_residue"}
    /\ wire' = IF sbuffer = <<>> THEN wire ELSE Sent(<<Message("residue", sbuffer)>>)
    /\ sbuffer' = <<>>
    /\ api' = IF api = "stop_residue" THEN "final" ELSE "silence"
    /\ UNCHANGED <<pending, flags, mutex, frame, link, conn, next, commands>>

\* One second of silence after the mute, then the unlock.
SendSilence ==
    /\ api = "silence" /\ wire' = Sent(<<Message("silence", <<>>)>>)
    /\ mutex' = "free" /\ api' = "idle"
    /\ UNCHANGED <<pending, sbuffer, flags, frame, link, conn, next, commands>>

\* stream_session_send_json; input that does not decode or parse sends nothing.
SendJson ==
    /\ api = "json" /\ wire' \in {wire, Sent(<<Message("json", <<>>)>>)} /\ api' = "idle"
    /\ UNCHANGED <<pending, sbuffer, flags, mutex, frame, link, conn, next, commands>>

\* A faulty variant of the next action: the mutex is released before the removal.
FinalJsonUnlocked ==
    /\ api = "final" /\ wire' \in {wire, Sent(<<Message("final", <<>>)>>)} /\ api' = "remove"
    /\ mutex' = "free"
    /\ UNCHANGED <<pending, sbuffer, flags, frame, link, conn, next, commands>>

\* stop sends its final JSON, if it has one, with the mutex still held.
SendFinalJson ==
    /\ api = "final" /\ wire' \in {wire, Sent(<<Message("final", <<>>)>>)} /\ api' = "remove"
    /\ UNCHANGED <<pending, sbuffer, flags, mutex, frame, link, conn, next, commands>>

\* The bug is removed, between two frames, and the WebSocket joined; or the removal is
\* refused, at any time, and stop returns an error with the stream as it was.
Finish ==
    /\ api = "remove" /\ frame = "idle"
    /\ mutex' = "free" /\ api' = "stopped" /\ link' = "closed"
    /\ UNCHANGED <<pending, sbuffer, flags, frame, conn, next, wire, commands>>

RemoveRefused ==
    /\ api = "remove"
    /\ mutex' = "free" /\ api' = "idle"
    /\ UNCHANGED <<pending, sbuffer, flags, frame, link, conn, next, wire, commands>>

-----------------------------------------------------------------------------
(* The WebSocket thread.                                                    *)

Open ==
    /\ link = "connecting" /\ link' = "open"
    /\ UNCHANGED <<pending, sbuffer, flags, mutex, frame, api, conn, next, wire, commands>>

Drop ==
    /\ link = "open" /\ link' = "dropped"
    /\ UNCHANGED <<pending, sbuffer, flags, mutex, frame, api, conn, next, wire, commands>>

\* CONNECTION_DROPPED comes before the thread reconnects, if it may.
ConnectionDropped ==
    /\ link = "dropped"
    /\ capture_reset_pending' = TRUE
    /\ \/ link' = "connecting" /\ conn < MaxConns /\ conn' = conn + 1
       \/ link' = "closed" /\ UNCHANGED conn
    /\ UNCHANGED <<pending, sbuffer, audio_paused, user_audio_muted, mutex, frame, api, next, wire, commands>>

-----------------------------------------------------------------------------
MediaThread ==
    \/ BugWrite \/ FrameBegins \/ TryLock \/ CheckConnected \/ ConsumeCaptureReset \/ ReadFrame \/ FrameEnds

ApiThread ==
    \/ BeginCommand \/ PauseResume \/ SetUserMute \/ LockContext \/ FlushCaptureResidue \/ SendSilence
    \/ SendJson \/ SendFinalJson \/ Finish \/ RemoveRefused

WebSocketThread == Open \/ Drop \/ ConnectionDropped

Next ==
    /\ MediaThread \/ ApiThread \/ WebSocketThread
    /\ UNCHANGED rtp_packets

Spec == Init /\ [][Next]_vars

-----------------------------------------------------------------------------
Sample == [number : Nat, conn : Nat]

\* The types; the buffer is never full between two steps, so a write finds space.
TypeOK ==
    /\ rtp_packets \in RtpPackets /\ pending \in Nat /\ conn \in Nat /\ next \in Nat /\ commands \in Nat
    /\ sbuffer \in Seq(Sample) /\ Len(sbuffer) < Capacity
    /\ audio_paused \in BOOLEAN /\ user_audio_muted \in BOOLEAN /\ capture_reset_pending \in BOOLEAN
    /\ mutex \in {"free", "media", "api"}
    /\ frame \in {"idle", "flags", "locked", "connected", "read"}
    /\ api \in {"idle", "pause", "resume", "mute", "unmute", "json", "mute_lock", "mute_residue", "silence",
                "stop", "stop_residue", "final", "remove", "stopped"}
    /\ link \in {"connecting", "open", "dropped", "closed"}
    /\ wire \in Seq([kind : {"frame", "residue", "silence", "json", "final"},
                     conn : Nat, body : Seq(Sample), upto : Nat])

InOrder(audio) == \A i, j \in 1..Len(audio) : i < j => audio[i].number < audio[j].number
Precedes(audio, later) == \A s \in Range(audio), r \in Range(later) : s.number < r.number

\* Caller audio leaves in the order of its capture and no sample leaves twice, through
\* the messages of stream_frame, the residues that mute and stop send, and the buffer.
SentInOrder ==
    /\ InOrder(sbuffer)
    /\ \A i \in 1..Len(wire) : InOrder(wire[i].body) /\ Precedes(wire[i].body, sbuffer)
    /\ \A i, j \in 1..Len(wire) : i < j => Precedes(wire[i].body, wire[j].body)

\* Until the connection first drops, every sample read from the bug was sent or
\* waits in the aggregation buffer, whatever mutes and pauses came between.
NothingLostWhileConnected ==
    conn = 1 /\ Connected => \A n \in 1..next :
        \/ \E s \in Range(sbuffer) : s.number = n
        \/ \E i \in 1..Len(wire) : \E s \in Range(wire[i].body) : s.number = n

\* A message of stream_frame is a full buffer; only mute and stop send less.
FullMessages ==
    rtp_packets > 1 => \A i \in 1..Len(wire) :
        /\ wire[i].kind = "frame" => Len(wire[i].body) = Capacity
        /\ wire[i].kind = "residue" => Len(wire[i].body) < Capacity

\* No audio read before a silence or a final JSON was sent waits or is sent after it.
MarksAudio ==
    \A i \in 1..Len(wire) : wire[i].kind \in {"silence", "final"} =>
        /\ \A s \in Range(sbuffer) : s.number > wire[i].upto
        /\ \A j \in (i + 1)..Len(wire) : \A s \in Range(wire[j].body) : s.number > wire[i].upto

\* The silence of a mute and the final JSON of a stop come after all audio read before
\* them and before all audio read later; and from the moment a stop has said its last,
\* nothing is sent, unless the removal of the bug is refused and the stream goes on.
ResidueGoesFirst ==
    [][MarksAudio' /\ (wire' # wire => api \notin {"remove", "stopped"})]_vars

\* Once stream_frame has looked at the reset request, the buffer holds no audio from
\* before a reported drop.
ResidueDiscarded ==
    [][frame = "connected" /\ frame' = "read"
           => \A s \in Range(sbuffer') : s.conn = conn]_vars

\* What the README says of mute: once the command is over, no caller audio is sent.
MuteBlocksCaller ==
    [][user_audio_muted /\ api = "idle" /\ user_audio_muted' /\ wire' # wire
           => wire'[Len(wire')].body = <<>>]_vars

\* What a comment says of a dropped connection's residue: it is not mixed with the
\* audio sent after a reconnect.
ResidueStaysOnItsConnection ==
    \A i \in 1..Len(wire) : wire[i].kind = "residue" =>
        \A s \in Range(wire[i].body) : s.conn = wire[i].conn
=============================================================================
