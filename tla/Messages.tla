------------------------------ MODULE Messages ------------------------------
(***************************************************************************)
(* The message callback of one stream, on the WebSocket thread: what comes *)
(* in, what subscribers are told of it, the debug audio files written on   *)
(* the way, and finish, which removes them on the thread that stops the    *)
(* stream.  The audio itself is that of RawAudio, whose actions are        *)
(* conjuncts of the actions here; a text is read as in JsonText.           *)
(*                                                                         *)
(* Files are numbered, like their names: <session>_<number>.tmp.wav.       *)
(***************************************************************************)
EXTENDS RawAudio, JsonText

CONSTANTS
    Names,          \* bound: numbers of files
    MaxMessages     \* bound: messages taken in

ASSUME NamesAssumption == Names \subseteq Nat /\ MaxMessages \in Nat

VARIABLES
    m_disable_audiofiles,
    m_playFile,     \* number of the next file
    m_Files,        \* numbers of the files to remove
    disk,           \* the files with a name of this session
    session_up,     \* switch_core_session_locate finds the session
    stage,          \* where the callback is
    msg,            \* the message it handles
    scan, parse,    \* json_depth_exceeded and cJSON_Parse on its text
    stream,         \* how far finish is
    log,            \* history: the messages handled
    lost_odd        \* history: an odd number of bytes was dropped on this connection

audioVars == vars
fileVars == <<m_playFile, m_Files, disk>>
textVars == <<scan, parse>>
msgVars == <<m_disable_audiofiles, fileVars, session_up, stage, msg, textVars, stream, log, lost_odd, audioVars>>

NoFile == [owner |-> "none", audio |-> <<>>, whole |-> FALSE]
File(owner, audio, whole) == [owner |-> owner, audio |-> audio, whole |-> whole]
Exists(name) == disk[name].owner # "none"

\* A message: its kind, its audio, the file that was written of it (-1: none), the
\* events about it, whether their text is the original one, and what became of the
\* samples made of it: there were none, they were queued, the full backlog dropped them.
Message(kind, audio) ==
    [kind |-> kind, audio |-> audio, file |-> -1, events |-> {}, original |-> TRUE, samples |-> "none"]
NoMessage == Message("none", <<>>)

\* Any of the names may be taken, by another process or an earlier stream that crashed.
MsgInit ==
    /\ Init
    /\ m_disable_audiofiles \in BOOLEAN
    /\ m_playFile = 0 /\ m_Files = {}
    /\ disk \in [Names -> {NoFile, File("other", <<>>, TRUE)}]
    /\ session_up = TRUE /\ stage = "idle" /\ msg = NoMessage
    /\ scan = ScanStart /\ parse = ParseStart
    /\ stream = "running" /\ log = <<>> /\ lost_odd = FALSE

-----------------------------------------------------------------------------
(* Messages come in while the callback is idle. *)

MayTake == stream = "running" /\ stage = "idle" /\ open /\ Len(log) < MaxMessages

\* The callback is done with message m.
Done(m) ==
    /\ log' = Append(log, m)
    /\ stage' = "idle" /\ msg' = NoMessage

\* The audio m_disable_audiofiles keeps out of files goes straight to conversion.
FirstStage == IF m_disable_audiofiles THEN "convert" ELSE "create"

TakeBinary(n) ==
    /\ MayTake /\ RawAudioMode /\ n <= MaxFrame /\ sent + n <= MaxBytes
    /\ msg' = Message("binary", Arriving(n)) /\ stage' = FirstStage
    /\ UNCHANGED <<m_disable_audiofiles, fileVars, session_up, textVars, stream, log, lost_odd, audioVars>>

TakeOversized(n) ==
    /\ MayTake /\ Oversized(n)
    /\ lost_odd' = (lost_odd \/ n % 2 = 1)
    /\ Done(Message("oversized", Arriving(n)))
    /\ UNCHANGED <<m_disable_audiofiles, fileVars, session_up, textVars, stream>>

\* A text without a session to report it to is ignored.
TakeText ==
    /\ MayTake /\ session_up
    /\ stage' = "scan" /\ scan' = ScanStart /\ parse' = ParseStart
    /\ UNCHANGED <<m_disable_audiofiles, fileVars, session_up, msg, stream, log, lost_odd, audioVars>>

ReadChar(c) ==
    /\ stage = "scan" /\ ~Exceeded(scan)
    /\ scan' = Scan(scan, c) /\ parse' \in Parses(parse, c)
    /\ UNCHANGED <<m_disable_audiofiles, fileVars, session_up, stage, msg, stream, log, lost_odd, audioVars>>

\* A text that is too deep counts as handled: no event.
TooDeep ==
    /\ stage = "scan" /\ Exceeded(scan)
    /\ Done(Message("deep", <<>>))
    /\ scan' = ScanStart /\ parse' = ParseStart
    /\ UNCHANGED <<m_disable_audiofiles, fileVars, session_up, stream, lost_odd, audioVars>>

Reported(m) == [m EXCEPT !.events = @ \cup {"json"}]

\* Texts that are not JSON, have no type or another type than an audio delta, and deltas
\* whose audio is missing or cannot be decoded, are reported as they came in.
OtherText ==
    /\ stage = "scan" /\ ~Exceeded(scan)
    /\ Done(Reported(Message("other", <<>>)))
    /\ scan' = ScanStart /\ parse' = ParseStart
    /\ UNCHANGED <<m_disable_audiofiles, fileVars, session_up, stream, lost_odd, audioVars>>

\* The base64 text of a delta is replaced as soon as it is decoded.
Decoded(n) == [Message("delta", Arriving(n)) EXCEPT !.original = FALSE]

DecodeDelta(n) ==
    /\ stage = "scan" /\ ~Exceeded(scan) /\ parse.result = "value"
    /\ n > 0 /\ n <= MaxDelta /\ sent + n <= MaxBytes
    /\ msg' = Decoded(n) /\ stage' = FirstStage
    /\ scan' = ScanStart /\ parse' = ParseStart
    /\ UNCHANGED <<m_disable_audiofiles, fileVars, session_up, stream, log, lost_odd, audioVars>>

-----------------------------------------------------------------------------
(* saveDebugAudioFile *)

\* A faulty variant of the next action: the name is put down for removal before the
\* file is created.
InsertFirst ==
    /\ stage = "create" /\ m_playFile \in Names
    /\ m_playFile' = m_playFile + 1
    /\ m_Files' = m_Files \cup {m_playFile}
    /\ \/ /\ ~Exists(m_playFile)
          /\ disk' = [disk EXCEPT ![m_playFile] = File("us", <<>>, FALSE)]
          /\ stage' = "write"
       \/ stage' = "convert" /\ UNCHANGED disk
    /\ UNCHANGED <<m_disable_audiofiles, session_up, msg, textVars, stream, log, lost_odd, audioVars>>

\* open with O_CREAT and O_EXCL; it fails on a name that exists, and may fail on any.
CreateFile ==
    /\ stage = "create" /\ m_playFile \in Names
    /\ m_playFile' = m_playFile + 1
    /\ \/ /\ ~Exists(m_playFile)
          /\ disk' = [disk EXCEPT ![m_playFile] = File("us", <<>>, FALSE)]
          /\ m_Files' = m_Files \cup {m_playFile} /\ stage' = "write"
       \/ stage' = "convert" /\ UNCHANGED <<m_Files, disk>>
    /\ UNCHANGED <<m_disable_audiofiles, session_up, msg, textVars, stream, log, lost_odd, audioVars>>

\* A faulty variant of the next action: a failed write passes for a written file.
WriteUnchecked ==
    /\ stage = "write"
    /\ \E whole \in BOOLEAN :
           disk' = [disk EXCEPT ![m_playFile - 1] = File("us", msg.audio, whole)]
    /\ msg' = [msg EXCEPT !.file = m_playFile - 1] /\ stage' = "play"
    /\ UNCHANGED <<m_disable_audiofiles, m_playFile, m_Files, session_up, textVars, stream, log, lost_odd, audioVars>>

\* The file name of the message is the one just created; a failed write leaves a part.
WriteFile ==
    /\ stage = "write"
    /\ \/ /\ disk' = [disk EXCEPT ![m_playFile - 1] = File("us", msg.audio, TRUE)]
          /\ msg' = [msg EXCEPT !.file = m_playFile - 1] /\ stage' = "play"
       \/ stage' = "convert" /\ UNCHANGED <<disk, msg>>
    /\ UNCHANGED <<m_disable_audiofiles, m_playFile, m_Files, session_up, textVars, stream, log, lost_odd, audioVars>>

\* A delta is handled with its session held; for a binary frame it is looked up here.
NotifyPlay ==
    /\ stage = "play"
    /\ msg' = IF msg.kind = "delta" \/ session_up THEN [msg EXCEPT !.events = @ \cup {"play"}] ELSE msg
    /\ stage' = "convert"
    /\ UNCHANGED <<m_disable_audiofiles, fileVars, session_up, textVars, stream, log, lost_odd, audioVars>>

-----------------------------------------------------------------------------
(* convertRawAudio, push_audio_queue and what processMessage returns. *)

\* What may become of the message's samples: a resampler may make nothing of them, and
\* push_audio_queue drops what the backlog (in Playback) has no room for, and tells nobody.
Pushed ==
    IF Pairs(Stitched(msg.audio)) = <<>> THEN {"none"} ELSE {"none", "queued", "dropped"}

\* A delta is reported when no samples were made of it, not when they were dropped.  A faulty
\* variant reports all of them.
AnswerAlways(samples) ==
    [(IF msg.kind = "delta" THEN Reported(msg) ELSE msg) EXCEPT !.samples = samples]
Answer(samples) ==
    [(IF msg.kind = "delta" /\ samples = "none" THEN Reported(msg) ELSE msg)
        EXCEPT !.samples = samples]

ConvertBinary ==
    /\ stage = "convert" /\ msg.kind = "binary" /\ BinaryFrame(Len(msg.audio))
    /\ \E samples \in Pushed : Done(Answer(samples))
    /\ UNCHANGED <<m_disable_audiofiles, fileVars, session_up, textVars, stream, lost_odd>>

ConvertDelta ==
    /\ stage = "convert" /\ msg.kind = "delta" /\ AudioDelta(Len(msg.audio))
    /\ \E samples \in Pushed : Done(Answer(samples))
    /\ UNCHANGED <<m_disable_audiofiles, fileVars, session_up, textVars, stream, lost_odd>>

-----------------------------------------------------------------------------
\* Connection events come from the same thread.
Connection ==
    /\ stream = "running" /\ stage = "idle"
    /\ \/ Open /\ lost_odd' = FALSE
       \/ Close /\ UNCHANGED lost_odd
    /\ UNCHANGED <<m_disable_audiofiles, fileVars, session_up, stage, msg, textVars, stream, log>>

Hangup ==
    /\ session_up /\ session_up' = FALSE
    /\ UNCHANGED <<m_disable_audiofiles, fileVars, stage, msg, textVars, stream, log, lost_odd, audioVars>>

\* finish, on the thread that stops the stream.  The first step joins the WebSocket
\* thread; a faulty variant does not wait for its callback.
DisconnectUnjoined ==
    /\ stream = "running" /\ stream' = "joined"
    /\ UNCHANGED <<m_disable_audiofiles, fileVars, session_up, stage, msg, textVars, log, lost_odd, audioVars>>
Disconnect ==
    /\ stream = "running" /\ stage = "idle" /\ stream' = "joined"
    /\ UNCHANGED <<m_disable_audiofiles, fileVars, session_up, stage, msg, textVars, log, lost_odd, audioVars>>

DeleteFiles ==
    /\ stream = "joined" /\ stream' = "gone"
    /\ disk' = IF m_playFile > 0 THEN [name \in Names |-> IF name \in m_Files THEN NoFile ELSE disk[name]] ELSE disk
    /\ UNCHANGED <<m_disable_audiofiles, m_playFile, m_Files, session_up, stage, msg, textVars, log, lost_odd, audioVars>>

-----------------------------------------------------------------------------
Callback ==
    \/ \E n \in Sizes : TakeBinary(n) \/ TakeOversized(n) \/ DecodeDelta(n)
    \/ TakeText \/ (\E c \in Chars : ReadChar(c)) \/ TooDeep \/ OtherText
    \/ CreateFile \/ WriteFile \/ NotifyPlay \/ ConvertBinary \/ ConvertDelta
    \/ Connection

MsgNext ==
    \/ Callback
    \/ Hangup \/ Disconnect \/ DeleteFiles

MsgSpec == MsgInit /\ [][MsgNext]_msgVars

-----------------------------------------------------------------------------
MessageOK(m) ==
    /\ m.kind \in {"none", "binary", "oversized", "deep", "other", "delta"}
    /\ m.audio \in Seq(Byte) /\ m.file \in Names \cup {-1}
    /\ m.events \subseteq {"json", "play"} /\ m.original \in BOOLEAN
    /\ m.samples \in {"none", "queued", "dropped"}

\* The types; a carried byte is one of this connection (TypeOK), a stage with a message has
\* one with audio, and no callback runs once the WebSocket thread has been joined.
MsgTypeOK ==
    /\ TypeOK
    /\ m_disable_audiofiles \in BOOLEAN /\ session_up \in BOOLEAN /\ lost_odd \in BOOLEAN
    /\ m_playFile \in Nat /\ m_Files \subseteq Names
    /\ \A name \in Names : disk[name].owner \in {"none", "us", "other"}
    /\ stage \in {"idle", "scan", "create", "write", "play", "convert"}
    /\ stage \in {"create", "write", "play", "convert"} <=> msg.kind \in {"binary", "delta"}
    /\ stream \in {"running", "joined", "gone"} /\ (stream # "running" => stage = "idle")
    /\ MessageOK(msg) /\ \A i \in 1..Len(log) : MessageOK(log[i])

\* The recursive parser never sees a text that nests deeper than MAX_JSON_DEPTH, strings
\* and escapes included, and no text that it could parse is refused for less than that.
DepthGuard ==
    /\ ~Exceeded(scan) => Len(parse.stack) <= MaxDepth
    /\ Exceeded(scan) /\ parse.result = "running" => Len(parse.stack) > MaxDepth

\* A file that is not of this stream is neither overwritten nor removed, whatever its name.
OthersFilesKept ==
    [][\A name \in Names : disk[name].owner = "other" => disk'[name] = disk[name]]_msgVars

\* README: the files "will be deleted when the session is closed"; those too that could
\* not be written, or were being written when the stream was stopped.
FilesRemoved == stream = "gone" => \A name \in Names : disk[name].owner # "us"

\* As long as the stream lives, the file a play event names holds all the audio of the
\* message the event is about, and nothing else.
PlayNamesFile ==
    stream # "gone" => \A i \in 1..Len(log) :
        "play" \in log[i].events =>
            log[i].file \in Names /\ disk[log[i].file] = File("us", log[i].audio, TRUE)

\* A delta is reported as a message if and only if no samples came of it, so that each is
\* heard, or reported, or dropped for a full backlog, and none is two of these; no event
\* about it carries its base64 text.  Any other text is reported as it came.
EveryTextAnswered ==
    \A i \in 1..Len(log) :
        /\ log[i].kind = "delta" => (log[i].samples = "none" <=> "json" \in log[i].events) /\ ~log[i].original
        /\ log[i].kind = "other" => log[i].events = {"json"} /\ log[i].original

\* The samples are the bytes of the peer's stream in pairs, however it was cut into
\* messages (StreamDecoded), and each is an odd and an even byte of that stream unless an odd
\* number of bytes was dropped before it: nothing else shifts the bytes that follow.
SamplesAligned ==
    /\ StreamDecoded
    /\ lost_odd \/ \A i \in 1..Len(decoded) : decoded[i][1].at % 2 = 1 /\ decoded[i][2].at % 2 = 0
=============================================================================
