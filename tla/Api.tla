-------------------------------- MODULE Api ---------------------------------
(***************************************************************************)
(* The API of the module: loading it, and stream_api_execute for one       *)
(* command after the other on one session.  A command is parsed, finds and *)
(* locks its session, is checked, runs, releases the session and replies.  *)
(* Starts are built as in StreamStart; the interleavings of running        *)
(* commands with callbacks are the subject of Capture and Lifecycle.       *)
(***************************************************************************)
EXTENDS StreamProtocol, Base64, ModuleLoad, StreamStart

CONSTANTS
    MaxWsUri,       \* MAX_WS_URI
    Commands,       \* bound: commands given at any time
    StartCommands,  \* bound: commands that may be the first one
    TextCommands,   \* bound: commands that may follow one that succeeded, with a plain stream
    AudioFrames     \* bound: frames of caller audio

\* The words of a command line are strings of C: none of their bytes is 0.
ASSUME CommandsAssumption ==
    \A c \in Commands \cup StartCommands \cup TextCommands :
        /\ c.args \in Nat /\ c.words \in Seq(STRING) /\ c.uri.rest \in Seq(STRING)
        /\ c.text \in Seq(1..255)
ASSUME FramesAssumption == MaxWsUri \in Nat /\ AudioFrames \subseteq Seq(0..255)

VARIABLES
    stage,      \* where the command is, "idle" if there is none
    cmd,        \* the command
    verdict,    \* history: "accepted" or "refused" arguments
    status,     \* it succeeded
    reply,      \* the lines written
    located, guard,     \* the session is referred to, its lifecycle is locked
    audio_paused, user_audio_muted, openai_audio_muted,
    json_text,  \* send_json: the text that cJSON_Parse is given, if there is one
    wire        \* the last audio written: the frame and its text

flags == <<audio_paused, user_audio_muted, openai_audio_muted>>
cmdVars == <<stage, cmd, verdict, status, reply, located, guard>>
vars == <<loadVars, startVars, cmdVars, flags, json_text, wire>>

SetFlags(paused, user_muted, openai_muted) ==
    audio_paused' = paused /\ user_audio_muted' = user_muted /\ openai_audio_muted' = openai_muted

\* words: the mix type and what follows it, or the target; text: bytes, uri: of a start.
NoUri == [scheme |-> "none", rest |-> <<>>]
Command(name, args, words, uri, text, raw) ==
    [name |-> name, args |-> args, words |-> words, uri |-> uri, text |-> text, raw |-> raw]
NoCommand == Command("none", 0, <<>>, NoUri, <<>>, FALSE)
NoWire == [frame |-> <<>>, text |-> <<>>]

Init ==
    /\ LoadInit /\ StartInit
    /\ stage = "idle" /\ cmd = NoCommand /\ verdict = "none" /\ status = FALSE /\ reply = <<>>
    /\ located = FALSE /\ guard = FALSE
    /\ audio_paused = FALSE /\ user_audio_muted = FALSE /\ openai_audio_muted = FALSE
    /\ json_text = {} /\ wire = NoWire

-----------------------------------------------------------------------------
(* The arguments of start.  A word is a rate, the flag in any case, or none of them. *)

STREAM_MIN_SAMPLING == 8000
STREAM_MAX_SAMPLING == 48000

Shortcut == [w \in {"8k", "16k", "24k"} |-> CASE w = "8k" -> 8000 [] w = "16k" -> 16000 [] w = "24k" -> 24000]
Decimal == [w \in {"0", "12000", "16000", "48000", "56000"} |->
               CASE w = "0" -> 0 [] w = "12000" -> 12000 [] w = "16000" -> 16000 [] w = "48000" -> 48000
                 [] w = "56000" -> 56000]

ParseSamplingRate(w) ==
    IF w \in DOMAIN Shortcut THEN Shortcut[w]
    ELSE IF w \in DOMAIN Decimal /\ Decimal[w] \in 1..STREAM_MAX_SAMPLING THEN Decimal[w]
    ELSE -1

IsMuteUser(w) == w \in {"mute_user", "MUTE_USER"}
Word(words, i) == i <= Len(words)
IsRateWord(words, i) == Word(words, i) /\ ~IsMuteUser(words[i])

\* How many words are taken for rates, the place of the flag, and what is left over.
RateWords(words) == IF ~IsRateWord(words, 2) THEN 0 ELSE IF ~IsRateWord(words, 3) THEN 1 ELSE 2
MutedAt(words) == RateWords(words) + 2
StartMuted(words) == Word(words, MutedAt(words)) /\ IsMuteUser(words[MutedAt(words)])
Leftover(words) == Word(words, MutedAt(words) + IF StartMuted(words) THEN 1 ELSE 0)

\* A faulty variant of the next operator: the send rate is the default playback rate.
ParamsOneRate(c) ==
    LET sampling == IF RateWords(c.words) >= 1 THEN ParseSamplingRate(c.words[2]) ELSE 24000 IN
    [channels |-> IF c.words[1] = "stereo" THEN 2 ELSE 1,
     sampling |-> sampling,
     playback |-> IF RateWords(c.words) = 2 THEN ParseSamplingRate(c.words[3]) ELSE sampling,
     muted    |-> StartMuted(c.words), raw |-> c.raw]
Params(c) ==
    [channels |-> IF c.words[1] = "stereo" THEN 2 ELSE 1,
     sampling |-> IF RateWords(c.words) >= 1 THEN ParseSamplingRate(c.words[2]) ELSE 24000,
     playback |-> IF RateWords(c.words) = 2 THEN ParseSamplingRate(c.words[3]) ELSE 24000,
     muted    |-> StartMuted(c.words), raw |-> c.raw]

RateOK(rate) == rate \in STREAM_MIN_SAMPLING..STREAM_MAX_SAMPLING /\ rate % 8000 = 0

ShowsUsage(c) ==
    c.name = "start" /\ (c.words = <<>> \/ (c.words[1] \in {"mono", "mixed", "stereo"} /\ Leftover(c.words)))

StartAccepted(c) ==
    /\ c.words # <<>> /\ c.words[1] \in {"mono", "mixed", "stereo"} /\ ~Leftover(c.words)
    /\ ValidateWsUri(c.uri, MaxWsUri)
    /\ RateOK(Params(c).sampling) /\ RateOK(Params(c).playback)

\* The bytes of memory that an argument is in.
Memory(text) == Append(text, 0)

Accepted(c) ==
    CASE c.name = "start" -> StartAccepted(c)
      [] c.name = "stop" -> c.args <= 1 /\ (c.args = 1 => IsValidUtf8(Memory(c.text)))
      [] c.name \in {"pause", "resume"} -> c.args = 0
      [] c.name = "send_json" -> c.args = 1
      [] c.name \in {"mute", "unmute"} -> c.args <= 1
      [] OTHER -> FALSE

-----------------------------------------------------------------------------
(* stream_api_execute, up to the switch *)

\* The stream sends audio as JSON.
Plain == Published /\ started /\ ~settings.raw /\ ~audio_paused /\ ~user_audio_muted /\ ~openai_audio_muted

TakeCommand ==
    /\ stage = "idle" /\ module = "loaded" /\ stage' = "locate"
    /\ \/ cmd' \in Commands
       \/ reply = <<>> /\ cmd' \in StartCommands
       \/ reply = <<"ok">> /\ Plain /\ cmd' \in TextCommands
    /\ verdict' = "none" /\ status' = FALSE /\ reply' = <<>> /\ wire' = NoWire
    /\ UNCHANGED <<loadVars, startVars, located, guard, flags, json_text>>

\* No name of a command, or no memory to cut the line into words.
Usage ==
    /\ stage = "locate" /\ cmd' = NoCommand /\ stage' = "idle" /\ reply' = <<"usage">>
    /\ UNCHANGED <<loadVars, startVars, verdict, status, located, guard, flags, json_text, wire>>

LocateSession ==
    /\ stage = "locate"
    /\ \/ located' = TRUE /\ stage' = "lock"
       \/ stage' = "reply" /\ UNCHANGED located
    /\ UNCHANGED <<loadVars, startVars, cmd, verdict, status, reply, guard, flags, json_text, wire>>

\* A faulty variant of the next action: a lock that was not given is not missed.
LockLifecycleUnchecked ==
    /\ stage = "lock" /\ guard' \in BOOLEAN /\ stage' = "switch"
    /\ UNCHANGED <<loadVars, startVars, cmd, verdict, status, reply, located, flags, json_text, wire>>
LockLifecycle ==
    /\ stage = "lock"
    /\ \/ guard' = TRUE /\ stage' = "switch"
       \/ stage' = "release" /\ UNCHANGED guard
    /\ UNCHANGED <<loadVars, startVars, cmd, verdict, status, reply, located, flags, json_text, wire>>

Accept ==
    /\ stage = "switch" /\ Accepted(cmd)
    /\ verdict' = "accepted" /\ stage' = "execute"
    /\ params' = IF cmd.name = "start" THEN Params(cmd) ELSE params
    /\ UNCHANGED <<loadVars, step, settings, held, bug, started, cmd, status, reply, located, guard, flags,
                   json_text, wire>>

\* A faulty variant of the next action: the session is left as it is.
RefuseUnreleased ==
    /\ stage = "switch" /\ ~Accepted(cmd)
    /\ verdict' = "refused" /\ stage' = "reply"
    /\ reply' = IF ShowsUsage(cmd) THEN <<"usage">> ELSE <<>>
    /\ UNCHANGED <<loadVars, startVars, cmd, status, located, guard, flags, json_text, wire>>
Refuse ==
    /\ stage = "switch" /\ ~Accepted(cmd)
    /\ verdict' = "refused" /\ stage' = "release"
    /\ reply' = IF ShowsUsage(cmd) THEN <<"usage">> ELSE <<>>
    /\ UNCHANGED <<loadVars, startVars, cmd, status, located, guard, flags, json_text, wire>>

-----------------------------------------------------------------------------
(* The commands *)

Executes(names) == stage = "execute" /\ cmd.name \in names
Returns(success) == status' = success /\ stage' = "release"

\* The command line is not read again once start has its parameters.
BeginStart ==
    /\ Executes({"start"}) /\ step' = "begin" /\ stage' = "start"
    /\ cmd' = [NoCommand EXCEPT !.name = "start"]
    /\ UNCHANGED <<loadVars, params, settings, held, bug, started, verdict, status, reply, located, guard, flags,
                   json_text, wire>>

BuildStream ==
    /\ stage = "start" /\ StartStep
    /\ IF step = "begin" /\ step' = "allocate" THEN SetFlags(FALSE, params.muted, FALSE) ELSE UNCHANGED flags
    /\ UNCHANGED <<loadVars, cmdVars, json_text, wire>>

EndStart ==
    /\ stage = "start" /\ step \in {"done", "failed"}
    /\ step' = "none" /\ Returns(step = "done")
    /\ UNCHANGED <<loadVars, params, settings, held, bug, started, cmd, verdict, reply, located, guard, flags,
                   json_text, wire>>

\* A text that is sent last may fail; the stream ends all the same.
Stop ==
    /\ Executes({"stop"})
    /\ IF Published
       THEN \/ CleanupDone /\ \E sent \in BOOLEAN : Returns(cmd.args = 0 \/ sent)
            \/ Returns(FALSE) /\ UNCHANGED <<bug, started, held>>
       ELSE Returns(FALSE) /\ UNCHANGED <<bug, started, held>>
    /\ UNCHANGED <<loadVars, step, params, settings, cmd, verdict, reply, located, guard, flags, json_text, wire>>

PauseResume ==
    /\ Executes({"pause", "resume"})
    /\ Returns(Published)
    /\ audio_paused' = IF Published THEN cmd.name = "pause" ELSE audio_paused
    /\ UNCHANGED <<loadVars, startVars, cmd, verdict, reply, located, guard, user_audio_muted, openai_audio_muted,
                   json_text, wire>>

Target == IF cmd.args = 0 THEN "user" ELSE cmd.words[1]
Targets(leg) == Target \in {leg, "all", "both"}

\* Silence follows when the user becomes muted; it can only be sent while connected.
UserMuteResult == IF cmd.name = "mute" /\ ~user_audio_muted THEN BOOLEAN ELSE {TRUE}

\* A faulty variant of the next action: the second half depends on the first.
MuteWhileSuccessful ==
    /\ Executes({"mute", "unmute"})
    /\ \E sent \in UserMuteResult :
           LET known == Targets("user") \/ Targets("openai")
               second == Published /\ Targets("openai") /\ (Targets("user") => sent)
           IN  /\ Returns(known /\ Published /\ (Targets("user") => sent))
               /\ user_audio_muted' = IF Published /\ Targets("user") THEN cmd.name = "mute" ELSE user_audio_muted
               /\ openai_audio_muted' = IF second THEN cmd.name = "mute" ELSE openai_audio_muted
    /\ UNCHANGED <<loadVars, startVars, cmd, verdict, reply, located, guard, audio_paused, json_text, wire>>
Mute ==
    /\ Executes({"mute", "unmute"})
    /\ \E sent \in UserMuteResult :
           Returns((Targets("user") \/ Targets("openai")) /\ Published /\ (Targets("user") => sent))
    /\ user_audio_muted' = IF Published /\ Targets("user") THEN cmd.name = "mute" ELSE user_audio_muted
    /\ openai_audio_muted' = IF Published /\ Targets("openai") THEN cmd.name = "mute" ELSE openai_audio_muted
    /\ UNCHANGED <<loadVars, startVars, cmd, verdict, reply, located, guard, audio_paused, json_text, wire>>

\* What a reader of C strings takes of bytes: those before the first 0.
CString(bytes) == SubSeq(bytes, 1, Min({i \in 1..(Len(bytes) + 1) : i > Len(bytes) \/ bytes[i] = 0}) - 1)

\* A base64 text that cannot be decoded, or is empty, gives no text.  cJSON is not modelled:
\* what is sent is its print of the first value it parses of json_text, and it may find none
\* or fail to print it, as the WebSocket may fail to send it; there is none in an empty text.
SendJson ==
    /\ Executes({"send_json"})
    /\ json_text' = IF ~Published \/ DecodeFails(cmd.text) \/ cmd.text = <<>> THEN {}
                    ELSE {CString(Base64Decode(cmd.text))}
    /\ \E sent \in BOOLEAN : Returns(sent /\ started /\ json_text' \notin {{}, {<<>>}})
    /\ UNCHANGED <<loadVars, startVars, cmd, verdict, reply, located, guard, flags, wire>>

-----------------------------------------------------------------------------
(* release_session, and the reply *)

Release ==
    /\ stage = "release" /\ stage' = "reply" /\ located' = FALSE /\ guard' = FALSE
    /\ cmd' = NoCommand /\ verdict' = "none" /\ json_text' = {} /\ params' = NoParams
    /\ settings' = IF Published THEN [NoSettings EXCEPT !.raw = settings.raw] ELSE NoSettings
    /\ held' = held \cap Owned
    /\ IF Published THEN UNCHANGED flags ELSE SetFlags(FALSE, FALSE, FALSE)
    /\ UNCHANGED <<loadVars, step, bug, started, status, reply, wire>>

Reply ==
    /\ stage = "reply" /\ stage' = "idle" /\ cmd' = NoCommand
    /\ reply' = Append(reply, IF status THEN "ok" ELSE "error")
    /\ UNCHANGED <<loadVars, startVars, verdict, status, located, guard, flags, json_text, wire>>

-----------------------------------------------------------------------------
\* stream_frame of a stream with JSON audio: writeAudioDelta.
SendAudio ==
    /\ stage = "idle" /\ Plain
    /\ \E frame \in AudioFrames : wire' = [frame |-> frame, text |-> Base64Encode(frame, FALSE)]
    /\ UNCHANGED <<loadVars, startVars, cmdVars, flags, json_text>>

\* A hangup or a closed connection ends the stream by the CLOSE callback, under the lock.
CloseCallback ==
    /\ Published /\ ~guard /\ CleanupDone /\ SetFlags(FALSE, FALSE, FALSE)
    /\ UNCHANGED <<loadVars, step, params, settings, cmdVars, json_text, wire>>

\* FreeSWITCH unloads a module when no command runs; streams have to be stopped before.
Unload == Shutdown /\ stage = "idle" /\ ~Published /\ UNCHANGED <<startVars, cmdVars, flags, json_text, wire>>

LoadStep == LoadNext /\ UNCHANGED <<startVars, cmdVars, flags, json_text, wire>>

Execute == BeginStart \/ BuildStream \/ EndStart \/ Stop \/ PauseResume \/ Mute \/ SendJson

Next ==
    \/ LoadStep \/ Unload
    \/ TakeCommand \/ Usage \/ LocateSession \/ LockLifecycle \/ Accept \/ Refuse \/ Execute \/ Release \/ Reply
    \/ SendAudio \/ CloseCallback

Spec == Init /\ [][Next]_vars
-----------------------------------------------------------------------------
ApiTypeOK ==
    /\ module \in {"unloaded", "loading", "loaded"} /\ owner \in [SubclassNames -> {"none", "us", "other"}]
    /\ step \in {"none", "begin", "allocate", "publish", "connect", "done", "failed"}
    /\ bug \in {"none", "attached", "published"} /\ started \in BOOLEAN
    /\ stage \in {"idle", "locate", "lock", "switch", "execute", "start", "release", "reply"}
    /\ step # "none" <=> stage = "start"
    /\ stage \in {"switch", "execute", "start"} => located /\ guard
    /\ stage # "idle" => module = "loaded"
    /\ {audio_paused, user_audio_muted, openai_audio_muted, located, guard, status} \subseteq BOOLEAN

(* The arguments as README and usage describe them. *)

\* The rates it names, and of the other words those that are multiples of 8000.
RateNames == {"8k", "16k", "24k", "16000", "48000"}
Rate(w) ==
    CASE w = "8k" -> 8000
      [] w \in {"16k", "16000"} -> 16000
      [] w = "24k" -> 24000
      [] w = "48000" -> 48000

\* <mix-type> [<send-rate>] [<playback-rate>] [mute_user], with that many rates.
Reading(words, rates, muted) ==
    /\ Len(words) = 1 + rates + (IF muted THEN 1 ELSE 0)
    /\ words[1] \in {"mono", "mixed", "stereo"}
    /\ \A i \in 2..(rates + 1) : words[i] \in RateNames
    /\ muted => IsMuteUser(words[Len(words)])
Readings(words) == {r \in (0..2) \X BOOLEAN : Reading(words, r[1], r[2])}

Means(words, r, p) ==
    /\ p.channels = 2 <=> words[1] = "stereo"
    /\ p.sampling = IF r[1] >= 1 THEN Rate(words[2]) ELSE 24000
    /\ p.playback = IF r[1] = 2 THEN Rate(words[3]) ELSE 24000
    /\ p.muted = r[2]

\* A start runs if and only if its URI is a WebSocket URI that fits and its words are what
\* README describes, and it runs with what they mean.
StartAsDocumented ==
    /\ stage = "execute" /\ cmd.name = "start" =>
           IsWsUri(cmd.uri, MaxWsUri) /\ \E r \in Readings(cmd.words) : Means(cmd.words, r, params)
    /\ verdict = "refused" /\ cmd.name = "start" =>
           ~IsWsUri(cmd.uri, MaxWsUri) \/ Readings(cmd.words) = {}

\* A stop is only refused for too many arguments or a text that is not UTF-8: the bytes
\* behind the end of the text do not count, overlong and surrogate characters do.
StopTakesUtf8 ==
    cmd.name = "stop" =>
        /\ stage = "execute" => cmd.args = 0 \/ (cmd.args = 1 /\ IsUtf8(cmd.text))
        /\ verdict = "refused" => cmd.args > 1 \/ ~IsUtf8(cmd.text)

\* What README says of the arguments of start is what decides whether it is run, and with
\* what; a stop runs with any text of UTF-8, and only sending it tells if that was base64.
ArgumentsAsDocumented == StartAsDocumented /\ StopTakesUtf8

\* Whatever way a command ends, the session is released before the reply is written, and
\* the reply has one status at most, as its last line.
SessionReleased ==
    /\ stage \in {"idle", "reply"} => ~located /\ ~guard
    /\ \A i \in 1..Len(reply) : reply[i] = "usage" <=> i < Len(reply) \/ reply = <<"usage">>

\* A command that will reply +OK has had its effect: the stream runs, is gone, or has
\* the flags that were asked for.
OkMeansDone ==
    stage = "release" /\ status =>
        /\ cmd.name = "stop" <=> ~Published
        /\ cmd.name \in {"start", "send_json"} => started
        /\ cmd.name \in {"pause", "resume"} => (audio_paused <=> cmd.name = "pause")

\* README: mute all applies both mutes at once; one that reports an error, for silence it
\* could not send, has muted all the same.
MutesAsAsked ==
    stage = "release" /\ verdict = "accepted" /\ cmd.name \in {"mute", "unmute"} /\ Published =>
        /\ Target \in {"user", "all", "both"} => (user_audio_muted <=> cmd.name = "mute")
        /\ Target \in {"openai", "all", "both"} => (openai_audio_muted <=> cmd.name = "mute")

\* A command does all it replies to have done and leaves nothing held, even when it fails.
CommandsTakeEffect == SessionReleased /\ OkMeansDone /\ MutesAsAsked

\* The text that chars carry, to its end or to the first 0 byte.
CarriesText(chars, text) ==
    LET six == Bits(chars, 6)
        eight == Bits(text, 8)
    IN  /\ \A i \in 1..Len(text) : text[i] # 0
        /\ \A i \in 1..Len(eight) : six[i] = eight[i]
        /\ \/ Carries(chars, text)
           \/ /\ Len(six) >= Len(eight) + 8
              /\ \A i \in 1..8 : six[Len(eight) + i] = 0

\* What send_json decodes its base64 text to, and gives to cJSON, is what that carries up to
\* the first 0 byte, in both alphabets, padded or not; no text that is base64 is turned down.
DecodedIsText ==
    stage = "release" /\ verdict = "accepted" /\ cmd.name = "send_json" /\ Published
        /\ IsBase64(cmd.text) /\ cmd.text # <<>> =>
            \E text \in json_text : CarriesText(Values(cmd.text), text)

\* Audio goes out as padded base64 text in the alphabet of the RFC, and carries every
\* byte of the frame.
AudioIsBase64 ==
    wire.frame # <<>> =>
        /\ IsBase64(wire.text) /\ Len(wire.text) % 4 = 0
        /\ Carries(Values(wire.text), wire.frame)
        /\ \A i \in 1..Len(wire.text) : wire.text[i] \notin {45, 46, 95}

\* Base64 is decoded to what it carries, and audio encoded as what carries it.
Base64Carries == DecodedIsText /\ AudioIsBase64
=============================================================================
