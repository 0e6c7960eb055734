----------------------------- MODULE StreamStart ----------------------------
(***************************************************************************)
(* Building a stream for a start command: the channel variables it reads,  *)
(* the resources it allocates, each of which may fail, and its publication *)
(* on the channel.  The steps of one start; who else runs meanwhile is the *)
(* subject of Lifecycle.                                                   *)
(***************************************************************************)
EXTENDS Naturals, Sequences, SequencesExt, FiniteSetsExt

CONSTANT ChannelVars   \* bound: what the channel's variables and codecs may be

\* A variable has one value at most; the items of a JSON object are in an order.
ASSUME ChannelVarsAssumption ==
    \A v \in ChannelVars :
        /\ v.buffer_size \subseteq Int /\ \A m, n \in v.buffer_size : m = n
        /\ v.extra \subseteq Seq([name : STRING, value : STRING, string : BOOLEAN])
        /\ \A items, others \in v.extra : items = others
        /\ v.key \in BOOLEAN /\ v.raw \in BOOLEAN

VARIABLES
    step,       \* where the start is, "none" if none runs
    params,     \* the arguments of start, parsed
    settings,   \* what the stream is built with, and history: the variables it comes from
    held,       \* resources of the context that its destruction must free
    bug,        \* the media bug: "none", "attached" or "published"
    started     \* the WebSocket thread runs

startVars == <<step, params, settings, held, bug, started>>

NoParams == [channels |-> 1, sampling |-> 24000, playback |-> 24000, muted |-> FALSE, raw |-> FALSE]
NoSettings == [rtp_packets |-> 1, heart_beat |-> 0, headers |-> <<>>, buflen |-> 0, raw |-> FALSE, vars |-> {}]

StartInit ==
    /\ step = "none" /\ params = NoParams /\ settings = NoSettings
    /\ held = {} /\ bug = "none" /\ started = FALSE

Published == bug = "published"

-----------------------------------------------------------------------------
(* stream_session_init reads the channel variables.  A variable is the set of *)
(* its value, empty when it is absent or not a number, or not a JSON object. *)

RtpPackets(v) == IF \E n \in v.buffer_size : n \in 20..1000 /\ n % 20 = 0
                 THEN (CHOOSE n \in v.buffer_size : TRUE) \div 20 ELSE 1
HeartBeat(v) == IF v.heart_beat # {} /\ v.heart_beat \subseteq 1..3600
                THEN CHOOSE n \in v.heart_beat : TRUE ELSE 0

\* An item of a JSON object; names are compared without regard to case.
Bearer == [name |-> "authorization", value |-> "bearer", string |-> TRUE]

\* A faulty variant of the next operator: the key comes before the extra headers.
ExtraHeadersBefore(v) ==
    LET extra == IF v.extra = {} THEN <<>> ELSE CHOOSE items \in v.extra : TRUE
    IN  IF v.key THEN <<Bearer>> \o RemoveFirstMatch(extra, LAMBDA item : item.name = "authorization")
        ELSE extra
\* The key replaces the first Authorization of the extra headers.
ExtraHeaders(v) ==
    LET extra == IF v.extra = {} THEN <<>> ELSE CHOOSE items \in v.extra : TRUE
    IN  IF v.key THEN Append(RemoveFirstMatch(extra, LAMBDA item : item.name = "authorization"), Bearer)
        ELSE extra

\* AudioStreamer puts the usable items into a map, one after the other.
UsableHeader(item) == item.string /\ item.name # ""
HeaderNames(items) == {items[i].name : i \in {j \in 1..Len(items) : UsableHeader(items[j])}}
HeaderMap(items) ==
    [name \in HeaderNames(items) |->
        items[Max({i \in 1..Len(items) : items[i].name = name /\ UsableHeader(items[i])})].value]

-----------------------------------------------------------------------------
FrameSize8000 == 320

\* A faulty variant of the next operator: room for one channel.
BufLenOneChannel(p, rtp_packets) == ((FrameSize8000 * p.sampling) \div 8000) * rtp_packets
BufLen(p, rtp_packets) == ((FrameSize8000 * p.sampling) \div 8000) * p.channels * rtp_packets

\* What stream_data_init allocates, in order, and what of it outlives a failure.  The rest
\* belongs to the memory pool of the session.
Allocations(v) ==
    <<"context", "playback_buffer", "streamer", "stream_buffers", "mutex", "sbuffer">>
        \o (IF params.sampling # v.read_rate THEN <<"resampler">> ELSE <<>>)
Owned == {"streamer", "stream_buffers", "mutex", "resampler"}

Fail == step' = "failed"

\* The stream is there already, the channel is not ready, or the key's header cannot be built.
StartRefused == step = "begin" /\ Fail /\ UNCHANGED <<params, settings, held, bug, started>>

SessionInit ==
    /\ step = "begin" /\ bug = "none"
    /\ \E v \in ChannelVars :
           settings' = [rtp_packets |-> RtpPackets(v), heart_beat |-> HeartBeat(v),
                        headers |-> HeaderMap(ExtraHeaders(v)), buflen |-> BufLen(params, RtpPackets(v)),
                        raw |-> params.raw \/ v.raw, vars |-> {v}]
    /\ step' = "allocate" /\ UNCHANGED <<params, held, bug, started>>

\* What is still to be allocated; held keeps the pool's part until the end of the start.
ToAllocate == Allocations(CHOOSE v \in settings.vars : TRUE)
Pending == {i \in 1..Len(ToAllocate) : ToAllocate[i] \notin held}

Allocate ==
    /\ step = "allocate" /\ Pending # {}
    /\ held' = held \cup {ToAllocate[Min(Pending)]}
    /\ UNCHANGED <<step, params, settings, bug, started>>

DestroyTechPvt == held' = held \ Owned

\* A faulty variant of the next action: what was built is left behind.
AllocationFailsOnly ==
    /\ step = "allocate" /\ Pending # {} /\ Fail
    /\ UNCHANGED <<params, settings, held, bug, started>>
AllocationFails ==
    /\ step = "allocate" /\ Pending # {} /\ Fail
    /\ DestroyTechPvt
    /\ UNCHANGED <<params, settings, bug, started>>

AddBug ==
    /\ step = "allocate" /\ Pending = {}
    /\ \/ bug' = "attached" /\ step' = "publish" /\ UNCHANGED held
       \/ Fail /\ DestroyTechPvt /\ UNCHANGED bug
    /\ UNCHANGED <<params, settings, started>>

Publish ==
    /\ step = "publish" /\ bug' = "published" /\ step' = "connect"
    /\ UNCHANGED <<params, settings, held, started>>

\* stream_session_cleanup; the removal of the bug may be refused.
CleanupDone == bug' = "none" /\ started' = FALSE /\ DestroyTechPvt
Cleanup == CleanupDone \/ UNCHANGED <<bug, started, held>>

\* A faulty variant of the next action: the result of start is not looked at.
StartWebSocketUnchecked ==
    /\ step = "connect" /\ step' = "done"
    /\ started' \in BOOLEAN
    /\ UNCHANGED <<params, settings, held, bug>>
StartWebSocket ==
    /\ step = "connect"
    /\ \/ started' = TRUE /\ step' = "done" /\ UNCHANGED <<held, bug>>
       \/ Fail /\ Cleanup
    /\ UNCHANGED <<params, settings>>

StartStep == StartRefused \/ SessionInit \/ Allocate \/ AllocationFails \/ AddBug \/ Publish \/ StartWebSocket

-----------------------------------------------------------------------------
\* A stream that callbacks can reach has all it needs; when there is none, nothing that
\* only its destruction frees is left, whichever allocation failed.
StreamAllOrNothing ==
    /\ bug # "none" => {"streamer", "stream_buffers", "mutex"} \subseteq held
    /\ bug = "none" /\ step # "allocate" => held \cap Owned = {}
    /\ started => bug # "none"

\* README: the API key's Authorization takes precedence over that of the extra headers,
\* whatever their case, number and order; the other extra headers are all sent.
AuthorizationTakesPrecedence ==
    \A v \in settings.vars :
        /\ v.key => "authorization" \in DOMAIN settings.headers /\ settings.headers["authorization"] = "bearer"
        /\ \A items \in v.extra : \A i \in 1..Len(items) :
               UsableHeader(items[i]) => /\ items[i].name \in DOMAIN settings.headers
                                   /\ \/ v.key /\ items[i].name = "authorization"
                                      \/ settings.headers[items[i].name] = items[i].value
                                      \/ \E j \in (i + 1)..Len(items) : items[j].name = items[i].name

\* README: STREAM_BUFFER_SIZE is a duration.  The aggregation buffer holds exactly that
\* much audio at the send rate: 16 bits for each channel, a whole number of frames.
BufferHoldsItsDuration ==
    \A v \in settings.vars :
        LET milliseconds == IF \E n \in v.buffer_size : \E k \in 1..50 : n = 20 * k
                            THEN CHOOSE n \in v.buffer_size : TRUE ELSE 20
        IN  settings.buflen * 1000 = milliseconds * params.sampling * params.channels * 2

\* The stream is built as README says of the channel's variables and the arguments.
SettingsAsDocumented == AuthorizationTakesPrecedence /\ BufferHoldsItsDuration
=============================================================================
