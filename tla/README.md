# Specifications of mod_openai_audio_stream

`mod_openai_audio_stream` is a FreeSWITCH module that connects a call to OpenAI's
realtime API over a WebSocket: it sends the caller's audio and plays back the audio
it receives. This directory holds TLA+ modules that model it, the TLC configurations
that check them, and TLAPS proofs about them. Line numbers refer to
`src/openai_audio_streamer_glue.cpp` ("glue") and `src/mod_openai_audio_stream.c`
("mod") unless another file is named.

To check a module: `tlc -config <run>.cfg <MC module>.tla`. To check the proofs:
`tlapm` on `PlaybackProofs.tla`, `PlaybackRefinement.tla`, `LifecycleLockProofs.tla`,
`LifecycleProofs.tla`, `CaptureProofs.tla`, `MessagesProofs.tla`, `ProtocolProofs.tla` and
`ApiProofs.tla`.

## 1. The system

### Threads

| thread | what it runs |
|---|---|
| API threads (any number) | `stream_api_execute`: start, stop, pause, resume, mute, unmute, send_json |
| the media threads of the session | `capture_callback` for READ (`stream_frame`) and WRITE_REPLACE (`write_frame`), about every 20 ms |
| one WebSocket thread per stream | IXWebSocket's message callback: messages, open, error, close |
| the thread that ends the channel | FreeSWITCH's removal of all media bugs: `capture_callback` for CLOSE |

They share, per session, the lifecycle lock and the channel private that names the
media bug, and, per stream, `private_t` with its nested mutex, two buffers and four
atomic flags, and the `AudioStreamer` with its audio queue (own mutex) and atomics.
The media threads take no lock they would have to wait for: `stream_frame` only tries
`tech_pvt->mutex`, `write_frame` takes the queue's mutex for a few instructions.

### Inventory

**Playback path** (glue 461-624, 709-730, 1544-1640).
State: `m_audio_queue`, `m_audio_queue_samples`, the barge-in generation and the one
seen last, `m_openai_speaking`, `m_response_audio_done`, `m_terminal_close`,
`playback_buffer`, the pause and mute flags. Operations: delta, done,
speech_started and binary messages push to or clear the queue; `write_frame` consumes
the clear, snapshots the terminal close, fills the buffer, plays or tosses a frame.
Hard: two threads and four atomics with no common lock; the order in which a close and
the last audio become visible. Correct when: audio is played once, in order and
completely, a barge-in leaves nothing behind, the backlog is bounded, a stream that is
closed for good plays out and stops.

**Capture path** (glue 999-1017, 1112-1190, 1409-1542).
State: the bug's read buffer, the aggregation buffer `sbuffer`, pause, mute and the
reset request. Operations: `stream_frame` reads, resamples, aggregates and sends;
mute and stop send the residue under the mutex, then silence or a final JSON; a dropped
connection asks for a reset. Hard: flags read before the mutex; three threads; a
reconnection between two frames. Correct when: samples leave in order and once, silence
and final JSON come behind all earlier audio and before all later audio, old audio does not reach a new connection.

**Lifecycle lock registry** (glue 814-883).
State: a map from session ids to weak pointers of recursive mutexes, handles with shared
pointers. Operations: acquire, release. Hard: the lock and the deletion happen outside
the registry's mutex, entries are erased while others wait. Correct when: a session
never has two mutexes in use.

**Stream lifecycle** (mod 41-165, 304-445; glue 964-997, 1360-1407, 1642-1705).
State: channel private, linked bugs, the context and WebSocket thread of each stream,
`close_requested`. Operations: start (build, attach, publish, connect), stop, prune by a
callback that returns `SWITCH_FALSE`, CLOSE at hangup. Hard: recursive cleanup through
the CLOSE callback, two owners of the teardown, refused removal. Correct when: nothing
is used after it is freed, no stream is lost or torn down twice, teardown always ends.

**WebSocket event handling** (glue 125-298, 461-569). Dispatches connection events and
messages to the parts above, and tells subscribers of them as FreeSWITCH events.
State: what is kept by the parts. Hard: a message passes through checks, a decoder, a
file and a converter, and what is reported depends on all of them. Correct when: audio is
either made into samples or reported, no event carries the base64 text of audio.

**Decoding of received audio** (glue 125-149, 300-363). Cuts messages into samples of 16
bits, carries an odd byte to the next message, resamples. State: the carried byte.
Hard: the carry outlives messages and responses. Correct when: the samples are those of
the connection's bytes in one piece.

**Debug audio files** (glue 380-459, 701-707). State: the number of the next file, the
set of files to remove, the disk. Operations: create, write, announce, remove at
teardown. Hard: names that exist already, writes that fail half way, a stop in the
middle. Correct when: all files of the stream go, no others are touched, and an
announced file is complete.

**Message and URI validation** (`stream_protocol.cpp`). Pure functions: nesting of JSON,
WebSocket URIs, UTF-8. Hard: strings and escapes, bounds of ports and buffers, bytes at
the end of a text. Correct when: they agree with the parser or the definition they
stand in for.

**Base64** (`base64.cpp`). Pure functions. Hard: the last chunk, two alphabets. Correct
when: text and bytes carry the same bits.

**API dispatch** (mod 75-278, 280-445). State: the session reference, the guard, the
status. Operations: parse, locate, lock, check, execute, release, reply. Hard: many ways
out. Correct when: documented arguments are taken and no others, everything is released
on every way out, and `+OK` means that it was done.

**Session settings and stream start** (glue 885-997, 1203-1358; mod 95-165). State: the
settings, the resources allocated so far, the bug. Operations: read channel variables,
allocate, attach, publish, connect. Hard: each allocation may fail; headers come from
two places. Correct when: a start builds all of a stream or leaves nothing, with what
README says of the variables.

**Module load and unload** (mod 467-522). State: the reserved event subclasses. Hard:
failure half way. Correct when: an unloaded module owns none and a loaded one all.

**Tests** and **build**: see section 6.

### What is hard to test

`PROJECT.json` lists each hazard with its line and the properties aimed at it. The ones
that shape the models: the order of stores and loads of the terminal close
(glue 270-271 against 1587-1608), the generation counter of a barge-in against a frame
in progress, the pause and mute flags that `stream_frame` reads before it has the mutex,
the residue of a dropped connection, the release of a lifecycle lock whose mutex is
being acquired, and stop, prune and hangup that compete for one bug; and, where there is less
concurrency, the many ways a command, a start or a debug file can fail half way, and
audio that a message carries past checks, files and converters to the listener.

## 2. Modules

| module | models | uses |
|---|---|---|
| `PlayoutBacklog` | what the playback path promises: a backlog with barge-in | |
| `Playback` | playback path of one stream | `PlayoutBacklog`, by a refinement mapping |
| `PlaybackProofs` | theorems about `Playback` | `Playback` |
| `PlaybackRefinement` | the proof that it implements the backlog | `PlaybackProofs` |
| `RawAudio` | bytes to samples, with the carried byte | |
| `JsonText` | the depth check and the recursive parser, on one text | |
| `Messages` | the message callback, debug files, and finish | `RawAudio`, `JsonText`, whose actions and operators are parts of its own |
| `MessagesProofs` | theorems about `RawAudio` and `Messages` | `Messages` |
| `Capture` | capture path of one stream | |
| `CaptureProofs` | theorems about `Capture` | `Capture` |
| `SessionLock` | what the lifecycle lock promises: one recursive lock per session | |
| `LifecycleLock` | the registry that implements it | `SessionLock`, by a refinement mapping |
| `LifecycleLockProofs` | theorems about `LifecycleLock` | `LifecycleLock` |
| `Lifecycle` | commands, callbacks, teardown and hangup of a session | `SessionLock`, as its lock |
| `LifecycleProofs` | theorems about `Lifecycle` | `Lifecycle` |
| `StreamProtocol` | URIs and UTF-8: the checks, and what they check for | |
| `Base64` | the codec, and what Base64 is | |
| `ModuleLoad` | loading and unloading | |
| `StreamStart` | settings, allocation and publication of a stream | |
| `Api` | the commands from the line to the reply | `StreamProtocol`, `Base64`, `ModuleLoad`, `StreamStart` |
| `ProtocolProofs` | theorems about `StreamProtocol` and `Base64` | `StreamProtocol`, `Base64` |
| `ApiProofs` | theorems about `Api` and the parts it is made of | `Api`, `ProtocolProofs` |
| `MCPlayback`, `MCMessages`, `MCCapture`, `MCLifecycleLock`, `MCLifecycle`, `MCApi` | instances for TLC | |

`PROJECT.json` maps each definition to its lines. An operator whose comment calls it a
faulty variant is not part of the model: it is what the definition after it would be
with a plausible mistake, and each property is known to fail with one of them.

### Playback

A step is one critical section of `m_audio_queue_mutex` or one access to an atomic, so
TLC interleaves the WebSocket thread and `write_frame` as finely as the code allows.
`ws` and `wf` are the two program counters: `AudioDelta` clears
`m_response_audio_done` and `PushAudioQueue` is a later step; `ClearAudioQueue` and
`RequestPlaybackClear` are two; `ConnectionDropped` stores `m_response_audio_done` and
`SetTerminalClose` the other flag. `write_frame` is `EnterFrame`,
`ConsumePlaybackClear`, `SnapshotTerminalClose`, one `PopAudioQueue` per turn of the
loop, `FillDone`, then `Drained` or `Emit`.
Audio is counted in samples, and accepted samples are numbered, so that loss,
duplication and reordering show. The history variables `arrived`, `taken` and
`barge_mark` are never read by a guard except to bound the run.

`PlayoutBacklog` is what all of that amounts to for a listener: a set of numbered samples
that wait. It accepts new ones, takes the oldest, and gives samples up only for a
barge-in, in two parts: `BargeIn` drops the newest at once (the queue), `Discard` the
oldest later (the buffer). The mapping joins queue and buffer (`Waiting`) and counts the
barge-ins the media thread has not seen (`Due`), one from the moment the queue is cleared.

### RawAudio

A step is one message or connection event, all of it on the WebSocket thread. A byte is its connection and its place in what the peer sent on it.
`accepted` and `decoded` are the histories of what `convertRawAudio` was given and made,
`sent` counts the messages beyond the limit too: they never reach the carry, so one of
odd length shifts the samples after it against the peer's, and `StreamDecoded` speaks of
the accepted bytes. `Accept` is `convertRawAudio`, reached by
`BinaryFrame` in raw mode and by `AudioDelta` in both. The samples it makes are the
messages of `Playback`, whose `Lengths` include 0 for a message that completes none.
It is checked as a part of `Messages`.

### JsonText and Messages

`stage` is where the callback is. A binary frame, an oversized message and a text are
taken in by `TakeBinary`, `TakeOversized` and `TakeText`. A text is read a character at a
time by both readers of `JsonText`: the counter, which decides whether the text is taken,
and the parser, which only runs afterwards in the code but on the same characters; that
lets one state relate them. Any character may come next, so every text up to the limit's
depth is read. The parser may give up anywhere, since what cJSON rejects within a value
does not matter to the depth. `DecodeDelta` needs a complete value; every other end of a
text is `OtherText`.

`CreateFile`, `WriteFile` and `NotifyPlay` are `saveDebugAudioFile` and its caller. Names
are numbers, as they are in the file names, and any of them may exist already. A failed
write leaves a file with part of the audio. `ConvertBinary` and `ConvertDelta` are the
conjunction with `BinaryFrame` or `AudioDelta` of `RawAudio`, followed by the answer. What
becomes of the message is one of three things (`Pushed`): it made no samples, they were
queued, or `push_audio_queue` dropped them because the backlog is full. `processMessage`
only looks at the first (glue 547): a delta without samples is reported, one whose samples
were dropped is neither heard nor reported. The queue, and when it is full, is `Playback`'s,
so here either may happen to any samples. `Hangup` may come at any time, after which
the session is no longer found; `Disconnect` is the part of finish that joins the
WebSocket thread, and `DeleteFiles` the rest.

### Capture

`frame` is where the media thread is in `stream_frame`: flags read, mutex held,
connection checked, reset consumed, reading. `api` is the API thread, one command at a
time, since the lifecycle lock serialises them. `wire` is the history of messages handed
to the WebSocket, each with its connection. Sending inside one locked section (a frame's
worth of audio) is one step: the mutex keeps the other senders of audio out. `SendJson`
takes no mutex in the code and none here. A stop ends in `Finish`, or in `RemoveRefused`
(glue 1682-1690): FreeSWITCH refuses the removal, the private is put back, stop returns an
error, and `stream_frame` goes on sending behind the final JSON, as may another stop. The resampler is the choice of how many
samples a frame becomes, zero included. `rtp_packets` is chosen in `Init`: with one packet
a message a frame is sent as it is, with more it goes through the aggregation buffer.

### SessionLock and LifecycleLock

`Register` is the registry's critical section in acquire, `Lock` the construction of the
handle's `unique_lock`, `Unlock`, `Unregister` and `Delete` the three parts of release.
A handle's `shared_ptr` counts from `Register` to `Delete`; the temporary that
`weak_ptr::lock` makes inside the critical section is not visible outside it. That
handles are stacked per thread, on one session, is how the callers use them
(`LifecycleLockScope`, and the guard of `stream_api_execute`).
The mapping `holding` forgets handles that wait or are being released.

### Lifecycle

`frames[t]` is the stack of calls of `stream_session_cleanup` in thread `t`: a stop
removes the bug, and FreeSWITCH runs the CLOSE callback, and with it a nested cleanup,
inside the removal. The lock is `SessionLock`'s `Acquire` and `Release`.

From FreeSWITCH the model takes what the code and its comments rely on:
- media callbacks run under the read lock of the session's bug list; adding, removing
  and pruning take the write lock, unlink the bug, and run its CLOSE callback after the
  write lock was given back;
- removal fails when somebody else has unlinked the bug, and may be refused otherwise
  (the comment at glue 1683);
- a callback that returns `SWITCH_FALSE` has its bug pruned by the thread that ran it;
- a channel that is down refuses new bugs and removes all that are linked.

`LockMayFail` lets the allocation in a cleanup's lock fail. It is TRUE in the safety run.
It is FALSE in the liveness run, because a CLOSE callback that cannot get the lock does
nothing and the stream stays: the code has no retry.

### StreamStart, ModuleLoad and Api

`Api` is one session's view of the module: loading it, then one command after the other.
`TakeCommand` brings a command, `LocateSession` and `LockLifecycle` may fail, `Accept` and
`Refuse` are the checks of the switch, an action for each kind of command executes it,
`Release` is `release_session`, and `Reply` writes the status. A start runs the steps of
`StreamStart`, between which module events may come but no callback: those interleavings
are `Lifecycle`'s. Steps of a callback, `CloseCallback` and `SendAudio`, are there because
they end a stream and put audio on the wire.

A word of a command line is one of the kinds that the parser tells apart, a URI its
scheme and characters, a text its bytes. `Memory` adds the terminator, behind which the
UTF-8 check must not look. The checks are written as the loops are, by where they stop;
next to each is the definition it is compared with (`IsWsUri`, `IsUtf8`, `Carries`,
`Reading`), which is written from the standard or README and shares nothing with it
but the sets of characters, the number of a port, the spellings of `mute_user` and, for
Base64, the value of a character and which characters pad. The rates are a table of what
README says the words mean. That is claimed of the arguments of `start`. Of a stop it is
claimed that its text has to be UTF-8; README wants base64, which only shows when the text is
decoded to be sent. The other commands are run as the code runs them: `mute bogus` is
executed and answered with an error, and `both` is a target README does not mention.

`json_text` is what `send_json` gives to cJSON: the decoded bytes up to the first 0, as a
string of C. What goes over the wire is `cJSON_PrintUnformatted` of the first value cJSON
parses of that; cJSON is not modelled, so the text is followed up to there and no further.

`held` are the resources a start has allocated; `Owned` is what the destruction of the
context frees, the rest is the session's memory pool. `ChannelVars` are the variables the
channel may have. Headers are a sequence of items, as in the JSON object, and a map, as in
the WebSocket library.

## 3. Runs

| run | question | bounds | states |
|---|---|---|---|
| `playback_safety` | Is the queue's accounting exact, is audio in order and complete, is a barge-in complete, and is all of it one backlog? | 6 samples, messages of 0, 2 and 3, chunks of 2, 2 barge-ins, reconnection, raw mode | 192,816 |
| `playback_terminal` | Does accepted audio leave, and does a stream closed for good play out, close the speaking state and stop? | 3 samples, 1 barge-in, no reconnection | 9,480 |
| `playback_stop_event` | Is the stop event only sent when everything was played? | 2 samples | violated |
| `playback_fresh_audio` | Does a barge-in spare audio that came after it? | 2 samples, 1 barge-in | violated |
| `lock_safety` | Is the registry current, and does it implement one lock per session? | 3 threads, 2 sessions, 5 mutexes, depth 2 | 188,131 |
| `lifecycle_safety` | Is anything used after it is freed, lost, or started twice? | 2 API threads, 3 streams | 45,417 (symmetry) |
| `lifecycle_liveness` | Do commands return, and do closes and hangups complete? | 1 API thread, 1 stream | 2,363 |
| `capture_safety` | Order, completeness and message sizes of caller audio; is old audio discarded? | buffer of 1 or 2, frames of 0, 1 or 3 samples, 2 connections, 2 commands | 2,477,214 |
| `capture_mute` | Is caller audio blocked once mute has returned? | 1 command | violated |
| `capture_residue` | Does residue stay on its connection? | 2 connections, 1 command | violated |
| `messages` | Are messages decoded, answered, and their files kept and removed as they should; is the parser's depth bounded? | 3 messages of 1 or 3 bytes, 5 bytes on each of 2 connections, depth 1, 3 names | 2,906,260 |
| `api` | Are documented commands taken and done, released on every way out, and the stream and the subclasses built in whole or not at all? | see below | 461,748 |

Five properties are conjunctions of named parts, each of which a fault breaks:
`SettingsAsDocumented` (the key's header, the size of the buffer), `ArgumentsAsDocumented`
(start, stop), `CommandsTakeEffect` (session released, `+OK` means done, `mute all`),
`Base64Carries` (both directions) and `ResidueGoesFirst` (residue flushed, mutex held until the
removal). `MsgTypeOK` has, besides the types, that a carried byte
is one of this connection and that no callback is left behind a join.

### Bounds

`Playback`: `MaxArrivals` and `MaxBargeIns`. A message of 3 with chunks of 2 is cut into a
full and a partial chunk, one of 2 is exactly a chunk; the queue bound of 4 is reached
with the second message, so the overload guard both accepts and refuses; the frame of 2
makes short frames, full frames and a fill loop that takes several turns; the buffer is
the smallest that `CapacityAssumption` allows, as any larger one drops less. Two
barge-ins allow a second one in the middle of the first. The liveness run has one
message of each kind, since no earlier message remains in the state.

`LifecycleLock`: three threads are one that holds, one that waits and one that releases.
`Mutexes` must be as many as can be referred to at once plus one. `MaxDepth` 2 nests;
the proofs need no bound.

`Lifecycle`: three streams are one that is being torn down, its successor, and one that
a start must not build. Two API threads are the one that works and the one that waits:
the lock admits only one.

`Capture`: frames of 3 wrap a buffer of 2, leave 0 or 1 sample and cause two messages;
two connections make one reconnection; two commands make mute-then-stop,
mute-then-unmute, pause-then-mute, a second mute that changes nothing and, after a stop that
was refused, another stop. `MaxSamples`
stops the run inside `stream_frame`, and `stop` ends the stream, so deadlock is not
checked in these runs.

`Messages`: messages of 1 and 3 bytes, with 3 the largest frame and 2 the largest delta:
odd sizes make and use up carries, a delta of 3 is oversized, of odd length, and shifts
what follows. Five bytes and two connections give a carry that is used, renewed and left
behind by a connection. Three names of which any may be taken are as many as there are
messages. Depth 1 has texts that are at the limit and beyond it, with strings and escapes
in between; a deeper limit adds no case, and the proofs need none. `Callback` stops at
`MaxMessages`, and `finish` ends the stream, so deadlock is not checked.

`Api`: commands that are compared with a definition (`StartCommands`: all URIs of up to 4
characters of 8 kinds, all words of up to 3 of 8 kinds after a mix type, texts at each
bound of UTF-8) come first in a behaviour, since nothing remains of them but what was
checked; texts for `send_json` (in both alphabets, padded and not, and all of 5 of four
characters) follow a command that succeeded. `Commands`, of every kind, known and unknown
targets, wrong counts, come at any time, so that any sequence of them is run.
`MaxWsUri` 14 has URIs of the limit and one more; ports have five digits around
65535. `ChannelVars` has values on both sides of each limit, and up to three headers in
every order. All steps that may fail do.

### Fairness

`Playback.FairSpec`: a message handler that has begun ends, a `write_frame` that has
begun ends (both are straight-line code and a bounded loop), and the core delivers
frames while the channel is up. Nothing is assumed about the server, the users, or how
long pauses last: liveness properties are about streams that are eventually unpaused.
`BacklogDrains` also lets the channel go down: then nobody takes what is left.

`Lifecycle.FairSpec`: weak fairness for commands, media threads and the return of
WebSocket callbacks; strong fairness for `Cleanup`, `Prune` and `HangupCloses`, which
wait for a lock others take repeatedly. The first conjunct says that the write lock of
the bug list is eventually granted if every callback keeps returning. Without it two
media threads could alternate so that one of them is always inside; in the code a frame
comes every 20 ms and takes a fraction of that. No fairness makes a command, an error or
a hangup happen.

## 4. What the runs found

1. *Stop event before everything is played.* `write_frame` finds the queue empty, then
   reads `m_response_audio_done` (glue 1603). A last delta and `output_audio.done`
   between the two make it emit `openai_speech_stop` with audio queued. The repository's
   README says the event comes when playback has fully drained.
2. *A barge-in discards newer audio.* When `speech_started` and a delta come within one
   `write_frame`, after its look at the generation, the new audio enters the buffer in
   that frame and the next one zeroes the buffer (glue 1577).
3. *Caller audio after mute.* `stream_frame` reads the mute flag before it tries the
   mutex and not again (glue 1411): a mute that runs in between returns, and a frame of
   caller audio follows.
4. *Old residue on a new connection.* Only `stream_frame` consumes the reset request. A
   mute or a stop that comes first sends the residue (glue 1010).

## 5. What is proved

`PlaybackProofs`, for all constants that satisfy `SizesAssumption`, and
`CapacityAssumption` where a chunk must fit:

| theorem | says |
|---|---|
| `TypeCorrect` | the type invariant, with the bound of the backlog, `MaxQueue` |
| `QueueIsExact` | the counter is the audio in the queue |
| `ChunksAlwaysFit` | the branch that drops a chunk is dead |
| `PlayoutIsOrdered` | order, no duplicates |
| `BargeInIsComplete` | nothing older than a barge-in survives it |
| `NothingIsLost` | without a barge-in nothing is dropped |
| `TeardownAfterPlayout` | teardown is asked for with everything played |

The core is `QueueInv` (exact queue, chunks not empty and at most `MaxChunk`, counter at
most `MaxQueue`) with `RestTypeOK`. It is inductive by the lemmas on `Chunks`: what push
appends is an unbroken run of the new samples. `QueueExact` alone is not inductive, since
a pop needs the next chunk to be well formed. Order and barge-in add that the buffer is
older than the queue and, for each place `write_frame` can be in, what it may still
contain. `TeardownAfterPlayout` needs to know that after `m_terminal_close` is visible
no push is possible, and that a snapshot that is TRUE was taken after that.
`ChunksAlwaysFit` is a property no run checks on its own: a chunk that did not fit would be
lost, which `NoLossWithoutBargeIn` would show.

`PlaybackRefinement` proves `PlaybackImplementsBacklog`, `Spec => ImplementsBacklog`.
`BacklogInv` says that the queue holds exactly the samples from the one after the last
popped to `arrived`, and that chunks, and samples in the buffer, are ordered pair by pair:
neighbours are not enough where a step has to know that what leaves is older than all that
stays. `ChunksCover` finds the chunk of a sample by a division, which takes the place of
an induction over the chunks. Then each step maps: a push to `Accept`, the clear of the
queue to `BargeIn`, `ConsumePlaybackClear` to `Discard`, `Emit` to `Take`; a pop moves a
chunk within `Waiting` and is a stutter.

`LifecycleLockProofs`, for any sets of threads, sessions and mutexes and any depth:
`TypeCorrect`, `RegistryIsCurrent`, `Exclusion` and `Refinement`. The inductive invariant is the type
invariant, `RegistryCurrent` (a held or awaited handle is on the mutex its session's
entry names) and `MutexOwned` (a mutex has handles of one session, and is locked by one
thread). Mutual exclusion per session follows: two locked handles of one session are on
the one mutex the entry names.

`Refinement` proves `Spec => ImplementsSessionLock` from the same invariant. What a
thread holds in the abstract lock is `Names`, the sessions of its first `Depth` handles.
`Lock` appends the newest (`Acquire`), `Unlock` drops it (`Release`); `Register`,
`AcquireFails`, `Unregister` and `Delete` leave the prefix as it is and are stutters. That
nobody else holds the session when `Lock` acquires it is `RegistryCurrent` again.

`MessagesProofs` begins with `RawAudio`, for any sizes and limits: `TypeCorrect` and
`DecodingIsStreamwise`.
The samples alone are not inductive: `CarryIsLastByte` says that a byte is carried exactly
when the accepted bytes are odd, and that it is the last of them. What is stitched
together is then the rest of the stream after its whole samples (`StitchedIsRest`), and
its pairs are the next samples.

Then `Messages`, for any sizes, limits, depth, names and number of messages:

| theorem | says |
|---|---|
| `MessagesImplementRawAudio` | `MsgSpec => Spec` of `RawAudio` |
| `MessagesTypeCorrect` | `MsgTypeOK` |
| `ParserDepthIsBounded` | `DepthGuard` |
| `SamplesStayAligned` | `SamplesAligned` |
| `TextsAreAnswered` | `EveryTextAnswered`: a delta is reported exactly when it made no samples |
| `FilesAreRemoved`, `PlayEventsNameTheirFile`, `OthersKeepTheirFiles` | the properties of files |

`TextInv`: as long as the parser runs, both readers agree on whether they are in a string
and the count is the depth of the stack; when the parser has stopped it was within the
limit. `Control`: while the callback has audio in hand it is the audio that arrives next,
which makes both conversions steps of `RawAudio`, and gives the theorems about `RawAudio` to
`Messages`. `Align`: unless an odd number of bytes was dropped, accepted bytes have the
parity of their place. `Answers` and `Files` say of the message in hand what has to hold
when it is logged; `Files` adds that what the disk holds of this stream is what will be
removed, and that the file being written is newer than all that were announced.

`LifecycleProofs`, for any sets of threads and streams, with `LockMayFail` or without:
`TypeCorrect`, `NoUseAfterFreeHolds`, `StreamReachableHolds` and `OneWebSocketHolds`. None of
the three is inductive, since each speaks of moments at which the work of one thread is
done, and a step needs to know what the others have under way. `Locking` says that a
thread holds the lifecycle lock exactly as often as its command and its cleanups took
it, so that only one thread works on the session. `CommandKnows` and `CleanupKnows` say,
for each place a command or a cleanup can be in, what that thread knows of the stream it
works on: a thread that has found a stream and not yet finished it has it live and to
itself. `FrameShape` bounds a cleanup's stack to the removal and the CLOSE callback inside
it. `Attached` ties a linked bug, or one whose CLOSE callback has not begun, to a stream
that is live; `Reached` says where a live stream can be found from, and `OneCloser` that a
bug is closed by one thread. The proof has a lemma for every action, and lemmas for what
a step, a call and a return make of a stack and of the lock.

`CaptureProofs`, for any frame length, numbers of packets and frame sizes of the resampler:

| theorem | says |
|---|---|
| `TypeCorrect` | the type invariant; the buffer is never full between two steps |
| `SentInOrderHolds` | order, no duplicates |
| `NothingLostWhileConnectedHolds` | until the connection drops every sample read is sent or buffered |
| `FullMessagesHolds` | messages of `stream_frame` are full buffers |
| `ResidueGoesFirstHolds` | silence and the final text come behind all audio read before and ahead of all read later; nothing is sent between a stop's last message and the removal, or its refusal |
| `ResidueDiscardedHolds` | `ResidueDiscarded`, an action property |

`MessagesCut` is the core: for audio of any length in a buffer of any size, what the loop
of `stream_frame` sends and keeps is the audio, cut into full buffers and one rest that is
shorter. `Stretch` finds the buffer of a sample by a division, which takes the place of
an induction over the messages. Every step that sends is then an `Emits`: it hands over some
audio that is newer than what went before, and four lemmas carry order, completeness,
sizes and marks over any such step. `Ordered` and `Kept` add to the properties that no
sample is newer than `next`, `Locks` ties the places in the code to the mutex, and
`Fresh` says that without a reset request the buffer is of this connection, which is what
`ResidueDiscarded` rests on.

`ApiProofs`, for any names of subclasses, channel variables, commands and limits that the
assumptions allow:

| theorem | says |
|---|---|
| `TypeCorrect` | `ApiTypeOK`; commands run in a loaded module, with session and lock at hand |
| `SubclassesAllOrNothingHolds` | all subclasses are reserved or none |
| `StreamAllOrNothingHolds` | a start that fails anywhere leaves nothing, a stream that callbacks reach has all |
| `SettingsAsDocumentedHolds` | the key's header takes precedence, the others are sent, the buffer has its size |
| `CommandsTakeEffectHolds` | session and lock released, `+OK` means done, mutes as asked |
| `ArgumentsAsDocumentedHolds` | a start is taken exactly with the arguments README describes and with what they mean, a stop's text exactly when it is UTF-8 |
| `Base64CarriesHolds` | what `send_json` gives to cJSON is what its text carries up to a 0 byte; the audio of a frame goes out as Base64 that carries it; for texts and frames of any length |

`Building` ties the step of a start to how far its bug is; without it `StreamAllOrNothing`
does not survive a failed allocation. `Configured` says that the settings come from one
reading of the variables and from parameters that passed the checks. `Answer` says what a
command holds and has written at each of its stages, and that one that succeeds still
holds the lock: no callback undoes a command before its reply. The headers are a map built
from a list of any length; `MappedHeader` picks the last item of a name, by `Largest`: of the
numbers up to a bound that have a property one is the largest. It follows from the
well-founded order on numbers and takes the place of an induction.

`Checked` gives the last two what they compare: it says that the command in hand is a line of
words and bytes or has been cleared, and that it stands where it does because of its
checks. `AcceptedWords` and `ReadingsAccepted` then compare the word by word reading of
`start` with the ways a line can be meant, and `ProtocolProofs` does the rest. `Carried` says
of `send_json` and `stream_frame` what they have decoded and written, and `CutCarries` that
to cut bytes at their first 0 is to cut what carries them there.

`ProtocolProofs`, for texts of any length:

| theorem | says |
|---|---|
| `UrisAreChecked` | `ValidateWsUri` takes exactly what `IsWsUri` describes |
| `Utf8IsChecked` | `IsValidUtf8` takes exactly the encodings of scalar values |
| `AudioEncoded` | what `Base64Encode` makes is Base64 and carries the bytes |
| `TextDecoded` | `Base64Decode` takes every Base64 text, and returns the bytes it carries |

These are functions of texts of any length, where one expects an induction. The loops of
`ValidateWsUri` look for a first place, which `EndFound` finds as the smallest of a set. The
scan of `IsValidUtf8` and the definition of UTF-8 are both predicates of a place that
hold if they hold at the places it leads to: such a predicate exists (`BackwardExists`: as
the least set that is closed under those steps) and there is only one (`BackwardUnique`: two
would differ at a last place, and agree on all that it leads to). So they are equal as soon
as a step of one is a step of the other, which is a matter of at most four bytes
(`CharacterIsTaken`, `TakenIsCharacter`). The codec puts chunks one after the other:
`FlatIs` says where each of them ends up, again by a smallest counterexample. Within a
chunk it is arithmetic on three bytes and four characters (`SplitJoined`, `Joined`), and
`CarriesJoined` turns that into a statement about each single bit. `Carries` knows nothing
of chunks, so a codec that lost its place would not satisfy it.

Only model-checked: the liveness properties (`TerminalStreamStops`, `SpeechStopFires`,
`BacklogDrains`, `CommandsComplete`, `CloseCompletes`, `HangupReleases`), which are beyond the
installed provers. Every invariant that a passing run checks is a theorem. The four
properties the code violates are shown by TLC's counterexamples.

## 6. What is not modelled

- Settings that are only passed through to the WebSocket library (TLS, deflate, logging).
  Reconnection, raw mode and the switch for debug files are constants or variables of
  the modules they act in.
- What cJSON does inside a value, what it prints of the one that `send_json` sends, and its
  allocation failures. The decoder takes some texts
  that are not Base64; nothing is claimed of those. Line breaks of PEM and MIME in
  `base64.cpp` are not used by the module.
- Removal of a debug file is taken to succeed; the code logs nothing and has no retry.
- Binary frames outside raw mode change nothing and are left out of `Messages`.
- The unloading of a module with streams: FreeSWITCH decides when, and nothing here prevents
  or serves it. `Api` only unloads without a stream.
- A stale entry may stay in the lock registry (glue 864) until its session id returns: no
  document promises that the registry shrinks, and `RegistryCurrent` shows it harmless.
- The contents of events and logs; whether an event is forwarded does not feed back.
- The WebSocket library below its callbacks, FreeSWITCH below the rules of section 2,
  the resamplers below their sample counts.
- Tests and build files were read as statements of what the module promises.

## 7. Plan

The order was: playback (the largest shared state and the most interleavings), the lock
that everything else relies on, the lifecycle on top of the lock's specification, the
capture path, the decoding of received bytes, the message callback around it, and the
commands with their checks; then the invariants of each, in the same order. Left: a
specification of what a session promises its user, over all of start, stop and hangup,
that `Lifecycle` implements.
