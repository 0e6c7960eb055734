----------------------------- MODULE Lifecycle -----------------------------
(***************************************************************************)
(* The life of the streams of one FreeSWITCH session: API commands start,  *)
(* use and stop a stream while media threads run its bug's callbacks, the  *)
(* WebSocket thread asks for its teardown and the channel hangs up.  The   *)
(* lifecycle lock is SessionLock, which LifecycleLock implements.          *)
(***************************************************************************)
EXTENDS Naturals, Sequences, FiniteSets

CONSTANTS
    Api,          \* threads that execute API commands
    Reader,       \* the media thread that runs SWITCH_ABC_TYPE_READ
    Writer,       \* the media thread that runs SWITCH_ABC_TYPE_WRITE_REPLACE
    Core,         \* the thread that hangs the channel up
    Nobody,       \* no thread
    MaxStreams,   \* bound: streams started on the session
    LockMayFail   \* acquire_lifecycle_lock may run out of memory in a CLOSE callback

Media == {Reader, Writer}
Threads == Api \union Media \union {Core}
Streams == 1..MaxStreams
None == 0

ASSUME ThreadsAssumption ==
    /\ Reader # Writer /\ Core \notin Api \union Media /\ Api \intersect Media = {}
    /\ Nobody \notin Threads
ASSUME BoundAssumption == MaxStreams \in Nat /\ LockMayFail \in BOOLEAN

VARIABLES
    holding,   \* the lifecycle lock, see SessionLock
    private,   \* the channel private MY_BUG_NAME: the stream of the bug it points to
    bugs,      \* the streams whose media bug is linked in the session
    prune,     \* linked bugs with SMBF_PRUNE
    inside,    \* inside[m]: the stream whose callback media thread m runs, under the read lock
    ctx,       \* ctx[g]: private_t of stream g
    ws,        \* ws[g]: its WebSocket thread
    mutex,     \* mutex[g]: the thread that holds tech_pvt->mutex
    close,     \* close_requested
    pc,        \* what each thread does
    gen,       \* gen[t]: the stream thread t works on
    frames     \* frames[t]: calls of stream_session_cleanup in thread t, innermost last

bugvars == <<private, bugs, prune, inside>>
streamvars == <<ctx, ws, mutex, close>>
vars == <<holding, bugvars, streamvars, pc, gen, frames>>

Session == 1
Lock == INSTANCE SessionLock WITH Sessions <- {Session}

Goto(t, where) == pc' = [pc EXCEPT ![t] = where]
At(t, where) == pc[t] = where /\ frames[t] = <<>>

\* The innermost cleanup of thread t, and where it goes next.
Frame(t) == frames[t][Len(frames[t])]
InCleanup(t, where) == frames[t] # <<>> /\ Frame(t).at = where
Step(t, where) == frames' = [frames EXCEPT ![t][Len(frames[t])].at = where]
Call(t, closing) == Append(frames[t], [at |-> "enter", stream |-> None, closing |-> closing])
Return(t) == frames' = [frames EXCEPT ![t] = SubSeq(@, 1, Len(@) - 1)]

\* The bug list's write lock: no callback is running.
NoCallback == \A m \in Media : inside[m] = None

Init ==
    /\ Lock!Init
    /\ private = None /\ bugs = {} /\ prune = {} /\ inside = [m \in Media |-> None]
    /\ ctx = [g \in Streams |-> "none"]
    /\ ws = [g \in Streams |-> "none"]
    /\ mutex = [g \in Streams |-> Nobody]
    /\ close = [g \in Streams |-> FALSE]
    /\ pc = [t \in Threads |-> IF t = Core THEN "up" ELSE "idle"]
    /\ gen = [t \in Api |-> None]
    /\ frames = [t \in Threads |-> <<>>]

-----------------------------------------------------------------------------
(* API commands: stream_api_execute runs each of them under the lifecycle   *)
(* lock.                                                                   *)

Command(t) ==
    /\ At(t, "idle") /\ Lock!Acquire(t, Session)
    /\ Goto(t, "command")
    /\ UNCHANGED <<bugvars, streamvars, gen, frames>>

EndCommand(t) ==
    /\ At(t, "end") /\ Lock!Release(t)
    /\ Goto(t, "idle") /\ gen' = [gen EXCEPT ![t] = None]
    /\ UNCHANGED <<bugvars, streamvars, frames>>

\* An argument check, pre_answer or the lookup of the private or codec fails.
Refuse(t) ==
    /\ At(t, "command") /\ Goto(t, "end")
    /\ UNCHANGED <<holding, bugvars, streamvars, gen, frames>>

\* A faulty variant of the next action: "bug already attached" is not checked.
StartInitUnchecked(t) ==
    /\ At(t, "command")
    /\ \E g \in Streams :
           /\ ctx[g] = "none" /\ \A h \in 1..(g - 1) : ctx[h] # "none"
           /\ gen' = [gen EXCEPT ![t] = g]
           /\ ctx' = [ctx EXCEPT ![g] = "live"]
    /\ Goto(t, "built")
    /\ UNCHANGED <<holding, bugvars, ws, mutex, close, frames>>

\* start_capture up to stream_session_init; one that fails destroys what it built.
StartInit(t) ==
    /\ At(t, "command") /\ private = None
    /\ \E g \in Streams :
           /\ ctx[g] = "none" /\ \A h \in 1..(g - 1) : ctx[h] # "none"
           /\ \/ /\ gen' = [gen EXCEPT ![t] = g]
                 /\ ctx' = [ctx EXCEPT ![g] = "live"]
                 /\ Goto(t, "built")
              \/ ctx' = [ctx EXCEPT ![g] = "freed"] /\ Goto(t, "end") /\ UNCHANGED gen
    /\ UNCHANGED <<holding, bugvars, ws, mutex, close, frames>>

\* switch_core_media_bug_add; a channel that is down refuses it.
StartAddBug(t) ==
    /\ At(t, "built")
    /\ \/ pc[Core] = "up" /\ NoCallback /\ bugs' = bugs \union {gen[t]} /\ Goto(t, "added") /\ UNCHANGED ctx
       \/ ctx' = [ctx EXCEPT ![gen[t]] = "freed"] /\ Goto(t, "end") /\ UNCHANGED bugs
    /\ UNCHANGED <<holding, private, prune, inside, ws, mutex, close, gen, frames>>

StartPublish(t) ==
    /\ At(t, "added")
    /\ private' = gen[t] /\ Goto(t, "published")
    /\ UNCHANGED <<holding, bugs, prune, inside, streamvars, gen, frames>>

\* stream_session_start: the WebSocket thread starts, or the stream is cleaned up.
StartWebSocket(t) ==
    /\ At(t, "published")
    /\ \/ ws' = [ws EXCEPT ![gen[t]] = "idle"] /\ UNCHANGED frames
       \/ frames' = [frames EXCEPT ![t] = Call(t, FALSE)] /\ UNCHANGED ws
    /\ Goto(t, "end")
    /\ UNCHANGED <<holding, bugvars, ctx, mutex, close, gen>>

Stop(t) ==
    /\ At(t, "command") /\ Goto(t, "end")
    /\ frames' = [frames EXCEPT ![t] = Call(t, FALSE)]
    /\ UNCHANGED <<holding, bugvars, streamvars, gen>>

\* send_json, pause, resume, unmute, mute openai: use the stream the private names.
UseStream(t) ==
    /\ At(t, "command") /\ private # None
    /\ gen' = [gen EXCEPT ![t] = private] /\ Goto(t, "using")
    /\ UNCHANGED <<holding, bugvars, streamvars, frames>>

\* mute user: sends the residue and silence under tech_pvt->mutex.
MuteUser(t) ==
    /\ At(t, "using") /\ mutex[gen[t]] = Nobody
    /\ mutex' = [mutex EXCEPT ![gen[t]] = t] /\ Goto(t, "muting")
    /\ UNCHANGED <<holding, bugvars, ctx, ws, close, gen, frames>>

EndUse(t) ==
    /\ At(t, "using") \/ At(t, "muting")
    /\ mutex' = [mutex EXCEPT ![gen[t]] = IF @ = t THEN Nobody ELSE @] /\ Goto(t, "end")
    /\ UNCHANGED <<holding, bugvars, ctx, ws, close, gen, frames>>

-----------------------------------------------------------------------------
(* stream_session_cleanup, in whatever thread runs it.                      *)

Enter(t) ==
    /\ InCleanup(t, "enter") /\ Lock!Acquire(t, Session)
    /\ Step(t, "find")
    /\ UNCHANGED <<bugvars, streamvars, pc, gen>>

\* The scope could not allocate its handle: a CLOSE callback does nothing.
EnterFails(t) ==
    /\ InCleanup(t, "enter") /\ LockMayFail /\ Return(t)
    /\ UNCHANGED <<holding, bugvars, streamvars, pc, gen>>

Find(t) ==
    /\ InCleanup(t, "find")
    /\ IF private = None
       THEN Step(t, "leave")
       ELSE frames' = [frames EXCEPT ![t][Len(frames[t])] =
                            [@ EXCEPT !.at = "lock", !.stream = private]]
    /\ UNCHANGED <<holding, bugvars, streamvars, pc, gen>>

\* tech_pvt->mutex is a nested mutex.  The residue and the final JSON go out.
LockContext(t) ==
    /\ InCleanup(t, "lock") /\ mutex[Frame(t).stream] \in {Nobody, t}
    /\ mutex' = [mutex EXCEPT ![Frame(t).stream] = t]
    /\ Step(t, "detach")
    /\ UNCHANGED <<holding, bugvars, ctx, ws, close, pc, gen>>

\* A faulty variant of the next action: the private is not reset.
DetachLeavesPrivate(t) ==
    /\ InCleanup(t, "detach")
    /\ Step(t, IF Frame(t).closing THEN "finish" ELSE "remove")
    /\ UNCHANGED <<holding, bugvars, streamvars, pc, gen>>

Detach(t) ==
    /\ InCleanup(t, "detach")
    /\ private' = None
    /\ Step(t, IF Frame(t).closing THEN "finish" ELSE "remove")
    /\ UNCHANGED <<holding, bugs, prune, inside, streamvars, pc, gen>>

\* switch_core_media_bug_remove unlinks the bug and runs its CLOSE callback in here.
Remove(t) ==
    /\ InCleanup(t, "remove") /\ NoCallback /\ Frame(t).stream \in bugs
    /\ bugs' = bugs \ {Frame(t).stream} /\ prune' = prune \ {Frame(t).stream}
    /\ frames' = [frames EXCEPT ![t] =
                      Append([@ EXCEPT ![Len(frames[t])].at = "finish"],
                             [at |-> "enter", stream |-> None, closing |-> TRUE])]
    /\ UNCHANGED <<holding, private, inside, streamvars, pc, gen>>

\* A faulty variant of the next action: the private is not restored.
RemoveFailsForgets(t) ==
    /\ InCleanup(t, "remove") /\ NoCallback
    /\ mutex' = [mutex EXCEPT ![Frame(t).stream] = Nobody]
    /\ Step(t, "leave")
    /\ UNCHANGED <<holding, bugvars, ctx, ws, close, pc, gen>>

\* Removal is refused, as it must be when a prune or a hangup has unlinked the bug.
RemoveFails(t) ==
    /\ InCleanup(t, "remove") /\ NoCallback
    /\ private' = Frame(t).stream
    /\ mutex' = [mutex EXCEPT ![Frame(t).stream] = Nobody]
    /\ Step(t, "leave")
    /\ UNCHANGED <<holding, bugs, prune, inside, ctx, ws, close, pc, gen>>

\* A faulty variant of the next action: the streamer is deleted without the join.
FinishUnjoined(t) ==
    LET g == Frame(t).stream
    IN  /\ InCleanup(t, "finish")
        /\ ws' = [ws EXCEPT ![g] = IF @ = "callback" THEN @ ELSE "gone"]
        /\ ctx' = [ctx EXCEPT ![g] = "finished"]
        /\ mutex' = [mutex EXCEPT ![g] = Nobody]
        /\ Step(t, "destroy")
        /\ UNCHANGED <<holding, bugvars, close, pc, gen>>

\* finish: stop and join the WebSocket thread, delete the streamer; then unlock.
Finish(t) ==
    LET g == Frame(t).stream
    IN  /\ InCleanup(t, "finish") /\ ws[g] # "callback"
        /\ ws' = [ws EXCEPT ![g] = "gone"]
        /\ ctx' = [ctx EXCEPT ![g] = "finished"]
        /\ mutex' = [mutex EXCEPT ![g] = Nobody]
        /\ Step(t, "destroy")
        /\ UNCHANGED <<holding, bugvars, close, pc, gen>>

\* destroy_tech_pvt: resampler, mutex and buffers go.
Destroy(t) ==
    /\ InCleanup(t, "destroy")
    /\ ctx' = [ctx EXCEPT ![Frame(t).stream] = "freed"]
    /\ Step(t, "leave")
    /\ UNCHANGED <<holding, bugvars, ws, mutex, close, pc, gen>>

\* A faulty variant of the next action: a return path without the unlock.
LeaveLocked(t) ==
    /\ InCleanup(t, "leave") /\ Return(t)
    /\ UNCHANGED <<holding, bugvars, streamvars, pc, gen>>

Leave(t) ==
    /\ InCleanup(t, "leave") /\ Lock!Release(t) /\ Return(t)
    /\ UNCHANGED <<bugvars, streamvars, pc, gen>>

Cleanup(t) ==
    \/ Enter(t) \/ EnterFails(t) \/ Find(t) \/ LockContext(t) \/ Detach(t) \/ Remove(t)
    \/ RemoveFails(t) \/ Finish(t) \/ Destroy(t) \/ Leave(t)

-----------------------------------------------------------------------------
(* Media threads: FreeSWITCH runs the callbacks under the read lock of the  *)
(* bug list, and prunes a bug whose callback returned SWITCH_FALSE.         *)

FrameBegins(m) ==
    /\ At(m, "idle")
    /\ \E g \in bugs : inside' = [inside EXCEPT ![m] = g]
    /\ Goto(m, "callback")
    /\ UNCHANGED <<holding, private, bugs, prune, streamvars, gen, frames>>

\* capture_callback: close_requested makes the callback return SWITCH_FALSE.
ClosePending(m) ==
    /\ At(m, "callback") /\ close[inside[m]]
    /\ prune' = prune \union {inside[m]} /\ inside' = [inside EXCEPT ![m] = None]
    /\ Goto(m, "prune")
    /\ UNCHANGED <<holding, private, bugs, streamvars, gen, frames>>

\* stream_frame locks tech_pvt->mutex with trylock; write_frame locks nothing.
FrameLocks(m) ==
    /\ At(m, "callback") /\ ~close[inside[m]]
    /\ m = Reader => mutex[inside[m]] = Nobody
    /\ mutex' = IF m = Reader THEN [mutex EXCEPT ![inside[m]] = m] ELSE mutex
    /\ Goto(m, "body")
    /\ UNCHANGED <<holding, bugvars, ctx, ws, close, gen, frames>>

\* A faulty variant of the next action: stream_frame waits for the mutex.
FrameWaits(m) ==
    /\ At(m, "callback") /\ ~close[inside[m]]
    /\ m = Reader => mutex[inside[m]] = Nobody
    /\ inside' = [inside EXCEPT ![m] = None] /\ Goto(m, "idle")
    /\ UNCHANGED <<holding, private, bugs, prune, streamvars, gen, frames>>

\* The lock is taken, or the stream is paused or muted: nothing to do.
FrameSkips(m) ==
    /\ At(m, "callback") /\ ~close[inside[m]]
    /\ inside' = [inside EXCEPT ![m] = None] /\ Goto(m, "idle")
    /\ UNCHANGED <<holding, private, bugs, prune, streamvars, gen, frames>>

\* The frame is done; write_frame may have drained a stream that is closed for good.
FrameEnds(m) ==
    /\ At(m, "body")
    /\ mutex' = [mutex EXCEPT ![inside[m]] = IF @ = m THEN Nobody ELSE @]
    /\ \/ UNCHANGED close
       \/ m = Writer /\ ws[inside[m]] # "none" /\ close' = [close EXCEPT ![inside[m]] = TRUE]
    /\ inside' = [inside EXCEPT ![m] = None] /\ Goto(m, "idle")
    /\ UNCHANGED <<holding, private, bugs, prune, ctx, ws, gen, frames>>

\* switch_core_media_bug_prune: unlink one marked bug, then run its CLOSE callback.
Prune(m) ==
    /\ At(m, "prune") /\ NoCallback
    /\ \/ \E g \in prune : /\ bugs' = bugs \ {g} /\ prune' = prune \ {g}
                           /\ frames' = [frames EXCEPT ![m] = Call(m, TRUE)]
                           /\ UNCHANGED pc
       \/ prune = {} /\ Goto(m, "idle") /\ UNCHANGED <<bugs, prune, frames>>
    /\ UNCHANGED <<holding, private, inside, streamvars, gen>>

-----------------------------------------------------------------------------
(* The WebSocket thread of stream g, and the hangup.                        *)

CallbackBegins(g) ==
    /\ ws[g] = "idle" /\ ws' = [ws EXCEPT ![g] = "callback"]
    /\ UNCHANGED <<holding, bugvars, ctx, mutex, close, pc, gen, frames>>

\* CONNECT_ERROR without reconnection asks for the teardown of this generation.
CallbackEnds(g) ==
    /\ ws[g] = "callback" /\ ws' = [ws EXCEPT ![g] = "idle"]
    /\ close' \in {close, [close EXCEPT ![g] = TRUE]}
    /\ UNCHANGED <<holding, bugvars, ctx, mutex, pc, gen, frames>>

Hangup ==
    /\ pc[Core] = "up" /\ Goto(Core, "hangup")
    /\ UNCHANGED <<holding, bugvars, streamvars, gen, frames>>

\* switch_core_media_bug_remove_all: unlink each bug and run its CLOSE callback.
HangupCloses ==
    /\ At(Core, "hangup") /\ NoCallback
    /\ \/ \E g \in bugs : /\ bugs' = bugs \ {g} /\ prune' = prune \ {g}
                          /\ frames' = [frames EXCEPT ![Core] = Call(Core, TRUE)]
                          /\ UNCHANGED pc
       \/ bugs = {} /\ Goto(Core, "down") /\ UNCHANGED <<bugs, prune, frames>>
    /\ UNCHANGED <<holding, private, inside, streamvars, gen>>

-----------------------------------------------------------------------------
ApiStep(t) ==
    \/ EndCommand(t) \/ Refuse(t) \/ StartInit(t) \/ StartAddBug(t) \/ StartPublish(t)
    \/ StartWebSocket(t) \/ Stop(t) \/ UseStream(t) \/ MuteUser(t) \/ EndUse(t)

FrameStep(m) ==
    FrameBegins(m) \/ ClosePending(m) \/ FrameLocks(m) \/ FrameSkips(m) \/ FrameEnds(m) \/ Prune(m)

Next ==
    \/ \E t \in Api : Command(t) \/ ApiStep(t)
    \/ \E m \in Media : FrameStep(m)
    \/ \E g \in Streams : CallbackBegins(g) \/ CallbackEnds(g)
    \/ Hangup \/ HangupCloses
    \/ \E t \in Threads : Cleanup(t)

Spec == Init /\ [][Next]_vars

\* A thread that can run runs; one that waits for a lock that is free again and
\* again gets it; media frames keep coming while a bug is linked; a WebSocket
\* callback returns.  Commands, callbacks, errors and the hangup may never come.
\* Media callbacks that keep returning leave gaps: a frame takes 20 ms to come.
Fairness ==
    /\ (\A m \in Media : []<>(inside[m] = None)) => []<>NoCallback
    /\ \A t \in Api : WF_vars(ApiStep(t))
    /\ \A m \in Media : WF_vars(FrameStep(m)) /\ SF_vars(Prune(m))
    /\ \A g \in Streams : WF_vars(CallbackEnds(g))
    /\ SF_vars(HangupCloses)
    /\ \A t \in Threads : SF_vars(Cleanup(t))

FairSpec == Spec /\ Fairness

-----------------------------------------------------------------------------
CleanupFrame ==
    [at : {"enter", "find", "lock", "detach", "remove", "finish", "destroy", "leave"},
     stream : Streams \union {None}, closing : BOOLEAN]

\* The types; a thread nests the lifecycle lock three deep at most: the command, its
\* cleanup, and the cleanup of the CLOSE callback that the removal runs.
TypeOK ==
    /\ holding \in [Threads -> Seq({Session})] /\ \A t \in Threads : Len(holding[t]) <= 3
    /\ private \in Streams \union {None}
    /\ bugs \in SUBSET Streams /\ prune \in SUBSET Streams
    /\ inside \in [Media -> Streams \union {None}]
    /\ ctx \in [Streams -> {"none", "live", "finished", "freed"}]
    /\ ws \in [Streams -> {"none", "idle", "callback", "gone"}]
    /\ mutex \in [Streams -> Threads \union {Nobody}]
    /\ close \in [Streams -> BOOLEAN]
    /\ pc \in [Threads -> {"up", "hangup", "down", "idle", "callback", "body", "prune", "command",
                           "built", "added", "published", "using", "muting", "end"}]
    /\ gen \in [Api -> Streams \union {None}]
    /\ frames \in [Threads -> Seq(CleanupFrame)]

LockFree == \A t \in Threads : holding[t] = <<>>

\* A media callback, a WebSocket callback, an API command or a cleanup only works on
\* a stream whose streamer is there, and a context is destroyed once, after its
\* streamer and with its mutex unlocked.
NoUseAfterFree ==
    /\ \A m \in Media : inside[m] # None => ctx[inside[m]] = "live"
    /\ \A g \in Streams : /\ ws[g] = "callback" => ctx[g] = "live"
                          /\ mutex[g] # Nobody => ctx[g] = "live"
    /\ \A t \in Api : pc[t] \in {"built", "added", "published", "using", "muting"} => ctx[gen[t]] = "live"
    /\ \A t \in Threads : \A i \in 1..Len(frames[t]) :
           LET f == frames[t][i]
           IN  /\ f.at \in {"lock", "detach", "remove", "finish"} => ctx[f.stream] = "live"
               /\ f.at = "destroy" => ctx[f.stream] = "finished"

\* Between commands the channel private names the one live stream, whose bug alone
\* may be linked: no stream is lost to stop, none is left behind, however stops,
\* prunes and the hangup overlap.
StreamReachable ==
    LockFree => /\ \A g \in Streams : ctx[g] = "live" <=> private = g
                /\ bugs \subseteq {private}

\* A session never has two WebSocket threads: a new stream connects after the
\* thread of the previous one was joined.
OneWebSocket ==
    \A g, h \in Streams : ws[g] \in {"idle", "callback"} /\ ws[h] \in {"idle", "callback"} => g = h

\* Every API command returns: the stop that waits for media callbacks holding the
\* lifecycle lock and tech_pvt->mutex is never waited for by one of them.
CommandsComplete == \A t \in Api : pc[t] # "idle" ~> pc[t] = "idle"

\* A stream whose close was requested is torn down.
CloseCompletes == \A g \in Streams : close[g] ~> ctx[g] = "freed"

\* A hangup tears down whatever stream there is, even one that is being started.
HangupReleases ==
    pc[Core] = "hangup" ~> [](private = None /\ bugs = {} /\ \A g \in Streams : ws[g] \in {"none", "gone"})
=============================================================================
