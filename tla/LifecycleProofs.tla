-------------------------- MODULE LifecycleProofs --------------------------
(* Theorems about Lifecycle, for any threads and any number of streams. *)
EXTENDS Lifecycle, TLAPS, SequenceTheorems

\* The outermost cleanup of thread t is at one of these steps.
Outer(t, steps) == frames[t] # <<>> /\ frames[t][1].at \in steps

\* A thread owns a stream that the private does not name: the start before it
\* publishes the stream, the cleanup once it has detached it.
Owns(t, g) ==
    \/ t \in Api /\ pc[t] \in {"built", "added"} /\ gen[t] = g
    \/ Outer(t, {"remove", "finish", "destroy"}) /\ frames[t][1].stream = g

\* A prune or the hangup has unlinked a bug and its CLOSE callback has yet to
\* tear the stream down.
Closer(t) == t \in Threads \ Api /\ Outer(t, {"enter", "find", "lock", "detach"})

\* What a thread has on its stack.  Only the removal that an API command asks for
\* runs a cleanup within a cleanup.
FrameShape(t) ==
    /\ Len(frames[t]) \in {0, 1, 2}
    /\ frames[t] # <<>> => /\ t \in Api => pc[t] = "end"
                           /\ t = Core => pc[t] = "hangup"
                           /\ frames[t][1].closing <=> t \notin Api
                           /\ frames[t][1].at = "remove" => t \in Api
    /\ Len(frames[t]) = 2 => /\ t \in Api /\ frames[t][1].at = "finish"
                             /\ frames[t][2].at \in {"enter", "find", "leave"}

\* The locks it holds for that: one for the command, one for each cleanup that is
\* past its first step.
Depth(t) ==
    (IF t \in Api /\ pc[t] # "idle" THEN 1 ELSE 0)
    + (IF frames[t] = <<>> THEN 0
       ELSE IF Frame(t).at = "enter" THEN Len(frames[t]) - 1 ELSE Len(frames[t]))

Locking ==
    /\ \A t, u \in Threads : holding[t] # <<>> /\ holding[u] # <<>> => t = u
    /\ \A t \in Threads : Len(holding[t]) = Depth(t)

\* No stream but the one thread t is building or has torn down.
Alone == private = None /\ bugs = {} /\ \A u \in Threads : ~Closer(u)

\* What an API command knows of the stream it works on.
CommandKnows(t) ==
    /\ pc[t] \in {"built", "added"} => gen[t] \in Streams /\ ctx[gen[t]] = "live" /\ private = None
    /\ pc[t] = "built" => /\ Alone /\ mutex[gen[t]] = Nobody
                          /\ ws[gen[t]] \notin {"idle", "callback"}
    /\ pc[t] \in {"published", "using", "muting"} => gen[t] = private /\ private # None

\* What a cleanup knows of it.
CleanupKnows(t) ==
    /\ Outer(t, {"lock", "detach"}) => frames[t][1].stream = private /\ private # None
    /\ Outer(t, {"remove"}) => /\ frames[t][1].stream \in Streams
                               /\ ctx[frames[t][1].stream] = "live" /\ private = None
    /\ Outer(t, {"finish"}) => /\ frames[t][1].stream \in Streams
                               /\ ctx[frames[t][1].stream] = "live" /\ Alone
    /\ Outer(t, {"destroy"}) => /\ frames[t][1].stream \in Streams
                                /\ ctx[frames[t][1].stream] = "finished" /\ Alone

\* A bug, a callback, a WebSocket thread and a locked mutex are those of a live stream.
Attached ==
    /\ private # None => ctx[private] = "live"
    /\ prune \subseteq bugs
    /\ \A g \in bugs : ctx[g] = "live"
    /\ \A m \in Media : /\ inside[m] # None => inside[m] \in bugs
                        /\ pc[m] \in {"callback", "body"} => inside[m] # None
    /\ \A g \in Streams : ws[g] \in {"idle", "callback"} \/ mutex[g] # Nobody => ctx[g] = "live"

\* No stream is lost: the private names it or the thread that holds the lock owns it.
Reached ==
    \A g \in Streams : ctx[g] \in {"live", "finished"} => private = g \/ \E t \in Threads : Owns(t, g)

\* One teardown is pending at most, it is that of a stream that is still live, and
\* no bug is linked until it is over.
OneCloser ==
    /\ \A t, u \in Threads : Closer(t) /\ Closer(u) => t = u
    /\ \A t \in Threads : Closer(t) => bugs = {} /\ \E g \in Streams : ctx[g] = "live"

IInv ==
    /\ TypeOK /\ Locking /\ Attached /\ Reached /\ OneCloser
    /\ \A t \in Threads : FrameShape(t) /\ CleanupKnows(t)
    /\ \A t \in Api : CommandKnows(t)

-----------------------------------------------------------------------------
(* What a cleanup's stack is, and what a step, a call and a return make of it. *)

\* The steps of a cleanup.
Ats == {"enter", "find", "lock", "detach", "remove", "finish", "destroy", "leave"}

\* A thread in a cleanup has one frame on its stack, or two with the outer one at
\* finish.
LEMMA FrameCases ==
    ASSUME TypeOK, NEW t \in Threads, FrameShape(t), frames[t] # <<>>
    PROVE  /\ frames[t] \in Seq(CleanupFrame) /\ frames[t][1] \in CleanupFrame
           /\ Frame(t) \in CleanupFrame
           /\ \/ Len(frames[t]) = 1 /\ Frame(t) = frames[t][1]
              \/ /\ Len(frames[t]) = 2 /\ Frame(t) = frames[t][2]
                 /\ frames[t][1].at = "finish" /\ Frame(t).at \in {"enter", "find", "leave"}
<1>1. frames[t] \in Seq(CleanupFrame)
  BY DEF TypeOK
<1>2. Len(frames[t]) \in Nat \ {0}
  BY <1>1, EmptySeq
<1>3. Len(frames[t]) \in {1, 2}
  BY <1>2 DEF FrameShape
<1>4. frames[t][1] \in CleanupFrame /\ frames[t][Len(frames[t])] \in CleanupFrame
  BY <1>1, <1>3, ElementOfSeq
<1> QED BY <1>1, <1>3, <1>4 DEF Frame, FrameShape

\* A step of the innermost cleanup changes its frame to f.
LEMMA StepFrame ==
    ASSUME TypeOK, NEW t \in Threads, FrameShape(t), frames[t] # <<>>, NEW f \in CleanupFrame,
           frames' = [frames EXCEPT ![t] = [frames[t] EXCEPT ![Len(frames[t])] = f]]
    PROVE  /\ frames' \in [Threads -> Seq(CleanupFrame)]
           /\ \A u \in Threads \ {t} : frames'[u] = frames[u]
           /\ frames'[t] # <<>> /\ Len(frames'[t]) = Len(frames[t])
           /\ Len(frames[t]) = 1 => frames'[t][1] = f
           /\ Len(frames[t]) = 2 => frames'[t][1] = frames[t][1] /\ frames'[t][2] = f
           /\ Frame(t)' = f
<1> DEFINE n == Len(frames[t])
<1>1. frames[t] \in Seq(CleanupFrame) /\ n \in {1, 2}
  BY FrameCases
<1>2. frames'[t] = [frames[t] EXCEPT ![n] = f]
  BY DEF TypeOK
<1>3. \A u \in Threads \ {t} : frames'[u] = frames[u]
  BY DEF TypeOK
<1>4. n \in 1..n
  BY <1>1
<1>5. /\ frames'[t] \in Seq(CleanupFrame) /\ Len(frames'[t]) = n
      /\ \A i \in 1..n : frames'[t][i] = IF i = n THEN f ELSE frames[t][i]
  <2> HIDE DEF n
  <2> QED BY <1>1, <1>2, <1>4, ExceptSeq DEF n
<1>6. frames' \in [Threads -> Seq(CleanupFrame)]
  BY <1>3, <1>5 DEF TypeOK
<1>7. frames'[t] # <<>>
  BY <1>1, <1>5, EmptySeq
<1>8. frames'[t][n] = f
  BY <1>4, <1>5
<1>9. n = 2 => frames'[t][1] = frames[t][1]
  <2>1. n = 2 => 1 \in 1..n /\ 1 # n
    OBVIOUS
  <2> HIDE DEF n
  <2> QED BY <1>5, <2>1
<1> QED BY <1>3, <1>5, <1>6, <1>7, <1>8, <1>9 DEF Frame

\* A callback of a bug that goes away, or a command, calls stream_session_cleanup.
LEMMA CallFrame ==
    ASSUME TypeOK, NEW t \in Threads, frames[t] = <<>>, NEW closing \in BOOLEAN,
           frames' = [frames EXCEPT ![t] = Call(t, closing)]
    PROVE  /\ frames' \in [Threads -> Seq(CleanupFrame)]
           /\ \A u \in Threads \ {t} : frames'[u] = frames[u]
           /\ frames'[t] # <<>> /\ Len(frames'[t]) = 1
           /\ frames'[t][1].at = "enter" /\ frames'[t][1].closing = closing
           /\ Frame(t)' = frames'[t][1]
<1> DEFINE f == [at |-> "enter", stream |-> None, closing |-> closing]
<1>1. f \in CleanupFrame
  BY DEF CleanupFrame, None
<1>2. frames'[t] = <<f>>
  BY DEF TypeOK, Call
<1>3. \A u \in Threads \ {t} : frames'[u] = frames[u]
  BY DEF TypeOK
<1>4. frames'[t] \in Seq(CleanupFrame) /\ frames'[t] # <<>> /\ Len(frames'[t]) = 1 /\ frames'[t][1] = f
  <2> HIDE DEF f
  <2>1. <<f>> \in Seq(CleanupFrame) /\ Len(<<f>>) = 1 /\ <<f>>[1] = f
    BY <1>1
  <2> QED BY <1>2, <2>1, EmptySeq
<1>5. frames' \in [Threads -> Seq(CleanupFrame)]
  BY <1>3, <1>4 DEF TypeOK
<1>6. Frame(t)' = frames'[t][1]
  BY <1>4 DEF Frame
<1>7. f.at = "enter" /\ f.closing = closing
  OBVIOUS
<1> HIDE DEF f
<1>8. frames'[t][1].at = "enter" /\ frames'[t][1].closing = closing
  BY <1>4, <1>7
<1> QED BY <1>3, <1>4, <1>5, <1>6, <1>8

\* A cleanup returns.
LEMMA ReturnFrame ==
    ASSUME TypeOK, NEW t \in Threads, FrameShape(t), frames[t] # <<>>, Return(t)
    PROVE  /\ frames' \in [Threads -> Seq(CleanupFrame)]
           /\ \A u \in Threads \ {t} : frames'[u] = frames[u]
           /\ Len(frames[t]) = 1 => frames'[t] = <<>>
           /\ Len(frames[t]) = 2 => /\ frames'[t] # <<>> /\ Len(frames'[t]) = 1
                                    /\ frames'[t][1] = frames[t][1]
<1>1. /\ frames[t] \in Seq(CleanupFrame) /\ Len(frames[t]) \in {1, 2}
      /\ frames[t][1] \in CleanupFrame
  BY FrameCases
<1>2. frames'[t] = SubSeq(frames[t], 1, Len(frames[t]) - 1)
  BY DEF Return, TypeOK
<1>3. \A u \in Threads \ {t} : frames'[u] = frames[u]
  BY DEF Return, TypeOK
<1>4. CASE Len(frames[t]) = 1
  <2>1. frames'[t] = <<>>
    BY <1>1, <1>2, <1>4
  <2>2. <<>> \in Seq(CleanupFrame)
    OBVIOUS
  <2> QED BY <1>3, <1>4, <2>1, <2>2 DEF Return, TypeOK
<1>5. CASE Len(frames[t]) = 2
  <2>1. frames'[t] = SubSeq(frames[t], 1, 1)
    BY <1>2, <1>5
  <2>2. frames'[t] \in Seq(CleanupFrame) /\ Len(frames'[t]) = 1 /\ frames'[t][1] = frames[t][1]
    BY <1>1, <1>5, <2>1
  <2>3. frames'[t] # <<>>
    BY <2>2, EmptySeq
  <2> QED BY <1>3, <1>5, <2>2, <2>3 DEF Return, TypeOK
<1> QED BY <1>1, <1>4, <1>5

-----------------------------------------------------------------------------
(* The lock. *)

\* Whoever runs a command, or is past the first step of a cleanup, holds the lock.
LEMMA WorksUnderLock ==
    ASSUME IInv, NEW t \in Threads
    PROVE  /\ t \in Api /\ pc[t] # "idle" => holding[t] # <<>>
           /\ frames[t] # <<>> /\ frames[t][1].at # "enter" => holding[t] # <<>>
           /\ frames[t] # <<>> /\ Frame(t).at # "enter" => holding[t] # <<>>
<1>1. TypeOK /\ FrameShape(t) /\ Len(holding[t]) = Depth(t)
  BY DEF IInv, Locking
<1>2. Len(holding[t]) # 0 => holding[t] # <<>>
  OBVIOUS
<1>3. CASE frames[t] = <<>>
  BY <1>1, <1>2, <1>3 DEF Depth
<1>4. CASE frames[t] # <<>>
  <2>1. \/ Len(frames[t]) = 1 /\ Frame(t) = frames[t][1]
        \/ Len(frames[t]) = 2
    BY <1>1, <1>4, FrameCases
  <2>2. ASSUME t \in Api /\ pc[t] # "idle" PROVE holding[t] # <<>>
    BY <1>1, <1>2, <1>4, <2>1, <2>2 DEF Depth
  <2>3. ASSUME Frame(t).at # "enter" \/ Len(frames[t]) = 2 PROVE holding[t] # <<>>
    <3>1. Depth(t) # 0
      <4>1. CASE Len(frames[t]) = 1
        BY <1>4, <2>1, <2>3, <4>1 DEF Depth
      <4>2. CASE Len(frames[t]) = 2
        BY <1>4, <4>2 DEF Depth
      <4> QED BY <2>1, <4>1, <4>2
    <3> QED BY <1>1, <1>2, <3>1
  <2>4. frames[t][1].at # "enter" => holding[t] # <<>>
    BY <2>1, <2>3
  <2> QED BY <2>2, <2>3, <2>4
<1> QED BY <1>3, <1>4

\* While one thread holds it, the others run no command and no cleanup past its first
\* step, and own no stream.
LEMMA OthersWait ==
    ASSUME IInv, NEW t \in Threads, holding[t] # <<>>, NEW u \in Threads \ {t}
    PROVE  /\ holding[u] = <<>>
           /\ u \in Api => pc[u] = "idle" /\ frames[u] = <<>>
           /\ frames[u] # <<>> => frames[u][1].at = "enter"
           /\ \A g \in Streams : ~Owns(u, g)
<1>1. holding[u] = <<>>
  BY DEF IInv, Locking
<1>2. (u \in Api => pc[u] = "idle") /\ (frames[u] # <<>> => frames[u][1].at = "enter")
  BY <1>1, WorksUnderLock
<1>3. u \in Api => frames[u] = <<>>
  BY <1>2 DEF IInv, FrameShape
<1> QED BY <1>1, <1>2, <1>3 DEF Owns, Outer

-----------------------------------------------------------------------------
(* What most steps leave alone: who holds the lock and what is on the stacks. *)

\* What a thread does outside of one.
Pcs == {"up", "hangup", "down", "idle", "callback", "body", "prune", "command",
        "built", "added", "published", "using", "muting", "end"}

\* No stream has the number that stands for none.
LEMMA NoneIsNoStream == None \notin Streams
  BY DEF None, Streams

\* A step that only moves a thread that is in no cleanup, and neither takes nor
\* releases the lock.
LEMMA PcStep ==
    ASSUME IInv, NEW t \in Threads, frames[t] = <<>>, NEW p \in Pcs, Goto(t, p),
           t \in Api => pc[t] # "idle" /\ p # "idle",
           UNCHANGED <<holding, frames>>
    PROVE  /\ pc' \in [Threads -> Pcs] /\ pc'[t] = p
           /\ \A u \in Threads \ {t} : pc'[u] = pc[u]
           /\ Locking' /\ \A u \in Threads : FrameShape(u)' /\ Closer(u)' = Closer(u)
<1>1. pc \in [Threads -> Pcs]
  BY DEF IInv, TypeOK, Pcs
<1>2. pc' \in [Threads -> Pcs] /\ pc'[t] = p /\ \A u \in Threads \ {t} : pc'[u] = pc[u]
  BY <1>1 DEF Goto
<1>3. \A u \in Threads : Depth(u)' = Depth(u)
  BY <1>2 DEF Depth, Frame
<1>4. Locking'
  BY <1>3 DEF IInv, Locking
<1>5. \A u \in Threads : FrameShape(u)'
  BY <1>2 DEF IInv, FrameShape
<1>6. \A u \in Threads : Closer(u)' = Closer(u)
  BY DEF Closer, Outer
<1> QED BY <1>2, <1>4, <1>5, <1>6

\* A step of a cleanup that holds the lock; only the outermost goes further than find.
LEMMA CleanupStep ==
    ASSUME IInv, NEW t \in Threads, frames[t] # <<>>, Frame(t).at # "enter",
           NEW f \in CleanupFrame, f.at # "enter", f.closing = Frame(t).closing,
           f.at = "remove" => t \in Api,
           Len(frames[t]) = 1 \/ f.at \in {"find", "leave"},
           frames' = [frames EXCEPT ![t] = [frames[t] EXCEPT ![Len(frames[t])] = f]],
           UNCHANGED <<holding, pc>>
    PROVE  Locking' /\ \A u \in Threads : FrameShape(u)'
<1>1. TypeOK /\ FrameShape(t) /\ Locking /\ \A u \in Threads : FrameShape(u)
  BY DEF IInv
<1>2. /\ \A u \in Threads \ {t} : frames'[u] = frames[u]
      /\ frames'[t] # <<>> /\ Len(frames'[t]) = Len(frames[t])
      /\ Len(frames[t]) = 1 => frames'[t][1] = f
      /\ Len(frames[t]) = 2 => frames'[t][1] = frames[t][1] /\ frames'[t][2] = f
      /\ Frame(t)' = f
  BY <1>1, StepFrame
<1>3. \A u \in Threads : Depth(u)' = Depth(u)
  <2>1. Depth(t)' = Depth(t)
    BY <1>2 DEF Depth
  <2>2. \A u \in Threads \ {t} : Depth(u)' = Depth(u)
    BY <1>2 DEF Depth, Frame
  <2> QED BY <2>1, <2>2
<1>4. Locking'
  BY <1>1, <1>3 DEF Locking
<1>5. FrameShape(t)'
  <2>1. CASE Len(frames[t]) = 1
    <3>1. Frame(t) = frames[t][1]
      BY <2>1 DEF Frame
    <3> QED BY <1>1, <1>2, <2>1, <3>1 DEF FrameShape
  <2>2. CASE Len(frames[t]) = 2
    BY <1>1, <1>2, <2>2 DEF FrameShape
  <2> QED BY <1>1, <2>1, <2>2, FrameCases
<1>6. \A u \in Threads \ {t} : FrameShape(u)'
  BY <1>1, <1>2 DEF FrameShape
<1> QED BY <1>4, <1>5, <1>6

\* A thread that holds the lock leaves what the others know as it is: they know
\* nothing of any stream.
LEMMA OthersKnowNothing ==
    ASSUME IInv, NEW t \in Threads, holding[t] # <<>>,
           \A u \in Threads \ {t} : frames'[u] = frames[u] /\ pc'[u] = pc[u]
    PROVE  /\ \A u \in Threads \ {t} : CleanupKnows(u)'
           /\ \A u \in Api \ {t} : CommandKnows(u)'
<1>1. \A u \in Threads \ {t} : CleanupKnows(u)'
  BY OthersWait DEF CleanupKnows, Outer
<1>2. \A u \in Api \ {t} : CommandKnows(u)'
  BY OthersWait DEF CommandKnows, Threads
<1> QED BY <1>1, <1>2

\* Every stream that is not gone is the private's or the one this thread owns.
LEMMA HolderReaches ==
    ASSUME IInv, NEW t \in Threads, holding[t] # <<>>, NEW g \in Streams,
           ctx[g] \in {"live", "finished"}
    PROVE  private = g \/ Owns(t, g)
<1>1. private = g \/ \E u \in Threads : Owns(u, g)
  BY DEF IInv, Reached
<1>2. \A u \in Threads \ {t} : ~Owns(u, g)
  BY OthersWait
<1> QED BY <1>1, <1>2

\* Everything but the data: a step of the cleanup that thread t runs under the lock.
LEMMA UnderLockStep ==
    ASSUME IInv, NEW t \in Threads, frames[t] # <<>>, Frame(t).at # "enter",
           NEW f \in CleanupFrame, f.at # "enter", f.closing = Frame(t).closing,
           f.at = "remove" => t \in Api,
           Len(frames[t]) = 1 \/ f.at \in {"find", "leave"},
           frames' = [frames EXCEPT ![t] = [frames[t] EXCEPT ![Len(frames[t])] = f]],
           UNCHANGED <<holding, pc>>
    PROVE  /\ frames' \in [Threads -> Seq(CleanupFrame)] /\ holding[t] # <<>>
           /\ Locking' /\ \A u \in Threads : FrameShape(u)'
           /\ \A u \in Threads \ {t} : CleanupKnows(u)' /\ Closer(u)' = Closer(u)
           /\ \A u \in Api : CommandKnows(u)'
           /\ frames'[t] # <<>>
           /\ Len(frames[t]) = 1 => frames'[t][1] = f
           /\ Len(frames[t]) = 2 => frames'[t][1] = frames[t][1]
<1>1. TypeOK /\ FrameShape(t)
  BY DEF IInv
<1>2. Locking' /\ \A u \in Threads : FrameShape(u)'
  BY CleanupStep
<1>3. /\ frames' \in [Threads -> Seq(CleanupFrame)]
      /\ \A u \in Threads \ {t} : frames'[u] = frames[u]
      /\ frames'[t] # <<>>
      /\ Len(frames[t]) = 1 => frames'[t][1] = f
      /\ Len(frames[t]) = 2 => frames'[t][1] = frames[t][1]
  BY <1>1, StepFrame
<1>4. holding[t] # <<>>
  BY WorksUnderLock
<1>5. /\ \A u \in Threads \ {t} : CleanupKnows(u)'
      /\ \A u \in Api \ {t} : CommandKnows(u)'
  BY <1>3, <1>4, OthersKnowNothing
<1>6. t \in Api => CommandKnows(t)'
  BY <1>1 DEF CommandKnows, FrameShape
<1>7. \A u \in Threads \ {t} : Closer(u)' = Closer(u)
  BY <1>3 DEF Closer, Outer
<1> QED BY <1>2, <1>3, <1>4, <1>5, <1>6, <1>7

\* A cleanup that has found its stream is the outermost one.
LEMMA OuterStep ==
    ASSUME IInv, NEW t \in Threads, NEW where \in {"lock", "detach", "remove", "finish", "destroy"},
           InCleanup(t, where)
    PROVE  /\ frames[t] # <<>> /\ Len(frames[t]) = 1 /\ Frame(t) = frames[t][1]
           /\ frames[t][1] \in CleanupFrame /\ frames[t][1].at = where
           /\ t \in Api => pc[t] = "end"
           /\ frames[t][1].closing <=> t \notin Api
           /\ frames[t][1].at = "remove" => t \in Api
<1>1. TypeOK /\ FrameShape(t) /\ frames[t] # <<>>
  BY DEF IInv, InCleanup
<1>2. Len(frames[t]) = 1 /\ Frame(t) = frames[t][1] /\ frames[t][1] \in CleanupFrame
  BY <1>1, FrameCases DEF InCleanup
<1> QED BY <1>1, <1>2 DEF FrameShape, InCleanup

-----------------------------------------------------------------------------
(* API commands. *)

\* A command that is refused, has used the stream or mutes its user: no stream and no
\* bug comes or goes, and a locked mutex is the one of the private's stream.
LEMMA QuietCommandStep ==
    ASSUME IInv, NEW t \in Api, At(t, "command") \/ At(t, "using") \/ At(t, "muting"),
           Refuse(t) \/ UseStream(t) \/ MuteUser(t) \/ EndUse(t)
    PROVE  IInv'
<1> USE DEF bugvars, streamvars
<1>1. PICK p \in {"end", "using", "muting"} : Goto(t, p)
  BY DEF Refuse, UseStream, MuteUser, EndUse
<1>2. /\ t \in Threads /\ t \notin Media /\ frames[t] = <<>> /\ p \in Pcs
      /\ pc[t] \in {"command", "using", "muting"} /\ pc[t] # "idle" /\ p # "idle"
  BY ThreadsAssumption DEF At, Threads, Pcs
<1>3. UNCHANGED <<holding, frames, private, bugs, prune, inside, ctx, ws, close>>
  BY DEF Refuse, UseStream, MuteUser, EndUse
<1>4. /\ pc' \in [Threads -> Pcs] /\ pc'[t] = p
      /\ \A u \in Threads \ {t} : pc'[u] = pc[u]
      /\ Locking' /\ \A u \in Threads : FrameShape(u)' /\ Closer(u)' = Closer(u)
  BY <1>1, <1>2, <1>3, PcStep
<1>5. /\ gen' \in [Api -> Streams \union {None}]
      /\ \A u \in Api \ {t} : gen'[u] = gen[u]
      /\ p \in {"using", "muting"} => gen'[t] = private /\ private # None
  <2> USE DEF IInv, TypeOK
  <2>1. CASE Refuse(t)
    BY <1>1, <1>2, <1>4, <2>1 DEF Refuse, Goto
  <2>2. CASE UseStream(t)
    BY <1>2, <2>2 DEF UseStream
  <2>3. CASE MuteUser(t)
    BY <1>2, <2>3 DEF MuteUser, At, CommandKnows
  <2>4. CASE EndUse(t)
    BY <1>1, <1>2, <1>4, <2>4 DEF EndUse, Goto
  <2> QED BY <2>1, <2>2, <2>3, <2>4
<1>6. /\ mutex' \in [Streams -> Threads \union {Nobody}]
      /\ \A g \in Streams : mutex'[g] # Nobody => mutex[g] # Nobody \/ g = private
  BY <1>2 DEF IInv, TypeOK, Refuse, UseStream, MuteUser, EndUse, At, CommandKnows
<1>7. TypeOK'
  BY <1>3, <1>4, <1>5, <1>6 DEF IInv, TypeOK, Pcs
<1>8. Attached'
  <2>1. \A m \in Media : pc'[m] = pc[m]
    BY <1>2, <1>4 DEF Threads
  <2>2. \A g \in Streams : mutex'[g] # Nobody => ctx[g] = "live"
    BY <1>6, NoneIsNoStream DEF IInv, Attached
  <2> QED BY <1>3, <2>1, <2>2 DEF IInv, Attached
<1>9. Reached'
  <2>1. \A u \in Threads, g \in Streams : Owns(u, g) => Owns(u, g)'
    BY <1>2, <1>3, <1>4, <1>5 DEF Owns, Outer
  <2> QED BY <1>3, <2>1 DEF IInv, Reached
<1>10. OneCloser'
  BY <1>3, <1>4 DEF IInv, OneCloser
<1>11. \A u \in Threads : CleanupKnows(u)'
  BY <1>3, <1>4 DEF IInv, CleanupKnows, Outer, Alone
<1>12. \A u \in Api : CommandKnows(u)'
  <2>1. CommandKnows(t)'
    BY <1>1, <1>3, <1>4, <1>5 DEF CommandKnows
  <2>2. ASSUME NEW u \in Api \ {t} PROVE CommandKnows(u)'
    <3>1. pc'[u] = "idle"
      BY <1>2, <1>4, OthersWait, WorksUnderLock DEF Threads
    <3> QED BY <3>1 DEF CommandKnows
  <2> QED BY <2>1, <2>2
<1> QED BY <1>4, <1>7, <1>8, <1>9, <1>10, <1>11, <1>12 DEF IInv

\* start_capture allocates the context of a new stream: no stream is live, for the
\* private names none and the command owns none.
LEMMA StartInitStep ==
    ASSUME IInv, NEW t \in Api, StartInit(t)
    PROVE  IInv'
<1> USE DEF bugvars, streamvars
<1>1. PICK g \in Streams :
          /\ ctx[g] = "none"
          /\ \/ gen' = [gen EXCEPT ![t] = g] /\ ctx' = [ctx EXCEPT ![g] = "live"] /\ Goto(t, "built")
             \/ ctx' = [ctx EXCEPT ![g] = "freed"] /\ Goto(t, "end") /\ UNCHANGED gen
  BY DEF StartInit
<1>2. PICK p \in {"built", "end"} : Goto(t, p)
  BY <1>1
<1>3. /\ t \in Threads /\ t \notin Media /\ frames[t] = <<>> /\ p \in Pcs
      /\ pc[t] = "command" /\ private = None
  BY ThreadsAssumption DEF At, Threads, Pcs, StartInit
<1>4. UNCHANGED <<holding, frames, private, bugs, prune, inside, ws, mutex, close>>
  BY DEF StartInit
<1>5. /\ pc' \in [Threads -> Pcs] /\ pc'[t] = p
      /\ \A u \in Threads \ {t} : pc'[u] = pc[u]
      /\ Locking' /\ \A u \in Threads : FrameShape(u)' /\ Closer(u)' = Closer(u)
  BY <1>2, <1>3, <1>4, PcStep
<1>6. holding[t] # <<>> /\ \A u \in Api \ {t} : pc[u] = "idle"
  BY <1>3, OthersWait, WorksUnderLock DEF Threads
<1>7. \A h \in Streams : ctx[h] \notin {"live", "finished"}
  <2>1. \A h \in Streams, u \in Threads : ~Owns(u, h)
    BY <1>3, <1>6, OthersWait DEF Owns, Outer
  <2> QED BY <1>3, <2>1 DEF IInv, Reached, Streams, None
<1>8. bugs = {} /\ \A u \in Threads : ~Closer(u)
  <2>1. \A h \in bugs : h \in Streams
    BY DEF IInv, TypeOK
  <2> QED BY <1>7, <2>1 DEF IInv, Attached, OneCloser
<1>9. /\ gen' \in [Api -> Streams \union {None}] /\ ctx' \in [Streams -> {"none", "live", "finished", "freed"}]
      /\ p = "built" => gen'[t] = g /\ ctx'[g] = "live"
      /\ \A u \in Api \ {t} : gen'[u] = gen[u]
      /\ \A h \in Streams \ {g} : ctx'[h] = ctx[h]
      /\ p # "built" => \A h \in Streams : ctx'[h] \notin {"live", "finished"}
  <2> USE DEF IInv, TypeOK
  <2>1. CASE gen' = [gen EXCEPT ![t] = g] /\ ctx' = [ctx EXCEPT ![g] = "live"] /\ Goto(t, "built")
    <3>1. p = "built"
      BY <1>3, <1>5, <2>1 DEF Goto
    <3> QED BY <2>1, <3>1
  <2>2. CASE ctx' = [ctx EXCEPT ![g] = "freed"] /\ Goto(t, "end") /\ UNCHANGED gen
    <3>1. p = "end"
      BY <1>3, <1>5, <2>2 DEF Goto
    <3> QED BY <1>7, <2>2, <3>1
  <2> QED BY <1>1, <2>1, <2>2
<1>10. TypeOK'
  BY <1>4, <1>5, <1>9 DEF IInv, TypeOK, Pcs
<1>11. Attached'
  <2>1. \A m \in Media : pc'[m] = pc[m]
    BY <1>3, <1>5 DEF Threads
  <2>2. \A m \in Media : inside[m] = None
    BY <1>8 DEF IInv, Attached
  <2>3. \A h \in Streams : ws[h] \notin {"idle", "callback"} /\ mutex[h] = Nobody
    BY <1>7 DEF IInv, Attached
  <2> QED BY <1>3, <1>4, <1>8, <2>1, <2>2, <2>3 DEF IInv, Attached
<1>12. Reached'
  <2>1. p = "built" => Owns(t, g)'
    BY <1>3, <1>5, <1>9 DEF Owns
  <2>2. \A h \in Streams : ctx'[h] \in {"live", "finished"} => p = "built" /\ h = g
    BY <1>7, <1>9
  <2> QED BY <1>3, <2>1, <2>2 DEF Reached
<1>13. OneCloser'
  BY <1>5, <1>8 DEF OneCloser
<1>14. \A u \in Threads : CleanupKnows(u)'
  <2>1. \A u \in Threads : ~Outer(u, {"lock", "detach", "remove", "finish", "destroy"})
    BY <1>3, <1>6, OthersWait DEF Outer
  <2> QED BY <1>4, <2>1 DEF CleanupKnows, Outer
<1>15. \A u \in Api : CommandKnows(u)'
  <2>1. mutex[g] = Nobody /\ ws[g] \notin {"idle", "callback"}
    BY <1>7 DEF IInv, Attached
  <2>2. Alone'
    BY <1>3, <1>4, <1>5, <1>8 DEF Alone
  <2>3. CommandKnows(t)'
    BY <1>3, <1>4, <1>5, <1>9, <2>1, <2>2 DEF CommandKnows
  <2>4. \A u \in Api \ {t} : CommandKnows(u)'
    BY <1>5, <1>6 DEF CommandKnows, Threads
  <2> QED BY <2>3, <2>4
<1> QED BY <1>5, <1>10, <1>11, <1>12, <1>13, <1>14, <1>15 DEF IInv

\* The bug is linked once nothing of an earlier stream is left; or the start fails and
\* its stream goes.
LEMMA StartAddBugStep ==
    ASSUME IInv, NEW t \in Api, StartAddBug(t)
    PROVE  IInv'
<1> USE DEF bugvars, streamvars
<1> DEFINE g == gen[t]
<1>1. PICK p \in {"added", "end"} :
          /\ Goto(t, p)
          /\ p = "added" => bugs' = bugs \union {g} /\ UNCHANGED ctx
          /\ p = "end" => bugs' = bugs /\ ctx' = [ctx EXCEPT ![g] = "freed"]
  BY DEF StartAddBug
<1>2. /\ t \in Threads /\ t \notin Media /\ frames[t] = <<>> /\ p \in Pcs /\ pc[t] = "built"
  BY ThreadsAssumption DEF At, Threads, Pcs, StartAddBug
<1>3. UNCHANGED <<holding, frames, private, prune, inside, ws, mutex, close, gen>>
  BY DEF StartAddBug
<1>4. /\ pc' \in [Threads -> Pcs] /\ pc'[t] = p
      /\ \A u \in Threads \ {t} : pc'[u] = pc[u]
      /\ Locking' /\ \A u \in Threads : FrameShape(u)' /\ Closer(u)' = Closer(u)
  BY <1>1, <1>2, <1>3, PcStep
<1>5. holding[t] # <<>>
  BY <1>2, WorksUnderLock
<1>6. /\ g \in Streams /\ ctx[g] = "live" /\ private = None /\ bugs = {}
      /\ mutex[g] = Nobody /\ ws[g] \notin {"idle", "callback"}
      /\ \A u \in Threads : ~Closer(u)
  BY <1>2 DEF IInv, CommandKnows, Alone
<1>7. \A h \in Streams \ {g} : ctx[h] \notin {"live", "finished"}
  <2>1. \A u \in Threads, h \in Streams \ {g} : ~Owns(u, h)
    BY <1>2, <1>5, OthersWait DEF Owns, Outer
  <2> QED BY <1>6, <2>1, NoneIsNoStream DEF IInv, Reached
<1> HIDE DEF g
<1>8. /\ ctx' \in [Streams -> {"none", "live", "finished", "freed"}]
      /\ \A h \in Streams \ {g} : ctx'[h] = ctx[h]
      /\ p = "added" => ctx'[g] = "live" /\ bugs' = {g}
      /\ p = "end" => ctx'[g] = "freed" /\ bugs' = {}
  BY <1>1, <1>6 DEF IInv, TypeOK
<1>9. p = "added" \/ p = "end"
  BY <1>1
<1>10. TypeOK'
  BY <1>3, <1>4, <1>6, <1>8, <1>9 DEF IInv, TypeOK, Pcs
<1>11. Attached'
  <2>1. \A m \in Media : pc'[m] = pc[m]
    BY <1>2, <1>4 DEF Threads
  <2>2. /\ prune = {} /\ \A m \in Media : inside[m] = None
    BY <1>6 DEF IInv, Attached
  <2>3. \A h \in Streams : ws[h] \notin {"idle", "callback"} /\ mutex[h] = Nobody
    BY <1>6, <1>7 DEF IInv, Attached
  <2>4. \A m \in Media : pc[m] \notin {"callback", "body"}
    BY <2>2 DEF IInv, Attached
  <2> QED BY <1>3, <1>6, <1>8, <1>9, <2>1, <2>2, <2>3, <2>4 DEF Attached
<1>12. Reached'
  <2>1. \A h \in Streams : p = "added" /\ h = g => Owns(t, h)'
    BY <1>2, <1>3, <1>4 DEF Owns, g
  <2>2. \A h \in Streams : ctx'[h] \in {"live", "finished"} => p = "added" /\ h = g
    BY <1>7, <1>8, <1>9
  <2> QED BY <1>2, <2>1, <2>2 DEF Reached
<1>13. OneCloser'
  BY <1>4, <1>6 DEF OneCloser
<1>14. \A u \in Threads : CleanupKnows(u)'
  BY <1>2, <1>3, <1>4, <1>5, OthersKnowNothing DEF CleanupKnows, Outer
<1>15. \A u \in Api : CommandKnows(u)'
  <2>1. CommandKnows(t)'
    BY <1>2, <1>3, <1>4, <1>6, <1>8, <1>9 DEF CommandKnows, g
  <2> QED BY <1>2, <1>3, <1>4, <1>5, <2>1, OthersKnowNothing
<1> QED BY <1>4, <1>10, <1>11, <1>12, <1>13, <1>14, <1>15 DEF IInv

\* From here on the private names the stream.
LEMMA StartPublishStep ==
    ASSUME IInv, NEW t \in Api, StartPublish(t)
    PROVE  IInv'
<1> USE DEF bugvars, streamvars
<1>1. /\ Goto(t, "published") /\ private' = gen[t]
      /\ t \in Threads /\ t \notin Media /\ frames[t] = <<>> /\ "published" \in Pcs /\ pc[t] = "added"
  BY ThreadsAssumption DEF At, Threads, Pcs, StartPublish
<1>2. UNCHANGED <<holding, frames, bugs, prune, inside, ctx, ws, mutex, close, gen>>
  BY DEF StartPublish
<1>3. /\ pc' \in [Threads -> Pcs] /\ pc'[t] = "published"
      /\ \A u \in Threads \ {t} : pc'[u] = pc[u]
      /\ Locking' /\ \A u \in Threads : FrameShape(u)' /\ Closer(u)' = Closer(u)
  BY <1>1, <1>2, PcStep
<1>4. holding[t] # <<>>
  BY <1>1, WorksUnderLock
<1>5. gen[t] \in Streams /\ ctx[gen[t]] = "live" /\ private = None
  BY <1>1 DEF IInv, CommandKnows
<1>6. TypeOK'
  BY <1>1, <1>2, <1>3, <1>5 DEF IInv, TypeOK, Pcs
<1>7. Attached'
  <2>1. \A m \in Media : pc'[m] = pc[m]
    BY <1>1, <1>3 DEF Threads
  <2> QED BY <1>1, <1>2, <1>5, <2>1 DEF IInv, Attached
<1>8. Reached'
  <2>1. \A h \in Streams : ctx[h] \in {"live", "finished"} => h = gen[t]
    <3>1. \A u \in Threads, h \in Streams \ {gen[t]} : ~Owns(u, h)
      BY <1>1, <1>4, OthersWait DEF Owns, Outer
    <3> QED BY <1>5, <3>1, NoneIsNoStream DEF IInv, Reached
  <2> QED BY <1>1, <1>2, <2>1 DEF Reached
<1>9. OneCloser'
  BY <1>2, <1>3 DEF IInv, OneCloser
<1>10. \A u \in Threads : CleanupKnows(u)'
  BY <1>1, <1>2, <1>3, <1>4, OthersKnowNothing DEF CleanupKnows, Outer
<1>11. \A u \in Api : CommandKnows(u)'
  <2>1. CommandKnows(t)'
    BY <1>1, <1>2, <1>3, <1>5, NoneIsNoStream DEF CommandKnows
  <2> QED BY <1>1, <1>2, <1>3, <1>4, <2>1, OthersKnowNothing
<1> QED BY <1>3, <1>6, <1>7, <1>8, <1>9, <1>10, <1>11 DEF IInv

\* The command starts the WebSocket thread, or it calls stream_session_cleanup.
LEMMA StartWebSocketStep ==
    ASSUME IInv, NEW t \in Api, At(t, "published"),
           ws' = [ws EXCEPT ![gen[t]] = "idle"], Goto(t, "end"),
           UNCHANGED <<holding, frames, bugvars, ctx, mutex, close, gen>>
    PROVE  IInv'
<1> USE DEF bugvars
<1>1. /\ t \in Threads /\ t \notin Media /\ frames[t] = <<>> /\ "end" \in Pcs /\ pc[t] = "published"
  BY ThreadsAssumption DEF At, Threads, Pcs
<1>2. /\ pc' \in [Threads -> Pcs] /\ pc'[t] = "end"
      /\ \A u \in Threads \ {t} : pc'[u] = pc[u]
      /\ Locking' /\ \A u \in Threads : FrameShape(u)' /\ Closer(u)' = Closer(u)
  BY <1>1, PcStep
<1>3. holding[t] # <<>>
  BY <1>1, WorksUnderLock
<1>4. gen[t] = private /\ ctx[private] = "live"
  BY <1>1 DEF IInv, CommandKnows, Attached
<1>5. TypeOK'
  BY <1>2 DEF IInv, TypeOK, Pcs
<1>6. Attached'
  <2>1. \A m \in Media : pc'[m] = pc[m]
    BY <1>1, <1>2 DEF Threads
  <2>2. \A g \in Streams : ws'[g] \in {"idle", "callback"} => ctx[g] = "live"
    BY <1>4 DEF IInv, TypeOK, Attached
  <2> QED BY <2>1, <2>2 DEF IInv, Attached
<1>7. Reached'
  <2>1. \A u \in Threads, h \in Streams : ~Owns(u, h)
    BY <1>1, <1>3, OthersWait DEF Owns, Outer
  <2> QED BY <2>1 DEF IInv, Reached
<1>8. OneCloser'
  BY <1>2 DEF IInv, OneCloser
<1>9. \A u \in Threads : CleanupKnows(u)'
  BY <1>1, <1>2, <1>3, OthersKnowNothing DEF CleanupKnows, Outer
<1>10. \A u \in Api : CommandKnows(u)'
  BY <1>1, <1>2, <1>3, OthersKnowNothing DEF CommandKnows
<1> QED BY <1>2, <1>5, <1>6, <1>7, <1>8, <1>9, <1>10 DEF IInv

\* A command calls stream_session_cleanup.
CleansUp(t) == frames' = [frames EXCEPT ![t] = Call(t, FALSE)]

\* A stop, or a start whose WebSocket thread does not come up: the command calls the
\* cleanup, which has found nothing yet.
LEMMA CommandCleansUpStep ==
    ASSUME IInv, NEW t \in Api, At(t, "command") \/ At(t, "published"), Goto(t, "end"),
           CleansUp(t), UNCHANGED <<holding, bugvars, streamvars, gen>>
    PROVE  IInv'
<1> USE DEF bugvars, streamvars
<1>1. /\ t \in Threads /\ t \notin Media /\ frames[t] = <<>>
      /\ pc[t] \in {"command", "published"} /\ TypeOK
  BY ThreadsAssumption DEF At, Threads, IInv
<1>2. holding[t] # <<>>
  BY <1>1, WorksUnderLock
<1>3. /\ frames' \in [Threads -> Seq(CleanupFrame)]
      /\ \A u \in Threads \ {t} : frames'[u] = frames[u]
      /\ frames'[t] # <<>> /\ Len(frames'[t]) = 1
      /\ frames'[t][1].at = "enter" /\ ~frames'[t][1].closing
      /\ Frame(t)' = frames'[t][1]
  <2>1. frames' = [frames EXCEPT ![t] = Call(t, FALSE)]
    BY DEF CleansUp
  <2> HIDE DEF bugvars, streamvars
  <2> QED BY <1>1, <2>1, CallFrame
<1>4. /\ pc' \in [Threads -> Pcs] /\ pc'[t] = "end"
      /\ \A u \in Threads \ {t} : pc'[u] = pc[u]
  BY <1>1 DEF Goto, Pcs, TypeOK
<1>5. TypeOK'
  BY <1>1, <1>3, <1>4 DEF TypeOK, Pcs
<1>6. Locking'
  <2>1. Depth(t)' = Depth(t)
    <3>1. Depth(t) = 1
      BY <1>1 DEF Depth
    <3>2. Depth(t)' = 1 + (1 - 1)
      BY <1>3, <1>4 DEF Depth
    <3> QED BY <3>1, <3>2
  <2>2. \A u \in Threads \ {t} : Depth(u)' = Depth(u)
    BY <1>3, <1>4 DEF Depth, Frame
  <2> QED BY <2>1, <2>2 DEF IInv, Locking
<1>7. \A u \in Threads : FrameShape(u)'
  <2>1. FrameShape(t)'
    <3>1. Len(frames'[t]) \in {0, 1, 2} /\ Len(frames'[t]) # 2
      BY <1>3
    <3>2. ~frames'[t][1].closing /\ frames'[t][1].at # "remove"
      BY <1>3
    <3> QED BY <1>4, <3>1, <3>2, ThreadsAssumption DEF FrameShape
  <2>2. \A u \in Threads \ {t} : FrameShape(u)'
    BY <1>3, <1>4 DEF FrameShape, IInv
  <2> QED BY <2>1, <2>2
<1>8. \A u \in Threads : Closer(u)' = Closer(u)
  BY <1>1, <1>3 DEF Closer, Outer
<1>9. Attached'
  <2>1. \A m \in Media : pc'[m] = pc[m]
    BY <1>1, <1>4 DEF Threads
  <2> QED BY <2>1 DEF IInv, Attached
<1>10. Reached'
  <2>1. \A u \in Threads, h \in Streams : ~Owns(u, h)
    BY <1>1, <1>2, OthersWait DEF Owns, Outer
  <2> QED BY <2>1 DEF IInv, Reached
<1>11. OneCloser'
  BY <1>8 DEF IInv, OneCloser
<1>12. \A u \in Threads : CleanupKnows(u)'
  <2>1. CleanupKnows(t)'
    BY <1>3 DEF CleanupKnows, Outer
  <2> QED BY <1>1, <1>2, <1>3, <1>4, <2>1, OthersKnowNothing
<1>13. \A u \in Api : CommandKnows(u)'
  BY <1>1, <1>2, <1>3, <1>4, OthersKnowNothing DEF CommandKnows
<1> QED BY <1>5, <1>6, <1>7, <1>9, <1>10, <1>11, <1>12, <1>13 DEF IInv

-----------------------------------------------------------------------------
(* The lock is taken and released. *)

\* Who holds what once thread t has taken the lock.
LEMMA AcquireStep ==
    ASSUME TypeOK, Locking, NEW t \in Threads, Lock!Acquire(t, Session)
    PROVE  /\ \A u \in Threads \ {t} : holding[u] = <<>> /\ holding'[u] = <<>>
           /\ holding' \in [Threads -> Seq({Session})] /\ holding'[t] # <<>>
           /\ Len(holding'[t]) = Len(holding[t]) + 1
           /\ \A u, v \in Threads : holding'[u] # <<>> /\ holding'[v] # <<>> => u = v
<1>1. ASSUME NEW u \in Threads \ {t}
      PROVE  holding[u] = <<>>
  <2>1. SUFFICES ASSUME holding[u] # <<>> PROVE FALSE
    OBVIOUS
  <2>2. holding[u] \in Seq({Session})
    BY DEF TypeOK
  <2>3. 1 \in 1..Len(holding[u]) /\ holding[u][1] = Session
    BY <2>1, <2>2, EmptySeq, ElementOfSeq
  <2> QED BY <2>3 DEF Lock!Acquire, Lock!Holds
<1>2. \A u \in Threads \ {t} : holding'[u] = holding[u]
  BY DEF Lock!Acquire, TypeOK
<1>3. holding'[t] = Append(holding[t], Session) /\ holding[t] \in Seq({Session})
  BY DEF Lock!Acquire, TypeOK
<1>4. holding'[t] \in Seq({Session}) /\ Len(holding'[t]) = Len(holding[t]) + 1 /\ Len(holding[t]) \in Nat
  BY <1>3, AppendProperties, LenProperties
<1>5. holding'[t] # <<>>
  BY <1>4, EmptySeq
<1>6. holding' \in [Threads -> Seq({Session})]
  BY <1>2, <1>4 DEF Lock!Acquire, TypeOK
<1> QED BY <1>1, <1>2, <1>4, <1>5, <1>6

\* And once it has released it.
LEMMA ReleaseStep ==
    ASSUME TypeOK, Locking, NEW t \in Threads, Lock!Release(t)
    PROVE  /\ \A u \in Threads \ {t} : holding[u] = <<>> /\ holding'[u] = <<>>
           /\ holding' \in [Threads -> Seq({Session})]
           /\ Len(holding[t]) \in Nat \ {0} /\ Len(holding'[t]) = Len(holding[t]) - 1
           /\ \A u, v \in Threads : holding'[u] # <<>> /\ holding'[v] # <<>> => u = v
<1>1. \A u \in Threads \ {t} : holding[u] = <<>>
  BY DEF Locking, Lock!Release
<1>2. \A u \in Threads \ {t} : holding'[u] = holding[u]
  BY DEF Lock!Release, TypeOK
<1>3. /\ holding'[t] = SubSeq(holding[t], 1, Len(holding[t]) - 1)
      /\ holding[t] \in Seq({Session}) /\ holding[t] # <<>>
  BY DEF Lock!Release, TypeOK
<1>4. Len(holding[t]) \in Nat \ {0}
  BY <1>3, EmptySeq
<1>5. holding'[t] \in Seq({Session}) /\ Len(holding'[t]) = Len(holding[t]) - 1
  BY <1>3, <1>4
<1>6. holding' \in [Threads -> Seq({Session})]
  BY <1>2, <1>5 DEF Lock!Release, TypeOK
<1> QED BY <1>1, <1>2, <1>4, <1>5, <1>6

\* A command begins, or its thread goes back to idle: it works on no stream.
LEMMA CommandStep ==
    ASSUME IInv, NEW t \in Api, Command(t)
    PROVE  IInv'
<1> USE DEF bugvars, streamvars
<1>1. /\ t \in Threads /\ t \notin Media /\ frames[t] = <<>> /\ pc[t] = "idle"
      /\ TypeOK /\ Locking /\ Lock!Acquire(t, Session)
  BY ThreadsAssumption DEF At, Threads, IInv, Command
<1>2. UNCHANGED <<frames, private, bugs, prune, inside, ctx, ws, mutex, close, gen>>
  BY DEF Command
<1>3. /\ pc' \in [Threads -> Pcs] /\ pc'[t] = "command"
      /\ \A u \in Threads \ {t} : pc'[u] = pc[u]
  BY <1>1 DEF Command, Goto, Pcs, TypeOK
<1>4. /\ \A u \in Threads \ {t} : holding[u] = <<>> /\ holding'[u] = <<>>
      /\ holding' \in [Threads -> Seq({Session})] /\ holding'[t] # <<>>
      /\ Len(holding'[t]) = Len(holding[t]) + 1
      /\ \A u, v \in Threads : holding'[u] # <<>> /\ holding'[v] # <<>> => u = v
  BY <1>1, AcquireStep
<1>5. Len(holding[t]) = 0 /\ Len(holding'[t]) = 1
  <2>1. Len(holding[t]) = 0
    <3>1. Depth(t) = 0
      BY <1>1 DEF Depth
    <3> QED BY <1>1, <3>1 DEF Locking
  <2> QED BY <1>4, <2>1
<1>6. TypeOK'
  <2>1. \A u \in Threads : Len(holding'[u]) <= 3
    BY <1>4, <1>5
  <2> QED BY <1>1, <1>2, <1>3, <1>4, <2>1 DEF TypeOK, Pcs
<1>7. Locking'
  <2>1. Depth(t)' = 1
    BY <1>1, <1>2, <1>3 DEF Depth
  <2>2. \A u \in Threads \ {t} : Depth(u)' = Depth(u)
    BY <1>2, <1>3 DEF Depth, Frame
  <2>3. \A u \in Threads \ {t} : Len(holding'[u]) = Depth(u)'
    BY <1>1, <1>4, <2>2 DEF Locking
  <2> QED BY <1>4, <1>5, <2>1, <2>3 DEF Locking
<1>8. \A u \in Threads : FrameShape(u)' /\ Closer(u)' = Closer(u)
  BY <1>1, <1>2, <1>3 DEF FrameShape, IInv, Closer, Outer
<1>9. Attached'
  <2>1. \A m \in Media : pc'[m] = pc[m]
    BY <1>1, <1>3 DEF Threads
  <2> QED BY <1>2, <2>1 DEF IInv, Attached
<1>10. Reached'
  <2>1. \A u \in Threads, h \in Streams : Owns(u, h)' = Owns(u, h)
    BY <1>1, <1>2, <1>3 DEF Owns, Outer
  <2> QED BY <1>2, <2>1 DEF IInv, Reached
<1>11. OneCloser'
  BY <1>2, <1>8 DEF IInv, OneCloser
<1>12. \A u \in Threads : CleanupKnows(u)'
  BY <1>2, <1>8 DEF IInv, CleanupKnows, Outer, Alone
<1>13. \A u \in Api : CommandKnows(u)'
  BY <1>1, <1>2, <1>3, <1>8 DEF IInv, CommandKnows, Alone, Threads
<1> QED BY <1>6, <1>7, <1>8, <1>9, <1>10, <1>11, <1>12, <1>13 DEF IInv

\* A command ends, with no cleanup left to run.
LEMMA EndCommandStep ==
    ASSUME IInv, NEW t \in Api, EndCommand(t)
    PROVE  IInv'
<1> USE DEF bugvars, streamvars
<1>1. /\ t \in Threads /\ t \notin Media /\ frames[t] = <<>> /\ pc[t] = "end"
      /\ TypeOK /\ Locking /\ Lock!Release(t)
  BY ThreadsAssumption DEF At, Threads, IInv, EndCommand
<1>2. /\ UNCHANGED <<frames, private, bugs, prune, inside, ctx, ws, mutex, close>>
      /\ gen' \in [Api -> Streams \union {None}]
      /\ \A u \in Api \ {t} : gen'[u] = gen[u]
  BY <1>1 DEF EndCommand, TypeOK
<1>3. /\ pc' \in [Threads -> Pcs] /\ pc'[t] = "idle"
      /\ \A u \in Threads \ {t} : pc'[u] = pc[u]
  BY <1>1 DEF EndCommand, Goto, Pcs, TypeOK
<1>4. /\ \A u \in Threads \ {t} : holding[u] = <<>> /\ holding'[u] = <<>>
      /\ holding' \in [Threads -> Seq({Session})]
      /\ Len(holding[t]) \in Nat \ {0} /\ Len(holding'[t]) = Len(holding[t]) - 1
      /\ \A u, v \in Threads : holding'[u] # <<>> /\ holding'[v] # <<>> => u = v
  BY <1>1, ReleaseStep
<1>5. Len(holding[t]) = 1 /\ Len(holding'[t]) = 0
  <2>1. Len(holding[t]) = 1
    <3>1. Depth(t) = 1
      BY <1>1 DEF Depth
    <3> QED BY <1>1, <3>1 DEF Locking
  <2> QED BY <1>4, <2>1
<1>6. TypeOK'
  <2>1. \A u \in Threads : Len(holding'[u]) <= 3
    BY <1>4, <1>5
  <2> QED BY <1>1, <1>2, <1>3, <1>4, <2>1 DEF TypeOK, Pcs
<1>7. Locking'
  <2>1. Depth(t)' = 0
    BY <1>1, <1>2, <1>3 DEF Depth
  <2>2. \A u \in Threads \ {t} : Depth(u)' = Depth(u)
    BY <1>2, <1>3 DEF Depth, Frame
  <2>3. \A u \in Threads \ {t} : Len(holding'[u]) = Depth(u)'
    BY <1>1, <1>4, <2>2 DEF Locking
  <2> QED BY <1>4, <1>5, <2>1, <2>3 DEF Locking
<1>8. \A u \in Threads : FrameShape(u)' /\ Closer(u)' = Closer(u)
  BY <1>1, <1>2, <1>3 DEF FrameShape, IInv, Closer, Outer
<1>9. Attached'
  <2>1. \A m \in Media : pc'[m] = pc[m]
    BY <1>1, <1>3 DEF Threads
  <2> QED BY <1>2, <2>1 DEF IInv, Attached
<1>10. Reached'
  <2>1. \A u \in Threads, h \in Streams : Owns(u, h)' = Owns(u, h)
    BY <1>1, <1>2, <1>3 DEF Owns, Outer
  <2> QED BY <1>2, <2>1 DEF IInv, Reached
<1>11. OneCloser'
  BY <1>2, <1>8 DEF IInv, OneCloser
<1>12. \A u \in Threads : CleanupKnows(u)'
  BY <1>2, <1>8 DEF IInv, CleanupKnows, Outer, Alone
<1>13. \A u \in Api : CommandKnows(u)'
  BY <1>1, <1>2, <1>3, <1>8 DEF IInv, CommandKnows, Alone, Threads
<1> QED BY <1>6, <1>7, <1>8, <1>9, <1>10, <1>11, <1>12, <1>13 DEF IInv

-----------------------------------------------------------------------------
(* stream_session_cleanup under the lock. *)

\* The frame of a step that goes on to where.
LEMMA StepIsUpdate ==
    ASSUME TypeOK, NEW t \in Threads, FrameShape(t), frames[t] # <<>>, NEW where \in Ats, Step(t, where)
    PROVE  \E f \in CleanupFrame :
               /\ frames' = [frames EXCEPT ![t] = [frames[t] EXCEPT ![Len(frames[t])] = f]]
               /\ f = [Frame(t) EXCEPT !.at = where]
               /\ f.at = where /\ f.stream = Frame(t).stream /\ f.closing = Frame(t).closing
<1> DEFINE f == [Frame(t) EXCEPT !.at = where]
<1>1. Frame(t) \in CleanupFrame /\ frames[t] \in Seq(CleanupFrame)
  BY FrameCases
<1>2. /\ f \in CleanupFrame
      /\ f.at = where /\ f.stream = Frame(t).stream /\ f.closing = Frame(t).closing
  BY <1>1 DEF CleanupFrame, Ats
<1>3. frames' = [frames EXCEPT ![t] = [frames[t] EXCEPT ![Len(frames[t])] = f]]
  BY DEF Step, TypeOK, Frame
<1> QED BY <1>2, <1>3

\* The private is read, and the stream found is the one it names.
LEMMA FindStep ==
    ASSUME IInv, NEW t \in Threads, Find(t)
    PROVE  IInv'
<1> USE DEF bugvars, streamvars
<1>1. /\ TypeOK /\ FrameShape(t) /\ frames[t] # <<>> /\ Frame(t).at = "find"
      /\ UNCHANGED <<holding, private, bugs, prune, inside, ctx, ws, mutex, close, pc, gen>>
  BY DEF Find, InCleanup, IInv
<1>2. /\ Frame(t) \in CleanupFrame /\ frames[t] \in Seq(CleanupFrame)
      /\ \/ Len(frames[t]) = 1 /\ Frame(t) = frames[t][1]
         \/ Len(frames[t]) = 2 /\ frames[t][1].at = "finish"
  BY <1>1, FrameCases
<1>3. Len(frames[t]) = 2 => private = None
  BY <1>1, <1>2 DEF IInv, CleanupKnows, Outer, Alone
<1>4. PICK f \in CleanupFrame :
          /\ frames' = [frames EXCEPT ![t] = [frames[t] EXCEPT ![Len(frames[t])] = f]]
          /\ f.closing = Frame(t).closing
          /\ \/ f.at = "leave"
             \/ f.at = "lock" /\ f.stream = private /\ private # None
  <2>1. CASE private = None
    <3>1. Step(t, "leave") /\ "leave" \in Ats
      BY <2>1 DEF Find, Ats
    <3> QED BY <1>1, <3>1, StepIsUpdate
  <2>2. CASE private # None
    <3> DEFINE f == [Frame(t) EXCEPT !.at = "lock", !.stream = private]
    <3>1. f \in CleanupFrame /\ f.at = "lock" /\ f.stream = private /\ f.closing = Frame(t).closing
      BY <1>1, <1>2 DEF CleanupFrame, TypeOK
    <3>2. frames' = [frames EXCEPT ![t] = [frames[t] EXCEPT ![Len(frames[t])] = f]]
      BY <1>1, <2>2 DEF Find, TypeOK, Frame
    <3> QED BY <2>2, <3>1, <3>2
  <2> QED BY <2>1, <2>2
<1>5. Len(frames[t]) = 1 \/ f.at = "leave"
  BY <1>2, <1>3, <1>4
<1>6. /\ frames' \in [Threads -> Seq(CleanupFrame)] /\ holding[t] # <<>>
      /\ Locking' /\ \A u \in Threads : FrameShape(u)'
      /\ \A u \in Threads \ {t} : CleanupKnows(u)' /\ Closer(u)' = Closer(u)
      /\ \A u \in Api : CommandKnows(u)'
      /\ frames'[t] # <<>>
      /\ Len(frames[t]) = 1 => frames'[t][1] = f
      /\ Len(frames[t]) = 2 => frames'[t][1] = frames[t][1]
  BY <1>1, <1>4, <1>5, UnderLockStep
<1>7. TypeOK'
  BY <1>1, <1>6 DEF TypeOK
<1>8. Attached'
  BY <1>1 DEF IInv, Attached
<1>9. Reached'
  <2>1. \A g \in Streams : Owns(t, g) => Owns(t, g)'
    BY <1>1, <1>2, <1>6 DEF Owns, Outer
  <2> QED BY <1>1, <1>6, <2>1, HolderReaches DEF Reached
<1>10. OneCloser'
  <2>1. Closer(t)' => Closer(t)
    BY <1>1, <1>2, <1>4, <1>6 DEF Closer, Outer
  <2>2. \A u \in Threads : Closer(u)' => Closer(u)
    BY <1>6, <2>1
  <2> QED BY <1>1, <2>2 DEF IInv, OneCloser
<1>11. CleanupKnows(t)'
  <2>1. CASE Len(frames[t]) = 1
    BY <1>1, <1>4, <1>6, <2>1 DEF CleanupKnows, Outer
  <2>2. CASE Len(frames[t]) = 2
    <3>1. \A u \in Threads : Closer(u)' => Closer(u)
      BY <1>2, <1>6, <2>2 DEF Closer, Outer
    <3> QED BY <1>1, <1>2, <1>6, <2>2, <3>1 DEF IInv, CleanupKnows, Outer, Alone
  <2> QED BY <1>2, <2>1, <2>2
<1> QED BY <1>6, <1>7, <1>8, <1>9, <1>10, <1>11 DEF IInv

\* A cleanup that has found its stream goes on with it.
LEMMA OuterMoves ==
    ASSUME IInv, NEW t \in Threads, NEW where \in {"lock", "detach", "remove", "finish", "destroy"},
           InCleanup(t, where), NEW next \in Ats \ {"enter"}, next = "remove" => t \in Api,
           Step(t, next), UNCHANGED <<holding, pc>>
    PROVE  /\ frames' \in [Threads -> Seq(CleanupFrame)] /\ holding[t] # <<>>
           /\ Locking' /\ \A u \in Threads : FrameShape(u)'
           /\ \A u \in Threads \ {t} : CleanupKnows(u)' /\ Closer(u)' = Closer(u)
           /\ \A u \in Api : CommandKnows(u)'
           /\ frames[t] # <<>> /\ frames[t][1].at = where /\ Frame(t) = frames[t][1]
           /\ frames'[t] # <<>> /\ frames'[t][1].at = next
           /\ frames'[t][1].stream = frames[t][1].stream
           /\ t \in Api => pc[t] = "end"
           /\ frames[t][1].closing <=> t \notin Api
<1>1. /\ frames[t] # <<>> /\ Len(frames[t]) = 1 /\ Frame(t) = frames[t][1]
      /\ frames[t][1] \in CleanupFrame /\ frames[t][1].at = where
      /\ t \in Api => pc[t] = "end"
      /\ frames[t][1].closing <=> t \notin Api
  BY OuterStep
<1>2. PICK f \in CleanupFrame :
          /\ frames' = [frames EXCEPT ![t] = [frames[t] EXCEPT ![Len(frames[t])] = f]]
          /\ f.at = next /\ f.stream = Frame(t).stream /\ f.closing = Frame(t).closing
  BY <1>1, StepIsUpdate DEF IInv
<1>3. Frame(t).at # "enter" /\ f.at # "enter" /\ (f.at = "remove" => t \in Api)
  BY <1>1, <1>2
<1>4. /\ frames' \in [Threads -> Seq(CleanupFrame)] /\ holding[t] # <<>>
      /\ Locking' /\ \A u \in Threads : FrameShape(u)'
      /\ \A u \in Threads \ {t} : CleanupKnows(u)' /\ Closer(u)' = Closer(u)
      /\ \A u \in Api : CommandKnows(u)'
      /\ frames'[t] # <<>> /\ frames'[t][1] = f
  BY <1>1, <1>2, <1>3, UnderLockStep
<1> QED BY <1>1, <1>2, <1>4

\* tech_pvt->mutex is the one of the private's stream.
LEMMA LockContextStep ==
    ASSUME IInv, NEW t \in Threads, LockContext(t)
    PROVE  IInv'
<1> USE DEF bugvars, streamvars
<1> DEFINE g == frames[t][1].stream
<1>1. /\ InCleanup(t, "lock") /\ Step(t, "detach") /\ mutex' = [mutex EXCEPT ![Frame(t).stream] = t]
      /\ UNCHANGED <<holding, private, bugs, prune, inside, ctx, ws, close, pc, gen>>
      /\ "detach" \in Ats \ {"enter"} /\ TypeOK
  BY DEF LockContext, Ats, IInv
<1>2. /\ frames' \in [Threads -> Seq(CleanupFrame)] /\ holding[t] # <<>>
      /\ Locking' /\ \A u \in Threads : FrameShape(u)'
      /\ \A u \in Threads \ {t} : CleanupKnows(u)' /\ Closer(u)' = Closer(u)
      /\ \A u \in Api : CommandKnows(u)'
      /\ frames[t] # <<>> /\ frames[t][1].at = "lock" /\ Frame(t) = frames[t][1]
      /\ frames'[t] # <<>> /\ frames'[t][1].at = "detach" /\ frames'[t][1].stream = g
      /\ t \in Api => pc[t] = "end"
  BY <1>1, OuterMoves
<1>3. g = private /\ private # None /\ ctx[private] = "live"
  BY <1>2 DEF IInv, CleanupKnows, Attached, Outer
<1> HIDE DEF g
<1>4. TypeOK'
  <2>1. mutex' \in [Streams -> Threads \union {Nobody}]
    BY <1>1 DEF TypeOK
  <2> QED BY <1>1, <1>2, <2>1 DEF TypeOK
<1>5. Attached'
  <2>1. \A h \in Streams : mutex'[h] # Nobody => ctx[h] = "live"
    BY <1>1, <1>2, <1>3 DEF IInv, Attached, TypeOK, g
  <2> QED BY <1>1, <2>1 DEF IInv, Attached
<1>6. Reached'
  <2>1. \A h \in Streams : ~Owns(t, h)
    BY <1>2 DEF Owns, Outer
  <2> QED BY <1>1, <1>2, <2>1, HolderReaches DEF Reached
<1>7. OneCloser'
  <2>1. \A u \in Threads : Closer(u)' => Closer(u)
    BY <1>2 DEF Closer, Outer
  <2> QED BY <1>1, <2>1 DEF IInv, OneCloser
<1>8. CleanupKnows(t)'
  BY <1>1, <1>2, <1>3 DEF CleanupKnows, Outer, g
<1> QED BY <1>2, <1>4, <1>5, <1>6, <1>7, <1>8 DEF IInv

\* From here on the cleanup owns the stream.
LEMMA DetachStep ==
    ASSUME IInv, NEW t \in Threads, Detach(t)
    PROVE  IInv'
<1> USE DEF bugvars, streamvars
<1> DEFINE g == frames[t][1].stream
<1>1. /\ InCleanup(t, "detach") /\ private' = None
      /\ Step(t, IF Frame(t).closing THEN "finish" ELSE "remove")
      /\ UNCHANGED <<holding, bugs, prune, inside, ctx, ws, mutex, close, pc, gen>> /\ TypeOK
  BY DEF Detach, IInv
<1>2. Frame(t).closing <=> t \notin Api
  BY <1>1, OuterStep
<1>3. PICK next \in {"finish", "remove"} :
          /\ Step(t, next) /\ next \in Ats \ {"enter"}
          /\ next = "remove" <=> t \in Api
  BY <1>1, <1>2 DEF Ats
<1>4. /\ frames' \in [Threads -> Seq(CleanupFrame)] /\ holding[t] # <<>>
      /\ Locking' /\ \A u \in Threads : FrameShape(u)'
      /\ \A u \in Threads \ {t} : CleanupKnows(u)' /\ Closer(u)' = Closer(u)
      /\ \A u \in Api : CommandKnows(u)'
      /\ frames[t] # <<>> /\ frames[t][1].at = "detach" /\ Frame(t) = frames[t][1]
      /\ frames'[t] # <<>> /\ frames'[t][1].at = next /\ frames'[t][1].stream = g
      /\ t \in Api => pc[t] = "end"
  BY <1>1, <1>3, OuterMoves
<1>5. g = private /\ private # None /\ private \in Streams /\ ctx[private] = "live"
  BY <1>1, <1>4 DEF IInv, CleanupKnows, Attached, Outer, TypeOK
<1> HIDE DEF g
<1>6. TypeOK'
  BY <1>1, <1>4 DEF TypeOK
<1>7. Attached'
  BY <1>1 DEF IInv, Attached
<1>8. \A h \in Streams : ctx[h] \in {"live", "finished"} => h = private
  <2>1. \A h \in Streams : ~Owns(t, h)
    BY <1>4 DEF Owns, Outer
  <2> QED BY <1>4, <2>1, HolderReaches
<1>9. Reached'
  <2>1. \A h \in Streams : h = private => Owns(t, h)'
    BY <1>3, <1>4, <1>5 DEF Owns, Outer
  <2> QED BY <1>1, <1>8, <2>1 DEF Reached
<1>10. ~Closer(t)' /\ \A u \in Threads : Closer(u)' => Closer(u)
  BY <1>4 DEF Closer, Outer
<1>11. OneCloser'
  BY <1>1, <1>10 DEF IInv, OneCloser
<1>12. t \notin Api => Alone'
  <2>1. ASSUME t \notin Api PROVE Closer(t)
    BY <1>4, <2>1 DEF Closer, Outer
  <2>2. ASSUME t \notin Api PROVE bugs = {} /\ \A u \in Threads \ {t} : ~Closer(u)
    BY <2>1, <2>2 DEF IInv, OneCloser
  <2> QED BY <1>1, <1>10, <2>2 DEF Alone
<1>13. CleanupKnows(t)'
  BY <1>1, <1>3, <1>4, <1>5, <1>12 DEF CleanupKnows, Outer
<1> QED BY <1>4, <1>6, <1>7, <1>9, <1>11, <1>13 DEF IInv

\* The removal is refused: the private names the stream again.
LEMMA RemoveFailsStep ==
    ASSUME IInv, NEW t \in Threads, RemoveFails(t)
    PROVE  IInv'
<1> USE DEF bugvars, streamvars
<1> DEFINE g == frames[t][1].stream
<1>1. /\ InCleanup(t, "remove") /\ private' = Frame(t).stream
      /\ mutex' = [mutex EXCEPT ![Frame(t).stream] = Nobody] /\ Step(t, "leave")
      /\ UNCHANGED <<holding, bugs, prune, inside, ctx, ws, close, pc, gen>>
      /\ "leave" \in Ats \ {"enter"} /\ TypeOK
  BY DEF RemoveFails, IInv, Ats
<1>2. /\ frames' \in [Threads -> Seq(CleanupFrame)] /\ holding[t] # <<>>
      /\ Locking' /\ \A u \in Threads : FrameShape(u)'
      /\ \A u \in Threads \ {t} : CleanupKnows(u)' /\ Closer(u)' = Closer(u)
      /\ \A u \in Api : CommandKnows(u)'
      /\ frames[t] # <<>> /\ frames[t][1].at = "remove" /\ Frame(t) = frames[t][1]
      /\ frames'[t] # <<>> /\ frames'[t][1].at = "leave"
      /\ t \in Api => pc[t] = "end"
  BY <1>1, OuterMoves
<1>3. g \in Streams /\ ctx[g] = "live" /\ private = None /\ private' = g
  BY <1>1, <1>2 DEF IInv, CleanupKnows, Outer
<1>4. \A h \in Streams : ctx[h] \in {"live", "finished"} => h = g
  <2>1. \A h \in Streams : Owns(t, h) => h = g
    BY <1>2 DEF Owns, Outer
  <2> QED BY <1>2, <1>3, <2>1, HolderReaches, NoneIsNoStream
<1> HIDE DEF g
<1>5. TypeOK'
  BY <1>1, <1>2, <1>3 DEF TypeOK
<1>6. Attached'
  <2>1. \A h \in Streams : mutex'[h] # Nobody => mutex[h] # Nobody
    BY <1>1 DEF TypeOK
  <2> QED BY <1>1, <1>3, <2>1 DEF IInv, Attached
<1>7. Reached'
  BY <1>1, <1>3, <1>4 DEF Reached
<1>8. OneCloser'
  <2>1. \A u \in Threads : Closer(u)' => Closer(u)
    BY <1>2 DEF Closer, Outer
  <2> QED BY <1>1, <2>1 DEF IInv, OneCloser
<1>9. CleanupKnows(t)'
  BY <1>2 DEF CleanupKnows, Outer
<1> QED BY <1>2, <1>5, <1>6, <1>7, <1>8, <1>9 DEF IInv

\* The streamer goes, and then the context: of a stream that nothing is attached to.
LEMMA FinishStep ==
    ASSUME IInv, NEW t \in Threads, Finish(t)
    PROVE  IInv'
<1> USE DEF bugvars, streamvars
<1> DEFINE g == frames[t][1].stream
<1>1. /\ InCleanup(t, "finish") /\ Step(t, "destroy")
      /\ ws' = [ws EXCEPT ![Frame(t).stream] = "gone"]
      /\ ctx' = [ctx EXCEPT ![Frame(t).stream] = "finished"]
      /\ mutex' = [mutex EXCEPT ![Frame(t).stream] = Nobody]
      /\ UNCHANGED <<holding, private, bugs, prune, inside, close, pc, gen>>
      /\ "destroy" \in Ats \ {"enter"} /\ TypeOK
  BY DEF Finish, IInv, Ats
<1>2. /\ frames' \in [Threads -> Seq(CleanupFrame)] /\ holding[t] # <<>>
      /\ Locking' /\ \A u \in Threads : FrameShape(u)'
      /\ \A u \in Threads \ {t} : CleanupKnows(u)' /\ Closer(u)' = Closer(u)
      /\ \A u \in Api : CommandKnows(u)'
      /\ frames[t] # <<>> /\ frames[t][1].at = "finish" /\ Frame(t) = frames[t][1]
      /\ frames'[t] # <<>> /\ frames'[t][1].at = "destroy" /\ frames'[t][1].stream = g
      /\ t \in Api => pc[t] = "end"
  BY <1>1, OuterMoves
<1>3. g \in Streams /\ ctx[g] = "live" /\ Alone
  BY <1>2 DEF IInv, CleanupKnows, Outer
<1>4. \A h \in Streams : ctx[h] \in {"live", "finished"} => h = g
  <2>1. \A h \in Streams : Owns(t, h) => h = g
    BY <1>2 DEF Owns, Outer
  <2> QED BY <1>2, <1>3, <2>1, HolderReaches, NoneIsNoStream DEF Alone
<1> HIDE DEF g
<1>5. /\ ctx' \in [Streams -> {"none", "live", "finished", "freed"}] /\ ctx'[g] = "finished"
      /\ ws' \in [Streams -> {"none", "idle", "callback", "gone"}] /\ ws'[g] = "gone"
      /\ mutex' \in [Streams -> Threads \union {Nobody}] /\ mutex'[g] = Nobody
      /\ \A h \in Streams \ {g} : ctx'[h] = ctx[h] /\ ws'[h] = ws[h] /\ mutex'[h] = mutex[h]
  BY <1>1, <1>2, <1>3 DEF TypeOK, g
<1>6. TypeOK'
  BY <1>1, <1>2, <1>5 DEF TypeOK
<1>7. Attached'
  BY <1>1, <1>3, <1>4, <1>5 DEF IInv, Attached, Alone
<1>8. Reached'
  <2>1. \A h \in Streams : h = g => Owns(t, h)'
    BY <1>2 DEF Owns, Outer, g
  <2> QED BY <1>4, <1>5, <2>1 DEF Reached
<1>9. \A u \in Threads : ~Closer(u)'
  BY <1>2, <1>3 DEF Closer, Outer, Alone
<1>10. OneCloser'
  BY <1>9 DEF OneCloser
<1>11. CleanupKnows(t)'
  <2>1. Alone'
    BY <1>1, <1>3, <1>9 DEF Alone
  <2> QED BY <1>2, <1>3, <1>5, <2>1 DEF CleanupKnows, Outer, g
<1> QED BY <1>2, <1>6, <1>7, <1>8, <1>10, <1>11 DEF IInv

\* The context goes last, and with it the stream.
LEMMA DestroyStep ==
    ASSUME IInv, NEW t \in Threads, Destroy(t)
    PROVE  IInv'
<1> USE DEF bugvars, streamvars
<1> DEFINE g == frames[t][1].stream
<1>1. /\ InCleanup(t, "destroy") /\ Step(t, "leave")
      /\ ctx' = [ctx EXCEPT ![Frame(t).stream] = "freed"]
      /\ UNCHANGED <<holding, private, bugs, prune, inside, ws, mutex, close, pc, gen>>
      /\ "leave" \in Ats \ {"enter"} /\ TypeOK
  BY DEF Destroy, IInv, Ats
<1>2. /\ frames' \in [Threads -> Seq(CleanupFrame)] /\ holding[t] # <<>>
      /\ Locking' /\ \A u \in Threads : FrameShape(u)'
      /\ \A u \in Threads \ {t} : CleanupKnows(u)' /\ Closer(u)' = Closer(u)
      /\ \A u \in Api : CommandKnows(u)'
      /\ frames[t] # <<>> /\ frames[t][1].at = "destroy" /\ Frame(t) = frames[t][1]
      /\ frames'[t] # <<>> /\ frames'[t][1].at = "leave"
      /\ t \in Api => pc[t] = "end"
  BY <1>1, OuterMoves
<1>3. g \in Streams /\ ctx[g] = "finished" /\ Alone
  BY <1>2 DEF IInv, CleanupKnows, Outer
<1>4. \A h \in Streams : ctx[h] \in {"live", "finished"} => h = g
  <2>1. \A h \in Streams : Owns(t, h) => h = g
    BY <1>2 DEF Owns, Outer
  <2> QED BY <1>2, <1>3, <2>1, HolderReaches, NoneIsNoStream DEF Alone
<1> HIDE DEF g
<1>5. /\ ctx' \in [Streams -> {"none", "live", "finished", "freed"}]
      /\ ctx'[g] = "freed" /\ \A h \in Streams \ {g} : ctx'[h] = ctx[h]
  BY <1>1, <1>2, <1>3 DEF TypeOK, g
<1>6. TypeOK'
  BY <1>1, <1>2, <1>5 DEF TypeOK
<1>7. Attached'
  <2>1. \A h \in Streams : ws[h] \notin {"idle", "callback"} /\ mutex[h] = Nobody
    BY <1>3, <1>4 DEF IInv, Attached
  <2> QED BY <1>1, <1>3, <2>1 DEF IInv, Attached, Alone
<1>8. Reached'
  BY <1>4, <1>5 DEF Reached
<1>9. OneCloser'
  <2>1. \A u \in Threads : ~Closer(u)'
    BY <1>2, <1>3 DEF Closer, Outer, Alone
  <2> QED BY <2>1 DEF OneCloser
<1>10. CleanupKnows(t)'
  BY <1>2 DEF CleanupKnows, Outer
<1> QED BY <1>2, <1>6, <1>7, <1>8, <1>9, <1>10 DEF IInv

\* A cleanup that begins or ends changes no data.
LEMMA SameData ==
    ASSUME IInv, NEW t \in Threads,
           \A u \in Threads \ {t} : frames'[u] = frames[u],
           frames'[t] # <<>> => \/ frames'[t][1].at \in {"find", "leave"}
                                \/ frames[t] # <<>> /\ frames'[t][1] = frames[t][1],
           Closer(t)' => Closer(t),
           \A h \in Streams : Owns(t, h) => Owns(t, h)',
           UNCHANGED <<bugvars, streamvars, pc, gen>>
    PROVE  /\ Attached' /\ Reached' /\ OneCloser'
           /\ \A u \in Threads : CleanupKnows(u)'
           /\ \A u \in Api : CommandKnows(u)'
<1> USE DEF bugvars, streamvars
<1>1. Attached'
  BY DEF IInv, Attached
<1>2. Reached'
  <2>1. \A u \in Threads, h \in Streams : Owns(u, h) => Owns(u, h)'
    BY DEF Owns, Outer
  <2> QED BY <2>1 DEF IInv, Reached
<1>3. \A u \in Threads : Closer(u)' => Closer(u)
  BY DEF Closer, Outer
<1>4. OneCloser'
  BY <1>3 DEF IInv, OneCloser
<1>5. \A u \in Threads \ {t} : CleanupKnows(u)'
  BY <1>3 DEF IInv, CleanupKnows, Outer, Alone
<1>6. CleanupKnows(t)'
  BY <1>3 DEF IInv, CleanupKnows, Outer, Alone
<1>7. \A u \in Api : CommandKnows(u)'
  BY <1>3 DEF IInv, CommandKnows, Alone
<1> QED BY <1>1, <1>2, <1>4, <1>5, <1>6, <1>7

\* The cleanup gets the lock.
LEMMA EnterStep ==
    ASSUME IInv, NEW t \in Threads, Enter(t)
    PROVE  IInv'
<1>1. /\ TypeOK /\ Locking /\ FrameShape(t) /\ frames[t] # <<>> /\ Frame(t).at = "enter"
      /\ Lock!Acquire(t, Session) /\ Step(t, "find") /\ "find" \in Ats
      /\ UNCHANGED <<bugvars, streamvars, pc, gen>>
  BY DEF Enter, InCleanup, IInv, Ats
<1>2. PICK f \in CleanupFrame :
          /\ frames' = [frames EXCEPT ![t] = [frames[t] EXCEPT ![Len(frames[t])] = f]]
          /\ f.at = "find" /\ f.closing = Frame(t).closing
  BY <1>1, StepIsUpdate
<1>3. /\ frames' \in [Threads -> Seq(CleanupFrame)]
      /\ \A u \in Threads \ {t} : frames'[u] = frames[u]
      /\ frames'[t] # <<>> /\ Len(frames'[t]) = Len(frames[t])
      /\ Len(frames[t]) = 1 => frames'[t][1] = f
      /\ Len(frames[t]) = 2 => frames'[t][1] = frames[t][1] /\ frames'[t][2] = f
      /\ Frame(t)' = f
  BY <1>1, <1>2, StepFrame
<1>4. \/ Len(frames[t]) = 1 /\ Frame(t) = frames[t][1]
      \/ Len(frames[t]) = 2 /\ frames[t][1].at = "finish"
  BY <1>1, FrameCases
<1>5. /\ \A u \in Threads \ {t} : holding[u] = <<>> /\ holding'[u] = <<>>
      /\ holding' \in [Threads -> Seq({Session})] /\ holding'[t] # <<>>
      /\ Len(holding'[t]) = Len(holding[t]) + 1
      /\ \A u, v \in Threads : holding'[u] # <<>> /\ holding'[v] # <<>> => u = v
  BY <1>1, AcquireStep
<1> DEFINE c == IF t \in Api /\ pc[t] # "idle" THEN 1 ELSE 0
<1>6. Len(holding'[t]) = Depth(t)' /\ Len(holding'[t]) <= 3
  <2>0. pc' = pc /\ Len(holding[t]) = Depth(t) /\ c \in {0, 1}
    BY <1>1 DEF Locking
  <2>1. CASE Len(frames[t]) = 1
    <3>1. Depth(t) = c + 0
      BY <1>1, <2>1 DEF Depth
    <3>2. Depth(t)' = c + 1
      BY <1>2, <1>3, <2>0, <2>1 DEF Depth
    <3> HIDE DEF c
    <3> QED BY <1>5, <2>0, <3>1, <3>2
  <2>2. CASE Len(frames[t]) = 2
    <3>1. Depth(t) = c + 1
      BY <1>1, <2>2 DEF Depth
    <3>2. Depth(t)' = c + 2
      BY <1>2, <1>3, <2>0, <2>2 DEF Depth
    <3> HIDE DEF c
    <3> QED BY <1>5, <2>0, <3>1, <3>2
  <2> QED BY <1>4, <2>1, <2>2
<1> HIDE DEF c
<1>7. Locking'
  <2>1. \A u \in Threads \ {t} : Depth(u)' = Depth(u)
    BY <1>1, <1>3 DEF Depth, Frame
  <2>2. \A u \in Threads \ {t} : Len(holding'[u]) = Depth(u)'
    BY <1>1, <1>5, <2>1 DEF Locking
  <2> QED BY <1>5, <1>6, <2>2 DEF Locking
<1>8. TypeOK'
  <2>1. \A u \in Threads : Len(holding'[u]) <= 3
    BY <1>5, <1>6
  <2> QED BY <1>1, <1>3, <1>5, <2>1 DEF TypeOK, bugvars, streamvars
<1>9. \A u \in Threads : FrameShape(u)'
  <2>1. FrameShape(t)'
    BY <1>1, <1>2, <1>3, <1>4 DEF FrameShape
  <2>2. \A u \in Threads \ {t} : FrameShape(u)'
    BY <1>1, <1>3 DEF FrameShape, IInv
  <2> QED BY <2>1, <2>2
<1>10. /\ frames'[t][1].at = "find" \/ frames'[t][1] = frames[t][1]
       /\ Closer(t)' => Closer(t)
       /\ \A h \in Streams : Owns(t, h) => Owns(t, h)'
  <2>1. CASE Len(frames[t]) = 1
    BY <1>1, <1>2, <1>3, <1>4, <2>1 DEF Closer, Owns, Outer
  <2>2. CASE Len(frames[t]) = 2
    BY <1>1, <1>3, <1>4, <2>2 DEF Closer, Owns, Outer
  <2> QED BY <1>4, <2>1, <2>2
<1>11. /\ Attached' /\ Reached' /\ OneCloser'
       /\ \A u \in Threads : CleanupKnows(u)'
       /\ \A u \in Api : CommandKnows(u)'
  BY <1>1, <1>3, <1>10, SameData
<1> QED BY <1>7, <1>8, <1>9, <1>11 DEF IInv

\* It cannot allocate its handle, or it is done: what is left of the stack.
LEMMA ReturnLeaves ==
    ASSUME IInv, NEW t \in Threads, frames[t] # <<>>, Return(t),
           Frame(t).at \in {"enter", "leave"}, UNCHANGED <<bugvars, streamvars, pc, gen>>
    PROVE  /\ frames' \in [Threads -> Seq(CleanupFrame)]
           /\ \A u \in Threads \ {t} : frames'[u] = frames[u]
           /\ \A u \in Threads : FrameShape(u)'
           /\ \A u \in Threads \ {t} : Depth(u)' = Depth(u)
           /\ Depth(t) \in 0..3
           /\ Depth(t)' = IF Frame(t).at = "enter" THEN Depth(t) ELSE Depth(t) - 1
           /\ Attached' /\ Reached' /\ OneCloser'
           /\ \A u \in Threads : CleanupKnows(u)'
           /\ \A u \in Api : CommandKnows(u)'
<1>1. TypeOK /\ FrameShape(t) /\ pc' = pc
  BY DEF IInv
<1>2. /\ frames' \in [Threads -> Seq(CleanupFrame)]
      /\ \A u \in Threads \ {t} : frames'[u] = frames[u]
      /\ Len(frames[t]) = 1 => frames'[t] = <<>>
      /\ Len(frames[t]) = 2 => /\ frames'[t] # <<>> /\ Len(frames'[t]) = 1
                               /\ frames'[t][1] = frames[t][1]
  BY <1>1, ReturnFrame
<1>3. \/ Len(frames[t]) = 1 /\ Frame(t) = frames[t][1]
      \/ Len(frames[t]) = 2 /\ frames[t][1].at = "finish"
  BY <1>1, FrameCases
<1>4. \A u \in Threads : FrameShape(u)'
  <2>1. FrameShape(t)'
    <3>1. CASE Len(frames[t]) = 1
      BY <1>2, <3>1, EmptySeq DEF FrameShape
    <3>2. CASE Len(frames[t]) = 2
      BY <1>1, <1>2, <3>2 DEF FrameShape
    <3> QED BY <1>3, <3>1, <3>2
  <2>2. \A u \in Threads \ {t} : FrameShape(u)'
    BY <1>1, <1>2 DEF FrameShape, IInv
  <2> QED BY <2>1, <2>2
<1>5. \A u \in Threads \ {t} : Depth(u)' = Depth(u)
  BY <1>1, <1>2 DEF Depth, Frame
<1> DEFINE c == IF t \in Api /\ pc[t] # "idle" THEN 1 ELSE 0
<1>6. /\ Depth(t) \in 0..3
      /\ Depth(t)' = IF Frame(t).at = "enter" THEN Depth(t) ELSE Depth(t) - 1
  <2>0. c \in {0, 1}
    OBVIOUS
  <2>1. CASE Len(frames[t]) = 1
    <3>1. Depth(t) = c + (IF Frame(t).at = "enter" THEN 0 ELSE 1)
      BY <2>1 DEF Depth
    <3>2. Depth(t)' = c + 0
      BY <1>1, <1>2, <2>1 DEF Depth
    <3> HIDE DEF c
    <3> QED BY <2>0, <3>1, <3>2
  <2>2. CASE Len(frames[t]) = 2
    <3>1. Depth(t) = c + (IF Frame(t).at = "enter" THEN 1 ELSE 2)
      BY <2>2 DEF Depth
    <3>2. Depth(t)' = c + 1
      <4>1. Frame(t)'.at # "enter"
        BY <1>2, <1>3, <2>2 DEF Frame
      <4> QED BY <1>1, <1>2, <2>2, <4>1 DEF Depth
    <3> HIDE DEF c
    <3> QED BY <2>0, <3>1, <3>2
  <2> QED BY <1>3, <2>1, <2>2
<1> HIDE DEF c
<1>7. /\ frames'[t] # <<>> => frames'[t][1] = frames[t][1]
      /\ Closer(t)' => Closer(t)
      /\ \A h \in Streams : Owns(t, h) => Owns(t, h)'
  <2>1. CASE Len(frames[t]) = 1
    BY <1>1, <1>2, <1>3, <2>1 DEF Closer, Owns, Outer
  <2>2. CASE Len(frames[t]) = 2
    BY <1>1, <1>2, <1>3, <2>2 DEF Closer, Owns, Outer
  <2> QED BY <1>3, <2>1, <2>2
<1>8. /\ Attached' /\ Reached' /\ OneCloser'
      /\ \A u \in Threads : CleanupKnows(u)'
      /\ \A u \in Api : CommandKnows(u)'
  BY <1>2, <1>7, SameData
<1> QED BY <1>2, <1>4, <1>5, <1>6, <1>8

\* It could not allocate its handle: it returns with the locks it came with.
LEMMA EnterFailsStep ==
    ASSUME IInv, NEW t \in Threads, EnterFails(t)
    PROVE  IInv'
<1>1. /\ TypeOK /\ Locking /\ frames[t] # <<>> /\ Frame(t).at = "enter" /\ Return(t)
      /\ UNCHANGED <<holding, bugvars, streamvars, pc, gen>>
  BY DEF EnterFails, InCleanup, IInv
<1>2. /\ frames' \in [Threads -> Seq(CleanupFrame)]
      /\ \A u \in Threads : FrameShape(u)' /\ CleanupKnows(u)'
      /\ \A u \in Threads : Depth(u)' = Depth(u)
      /\ Attached' /\ Reached' /\ OneCloser' /\ \A u \in Api : CommandKnows(u)'
  BY <1>1, ReturnLeaves
<1>3. Locking'
  BY <1>1, <1>2 DEF Locking
<1>4. TypeOK'
  BY <1>1, <1>2 DEF TypeOK, bugvars, streamvars
<1> QED BY <1>2, <1>3, <1>4 DEF IInv

\* It is done: it returns with one lock less.
LEMMA LeaveStep ==
    ASSUME IInv, NEW t \in Threads, Leave(t)
    PROVE  IInv'
<1>1. /\ TypeOK /\ Locking /\ frames[t] # <<>> /\ Frame(t).at = "leave" /\ Return(t)
      /\ UNCHANGED <<bugvars, streamvars, pc, gen>> /\ Lock!Release(t)
  BY DEF Leave, InCleanup, IInv
<1>2. /\ frames' \in [Threads -> Seq(CleanupFrame)]
      /\ \A u \in Threads : FrameShape(u)' /\ CleanupKnows(u)'
      /\ \A u \in Threads \ {t} : Depth(u)' = Depth(u)
      /\ Depth(t) \in 0..3 /\ Depth(t)' = Depth(t) - 1
      /\ Attached' /\ Reached' /\ OneCloser' /\ \A u \in Api : CommandKnows(u)'
  BY <1>1, ReturnLeaves
<1>3. /\ \A u \in Threads \ {t} : holding[u] = <<>> /\ holding'[u] = <<>>
      /\ holding' \in [Threads -> Seq({Session})]
      /\ Len(holding'[t]) = Len(holding[t]) - 1
      /\ \A u, v \in Threads : holding'[u] # <<>> /\ holding'[v] # <<>> => u = v
  BY <1>1, ReleaseStep
<1>4. Len(holding'[t]) = Depth(t)' /\ Len(holding'[t]) <= 3
  <2>1. Len(holding[t]) = Depth(t)
    BY <1>1 DEF Locking
  <2> QED BY <1>2, <1>3, <2>1
<1>5. Locking'
  <2>1. \A u \in Threads \ {t} : Len(holding'[u]) = Depth(u)'
    BY <1>1, <1>2, <1>3 DEF Locking
  <2> QED BY <1>3, <1>4, <2>1 DEF Locking
<1>6. TypeOK'
  <2>1. \A u \in Threads : Len(holding'[u]) <= 3
    BY <1>3, <1>4
  <2> QED BY <1>1, <1>2, <1>3, <2>1 DEF TypeOK, bugvars, streamvars
<1> QED BY <1>2, <1>5, <1>6 DEF IInv

\* There is one live stream at most: an owner holds the lock while the private names
\* none, and what it owns is the stream of its one command or cleanup.
LEMMA OneLive ==
    ASSUME IInv, NEW g \in Streams, NEW h \in Streams,
           ctx[g] \in {"live", "finished"}, ctx[h] \in {"live", "finished"}
    PROVE  g = h
<1>1. ASSUME NEW u \in Threads, NEW k \in Streams, Owns(u, k)
      PROVE  private = None /\ holding[u] # <<>>
  <2>1. CASE u \in Api /\ pc[u] \in {"built", "added"}
    BY <2>1, WorksUnderLock DEF IInv, CommandKnows
  <2>2. CASE Outer(u, {"remove", "finish", "destroy"})
    BY <2>2, WorksUnderLock DEF IInv, CleanupKnows, Outer, Alone
  <2> QED BY <1>1, <2>1, <2>2 DEF Owns
<1>2. CASE private # None
  BY <1>1, <1>2 DEF IInv, Reached
<1>3. CASE private = None
  <2>1. PICK u \in Threads, v \in Threads : Owns(u, g) /\ Owns(v, h)
    BY <1>3, NoneIsNoStream DEF IInv, Reached
  <2>2. u = v
    BY <1>1, <2>1, OthersWait
  <2> QED BY <2>1, <2>2 DEF Owns, Outer, IInv, FrameShape
<1> QED BY <1>2, <1>3

\* A frame on top of another one.
LEMMA SecondFrame ==
    ASSUME NEW S, NEW s \in Seq(S), Len(s) = 1, NEW e \in S
    PROVE  /\ Append(s, e) \in Seq(S) /\ Len(Append(s, e)) = 2
           /\ Append(s, e)[1] = s[1] /\ Append(s, e)[2] = e
<1>1. Append(s, e) \in Seq(S)
  OBVIOUS
<1>2. Len(Append(s, e)) = 2
  OBVIOUS
<1>3. Append(s, e)[2] = e
  <2>1. Append(s, e)[Len(s) + 1] = e
    BY AppendProperties
  <2>2. Len(s) + 1 = 2
    OBVIOUS
  <2> QED BY <2>1, <2>2
<1>4. Append(s, e)[1] = s[1]
  OBVIOUS
<1> QED BY <1>1, <1>2, <1>3, <1>4

\* The removal unlinks the bug and runs its CLOSE callback, in this thread and under
\* the lock: it finds no stream, and no other teardown is pending.
LEMMA RemoveStep ==
    ASSUME IInv, NEW t \in Threads, Remove(t)
    PROVE  IInv'
<1> USE DEF bugvars, streamvars
<1> DEFINE g == frames[t][1].stream
           f == [frames[t][1] EXCEPT !.at = "finish"]
           e == [at |-> "enter", stream |-> None, closing |-> TRUE]
<1>1. /\ InCleanup(t, "remove") /\ NoCallback /\ TypeOK /\ Locking
      /\ Frame(t).stream \in bugs
      /\ bugs' = bugs \ {Frame(t).stream} /\ prune' = prune \ {Frame(t).stream}
      /\ UNCHANGED <<holding, private, inside, ctx, ws, mutex, close, pc, gen>>
  BY DEF Remove, IInv
<1>2. /\ frames[t] # <<>> /\ Len(frames[t]) = 1 /\ Frame(t) = frames[t][1]
      /\ frames[t][1] \in CleanupFrame /\ frames[t][1].at = "remove"
      /\ t \in Api /\ pc[t] = "end" /\ ~frames[t][1].closing
  <2>1. /\ frames[t] # <<>> /\ Len(frames[t]) = 1 /\ Frame(t) = frames[t][1]
        /\ frames[t][1] \in CleanupFrame /\ frames[t][1].at = "remove"
        /\ t \in Api => pc[t] = "end"
        /\ frames[t][1].closing <=> t \notin Api
        /\ frames[t][1].at = "remove" => t \in Api
    BY <1>1, OuterStep
  <2> QED BY <2>1
<1>3. f \in CleanupFrame /\ f.at = "finish" /\ f.stream = g /\ (f.closing <=> frames[t][1].closing)
  BY <1>2 DEF CleanupFrame
<1>4. e \in CleanupFrame /\ e.at = "enter"
  BY DEF CleanupFrame, None
<1>5. frames[t] \in Seq(CleanupFrame)
  BY <1>1 DEF TypeOK
<1>6. frames'[t] = Append([frames[t] EXCEPT ![1] = f], e)
  BY <1>1, <1>2 DEF Remove, TypeOK
<1>7. \A u \in Threads \ {t} : frames'[u] = frames[u]
  BY <1>1 DEF Remove, TypeOK
<1> HIDE DEF f, e
<1>8. /\ frames'[t] \in Seq(CleanupFrame) /\ Len(frames'[t]) = 2
      /\ frames'[t][1] = f /\ frames'[t][2] = e /\ frames'[t] # <<>>
  <2>1. 1 \in 1..Len(frames[t])
    BY <1>2
  <2> DEFINE s == [frames[t] EXCEPT ![1] = f]
  <2>2. s \in Seq(CleanupFrame) /\ Len(s) = 1 /\ s[1] = f
    BY <1>2, <1>3, <1>5, <2>1, ExceptSeq
  <2> HIDE DEF s
  <2>3. Append(s, e) \in Seq(CleanupFrame) /\ Len(Append(s, e)) = 2
        /\ Append(s, e)[1] = f /\ Append(s, e)[2] = e
    BY <1>4, <2>2, SecondFrame
  <2>4. Append(s, e) # <<>>
    BY <2>3, EmptySeq
  <2> QED BY <1>6, <2>3, <2>4 DEF s
<1>9. frames' \in [Threads -> Seq(CleanupFrame)]
  BY <1>1, <1>7, <1>8 DEF TypeOK, Remove
<1>10. g \in Streams /\ ctx[g] = "live" /\ private = None /\ g \in bugs
  BY <1>1, <1>2 DEF IInv, CleanupKnows, Outer
<1>11. bugs' = {} /\ prune' = {}
  <2>1. \A h \in bugs : h = g
    BY <1>1, <1>10, OneLive DEF IInv, Attached, TypeOK
  <2>2. prune \subseteq bugs
    BY DEF IInv, Attached
  <2> QED BY <1>1, <1>2, <2>1, <2>2
<1> HIDE DEF g
<1>12. \A u \in Threads : ~Closer(u)'
  <2>1. \A u \in Threads : ~Closer(u)
    BY <1>10 DEF IInv, OneCloser
  <2> QED BY <1>2, <1>7, <2>1 DEF Closer, Outer
<1>13. TypeOK'
  BY <1>1, <1>9, <1>11 DEF TypeOK
<1>14. Locking'
  <2>1. Depth(t) = 1 + 1
    BY <1>2 DEF Depth
  <2>2. Frame(t)' = e
    BY <1>8 DEF Frame
  <2>3. Depth(t)' = 1 + (2 - 1)
    BY <1>1, <1>2, <1>4, <1>8, <2>2 DEF Depth
  <2>4. \A u \in Threads \ {t} : Depth(u)' = Depth(u)
    BY <1>1, <1>7 DEF Depth, Frame
  <2> QED BY <1>1, <2>1, <2>3, <2>4 DEF Locking
<1>15. Attached'
  BY <1>1, <1>10, <1>11 DEF IInv, Attached, NoCallback
<1>16. Reached'
  <2>1. \A u \in Threads, h \in Streams : Owns(u, h) => Owns(u, h)'
    BY <1>1, <1>2, <1>3, <1>7, <1>8 DEF Owns, Outer, g
  <2> QED BY <1>1, <2>1 DEF IInv, Reached
<1>17. OneCloser'
  BY <1>12 DEF OneCloser
<1>18. \A u \in Threads : FrameShape(u)'
  <2>1. FrameShape(t)'
    BY <1>1, <1>2, <1>3, <1>4, <1>8, ThreadsAssumption DEF FrameShape
  <2>2. \A u \in Threads \ {t} : FrameShape(u)'
    BY <1>1, <1>7 DEF FrameShape, IInv
  <2> QED BY <2>1, <2>2
<1>19. Alone'
  BY <1>1, <1>10, <1>11, <1>12 DEF Alone
<1>20. holding[t] # <<>>
  BY <1>2, WorksUnderLock
<1>21. \A u \in Threads : CleanupKnows(u)'
  <2>1. CleanupKnows(t)'
    BY <1>1, <1>3, <1>8, <1>10, <1>19 DEF CleanupKnows, Outer, g
  <2> QED BY <1>1, <1>7, <1>20, <2>1, OthersKnowNothing
<1>22. \A u \in Api : CommandKnows(u)'
  <2>1. CommandKnows(t)'
    BY <1>1, <1>2 DEF CommandKnows
  <2> QED BY <1>1, <1>7, <1>20, <2>1, OthersKnowNothing
<1> QED BY <1>13, <1>14, <1>15, <1>16, <1>17, <1>18, <1>21, <1>22 DEF IInv

-----------------------------------------------------------------------------
(* Media threads, the WebSocket threads and the hangup, which hold no lock. *)

\* A frame, and what ends a prune or the hangup: the streams and the bugs stay.
LEMMA OutsideStep ==
    ASSUME IInv, NEW t \in Threads \ Api, frames[t] = <<>>, NEW p \in Pcs, Goto(t, p),
           UNCHANGED <<holding, frames, private, bugs, ctx, ws, gen>>,
           prune' \subseteq bugs, inside' \in [Media -> Streams \union {None}],
           mutex' \in [Streams -> Threads \union {Nobody}], close' \in [Streams -> BOOLEAN],
           \A m \in Media : /\ inside'[m] # None => inside'[m] \in bugs
                            /\ pc'[m] \in {"callback", "body"} => inside'[m] # None,
           \A h \in Streams : mutex'[h] # Nobody => mutex[h] # Nobody \/ h \in bugs
    PROVE  IInv'
<1>1. /\ pc' \in [Threads -> Pcs] /\ pc'[t] = p
      /\ \A u \in Threads \ {t} : pc'[u] = pc[u]
      /\ Locking' /\ \A u \in Threads : FrameShape(u)' /\ Closer(u)' = Closer(u)
  BY PcStep
<1>2. TypeOK'
  BY <1>1 DEF IInv, TypeOK, Pcs
<1>3. Attached'
  BY DEF IInv, Attached
<1>4. Reached'
  <2>1. \A u \in Threads, h \in Streams : Owns(u, h)' = Owns(u, h)
    BY <1>1 DEF Owns, Outer
  <2> QED BY <2>1 DEF IInv, Reached
<1>5. OneCloser'
  BY <1>1 DEF IInv, OneCloser
<1>6. \A u \in Threads : CleanupKnows(u)'
  BY <1>1 DEF IInv, CleanupKnows, Outer, Alone
<1>7. \A u \in Api : CommandKnows(u)'
  BY <1>1 DEF IInv, CommandKnows, Alone, Threads
<1> QED BY <1>1, <1>2, <1>3, <1>4, <1>5, <1>6, <1>7 DEF IInv

\* A media callback begins, takes the stream's mutex, skips its frame or ends.
LEMMA FrameStepStep ==
    ASSUME IInv, NEW m \in Media,
           \/ FrameBegins(m) \/ ClosePending(m) \/ FrameLocks(m) \/ FrameSkips(m) \/ FrameEnds(m)
    PROVE  IInv'
<1> USE DEF bugvars, streamvars
<1>1. m \in Threads \ Api /\ TypeOK /\ Attached
  BY ThreadsAssumption DEF Threads, IInv
<1>2. /\ \A n \in Media \ {m} : Goto(m, pc'[m]) => pc'[n] = pc[n]
      /\ \A n \in Media : inside[n] # None => inside[n] \in bugs
      /\ \A n \in Media : pc[n] \in {"callback", "body"} => inside[n] # None
      /\ prune \subseteq bugs /\ bugs \subseteq Streams
      /\ prune \in SUBSET Streams /\ inside \in [Media -> Streams \union {None}]
      /\ mutex \in [Streams -> Threads \union {Nobody}] /\ close \in [Streams -> BOOLEAN]
      /\ pc \in [Threads -> Pcs] /\ Media \subseteq Threads
  BY <1>1 DEF TypeOK, Attached, Pcs, Goto, Threads
<1>3. CASE FrameBegins(m)
  <2>1. PICK g \in bugs : inside' = [inside EXCEPT ![m] = g]
    BY <1>3 DEF FrameBegins
  <2>2. /\ frames[m] = <<>> /\ Goto(m, "callback") /\ "callback" \in Pcs
        /\ UNCHANGED <<holding, frames, private, bugs, prune, ctx, ws, gen, mutex, close>>
    BY <1>3 DEF FrameBegins, At, Pcs
  <2>3. g \in Streams /\ g # None
    BY <1>2, NoneIsNoStream
  <2>4. inside' \in [Media -> Streams \union {None}] /\ inside'[m] = g
        /\ \A n \in Media \ {m} : inside'[n] = inside[n]
    BY <1>2, <2>1, <2>3
  <2>5. \A n \in Media \ {m} : pc'[n] = pc[n]
    BY <1>2, <2>2 DEF Goto
  <2>6. \A n \in Media : /\ inside'[n] # None => inside'[n] \in bugs
                         /\ pc'[n] \in {"callback", "body"} => inside'[n] # None
    BY <1>2, <2>3, <2>4, <2>5
  <2> QED BY <1>1, <1>2, <2>2, <2>4, <2>6, OutsideStep
<1>4. CASE ClosePending(m) \/ FrameSkips(m) \/ FrameEnds(m)
  <2>1. PICK p \in {"prune", "idle"} : Goto(m, p)
    BY <1>4 DEF ClosePending, FrameSkips, FrameEnds
  <2>2. /\ frames[m] = <<>> /\ p \in Pcs /\ pc[m] \in {"callback", "body"}
        /\ inside' = [inside EXCEPT ![m] = None]
        /\ UNCHANGED <<holding, frames, private, bugs, ctx, ws, gen>>
    BY <1>4 DEF ClosePending, FrameSkips, FrameEnds, At, Pcs
  <2>3. inside[m] \in bugs
    BY <1>2, <2>2
  <2>4. inside' \in [Media -> Streams \union {None}] /\ inside'[m] = None
        /\ \A n \in Media \ {m} : inside'[n] = inside[n]
    BY <1>2, <2>2
  <2>5. pc'[m] = p /\ \A n \in Media \ {m} : pc'[n] = pc[n]
    BY <1>2, <2>1 DEF Goto
  <2>6. \A n \in Media : /\ inside'[n] # None => inside'[n] \in bugs
                         /\ pc'[n] \in {"callback", "body"} => inside'[n] # None
    BY <1>2, <2>4, <2>5
  <2>7. prune' \subseteq bugs
    BY <1>2, <1>4, <2>3 DEF ClosePending, FrameSkips, FrameEnds
  <2>8. /\ mutex' \in [Streams -> Threads \union {Nobody}]
        /\ \A h \in Streams : mutex'[h] # Nobody => mutex[h] # Nobody
    BY <1>2, <1>4, <2>3 DEF ClosePending, FrameSkips, FrameEnds
  <2>9. close' \in [Streams -> BOOLEAN]
    BY <1>2, <1>4 DEF ClosePending, FrameSkips, FrameEnds
  <2> QED BY <1>1, <2>1, <2>2, <2>4, <2>6, <2>7, <2>8, <2>9, OutsideStep
<1>5. CASE FrameLocks(m)
  <2>1. /\ frames[m] = <<>> /\ Goto(m, "body") /\ "body" \in Pcs /\ pc[m] = "callback"
        /\ UNCHANGED <<holding, frames, private, bugs, prune, inside, ctx, ws, gen, close>>
    BY <1>5 DEF FrameLocks, At, Pcs
  <2>2. inside[m] \in bugs
    BY <1>2, <2>1
  <2>3. \A n \in Media \ {m} : pc'[n] = pc[n]
    BY <1>2, <2>1 DEF Goto
  <2>4. \A n \in Media : /\ inside'[n] # None => inside'[n] \in bugs
                         /\ pc'[n] \in {"callback", "body"} => inside'[n] # None
    BY <1>2, <2>1, <2>3
  <2>5. /\ mutex' \in [Streams -> Threads \union {Nobody}]
        /\ \A h \in Streams : mutex'[h] # Nobody => mutex[h] # Nobody \/ h \in bugs
    BY <1>1, <1>2, <1>5, <2>2 DEF FrameLocks
  <2> QED BY <1>1, <1>2, <2>1, <2>4, <2>5, OutsideStep
<1> QED BY <1>3, <1>4, <1>5

\* The hangup begins, or a prune or the hangup finds no more bugs.
LEMMA NothingToCloseStep ==
    ASSUME IInv, NEW t \in Threads \ Api, frames[t] = <<>>, NEW p \in {"idle", "hangup", "down"},
           Goto(t, p), UNCHANGED <<holding, bugvars, streamvars, gen, frames>>
    PROVE  IInv'
<1> USE DEF bugvars, streamvars
<1>1. TypeOK /\ Attached /\ p \in Pcs
  BY DEF IInv, Pcs
<1>2. \A m \in Media : pc'[m] \in {"callback", "body"} => pc[m] \in {"callback", "body"}
  <2>1. pc' = [pc EXCEPT ![t] = p] /\ pc \in [Threads -> Pcs] /\ Media \subseteq Threads
    BY <1>1 DEF Goto, TypeOK, Pcs, Threads
  <2> QED BY <2>1
<1> QED BY <1>1, <1>2, OutsideStep DEF TypeOK, Attached

\* The CLOSE callback of a bug that was unlinked calls stream_session_cleanup.
CloseCallback(t) == frames' = [frames EXCEPT ![t] = Call(t, TRUE)]

\* A prune or the hangup unlinks the bug of the live stream and runs its CLOSE
\* callback: no other teardown is pending, and no command builds a stream.
LEMMA UnlinkStep ==
    ASSUME IInv, NEW t \in Threads \ Api, frames[t] = <<>>, t = Core => pc[t] = "hangup", NoCallback,
           NEW g \in bugs,
           bugs' = bugs \ {g}, prune' = prune \ {g}, CloseCallback(t),
           UNCHANGED <<holding, private, inside, streamvars, pc, gen>>
    PROVE  IInv'
<1> USE DEF streamvars
<1>1. TypeOK /\ Locking /\ Attached
  BY DEF IInv
<1>2. /\ frames' \in [Threads -> Seq(CleanupFrame)]
      /\ \A u \in Threads \ {t} : frames'[u] = frames[u]
      /\ frames'[t] # <<>> /\ Len(frames'[t]) = 1
      /\ frames'[t][1].at = "enter" /\ frames'[t][1].closing
      /\ Frame(t)' = frames'[t][1]
  <2>1. frames' = [frames EXCEPT ![t] = Call(t, TRUE)]
    BY DEF CloseCallback
  <2> HIDE DEF streamvars
  <2> QED BY <1>1, <2>1, CallFrame
<1>3. g \in Streams /\ ctx[g] = "live"
  BY <1>1 DEF TypeOK, Attached
<1>4. bugs' = {} /\ prune' = {}
  <2>1. \A h \in bugs : h = g
    BY <1>1, <1>3, OneLive DEF Attached, TypeOK
  <2> QED BY <1>1, <2>1 DEF Attached
<1>5. \A u \in Threads : Closer(u)' => u = t
  <2>1. \A u \in Threads : ~Closer(u)
    BY DEF IInv, OneCloser
  <2> QED BY <1>2, <2>1 DEF Closer, Outer
<1>6. ~Alone
  BY DEF Alone
<1>7. TypeOK'
  BY <1>1, <1>2, <1>4 DEF TypeOK
<1>8. Locking'
  <2>1. Depth(t) = 0
    BY DEF Depth
  <2>2. Depth(t)' = 0 + (1 - 1)
    BY <1>2 DEF Depth
  <2>3. \A u \in Threads \ {t} : Depth(u)' = Depth(u)
    BY <1>2 DEF Depth, Frame
  <2> QED BY <1>1, <2>1, <2>2, <2>3 DEF Locking
<1>9. Attached'
  BY <1>1, <1>4 DEF Attached, NoCallback
<1>10. Reached'
  <2>1. \A u \in Threads, h \in Streams : Owns(u, h) => Owns(u, h)'
    BY <1>2 DEF Owns, Outer
  <2> QED BY <2>1 DEF IInv, Reached
<1>11. OneCloser'
  BY <1>3, <1>4, <1>5 DEF OneCloser
<1>12. \A u \in Threads : FrameShape(u)'
  <2>1. FrameShape(t)'
    BY <1>2 DEF FrameShape
  <2>2. \A u \in Threads \ {t} : FrameShape(u)'
    BY <1>2 DEF FrameShape, IInv
  <2> QED BY <2>1, <2>2
<1>13. \A u \in Threads : CleanupKnows(u)'
  <2>1. CleanupKnows(t)'
    BY <1>2 DEF CleanupKnows, Outer
  <2>2. \A u \in Threads \ {t} : CleanupKnows(u)'
    BY <1>2, <1>6 DEF IInv, CleanupKnows, Outer
  <2> QED BY <2>1, <2>2
<1>14. \A u \in Api : CommandKnows(u)'
  BY <1>6 DEF IInv, CommandKnows
<1> QED BY <1>7, <1>8, <1>9, <1>10, <1>11, <1>12, <1>13, <1>14 DEF IInv

\* A WebSocket callback begins or ends.
LEMMA CallbackStep ==
    ASSUME IInv, NEW g \in Streams, CallbackBegins(g) \/ CallbackEnds(g)
    PROVE  IInv'
<1> USE DEF bugvars
<1>1. UNCHANGED <<holding, private, bugs, prune, inside, ctx, mutex, pc, gen, frames>>
  BY DEF CallbackBegins, CallbackEnds
<1>2. /\ ws' \in [Streams -> {"none", "idle", "callback", "gone"}]
      /\ \A h \in Streams : ws'[h] \in {"idle", "callback"} => ws[h] \in {"idle", "callback"}
  BY DEF CallbackBegins, CallbackEnds, IInv, TypeOK
<1>3. close' \in [Streams -> BOOLEAN]
  BY DEF CallbackBegins, CallbackEnds, IInv, TypeOK
<1>4. TypeOK'
  BY <1>1, <1>2, <1>3 DEF IInv, TypeOK
<1>5. Locking' /\ \A u \in Threads : FrameShape(u)' /\ Closer(u)' = Closer(u)
  BY <1>1 DEF IInv, Locking, Depth, Frame, FrameShape, Closer, Outer
<1>6. Attached'
  BY <1>1, <1>2 DEF IInv, Attached
<1>7. Reached'
  BY <1>1 DEF IInv, Reached, Owns, Outer
<1>8. OneCloser'
  BY <1>1, <1>5 DEF IInv, OneCloser
<1>9. \A u \in Threads : CleanupKnows(u)'
  BY <1>1, <1>5 DEF IInv, CleanupKnows, Outer, Alone
<1>10. \A u \in Api : CommandKnows(u)'
  BY <1>1, <1>2, <1>5 DEF IInv, CommandKnows, Alone
<1> QED BY <1>4, <1>5, <1>6, <1>7, <1>8, <1>9, <1>10 DEF IInv

-----------------------------------------------------------------------------
(* The invariant holds, and what the code promises follows from it. *)

\* The invariant holds at first.
LEMMA InitIInv == Init => IInv
<1> SUFFICES ASSUME Init PROVE IInv
  OBVIOUS
<1>1. /\ private = None /\ bugs = {} /\ prune = {} /\ inside = [m \in Media |-> None]
      /\ ctx = [g \in Streams |-> "none"] /\ ws = [g \in Streams |-> "none"]
      /\ mutex = [g \in Streams |-> Nobody] /\ close = [g \in Streams |-> FALSE]
      /\ pc = [t \in Threads |-> IF t = Core THEN "up" ELSE "idle"]
      /\ gen = [t \in Api |-> None] /\ frames = [t \in Threads |-> <<>>]
      /\ holding = [t \in Threads |-> <<>>]
  BY DEF Init, Lock!Init
<1>2. Core \in Threads \ Api /\ Media \subseteq Threads /\ Api \subseteq Threads /\ Core \notin Media
  BY ThreadsAssumption DEF Threads
<1>3. TypeOK
  <2>1. holding \in [Threads -> Seq({Session})] /\ \A t \in Threads : Len(holding[t]) <= 3
    BY <1>1
  <2>2. frames \in [Threads -> Seq(CleanupFrame)]
    BY <1>1
  <2>3. pc \in [Threads -> Pcs]
    BY <1>1 DEF Pcs
  <2> QED BY <1>1, <2>1, <2>2, <2>3 DEF TypeOK, Pcs
<1>4. \A t \in Threads : frames[t] = <<>> /\ holding[t] = <<>> /\ Len(frames[t]) = 0 /\ Len(holding[t]) = 0
  BY <1>1
<1>5. \A t \in Api : pc[t] = "idle"
  BY <1>1, <1>2
<1>6. Locking
  <2>1. \A t \in Threads : Depth(t) = 0 + 0
    BY <1>4, <1>5 DEF Depth
  <2> QED BY <1>4, <2>1 DEF Locking
<1>7. Attached
  BY <1>1, <1>2 DEF Attached
<1>8. Reached
  BY <1>1 DEF Reached
<1>9. OneCloser
  BY <1>4 DEF OneCloser, Closer, Outer
<1>10. \A t \in Threads : FrameShape(t) /\ CleanupKnows(t)
  BY <1>4 DEF FrameShape, CleanupKnows, Outer
<1>11. \A t \in Api : CommandKnows(t)
  BY <1>5 DEF CommandKnows
<1> QED BY <1>3, <1>6, <1>7, <1>8, <1>9, <1>10, <1>11 DEF IInv

\* Every step keeps it.
LEMMA NextIInv == IInv /\ [Next]_vars => IInv'
<1> SUFFICES ASSUME IInv, [Next]_vars PROVE IInv'
  OBVIOUS
<1>1. CASE \E t \in Api : Command(t) \/ ApiStep(t)
  <2>1. PICK t \in Api : Command(t) \/ ApiStep(t)
    BY <1>1
  <2>2. CASE StartWebSocket(t)
    <3>1. CASE ws' = [ws EXCEPT ![gen[t]] = "idle"] /\ UNCHANGED frames
      BY <2>2, <3>1, StartWebSocketStep DEF StartWebSocket
    <3>2. CASE frames' = [frames EXCEPT ![t] = Call(t, FALSE)] /\ UNCHANGED ws
      <4>1. /\ CleansUp(t) /\ At(t, "published") /\ Goto(t, "end")
            /\ UNCHANGED <<holding, bugvars, streamvars, gen>>
        BY <2>2, <3>2 DEF StartWebSocket, CleansUp, streamvars
      <4> QED BY <4>1, CommandCleansUpStep
    <3> QED BY <2>2, <3>1, <3>2 DEF StartWebSocket
  <2>3. CASE Stop(t)
    <3>1. /\ CleansUp(t) /\ At(t, "command") /\ Goto(t, "end")
          /\ UNCHANGED <<holding, bugvars, streamvars, gen>>
      BY <2>3 DEF Stop, CleansUp
    <3> QED BY <3>1, CommandCleansUpStep
  <2>4. CASE Refuse(t) \/ UseStream(t) \/ MuteUser(t) \/ EndUse(t)
    <3>1. At(t, "command") \/ At(t, "using") \/ At(t, "muting")
      BY <2>4 DEF Refuse, UseStream, MuteUser, EndUse
    <3> QED BY <2>4, <3>1, QuietCommandStep
  <2> QED BY <2>1, <2>2, <2>3, <2>4, CommandStep, EndCommandStep, StartInitStep,
             StartAddBugStep, StartPublishStep DEF ApiStep
<1>2. CASE \E m \in Media : FrameStep(m)
  <2>1. PICK m \in Media : FrameStep(m)
    BY <1>2
  <2>2. m \in Threads \ Api /\ m # Core
    BY ThreadsAssumption DEF Threads
  <2>3. CASE Prune(m)
    <3>1. frames[m] = <<>> /\ NoCallback
      BY <2>3 DEF Prune, At
    <3>2. CASE prune = {} /\ Goto(m, "idle") /\ UNCHANGED <<bugs, prune, frames>>
      <4>1. UNCHANGED <<holding, bugvars, streamvars, gen, frames>>
        BY <2>3, <3>2 DEF Prune, bugvars
      <4> QED BY <2>2, <3>1, <3>2, <4>1, NothingToCloseStep
    <3>3. ASSUME NEW g \in prune, bugs' = bugs \ {g}, prune' = prune \ {g},
                 frames' = [frames EXCEPT ![m] = Call(m, TRUE)], UNCHANGED pc
          PROVE  IInv'
      <4>1. CloseCallback(m) /\ g \in bugs
        BY <3>3 DEF CloseCallback, IInv, Attached
      <4>2. UNCHANGED <<holding, private, inside, streamvars, pc, gen>>
        BY <2>3, <3>3 DEF Prune
      <4>3. bugs' = bugs \ {g} /\ prune' = prune \ {g}
        BY <3>3
      <4> QED BY <2>2, <3>1, <4>1, <4>2, <4>3, UnlinkStep
    <3> QED BY <2>3, <3>2, <3>3 DEF Prune
  <2> QED BY <2>1, <2>3, FrameStepStep DEF FrameStep
<1>3. CASE \E g \in Streams : CallbackBegins(g) \/ CallbackEnds(g)
  BY <1>3, CallbackStep
<1>4. Core \in Threads \ Api
  BY ThreadsAssumption DEF Threads
<1>5. CASE Hangup
  <2>1. Goto(Core, "hangup") /\ UNCHANGED <<holding, bugvars, streamvars, gen, frames>>
    BY <1>5 DEF Hangup
  <2>2. frames[Core] = <<>>
    BY <1>4, <1>5 DEF Hangup, IInv, FrameShape
  <2> QED BY <1>4, <2>1, <2>2, NothingToCloseStep
<1>6. CASE HangupCloses
  <2>1. frames[Core] = <<>> /\ pc[Core] = "hangup" /\ NoCallback
    BY <1>6 DEF HangupCloses, At
  <2>2. CASE bugs = {} /\ Goto(Core, "down") /\ UNCHANGED <<bugs, prune, frames>>
    <3>1. UNCHANGED <<holding, bugvars, streamvars, gen, frames>>
      BY <1>6, <2>2 DEF HangupCloses, bugvars
    <3> QED BY <1>4, <2>1, <2>2, <3>1, NothingToCloseStep
  <2>3. ASSUME NEW g \in bugs, bugs' = bugs \ {g}, prune' = prune \ {g},
               frames' = [frames EXCEPT ![Core] = Call(Core, TRUE)], UNCHANGED pc
        PROVE  IInv'
    <3>1. CloseCallback(Core) /\ bugs' = bugs \ {g} /\ prune' = prune \ {g}
      BY <2>3 DEF CloseCallback
    <3>2. UNCHANGED <<holding, private, inside, streamvars, pc, gen>>
      BY <1>6, <2>3 DEF HangupCloses
    <3> QED BY <1>4, <2>1, <3>1, <3>2, UnlinkStep
  <2> QED BY <1>6, <2>2, <2>3 DEF HangupCloses
<1>7. CASE \E t \in Threads : Cleanup(t)
  BY <1>7, EnterStep, EnterFailsStep, FindStep, LockContextStep, DetachStep, RemoveStep,
     RemoveFailsStep, FinishStep, DestroyStep, LeaveStep DEF Cleanup
<1>8. CASE UNCHANGED vars
  <2>1. UNCHANGED <<holding, private, bugs, prune, inside, ctx, ws, mutex, close, pc, gen, frames>>
    BY <1>8 DEF vars, bugvars, streamvars
  <2>2. TypeOK' /\ Attached'
    BY <2>1 DEF IInv, TypeOK, Attached
  <2>3. Locking'
    BY <2>1 DEF IInv, Locking, Depth, Frame
  <2>4. Reached' /\ OneCloser'
    BY <2>1 DEF IInv, Reached, Owns, Outer, OneCloser, Closer
  <2>5. \A t \in Threads : FrameShape(t)' /\ CleanupKnows(t)'
    BY <2>1 DEF IInv, FrameShape, CleanupKnows, Alone, Closer, Outer
  <2>6. \A t \in Api : CommandKnows(t)'
    BY <2>1 DEF IInv, CommandKnows, Alone, Closer, Outer
  <2> QED BY <2>2, <2>3, <2>4, <2>5, <2>6 DEF IInv
<1> QED BY <1>1, <1>2, <1>3, <1>5, <1>6, <1>7, <1>8 DEF Next

\* The lock, the stacks, the streams and what each thread knows of them fit together.
THEOREM Invariant == Spec => []IInv
BY InitIInv, NextIInv, PTL DEF Spec

\* The types, with three locks at most in a thread: the command's, its cleanup's and
\* that of the CLOSE callback which the removal runs.
THEOREM TypeCorrect == Spec => []TypeOK
BY Invariant, PTL DEF IInv

\* No callback, command or cleanup works on a stream that is gone, and a context is
\* destroyed once, after its streamer and with its mutex unlocked.
THEOREM NoUseAfterFreeHolds == Spec => []NoUseAfterFree
<1>1. ASSUME IInv PROVE NoUseAfterFree
  <2>1. \A m \in Media : inside[m] # None => ctx[inside[m]] = "live"
    BY <1>1 DEF IInv, Attached
  <2>2. \A g \in Streams : /\ ws[g] = "callback" => ctx[g] = "live"
                           /\ mutex[g] # Nobody => ctx[g] = "live"
    BY <1>1 DEF IInv, Attached
  <2>3. \A t \in Api : pc[t] \in {"built", "added", "published", "using", "muting"}
                           => ctx[gen[t]] = "live"
    BY <1>1 DEF IInv, CommandKnows, Attached
  <2>4. ASSUME NEW t \in Threads, NEW i \in 1..Len(frames[t])
        PROVE  LET f == frames[t][i]
               IN  /\ f.at \in {"lock", "detach", "remove", "finish"} => ctx[f.stream] = "live"
                   /\ f.at = "destroy" => ctx[f.stream] = "finished"
    <3>1. TypeOK /\ FrameShape(t) /\ CleanupKnows(t) /\ (private # None => ctx[private] = "live")
      BY <1>1 DEF IInv, Attached
    <3>2. frames[t] # <<>>
      BY <2>4
    <3>3. CASE Len(frames[t]) = 1
      <4>1. i = 1
        BY <3>3
      <4> QED BY <3>1, <3>2, <4>1 DEF CleanupKnows, Outer
    <3>4. CASE Len(frames[t]) = 2
      <4>1. i = 1 \/ i = 2
        BY <3>4
      <4>2. frames[t][2].at \notin {"lock", "detach", "remove", "finish", "destroy"}
        BY <3>1, <3>4 DEF FrameShape
      <4> QED BY <3>1, <3>2, <4>1, <4>2 DEF CleanupKnows, Outer
    <3> QED BY <3>1, <3>2, <3>3, <3>4, FrameCases
  <2> QED BY <2>1, <2>2, <2>3, <2>4 DEF NoUseAfterFree
<1> QED BY <1>1, Invariant, PTL

\* While nobody holds the lifecycle lock, the private names the one live stream and
\* only its bug is linked: every stream is within reach of the next stop.
THEOREM StreamReachableHolds == Spec => []StreamReachable
<1>1. ASSUME IInv PROVE StreamReachable
  <2> SUFFICES ASSUME LockFree
               PROVE  /\ \A g \in Streams : ctx[g] = "live" <=> private = g
                      /\ bugs \subseteq {private}
    BY DEF StreamReachable
  <2>1. \A t \in Threads, g \in Streams : ~Owns(t, g)
    BY <1>1, WorksUnderLock DEF LockFree, Owns, Outer, Threads
  <2>2. \A g \in Streams : ctx[g] = "live" <=> private = g
    BY <1>1, <2>1, NoneIsNoStream DEF IInv, Reached, Attached
  <2>3. bugs \subseteq {private}
    BY <1>1, <2>2 DEF IInv, Attached, TypeOK
  <2> QED BY <2>2, <2>3
<1> QED BY <1>1, Invariant, PTL

\* Two streams of a session never have a WebSocket thread at the same time.
THEOREM OneWebSocketHolds == Spec => []OneWebSocket
<1>1. ASSUME IInv PROVE OneWebSocket
  BY <1>1, OneLive DEF OneWebSocket, IInv, Attached
<1> QED BY <1>1, Invariant, PTL
=============================================================================
