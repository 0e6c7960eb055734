----------------------------- MODULE ApiProofs -----------------------------
(* Theorems about Api, for any commands, subclasses and channel variables. *)
EXTENDS Api, ProtocolProofs, FiniteSetTheorems

USE DEF loadVars, startVars, cmdVars, flags

\* Where a start is tells how far its bug is; the WebSocket runs when it is done.
Building ==
    /\ StreamAllOrNothing
    /\ step = "allocate" => bug = "none"
    /\ step = "publish" <=> bug = "attached"
    /\ step \in {"connect", "done"} => bug = "published"
    /\ step = "done" => started

ParamsOK(p) == p.channels \in {1, 2} /\ RateOK(p.sampling) /\ p.muted \in BOOLEAN

\* The stream is built with one reading of the channel's variables, for parameters that
\* do not change from then on.
Configured ==
    /\ stage = "execute" /\ cmd.name = "start" => ParamsOK(params)
    /\ stage = "start" => ParamsOK(params) /\ cmd.name = "start"
    /\ settings.vars # {} =>
           /\ stage \in {"start", "release"} /\ ParamsOK(params)
           /\ \E v \in ChannelVars : /\ settings.vars = {v}
                                     /\ settings.headers = HeaderMap(ExtraHeaders(v))
                                     /\ settings.buflen = BufLen(params, RtpPackets(v))

\* What a command holds and has written at each of its stages; it succeeds only with the
\* lifecycle locked, so that no callback undoes what it did before it replies.
Answer ==
    /\ stage \in {"idle", "locate", "reply"} => ~located /\ ~guard
    /\ stage = "lock" => located /\ ~guard
    /\ stage \in {"locate", "lock", "switch", "execute", "start"} => ~status
    /\ stage = "release" /\ status => guard
    /\ stage \in {"locate", "lock", "switch"} => verdict = "none"
    /\ stage # "idle" => reply \in {<<>>, <<"usage">>}
    /\ stage = "idle" => reply \in {<<>>, <<"usage">>, <<"ok">>, <<"error">>,
                                    <<"usage", "ok">>, <<"usage", "error">>}

IInv ==
    /\ ApiTypeOK /\ SubclassesAllOrNothing /\ Building /\ Configured /\ Answer
    /\ OkMeansDone /\ MutesAsAsked

-----------------------------------------------------------------------------
(* Loading the module.                                                      *)

LoadTypes ==
    /\ module \in {"unloaded", "loading", "loaded"} /\ owner \in [SubclassNames -> {"none", "us", "other"}]

\* There are as many subclasses as names in the list, since none is in it twice.
LEMMA SubclassCount ==
    Len(Subclasses) \in Nat /\ IsFiniteSet(SubclassNames) /\ Cardinality(SubclassNames) = Len(Subclasses)
<1> DEFINE n == Len(Subclasses)
           f == [i \in 1..n |-> Subclasses[i]]
<1>1. n \in Nat
  BY SubclassesAssumption, LenProperties
<1>2. f \in [1..n -> SubclassNames]
  BY DEF SubclassNames
<1>3. \A name \in SubclassNames : \E i \in 1..n : f[i] = name
  BY DEF SubclassNames
<1>4. \A i, j \in 1..n : f[i] = f[j] => i = j
  BY SubclassesAssumption
<1> HIDE DEF n, f
<1>5. f \in Bijection(1..n, SubclassNames)
  BY <1>2, <1>3, <1>4 DEF Bijection, Injection, Surjection, IsInjective
<1>6. ExistsBijection(1..n, SubclassNames)
  BY <1>5 DEF ExistsBijection
<1>7. IsFiniteSet(SubclassNames) /\ Cardinality(SubclassNames) = n
  BY <1>1, <1>6, FS_NatBijection, FS_CountingElements
<1> QED BY <1>1, <1>7 DEF n

\* Every step of the load, the rollback and the unload keeps all names or none.
LEMMA LoadStepKeeps ==
    ASSUME LoadTypes, SubclassesAllOrNothing, LoadNext \/ Shutdown \/ UNCHANGED loadVars
    PROVE  LoadTypes' /\ SubclassesAllOrNothing'
<1> USE DEF LoadTypes
<1>1. /\ IsFiniteSet(Ours) /\ Ours \subseteq SubclassNames /\ Cardinality(Ours) \in Nat
      /\ Cardinality(Ours) = Len(Subclasses) => Ours = SubclassNames
  <2>1. Ours \in SUBSET SubclassNames
    BY DEF Ours
  <2>2. IsFiniteSet(Ours) /\ (Cardinality(SubclassNames) = Cardinality(Ours) => SubclassNames = Ours)
    BY <2>1, SubclassCount, FS_Subset
  <2> QED BY <2>1, <2>2, SubclassCount, FS_CardinalityType
<1>2. ASSUME FreeEventSubclasses, module' = "unloaded"
      PROVE  LoadTypes' /\ SubclassesAllOrNothing'
  <2>1. owner' \in [SubclassNames -> {"none", "us", "other"}]
    BY <1>2 DEF FreeEventSubclasses
  <2>2. \A name \in SubclassNames : owner'[name] # "us"
    BY <1>2 DEF FreeEventSubclasses
  <2> QED BY <1>2, <2>1, <2>2 DEF SubclassesAllOrNothing, Ours
<1>3. CASE Load
  BY <1>3 DEF Load, SubclassesAllOrNothing
<1>4. CASE ReserveSubclass
  BY <1>4 DEF ReserveSubclass, SubclassesAllOrNothing
<1>5. CASE ReserveFails
  BY <1>2, <1>5 DEF ReserveFails
<1>6. CASE AddApis
  BY <1>1, <1>6 DEF AddApis, SubclassesAllOrNothing, Ours
<1>7. CASE Shutdown
  BY <1>2, <1>7 DEF Shutdown
<1>8. CASE Others
  <2>1. PICK name \in SubclassNames :
            \/ owner[name] = "none" /\ owner' = [owner EXCEPT ![name] = "other"]
            \/ owner[name] = "other" /\ owner' = [owner EXCEPT ![name] = "none"]
    BY <1>8 DEF Others
  <2>2. owner' \in [SubclassNames -> {"none", "us", "other"}]
    BY <2>1
  <2>3. \A other \in SubclassNames : owner'[other] = "us" <=> owner[other] = "us"
    BY <2>1
  <2>4. Ours' = Ours
    BY <2>3 DEF Ours
  <2> QED BY <1>8, <2>2, <2>4 DEF Others, SubclassesAllOrNothing
<1>9. CASE UNCHANGED loadVars
  BY <1>9 DEF SubclassesAllOrNothing, Ours
<1> QED BY <1>3, <1>4, <1>5, <1>6, <1>7, <1>8, <1>9 DEF LoadNext

-----------------------------------------------------------------------------
(* Each part of the invariant, step by step.                                *)

\* The types; commands run only in a loaded module, with their session at hand.
LEMMA TypesStep ==
    ASSUME IInv, [Next]_vars
    PROVE  ApiTypeOK' /\ SubclassesAllOrNothing'
<1>1. ApiTypeOK /\ SubclassesAllOrNothing /\ Building /\ Configured /\ Answer
  BY DEF IInv
<1>2. LoadTypes' /\ SubclassesAllOrNothing'
  <2>1. LoadNext \/ Shutdown \/ UNCHANGED loadVars
    BY DEF vars, Next, LoadStep, Unload, TakeCommand, Usage, LocateSession, LockLifecycle, Accept, Refuse, Execute,
           BeginStart, BuildStream, EndStart, Stop, PauseResume, Mute, SendJson, Release, Reply, SendAudio,
           CloseCallback
  <2> QED BY <1>1, <2>1, LoadStepKeeps DEF ApiTypeOK, LoadTypes
<1> DEFINE Flags == /\ audio_paused \in BOOLEAN /\ user_audio_muted \in BOOLEAN /\ openai_audio_muted \in BOOLEAN
                    /\ located \in BOOLEAN /\ guard \in BOOLEAN /\ status \in BOOLEAN
           Stages ==
               /\ step \in {"none", "begin", "allocate", "publish", "connect", "done", "failed"}
               /\ bug \in {"none", "attached", "published"} /\ started \in BOOLEAN
               /\ stage \in {"idle", "locate", "lock", "switch", "execute", "start", "release", "reply"}
               /\ step # "none" <=> stage = "start"
               /\ stage \in {"switch", "execute", "start"} => located /\ guard
               /\ stage # "idle" => module = "loaded"
<1>3. Stages /\ Flags
  BY <1>1 DEF ApiTypeOK
<1>4. Flags' /\ Stages'
  <2>1. CASE LoadStep
    BY <1>3, <2>1 DEF LoadStep, LoadNext, Load, ReserveSubclass, ReserveFails, AddApis, Others
  <2>2. CASE Unload
    BY <1>3, <2>2 DEF Unload, Shutdown
  <2>3. CASE TakeCommand
    BY <1>3, <2>3 DEF TakeCommand
  <2>4. CASE Usage
    BY <1>3, <2>4 DEF Usage
  <2>5. CASE LocateSession
    BY <1>3, <2>5 DEF LocateSession
  <2>6. CASE LockLifecycle
    <3>1. Stages'
      <4>1. (guard' /\ stage' = "switch") \/ stage' = "release"
        <5>1. ASSUME guard' = TRUE PROVE guard'
          BY <5>1
        <5> QED BY <2>6, <5>1 DEF LockLifecycle
      <4>2. UNCHANGED <<loadVars, startVars, located>> /\ stage = "lock"
        BY <2>6 DEF LockLifecycle
      <4>3. located
        BY <1>1, <4>2 DEF Answer
      <4> QED BY <1>3, <4>1, <4>2, <4>3
    <3>2. guard' \in BOOLEAN
      <4>1. CASE guard' = TRUE
        BY <4>1
      <4>2. CASE UNCHANGED guard
        BY <1>3, <4>2
      <4> QED BY <2>6, <4>1, <4>2 DEF LockLifecycle
    <3>3. UNCHANGED <<audio_paused, user_audio_muted, openai_audio_muted, located, status>>
      BY <2>6 DEF LockLifecycle
    <3> QED BY <1>3, <3>1, <3>2, <3>3
  <2>7. CASE Accept
    BY <1>3, <2>7 DEF Accept
  <2>8. CASE Refuse
    BY <1>3, <2>8 DEF Refuse
  <2>9. CASE BeginStart
    BY <1>3, <2>9 DEF BeginStart, Executes
  <2>10. CASE BuildStream
    <3>1. Stages'
      BY <1>3, <2>10 DEF BuildStream, StartStep, StartRefused, SessionInit, Allocate, AllocationFails, AddBug, Publish,
             StartWebSocket, Fail, Cleanup, CleanupDone
    <3>2. params.muted \in BOOLEAN
      BY <1>1, <2>10 DEF BuildStream, Configured, ParamsOK
    <3>3. \/ SetFlags(FALSE, params.muted, FALSE)
          \/ UNCHANGED <<audio_paused, user_audio_muted, openai_audio_muted>>
      BY <2>10 DEF BuildStream
    <3>4. audio_paused' \in BOOLEAN /\ user_audio_muted' \in BOOLEAN /\ openai_audio_muted' \in BOOLEAN
      BY <1>3, <3>2, <3>3 DEF SetFlags
    <3>5. UNCHANGED <<located, guard, status>>
      BY <2>10 DEF BuildStream
    <3> QED BY <1>3, <3>1, <3>4, <3>5
  <2>11. CASE EndStart
    BY <1>3, <2>11 DEF EndStart, Returns
  <2>12. CASE Stop
    BY <1>3, <2>12 DEF Stop, Executes, Returns, CleanupDone
  <2>13. CASE PauseResume
    <3>1. Stages'
      BY <1>3, <2>13 DEF PauseResume, Executes, Returns
    <3>2. audio_paused' \in BOOLEAN
      <4>1. CASE Published
        BY <2>13, <4>1 DEF PauseResume
      <4>2. CASE ~Published
        BY <1>3, <2>13, <4>2 DEF PauseResume
      <4> QED BY <4>1, <4>2
    <3>3. status' \in BOOLEAN
      BY <2>13 DEF PauseResume, Returns, Published
    <3>4. UNCHANGED <<user_audio_muted, openai_audio_muted, located, guard>>
      BY <2>13 DEF PauseResume
    <3> QED BY <1>3, <3>1, <3>2, <3>3, <3>4
  <2>14. CASE Mute
    BY <1>3, <2>14 DEF Mute, Executes, Returns, UserMuteResult
  <2>15. CASE SendJson
    BY <1>3, <2>15 DEF SendJson, Executes, Returns
  <2>16. CASE Release
    BY <1>3, <2>16 DEF Release, SetFlags
  <2>17. CASE Reply
    BY <1>3, <2>17 DEF Reply
  <2>18. CASE SendAudio
    BY <1>3, <2>18 DEF SendAudio
  <2>19. CASE CloseCallback
    BY <1>3, <2>19 DEF CloseCallback, CleanupDone, SetFlags
  <2>20. CASE UNCHANGED vars
    BY <1>3, <2>20 DEF vars
  <2> QED
    BY <2>1, <2>2, <2>3, <2>4, <2>5, <2>6, <2>7, <2>8, <2>9, <2>10, <2>11, <2>12, <2>13, <2>14, <2>15, <2>16, <2>17, <2>18, <2>19, <2>20 DEF Next, Execute
<1> QED BY <1>2, <1>4 DEF ApiTypeOK, LoadTypes

\* A failed start leaves nothing, whichever of its steps failed; a stream that is there
\* has all it needs.
LEMMA BuildingStep ==
    ASSUME IInv, [Next]_vars
    PROVE  Building'
<1>1. /\ Building /\ StreamAllOrNothing /\ started \in BOOLEAN
      /\ bug \in {"none", "attached", "published"}
      /\ step \in {"none", "begin", "allocate", "publish", "connect", "done", "failed"}
      /\ step # "none" <=> stage = "start"
  BY DEF IInv, Building, ApiTypeOK
<1>2. ASSUME UNCHANGED <<step, held, bug, started>> PROVE Building'
  BY <1>1, <1>2 DEF Building, StreamAllOrNothing
<1>3. ASSUME CleanupDone, step' \in {"none", "failed"} PROVE Building'
  BY <1>3 DEF CleanupDone, DestroyTechPvt, Building, StreamAllOrNothing
<1>4. ASSUME BuildStream PROVE Building'
  <2> USE <1>1 DEF Building, StreamAllOrNothing, Fail
  <2>1. CASE StartRefused
    BY <2>1 DEF StartRefused
  <2>2. CASE SessionInit
    BY <2>2 DEF SessionInit
  <2>3. CASE Allocate
    BY <2>3 DEF Allocate
  <2>4. CASE AllocationFails
    BY <2>4 DEF AllocationFails, DestroyTechPvt
  <2>5. CASE AddBug
    <3>1. CASE bug' = "attached" /\ step' = "publish" /\ UNCHANGED held
      <4>1. Len(ToAllocate) >= 6 /\ ToAllocate[3] = "streamer" /\ ToAllocate[4] = "stream_buffers"
            /\ ToAllocate[5] = "mutex"
        <5> DEFINE first == <<"context", "playback_buffer", "streamer", "stream_buffers", "mutex", "sbuffer">>
        <5>1. \A more \in {<<"resampler">>, <<>>} :
                  /\ Len(first \o more) >= 6 /\ (first \o more)[3] = "streamer"
                  /\ (first \o more)[4] = "stream_buffers" /\ (first \o more)[5] = "mutex"
          OBVIOUS
        <5> QED BY <5>1 DEF ToAllocate, Allocations
      <4>2. Len(ToAllocate) \in Nat
        BY DEF ToAllocate, Allocations
      <4>3. {"streamer", "stream_buffers", "mutex"} \subseteq held
        BY <2>5, <4>1, <4>2 DEF AddBug, Pending
      <4> QED BY <2>5, <3>1, <4>3 DEF AddBug
    <3>2. CASE Fail /\ DestroyTechPvt /\ UNCHANGED bug
      BY <2>5, <3>2 DEF AddBug, DestroyTechPvt
    <3> QED BY <2>5, <3>1, <3>2 DEF AddBug
  <2>6. CASE Publish
    BY <2>6 DEF Publish
  <2>7. CASE StartWebSocket
    <3>1. CASE started' = TRUE /\ step' = "done" /\ UNCHANGED <<held, bug>>
      <4>1. started'
        BY <3>1
      <4> QED BY <2>7, <3>1, <4>1 DEF StartWebSocket
    <3>2. CASE Fail /\ Cleanup
      <4>1. CASE CleanupDone
        BY <1>3, <3>2, <4>1
      <4>2. CASE UNCHANGED <<bug, started, held>>
        BY <2>7, <3>2, <4>2 DEF StartWebSocket
      <4> QED BY <3>2, <4>1, <4>2 DEF Cleanup
    <3> QED BY <2>7, <3>1, <3>2 DEF StartWebSocket
  <2> QED BY <1>4, <2>1, <2>2, <2>3, <2>4, <2>5, <2>6, <2>7 DEF BuildStream, StartStep
<1>5. ASSUME BeginStart PROVE Building'
  <2>1. step = "none"
    BY <1>1, <1>5 DEF BeginStart, Executes
  <2> QED BY <1>1, <1>5, <2>1 DEF BeginStart, Building, StreamAllOrNothing
<1>6. ASSUME EndStart PROVE Building'
  BY <1>1, <1>6 DEF EndStart, Building, StreamAllOrNothing
<1>7. ASSUME Stop PROVE Building'
  <2>1. step = "none" /\ step' = step
    BY <1>1, <1>7 DEF Stop, Executes
  <2>2. CASE CleanupDone
    BY <1>3, <2>1, <2>2
  <2>3. CASE UNCHANGED <<bug, started, held>>
    BY <1>2, <2>1, <2>3
  <2> QED BY <1>7, <2>2, <2>3 DEF Stop
<1>8. ASSUME Release PROVE Building'
  <2>1. UNCHANGED <<step, bug, started>> /\ held' = held \cap Owned
    BY <1>8 DEF Release
  <2> QED BY <1>1, <2>1 DEF Building, StreamAllOrNothing, Owned
<1>9. ASSUME CloseCallback PROVE Building'
  <2>1. stage # "start"
    BY <1>9 DEF CloseCallback, IInv, ApiTypeOK
  <2> QED BY <1>1, <1>3, <1>9, <2>1 DEF CloseCallback
<1>10. \/ BuildStream \/ BeginStart \/ EndStart \/ Stop \/ Release \/ CloseCallback
       \/ UNCHANGED <<step, held, bug, started>>
  BY DEF vars, Next, LoadStep, Unload, TakeCommand, Usage, LocateSession, LockLifecycle, Accept, Refuse, Execute,
         PauseResume, Mute, SendJson, Reply, SendAudio
<1> QED BY <1>2, <1>4, <1>5, <1>6, <1>7, <1>8, <1>9, <1>10

\* An accepted start has parameters a stream can be built for.
LEMMA AcceptedParams ==
    ASSUME NEW c, Accepted(c), c.name = "start"
    PROVE  ParamsOK(Params(c))
<1>1. StartAccepted(c)
  BY DEF Accepted
<1>2. Params(c).channels \in {1, 2} /\ RateOK(Params(c).sampling)
  BY <1>1 DEF StartAccepted, Params
<1>3. Params(c).muted \in BOOLEAN
  <2>1. StartMuted(c.words) \in BOOLEAN
    BY DEF StartMuted
  <2> QED BY <2>1 DEF Params
<1> QED BY <1>2, <1>3 DEF ParamsOK

\* Parameters and settings stay what they are from the acceptance of a start to its end.
LEMMA ConfiguredStep ==
    ASSUME IInv, [Next]_vars
    PROVE  Configured'
<1>1. /\ Configured
      /\ step # "none" <=> stage = "start"
  BY DEF IInv, ApiTypeOK
<1>2. ASSUME UNCHANGED <<params, settings>>,
             stage' # "start",
             stage' = "execute" => stage = "execute" /\ cmd' = cmd,
             settings.vars # {} => stage' = "release"
      PROVE  Configured'
  BY <1>1, <1>2 DEF Configured
<1>3. CASE Accept
  <2>1. settings.vars = {} /\ settings' = settings /\ stage' = "execute" /\ cmd' = cmd
    BY <1>1, <1>3 DEF Accept, Configured
  <2>2. cmd.name = "start" => ParamsOK(params')
    BY <1>3, AcceptedParams DEF Accept
  <2> QED BY <2>1, <2>2 DEF Configured
<1>4. CASE BeginStart
  <2>1. settings.vars = {} /\ UNCHANGED <<params, settings>> /\ stage' = "start" /\ ParamsOK(params)
    BY <1>1, <1>4 DEF BeginStart, Executes, Configured
  <2>2. cmd'.name = "start"
    BY <1>4 DEF BeginStart, NoCommand, Command
  <2> QED BY <2>1, <2>2 DEF Configured
<1>5. CASE BuildStream
  <2>1. stage = "start" /\ UNCHANGED <<stage, cmd, params>> /\ ParamsOK(params) /\ cmd.name = "start"
    BY <1>1, <1>5 DEF BuildStream, StartStep, StartRefused, SessionInit, Allocate, AllocationFails, AddBug,
                      Publish, StartWebSocket, Configured
  <2>2. CASE SessionInit
    <3>1. PICK v \in ChannelVars :
              settings' = [rtp_packets |-> RtpPackets(v), heart_beat |-> HeartBeat(v),
                           headers |-> HeaderMap(ExtraHeaders(v)), buflen |-> BufLen(params, RtpPackets(v)),
                           raw |-> params.raw \/ v.raw, vars |-> {v}]
      BY <2>2 DEF SessionInit
    <3>2. /\ settings'.vars = {v} /\ settings'.headers = HeaderMap(ExtraHeaders(v))
          /\ settings'.buflen = BufLen(params', RtpPackets(v))
      BY <2>1, <3>1
    <3> QED BY <2>1, <3>2 DEF Configured
  <2>3. CASE UNCHANGED settings
    BY <1>1, <2>1, <2>3 DEF Configured
  <2> QED BY <1>5, <2>2, <2>3 DEF BuildStream, StartStep, StartRefused, Allocate, AllocationFails, AddBug, Publish,
                                  StartWebSocket
<1>6. CASE EndStart
  <2>1. UNCHANGED <<params, settings>> /\ stage' = "release"
    BY <1>6 DEF EndStart, Returns
  <2> QED BY <1>2, <2>1
<1>7. CASE Release
  <2>1. settings'.vars = {} /\ stage' = "reply"
    BY <1>7 DEF Release, NoSettings
  <2> QED BY <2>1 DEF Configured
<1>8. CASE \/ TakeCommand \/ Usage \/ LocateSession \/ LockLifecycle \/ Refuse \/ Stop \/ PauseResume \/ Mute
           \/ SendJson \/ Reply \/ SendAudio
  <2>1. /\ UNCHANGED <<params, settings>> /\ stage' \notin {"start", "execute"}
        /\ stage \notin {"start", "release"}
    BY <1>8 DEF TakeCommand, Usage, LocateSession, LockLifecycle, Refuse, Stop, PauseResume, Mute, SendJson, Reply,
                SendAudio, Executes, Returns
  <2> QED BY <1>1, <1>2, <2>1 DEF Configured
<1>9. CASE LoadStep \/ Unload \/ CloseCallback \/ UNCHANGED vars
  <2>1. UNCHANGED <<params, settings, stage, cmd>>
    BY <1>9 DEF LoadStep, Unload, CloseCallback, vars
  <2> QED BY <1>1, <2>1 DEF Configured
<1> QED BY <1>3, <1>4, <1>5, <1>6, <1>7, <1>8, <1>9 DEF Next, Execute

\* A command holds and has written what belongs to its stage.
LEMMA AnswerStep ==
    ASSUME IInv, [Next]_vars
    PROVE  Answer'
<1>1. Answer /\ located \in BOOLEAN /\ guard \in BOOLEAN /\ status \in BOOLEAN
      /\ (stage \in {"switch", "execute", "start"} => located /\ guard)
  BY DEF IInv, ApiTypeOK
<1>2. CASE TakeCommand
  BY <1>1, <1>2 DEF TakeCommand, Answer
<1>3. CASE Usage
  BY <1>1, <1>3 DEF Usage, Answer
<1>4. CASE LocateSession
  <2>1. CASE located' = TRUE /\ stage' = "lock"
    <3>1. located'
      BY <2>1
    <3> QED BY <1>1, <1>4, <2>1, <3>1 DEF LocateSession, Answer
  <2>2. CASE stage' = "reply" /\ UNCHANGED located
    BY <1>1, <1>4, <2>2 DEF LocateSession, Answer
  <2> QED BY <1>4, <2>1, <2>2 DEF LocateSession
<1>5. CASE LockLifecycle
  <2>1. stage = "lock" /\ stage' \in {"switch", "release"} /\ UNCHANGED <<located, verdict, status, reply>>
    BY <1>5 DEF LockLifecycle
  <2>2. ~status' /\ verdict' = "none" /\ reply' \in {<<>>, <<"usage">>}
    BY <1>1, <2>1 DEF Answer
  <2>3. stage' \in {"switch", "release"}
    BY <2>1
  <2> QED BY <2>2, <2>3 DEF Answer
<1>6. CASE Accept \/ BeginStart \/ BuildStream
  <2>1. /\ stage \in {"switch", "execute", "start"} /\ stage' \in {"execute", "start"}
        /\ UNCHANGED <<status, reply, located, guard>>
    BY <1>6 DEF Accept, BeginStart, BuildStream, Executes
  <2>2. ~status' /\ reply' \in {<<>>, <<"usage">>}
    BY <1>1, <2>1 DEF Answer
  <2>3. stage' \in {"execute", "start"}
    BY <2>1
  <2> QED BY <2>2, <2>3 DEF Answer
<1>7. CASE Refuse
  BY <1>1, <1>7 DEF Refuse, Answer
<1>8. CASE EndStart \/ Stop \/ PauseResume \/ Mute \/ SendJson
  <2>1. /\ stage \in {"execute", "start"} /\ stage' = "release" /\ UNCHANGED <<located, guard, verdict, reply>>
    BY <1>8 DEF EndStart, Stop, PauseResume, Mute, SendJson, Executes, Returns
  <2> QED BY <1>1, <2>1 DEF Answer
<1>9. CASE Release
  <2>1. ~located' /\ ~guard'
    BY <1>9 DEF Release
  <2> QED BY <1>1, <1>9, <2>1 DEF Release, Answer
<1>10. CASE Reply
  <2>1. reply' \in {<<"ok">>, <<"error">>, <<"usage", "ok">>, <<"usage", "error">>}
    <3>1. /\ Append(<<>>, "ok") = <<"ok">> /\ Append(<<>>, "error") = <<"error">>
          /\ Append(<<"usage">>, "ok") = <<"usage", "ok">> /\ Append(<<"usage">>, "error") = <<"usage", "error">>
      <4>1. ASSUME NEW x PROVE Append(<<>>, x) = <<x>>
        OBVIOUS
      <4>2. ASSUME NEW x, NEW y PROVE Append(<<x>>, y) = <<x, y>>
        <5> DEFINE s == Append(<<x>>, y)
                   t == <<x, y>>
        <5>1. t \in Seq({x, y}) /\ Len(t) = 2 /\ t[1] = x /\ t[2] = y
          OBVIOUS
        <5>2. <<x>> \in Seq({x, y}) /\ Len(<<x>>) = 1 /\ <<x>>[1] = x
          OBVIOUS
        <5>3. s \in Seq({x, y}) /\ Len(s) = 2 /\ s[1] = x /\ s[2] = y
          BY <5>2, AppendProperties
        <5> HIDE DEF s, t
        <5>4. \A i \in 1..Len(s) : s[i] = t[i]
          BY <5>1, <5>3
        <5>5. s = t
          BY <5>1, <5>3, <5>4, SeqEqual
        <5> QED BY <5>5 DEF s, t
      <4> QED BY <4>1, <4>2
    <3>2. reply \in {<<>>, <<"usage">>}
      BY <1>1, <1>10 DEF Reply, Answer
    <3>3. reply' \in {Append(reply, "ok"), Append(reply, "error")}
      BY <1>10 DEF Reply
    <3> QED BY <3>1, <3>2, <3>3
  <2> QED BY <1>1, <1>10, <2>1 DEF Reply, Answer
<1>11. CASE SendAudio \/ LoadStep \/ Unload \/ CloseCallback \/ UNCHANGED vars
  <2>1. UNCHANGED cmdVars
    BY <1>11 DEF SendAudio, LoadStep, Unload, CloseCallback, vars
  <2> QED BY <1>1, <2>1 DEF Answer
<1> QED BY <1>2, <1>3, <1>4, <1>5, <1>6, <1>7, <1>8, <1>9, <1>10, <1>11 DEF Next, Execute

\* What a command that succeeds has done is still so when it replies, and a mute that is
\* accepted has set each flag it names, whether or not it succeeds.
LEMMA EffectStep ==
    ASSUME IInv, [Next]_vars
    PROVE  OkMeansDone' /\ MutesAsAsked'
<1>1. /\ OkMeansDone /\ MutesAsAsked
      /\ Answer /\ Building /\ StreamAllOrNothing /\ Configured
      /\ bug \in {"none", "attached", "published"} /\ status \in BOOLEAN
      /\ step # "none" <=> stage = "start"
  BY DEF IInv, ApiTypeOK, Building
<1>2. ASSUME stage' # "release" PROVE OkMeansDone' /\ MutesAsAsked'
  BY <1>2 DEF OkMeansDone, MutesAsAsked
<1>3. ASSUME UNCHANGED <<stage, cmd, verdict, status, bug, started, flags>>
      PROVE  OkMeansDone' /\ MutesAsAsked'
  BY <1>1, <1>3 DEF OkMeansDone, MutesAsAsked, Published, Target
<1>4. ASSUME stage' = "release", ~status', verdict' # "accepted"
      PROVE  OkMeansDone' /\ MutesAsAsked'
  BY <1>4 DEF OkMeansDone, MutesAsAsked
<1>5. CASE LockLifecycle \/ Refuse
  <2>1. stage' = "release" => ~status' /\ verdict' # "accepted"
    BY <1>1, <1>5 DEF LockLifecycle, Refuse, Answer
  <2> QED BY <1>2, <1>4, <2>1
<1>6. CASE EndStart
  <2>1. /\ cmd.name = "start" /\ UNCHANGED <<cmd, bug, started>>
        /\ status' <=> step = "done"
    BY <1>1, <1>6 DEF EndStart, Returns, Configured
  <2>2. step = "done" => Published /\ started
    BY <1>1 DEF Building, Published
  <2> QED BY <2>1, <2>2 DEF OkMeansDone, MutesAsAsked, Published
<1>7. CASE Stop
  <2>1. cmd.name = "stop" /\ cmd' = cmd
    BY <1>7 DEF Stop, Executes
  <2>2. ~status' \/ bug' = "none"
    <3>1. CASE CleanupDone
      BY <3>1 DEF CleanupDone
    <3>2. CASE Returns(FALSE)
      BY <3>2 DEF Returns
    <3> QED BY <1>7, <3>1, <3>2 DEF Stop
  <2> QED BY <2>1, <2>2 DEF OkMeansDone, MutesAsAsked, Published
<1>8. CASE PauseResume
  <2>1. /\ cmd.name \in {"pause", "resume"} /\ UNCHANGED <<cmd, bug>>
        /\ (status' <=> Published)
    BY <1>8 DEF PauseResume, Executes, Returns
  <2>2. Published => (audio_paused' <=> cmd.name = "pause")
    BY <1>8 DEF PauseResume
  <2> QED BY <2>1, <2>2 DEF OkMeansDone, MutesAsAsked, Published
<1>9. CASE Mute
  <2>1. /\ cmd.name \in {"mute", "unmute"} /\ UNCHANGED <<cmd, bug>>
        /\ status' => Published
    BY <1>9 DEF Mute, Executes, Returns
  <2>2. /\ Published /\ Targets("user") => (user_audio_muted' <=> cmd.name = "mute")
        /\ Published /\ Targets("openai") => (openai_audio_muted' <=> cmd.name = "mute")
    BY <1>9 DEF Mute
  <2>3. MutesAsAsked'
    BY <2>1, <2>2 DEF MutesAsAsked, Published, Targets, Target
  <2> QED BY <2>1, <2>3 DEF OkMeansDone, Published
<1>10. CASE SendJson
  <2>1. /\ cmd.name = "send_json" /\ UNCHANGED <<cmd, bug, started>> /\ step = "none"
        /\ status' => started
    BY <1>1, <1>10 DEF SendJson, Executes, Returns
  <2>2. started => Published
    BY <1>1, <2>1 DEF Building, StreamAllOrNothing, Published
  <2> QED BY <2>1, <2>2 DEF OkMeansDone, MutesAsAsked, Published
<1>11. CASE CloseCallback
  <2>1. /\ stage = "release" => ~status
        /\ UNCHANGED <<stage, status>> /\ bug' = "none"
    BY <1>1, <1>11 DEF CloseCallback, CleanupDone, Answer
  <2> QED BY <2>1 DEF OkMeansDone, MutesAsAsked, Published
<1>12. CASE \/ TakeCommand \/ Usage \/ LocateSession \/ Accept \/ BeginStart \/ BuildStream \/ Release \/ Reply
            \/ SendAudio
  <2>1. stage' # "release"
    BY <1>12 DEF TakeCommand, Usage, LocateSession, Accept, BeginStart, BuildStream, Release, Reply, SendAudio
  <2> QED BY <1>2, <2>1
<1>13. CASE LoadStep \/ Unload \/ UNCHANGED vars
  BY <1>3, <1>13 DEF LoadStep, Unload, vars
<1> QED BY <1>5, <1>6, <1>7, <1>8, <1>9, <1>10, <1>11, <1>12, <1>13 DEF Next, Execute

-----------------------------------------------------------------------------
(* The headers and the buffer of a stream, for any variables of the channel. *)

\* A usable header is in the map, with its own value or that of a later one of its name.
LEMMA MappedHeader ==
    ASSUME NEW S, NEW items \in Seq(S), NEW i \in 1..Len(items), UsableHeader(items[i])
    PROVE  /\ items[i].name \in DOMAIN HeaderMap(items)
           /\ \E m \in i..Len(items) : /\ items[m].name = items[i].name
                                       /\ HeaderMap(items)[items[i].name] = items[m].value
<1> DEFINE name == items[i].name
           T == {j \in 1..Len(items) : items[j].name = name /\ UsableHeader(items[j])}
<1>1. Len(items) \in Nat /\ T \subseteq 1..Len(items) /\ i \in T
  BY LenProperties
<1>2. Max(T) \in T /\ i <= Max(T)
  BY <1>1, Largest
<1>3. name \in HeaderNames(items)
  BY DEF HeaderNames
<1>4. name \in DOMAIN HeaderMap(items) /\ HeaderMap(items)[name] = items[Max(T)].value
  BY <1>3 DEF HeaderMap
<1>5. Max(T) \in i..Len(items) /\ items[Max(T)].name = name
  BY <1>1, <1>2
<1> QED BY <1>4, <1>5

\* The first Authorization is taken out, if there is one; the other items keep their order.
WithoutAuthorization(items) == RemoveFirstMatch(items, LAMBDA item : item.name = "authorization")

\* Every other header stays, and behind it are only headers that came at or after it.
LEMMA AuthorizationRemoved ==
    ASSUME NEW S, NEW items \in Seq(S)
    PROVE  /\ WithoutAuthorization(items) \in Seq(S)
           /\ \A i \in 1..Len(items) : items[i].name # "authorization" =>
                  \E k \in 1..Len(WithoutAuthorization(items)) :
                      /\ WithoutAuthorization(items)[k] = items[i]
                      /\ \A l \in k..Len(WithoutAuthorization(items)) :
                             \E j \in i..Len(items) : WithoutAuthorization(items)[l] = items[j]
<1> DEFINE rest == WithoutAuthorization(items)
           n == Len(items)
<1>1. n \in Nat
  BY LenProperties
<1>2. CASE ~ \E i \in 1..n : items[i].name = "authorization"
  <2>1. rest = items
    BY <1>2 DEF WithoutAuthorization, RemoveFirstMatch
  <2> QED BY <2>1
<1>3. CASE \E i \in 1..n : items[i].name = "authorization"
  <2> DEFINE T == {i \in 1..n : items[i].name = "authorization"}
             p == Min(T)
             before == SubSeq(items, 1, p - 1)
             after == SubSeq(items, p + 1, n)
  <2>1. p \in 1..n /\ items[p].name = "authorization"
    <3>1. T \subseteq Nat /\ T # {}
      BY <1>3
    <3>2. p \in T
      BY <3>1, Smallest
    <3> QED BY <3>2
  <2>2. rest = before \o after
    BY <1>3 DEF WithoutAuthorization, RemoveFirstMatch, RemoveAt, SelectInSeq
  <2> HIDE DEF p, n, rest
  <2>3. /\ before \in Seq(S) /\ Len(before) = p - 1
        /\ \A k \in 1..(p - 1) : before[k] = items[k]
    <3>1. \A k \in 1..(p - 1) : items[k] \in S
      BY <1>1, <2>1, ElementOfSeq DEF n
    <3>2. 1 \in Int /\ p - 1 \in Int
      BY <1>1, <2>1
    <3> QED BY <1>1, <2>1, <3>1, <3>2, SubSeqProperties
  <2>4. /\ after \in Seq(S) /\ Len(after) = n - p
        /\ \A k \in 1..(n - p) : after[k] = items[p + k]
    <3>1. \A k \in (p + 1)..n : items[k] \in S
      BY <1>1, <2>1, ElementOfSeq DEF n
    <3>2. /\ after \in Seq(S)
          /\ Len(after) = IF p + 1 <= n THEN n - (p + 1) + 1 ELSE 0
          /\ \A k \in 1..(n - (p + 1) + 1) : after[k] = items[p + 1 + k - 1]
      BY <1>1, <2>1, <3>1, SubSeqProperties
    <3> HIDE DEF after
    <3> QED BY <1>1, <2>1, <3>2
  <2> HIDE DEF before, after
  <2>5. /\ rest \in Seq(S) /\ Len(rest) = n - 1
        /\ \A k \in 1..(n - 1) : rest[k] = IF k < p THEN items[k] ELSE items[k + 1]
    <3>1. /\ rest \in Seq(S) /\ Len(rest) = Len(before) + Len(after)
          /\ \A k \in 1..(Len(before) + Len(after)) :
                 rest[k] = IF k <= Len(before) THEN before[k] ELSE after[k - Len(before)]
      BY <2>2, <2>3, <2>4, ConcatProperties
    <3>2. Len(rest) = n - 1
      BY <1>1, <2>1, <2>3, <2>4, <3>1
    <3>3. ASSUME NEW k \in 1..(n - 1) PROVE rest[k] = IF k < p THEN items[k] ELSE items[k + 1]
      <4>1. CASE k < p
        BY <1>1, <2>1, <2>3, <2>4, <3>1, <4>1
      <4>2. CASE ~ (k < p)
        <5>1. k - (p - 1) \in 1..(n - p) /\ p + (k - (p - 1)) = k + 1
          BY <1>1, <2>1, <4>2
        <5>2. rest[k] = after[k - (p - 1)]
          BY <1>1, <2>1, <2>3, <2>4, <3>1, <4>2
        <5> QED BY <2>4, <4>2, <5>1, <5>2
      <4> QED BY <4>1, <4>2
    <3> QED BY <3>1, <3>2, <3>3
  <2>6. ASSUME NEW i \in 1..n, items[i].name # "authorization"
        PROVE  \E k \in 1..Len(rest) :
                   rest[k] = items[i] /\ \A l \in k..Len(rest) : \E j \in i..n : rest[l] = items[j]
    <3>1. i # p
      BY <2>1, <2>6
    <3>2. CASE i < p
      <4>1. i \in 1..Len(rest) /\ rest[i] = items[i]
        BY <1>1, <2>1, <2>5, <3>2
      <4>2. \A l \in i..Len(rest) : \E j \in i..n : rest[l] = items[j]
        BY <1>1, <2>1, <2>5, <3>2
      <4> QED BY <4>1, <4>2
    <3>3. CASE p < i
      <4>1. i - 1 \in 1..Len(rest) /\ rest[i - 1] = items[i]
        BY <1>1, <2>1, <2>5, <3>3
      <4>2. \A l \in (i - 1)..Len(rest) : \E j \in i..n : rest[l] = items[j]
        <5> SUFFICES ASSUME NEW l \in (i - 1)..Len(rest) PROVE \E j \in i..n : rest[l] = items[j]
          OBVIOUS
        <5>1. l \in 1..(n - 1) /\ ~ (l < p) /\ l + 1 \in i..n
          BY <1>1, <2>1, <2>5, <3>3
        <5> QED BY <2>5, <5>1
      <4> QED BY <4>1, <4>2
    <3> QED BY <1>1, <2>1, <3>1, <3>2, <3>3
  <2> QED BY <2>5, <2>6 DEF n, rest
<1> QED BY <1>2, <1>3

\* The key's header is one that AudioStreamer sends.
LEMMA BearerIsUsable == UsableHeader(Bearer) /\ Bearer.name = "authorization" /\ Bearer.value = "bearer"
<1>1. Bearer.name = "authorization" /\ Bearer.value = "bearer" /\ Bearer.string = TRUE
  BY DEF Bearer
<1>2. "authorization" # ""
  OBVIOUS
<1>3. Bearer.string
  BY <1>1
<1> QED BY <1>1, <1>2, <1>3 DEF UsableHeader

\* A sequence of elements of a set is one of elements of a larger set.
LEMMA WiderType ==
    ASSUME NEW S, NEW T, S \subseteq T, NEW s \in Seq(S)
    PROVE  s \in Seq(T)
OBVIOUS

\* The API key's Authorization is the last one, so it is the one that is sent, and no
\* other extra header is lost with the one it replaces.
LEMMA AuthorizationSent ==
    ASSUME NEW v \in ChannelVars, NEW headers, headers = HeaderMap(ExtraHeaders(v))
    PROVE  /\ v.key => "authorization" \in DOMAIN headers /\ headers["authorization"] = "bearer"
           /\ \A items \in v.extra : \A i \in 1..Len(items) :
                  UsableHeader(items[i]) =>
                      /\ items[i].name \in DOMAIN headers
                      /\ \/ v.key /\ items[i].name = "authorization"
                         \/ headers[items[i].name] = items[i].value
                         \/ \E j \in (i + 1)..Len(items) : items[j].name = items[i].name
<1> DEFINE Items == [name : STRING, value : STRING, string : BOOLEAN] \cup {Bearer}
           extra == IF v.extra = {} THEN <<>> ELSE CHOOSE items \in v.extra : TRUE
           rest == WithoutAuthorization(extra)
           all == ExtraHeaders(v)
           n == Len(rest) + 1
<1>1. extra \in Seq(Items) /\ \A items \in v.extra : items = extra
  <2>1. v.extra \subseteq Seq(Items) /\ \A items, others \in v.extra : items = others
    <3> DEFINE S == [name : STRING, value : STRING, string : BOOLEAN]
    <3>1. v.extra \subseteq Seq(S) /\ \A items, others \in v.extra : items = others
      BY ChannelVarsAssumption
    <3>2. S \subseteq Items
      OBVIOUS
    <3> HIDE DEF S, Items
    <3>3. \A items \in Seq(S) : items \in Seq(Items)
      BY <3>2, WiderType
    <3> QED BY <3>1, <3>3
  <2>2. CASE v.extra = {}
    BY <2>2
  <2>3. CASE v.extra # {}
    <3>1. extra \in v.extra
      BY <2>3
    <3> QED BY <2>1, <3>1
  <2> QED BY <2>2, <2>3
<1>2. all = IF v.key THEN Append(rest, Bearer) ELSE extra
  BY DEF ExtraHeaders, WithoutAuthorization
<1> HIDE DEF extra, rest, all, Items
<1>3. /\ rest \in Seq(Items)
      /\ \A i \in 1..Len(extra) : extra[i].name # "authorization" =>
             \E k \in 1..Len(rest) :
                 rest[k] = extra[i] /\ \A l \in k..Len(rest) : \E j \in i..Len(extra) : rest[l] = extra[j]
  <2> DEFINE items == extra
  <2> HIDE DEF items
  <2>1. items \in Seq(Items)
    BY <1>1 DEF items
  <2>2. /\ WithoutAuthorization(items) \in Seq(Items)
        /\ \A i \in 1..Len(items) : items[i].name # "authorization" =>
               \E k \in 1..Len(WithoutAuthorization(items)) :
                   /\ WithoutAuthorization(items)[k] = items[i]
                   /\ \A l \in k..Len(WithoutAuthorization(items)) :
                          \E j \in i..Len(items) : WithoutAuthorization(items)[l] = items[j]
    BY <2>1, AuthorizationRemoved
  <2> QED BY <2>2 DEF items, rest
<1>4. Bearer \in Items /\ UsableHeader(Bearer) /\ Bearer.name = "authorization" /\ Bearer.value = "bearer"
  BY BearerIsUsable DEF Items
<1>5. ASSUME v.key
      PROVE  /\ all \in Seq(Items) /\ Len(all) = n /\ n \in Nat \ {0} /\ all[n] = Bearer
             /\ \A k \in 1..Len(rest) : all[k] = rest[k]
  <2>1. Len(rest) \in Nat
    BY <1>3, LenProperties
  <2> QED BY <1>2, <1>3, <1>4, <1>5, <2>1, AppendProperties
<1>6. all \in Seq(Items)
  BY <1>1, <1>2, <1>5
<1>7. ASSUME v.key PROVE "authorization" \in DOMAIN headers /\ headers["authorization"] = "bearer"
  <2>1. /\ all[n].name \in DOMAIN HeaderMap(all)
        /\ \E m \in n..Len(all) : all[m].name = all[n].name /\ HeaderMap(all)[all[n].name] = all[m].value
    BY <1>4, <1>5, <1>7, MappedHeader
  <2>2. headers = HeaderMap(all)
    BY DEF all
  <2>3. \A m \in n..Len(all) : all[m] = Bearer
    BY <1>5, <1>7
  <2>4. all[n] = Bearer
    BY <1>5, <1>7
  <2> QED BY <1>4, <2>1, <2>2, <2>3, <2>4
<1>8. ASSUME NEW i \in 1..Len(extra), UsableHeader(extra[i])
      PROVE  /\ extra[i].name \in DOMAIN headers
             /\ \/ v.key /\ extra[i].name = "authorization"
                \/ headers[extra[i].name] = extra[i].value
                \/ \E j \in (i + 1)..Len(extra) : extra[j].name = extra[i].name
  <2>1. headers = HeaderMap(all) /\ Len(extra) \in Nat
    BY <1>1, LenProperties DEF all
  <2>2. ASSUME NEW j \in i..Len(extra), extra[j].name = extra[i].name,
               headers[extra[i].name] = extra[j].value
        PROVE  \/ headers[extra[i].name] = extra[i].value
               \/ \E k \in (i + 1)..Len(extra) : extra[k].name = extra[i].name
    <3>1. j = i \/ j \in (i + 1)..Len(extra)
      BY <2>1
    <3> QED BY <2>2, <3>1
  <2>3. CASE ~v.key
    <3>1. all = extra
      BY <1>2, <2>3
    <3>2. /\ extra[i].name \in DOMAIN headers
          /\ \E m \in i..Len(extra) : extra[m].name = extra[i].name /\ headers[extra[i].name] = extra[m].value
      BY <1>1, <1>8, <2>1, <3>1, MappedHeader
    <3> QED BY <2>2, <3>2
  <2>4. CASE v.key /\ extra[i].name = "authorization"
    BY <1>7, <2>4
  <2>5. CASE v.key /\ extra[i].name # "authorization"
    <3>1. PICK k \in 1..Len(rest) :
              rest[k] = extra[i] /\ \A l \in k..Len(rest) : \E j \in i..Len(extra) : rest[l] = extra[j]
      BY <1>3, <2>5
    <3>2. k \in 1..Len(all) /\ all[k] = extra[i]
      BY <1>5, <2>5, <3>1
    <3>3. /\ extra[i].name \in DOMAIN headers
          /\ \E m \in k..Len(all) : all[m].name = extra[i].name /\ headers[extra[i].name] = all[m].value
      BY <1>6, <1>8, <2>1, <3>2, MappedHeader
    <3>4. PICK m \in k..Len(all) : all[m].name = extra[i].name /\ headers[extra[i].name] = all[m].value
      BY <3>3
    <3>5. m \in k..Len(rest)
      <4>1. m # n
        BY <1>4, <1>5, <2>5, <3>4
      <4> QED BY <1>5, <2>5, <4>1
    <3>6. m \in 1..Len(rest) /\ all[m] = rest[m]
      BY <1>5, <2>5, <3>5
    <3>7. PICK j \in i..Len(extra) : rest[m] = extra[j]
      BY <3>1, <3>5
    <3> QED BY <2>2, <3>3, <3>4, <3>6, <3>7
  <2> QED BY <2>3, <2>4, <2>5
<1> QED BY <1>1, <1>7, <1>8

\* The rates up to 48 kHz that are multiples of 8 kHz.
Multiples == {8000, 16000, 24000, 32000, 40000, 48000}
Positive(n) == n \in 1..STREAM_MAX_SAMPLING

\* The rates that the code takes are 8000 to 48000 in steps of 8000, all of them positive.
LEMMA MultiplesOf8000 ==
    ASSUME NEW n
    PROVE  /\ RateOK(n) <=> n \in Multiples
           /\ n \in Multiples <=> \E k \in 1..6 : n = 8000 * k
           /\ n \in Multiples => Positive(n)
<1> DEFINE low == STREAM_MIN_SAMPLING
           high == STREAM_MAX_SAMPLING
<1>1. low = 8000 /\ high = 48000
  BY DEF STREAM_MIN_SAMPLING, STREAM_MAX_SAMPLING
<1>2. RateOK(n) <=> n \in low..high /\ n % 8000 = 0
  BY DEF RateOK
<1>3. Positive(n) <=> n \in 1..high
  BY DEF Positive
<1> HIDE DEF low, high
<1>4. n \in Multiples <=> \E k \in 1..6 : n = 8000 * k
  BY SMT DEF Multiples
<1>5. ASSUME RateOK(n) PROVE n \in Multiples
  <2> DEFINE k == n \div 8000
  <2>1. n \in Nat /\ n >= 8000 /\ n <= 48000 /\ n % 8000 = 0
    <3>1. low \in Nat /\ high \in Nat
      BY <1>1, SMT
    <3>2. n \in low..high /\ n % 8000 = 0
      BY <1>2, <1>5, Zenon
    <3>3. n \in Nat /\ n >= low /\ n <= high
      BY <3>1, <3>2, SMT
    <3> QED BY <1>1, <3>2, <3>3, SMT
  <2>2. n = 8000 * k + (n % 8000) /\ k \in Int
    BY <2>1, SMT
  <2>3. n = 8000 * k
    BY <2>1, <2>2, SMT
  <2> HIDE DEF k
  <2>4. k \in 1..6
    BY <2>1, <2>2, <2>3, SMT
  <2> QED BY <2>3, <2>4, SMT DEF Multiples
<1>6. ASSUME n \in Multiples PROVE RateOK(n) /\ Positive(n)
  <2>1. PICK k \in 1..6 : n = 8000 * k
    BY <1>4, <1>6, SMT
  <2>2. n \in Int /\ n >= 8000 /\ n <= 48000 /\ n % 8000 = 0
    BY <2>1, SMT
  <2>3. n \in low..high /\ n \in 1..high
    <3>1. low \in Int /\ high \in Int /\ n \in Int /\ low <= n /\ 1 <= n /\ n <= high
      BY <1>1, <2>2, SMT
    <3> QED BY <3>1, SMT
  <2> QED BY <1>2, <1>3, <2>2, <2>3, SMT
<1> QED BY <1>4, <1>5, <1>6, SMT

\* The buffer of r packets of 20 ms holds 20 * r ms: 16 bits for each channel.
LEMMA BufferLength ==
    ASSUME NEW p, ParamsOK(p), NEW r \in 1..50
    PROVE  BufLen(p, r) * 1000 = 20 * r * p.sampling * p.channels * 2
<1> DEFINE s == p.sampling
           c == p.channels
<1>1. RateOK(s) /\ c \in {1, 2}
  BY DEF ParamsOK
<1>2. BufLen(p, r) = ((320 * s) \div 8000) * c * r
  BY DEF BufLen, FrameSize8000
<1> HIDE DEF s, c
<1>3. PICK k \in 1..6 : s = 8000 * k
  BY <1>1, MultiplesOf8000, SMT
<1>4. (320 * s) \div 8000 = 320 * k
  BY <1>3
<1>5. \A q \in 1..6 : 320 * q * c * r * 1000 = 20 * r * (8000 * q) * c * 2
  BY <1>1
<1>6. BufLen(p, r) * 1000 = 20 * r * s * c * 2
  BY <1>2, <1>3, <1>4, <1>5
<1> QED BY <1>6 DEF s, c

\* STREAM_BUFFER_SIZE is used if it is a whole number of packets, up to one second.
LEMMA PacketsRead ==
    ASSUME NEW v \in ChannelVars
    PROVE  /\ RtpPackets(v) \in 1..50
           /\ 20 * RtpPackets(v) = IF \E n \in v.buffer_size : \E k \in 1..50 : n = 20 * k
                                   THEN CHOOSE n \in v.buffer_size : TRUE ELSE 20
<1>1. v.buffer_size \subseteq Int /\ \A m, n \in v.buffer_size : m = n
  BY ChannelVarsAssumption
<1>2. CASE \E n \in v.buffer_size : \E k \in 1..50 : n = 20 * k
  <2>1. PICK n \in v.buffer_size : \E k \in 1..50 : n = 20 * k
    BY <1>2
  <2>2. PICK k \in 1..50 : n = 20 * k
    BY <2>1
  <2>3. (CHOOSE m \in v.buffer_size : TRUE) = n
    BY <1>1
  <2>4. n \in 20..1000 /\ n % 20 = 0 /\ n \div 20 = k
    BY <2>2
  <2>5. RtpPackets(v) = k
    BY <2>3, <2>4 DEF RtpPackets
  <2> QED BY <1>2, <2>2, <2>3, <2>5
<1>3. CASE ~ \E n \in v.buffer_size : \E k \in 1..50 : n = 20 * k
  <2>1. ASSUME NEW n \in v.buffer_size, n \in 20..1000, n % 20 = 0 PROVE FALSE
    <3>1. n \div 20 \in 1..50 /\ n = 20 * (n \div 20)
      BY <2>1
    <3> QED BY <1>3, <3>1
  <2>2. RtpPackets(v) = 1
    BY <2>1 DEF RtpPackets
  <2> QED BY <1>3, <2>2
<1> QED BY <1>2, <1>3

-----------------------------------------------------------------------------
\* Nothing is there at the start.
LEMMA Initially == Init => IInv
<1> SUFFICES ASSUME Init PROVE IInv
  OBVIOUS
<1>1. /\ module = "unloaded" /\ owner \in [SubclassNames -> {"none", "other"}]
      /\ step = "none" /\ held = {} /\ bug = "none" /\ started = FALSE /\ settings.vars = {}
      /\ stage = "idle" /\ verdict = "none" /\ status = FALSE /\ reply = <<>> /\ located = FALSE /\ guard = FALSE
      /\ audio_paused = FALSE /\ user_audio_muted = FALSE /\ openai_audio_muted = FALSE
  BY DEF Init, LoadInit, StartInit, NoSettings
<1>2. ApiTypeOK
  <2>1. owner \in [SubclassNames -> {"none", "us", "other"}]
    BY <1>1
  <2>2. {audio_paused, user_audio_muted, openai_audio_muted, located, guard, status} \subseteq BOOLEAN
    BY <1>1
  <2> QED BY <1>1, <2>1, <2>2 DEF ApiTypeOK
<1>3. SubclassesAllOrNothing
  BY <1>1 DEF SubclassesAllOrNothing, Ours
<1>4. Building
  BY <1>1 DEF Building, StreamAllOrNothing
<1>5. Configured
  BY <1>1 DEF Configured
<1>6. Answer
  BY <1>1 DEF Answer
<1>7. OkMeansDone /\ MutesAsAsked
  BY <1>1 DEF OkMeansDone, MutesAsAsked
<1> QED BY <1>2, <1>3, <1>4, <1>5, <1>6, <1>7 DEF IInv

\* Every command keeps the invariant, at each of its stages, and so does what comes
\* between them.
THEOREM Invariant == Spec => []IInv
<1>1. IInv /\ [Next]_vars => IInv'
  BY TypesStep, BuildingStep, ConfiguredStep, AnswerStep, EffectStep DEF IInv
<1> QED BY <1>1, Initially, PTL DEF Spec

\* The types; a command runs only in a loaded module and with its session locked.
THEOREM TypeCorrect == Spec => []ApiTypeOK
<1>1. IInv => ApiTypeOK
  BY DEF IInv
<1> QED BY <1>1, Invariant, PTL

\* The module owns all of its event names or none, however its load ends.
THEOREM SubclassesAllOrNothingHolds == Spec => []SubclassesAllOrNothing
<1>1. IInv => SubclassesAllOrNothing
  BY DEF IInv
<1> QED BY <1>1, Invariant, PTL

\* A stream is complete or leaves nothing behind, whichever of its allocations fails.
THEOREM StreamAllOrNothingHolds == Spec => []StreamAllOrNothing
<1>1. IInv => StreamAllOrNothing
  BY DEF IInv, Building
<1> QED BY <1>1, Invariant, PTL

\* The headers and the buffer are what README says, for all values of the variables.
THEOREM SettingsAsDocumentedHolds == Spec => []SettingsAsDocumented
<1>1. ASSUME IInv PROVE SettingsAsDocumented
  <2>1. CASE settings.vars = {}
    BY <2>1 DEF SettingsAsDocumented, AuthorizationTakesPrecedence, BufferHoldsItsDuration
  <2>2. CASE settings.vars # {}
    <3>1. PICK w \in ChannelVars :
              /\ settings.vars = {w} /\ settings.headers = HeaderMap(ExtraHeaders(w))
              /\ settings.buflen = BufLen(params, RtpPackets(w))
      BY <1>1, <2>2 DEF IInv, Configured
    <3>2. ParamsOK(params)
      BY <1>1, <2>2 DEF IInv, Configured
    <3>3. AuthorizationTakesPrecedence
      BY <3>1, AuthorizationSent DEF AuthorizationTakesPrecedence
    <3>4. BufLen(params, RtpPackets(w)) * 1000 = 20 * RtpPackets(w) * params.sampling * params.channels * 2
      BY <3>2, BufferLength, PacketsRead
    <3>5. BufferHoldsItsDuration
      BY <3>1, <3>4, PacketsRead DEF BufferHoldsItsDuration
    <3> QED BY <3>3, <3>5 DEF SettingsAsDocumented
  <2> QED BY <2>1, <2>2
<1>2. IInv => SettingsAsDocumented
  BY <1>1
<1> QED BY <1>2, Invariant, PTL

\* A command has done what it replies to have done and leaves nothing held, even when it
\* fails; its reply has one status, as the last line.
THEOREM CommandsTakeEffectHolds == Spec => []CommandsTakeEffect
<1>1. IInv => CommandsTakeEffect
  <2> SUFFICES ASSUME IInv PROVE SessionReleased
    BY DEF IInv, CommandsTakeEffect
  <2>1. stage \in {"idle", "reply"} => ~located /\ ~guard
    BY DEF IInv, Answer
  <2>2. reply \in {<<>>, <<"usage">>, <<"ok">>, <<"error">>, <<"usage", "ok">>, <<"usage", "error">>}
    BY DEF IInv, Answer
  <2>3. \A i \in 1..Len(reply) : reply[i] = "usage" <=> i < Len(reply) \/ reply = <<"usage">>
    <3>1. ASSUME NEW x \in {"ok", "error"}, reply \in {<<x>>, <<"usage", x>>}
          PROVE  \A i \in 1..Len(reply) : reply[i] = "usage" <=> i < Len(reply) \/ reply = <<"usage">>
      <4>1. x # "usage"
        OBVIOUS
      <4>2. CASE reply = <<x>>
        <5>1. reply # <<"usage">> /\ Len(reply) = 1 /\ reply[1] = x
          BY <4>1, <4>2
        <5> QED BY <4>1, <5>1
      <4>3. CASE reply = <<"usage", x>>
        <5>1. Len(reply) = 2 /\ reply[1] = "usage" /\ reply[2] = x /\ reply # <<"usage">>
          BY <4>3
        <5> QED BY <4>1, <5>1
      <4> QED BY <3>1, <4>2, <4>3
    <3>2. CASE reply \in {<<>>, <<"usage">>}
      BY <3>2
    <3> QED BY <2>2, <3>1, <3>2
  <2> QED BY <2>1, <2>3 DEF SessionReleased
<1> QED BY <1>1, Invariant, PTL

-----------------------------------------------------------------------------
(* The arguments of the commands.                                           *)

\* The words that start takes, whatever the URI.
WordsAccepted(c) ==
    /\ c.words # <<>> /\ c.words[1] \in {"mono", "mixed", "stereo"} /\ ~Leftover(c.words)
    /\ RateOK(Params(c).sampling) /\ RateOK(Params(c).playback)

\* A word is taken for a good rate if and only if README names it, and for the rate it names.
LEMMA RatesTaken ==
    ASSUME NEW w
    PROVE  /\ RateOK(ParseSamplingRate(w)) <=> w \in RateNames
           /\ w \in RateNames => ParseSamplingRate(w) = Rate(w) /\ ~IsMuteUser(w)
<1> DEFINE S == {"8k", "16k", "24k"}
           D == {"0", "12000", "16000", "48000", "56000"}
<1>1. DOMAIN Shortcut = S /\ DOMAIN Decimal = D /\ \A v \in S : v \notin D /\ ~IsMuteUser(v)
  BY DEF Shortcut, Decimal, IsMuteUser
<1>2. \A v \in D : ~IsMuteUser(v)
  BY DEF IsMuteUser
<1>3. \A v \in S : Shortcut[v] \in Multiples
  BY SMT DEF Shortcut, Multiples
<1>4. RateNames = S \cup {v \in D : Decimal[v] \in Multiples}
  <2>1. RateNames = S \cup {"16000", "48000"}
    BY DEF RateNames
  <2>2. \A v \in D : Decimal[v] \in Multiples <=> v \in {"16000", "48000"}
    BY SMT DEF Decimal, Multiples
  <2>3. {v \in D : Decimal[v] \in Multiples} = {"16000", "48000"}
    BY <2>2, Zenon
  <2> QED BY <2>1, <2>3
<1>5. ParseSamplingRate(w) = IF w \in S THEN Shortcut[w]
                             ELSE IF w \in D /\ Positive(Decimal[w]) THEN Decimal[w] ELSE -1
  BY <1>1, SMT DEF ParseSamplingRate, Positive
<1>6. w \in RateNames => Rate(w) = IF w \in S THEN Shortcut[w] ELSE Decimal[w]
  BY SMT DEF RateNames, Rate, Shortcut, Decimal
<1>7. -1 \notin Multiples
  BY SMT DEF Multiples
<1>8. \A n : (RateOK(n) <=> n \in Multiples) /\ (n \in Multiples => Positive(n))
  <2> SUFFICES ASSUME NEW n PROVE (RateOK(n) <=> n \in Multiples) /\ (n \in Multiples => Positive(n))
    OBVIOUS
  <2> QED BY MultiplesOf8000, SMT
<1> HIDE DEF S, D
<1>9. CASE w \in S
  BY <1>1, <1>3, <1>4, <1>5, <1>6, <1>8, <1>9, Zenon
<1>10. CASE w \in D
  <2>1. w \notin S
    BY <1>1, <1>10, Zenon
  <2>2. w \in RateNames <=> Decimal[w] \in Multiples
    BY <1>4, <1>10, <2>1, Zenon
  <2>3. (w \in RateNames => Rate(w) = Decimal[w]) /\ ~IsMuteUser(w)
    BY <1>2, <1>6, <1>10, <2>1, Zenon
  <2>4. CASE Positive(Decimal[w])
    BY <1>5, <1>8, <1>10, <2>1, <2>2, <2>3, <2>4, Zenon
  <2>5. CASE ~Positive(Decimal[w])
    BY <1>5, <1>7, <1>8, <1>10, <2>1, <2>2, <2>3, <2>5, Zenon
  <2> QED BY <2>4, <2>5
<1>11. CASE w \notin S /\ w \notin D
  BY <1>4, <1>5, <1>7, <1>8, <1>11, Zenon
<1> QED BY <1>9, <1>10, <1>11

\* The rate of a start that names none is one of the rates.
LEMMA DefaultRate == RateOK(24000)
BY MultiplesOf8000, SMT DEF Multiples

\* How the words are counted, and that what is counted is there.
LEMMA WordsCounted ==
    ASSUME NEW words \in Seq(STRING), words # <<>>
    PROVE  LET n == Len(words)
               rates == RateWords(words)
               muted == StartMuted(words)
           IN  /\ n \in Nat /\ n >= 1 /\ rates \in 0..2 /\ muted \in BOOLEAN /\ n >= rates + 1
               /\ muted <=> n >= rates + 2 /\ IsMuteUser(words[rates + 2])
               /\ Leftover(words) <=> n >= rates + 2 + IF muted THEN 1 ELSE 0
               /\ rates >= 1 <=> n >= 2 /\ ~IsMuteUser(words[2])
               /\ rates = 2 <=> n >= 3 /\ ~IsMuteUser(words[2]) /\ ~IsMuteUser(words[3])
<1>1. Len(words) \in Nat /\ Len(words) >= 1
  BY LenProperties, EmptySeq
<1> QED BY <1>1 DEF RateWords, StartMuted, Leftover, MutedAt, Word, IsRateWord

\* Words that start takes are of a form README describes, and are understood as it says.
LEMMA AcceptedWords ==
    ASSUME NEW c, c.words \in Seq(STRING), WordsAccepted(c)
    PROVE  \E r \in Readings(c.words) : Means(c.words, r, Params(c))
<1> DEFINE words == c.words
           n == Len(words)
           rates == RateWords(words)
           muted == StartMuted(words)
           p == Params(c)
<1>1. /\ n \in Nat /\ n >= 1 /\ rates \in 0..2 /\ muted \in BOOLEAN /\ n >= rates + 1
      /\ muted <=> n >= rates + 2 /\ IsMuteUser(words[rates + 2])
      /\ Leftover(words) <=> n >= rates + 2 + IF muted THEN 1 ELSE 0
      /\ rates >= 1 <=> n >= 2 /\ ~IsMuteUser(words[2])
      /\ rates = 2 <=> n >= 3 /\ ~IsMuteUser(words[2]) /\ ~IsMuteUser(words[3])
  BY WordsCounted DEF WordsAccepted
<1>2. words[1] \in {"mono", "mixed", "stereo"} /\ ~Leftover(words) /\ RateOK(p.sampling) /\ RateOK(p.playback)
  BY DEF WordsAccepted
<1>3. /\ p.channels = IF words[1] = "stereo" THEN 2 ELSE 1
      /\ p.sampling = IF rates >= 1 THEN ParseSamplingRate(words[2]) ELSE 24000
      /\ p.playback = IF rates = 2 THEN ParseSamplingRate(words[3]) ELSE 24000
      /\ p.muted = muted
  BY SMT DEF Params
<1> HIDE DEF words, n, rates, muted, p
<1>4. n = 1 + rates + IF muted THEN 1 ELSE 0
  BY <1>1, <1>2
<1>5. rates >= 1 => words[2] \in RateNames /\ p.sampling = Rate(words[2])
  <2>1. rates >= 1 => p.sampling = ParseSamplingRate(words[2])
    BY <1>3, SMT
  <2> QED BY <1>2, <2>1, RatesTaken
<1>6. rates = 2 => words[3] \in RateNames /\ p.playback = Rate(words[3])
  <2>1. rates = 2 => p.playback = ParseSamplingRate(words[3])
    BY <1>3, SMT
  <2> QED BY <1>2, <2>1, RatesTaken
<1>7. muted => IsMuteUser(words[n])
  BY <1>1, <1>4
<1>8. \A i \in 2..(rates + 1) : words[i] \in RateNames
  <2> SUFFICES ASSUME NEW i \in 2..(rates + 1) PROVE words[i] \in RateNames
    OBVIOUS
  <2>1. (i = 2 /\ rates >= 1) \/ (i = 3 /\ rates = 2)
    BY <1>1
  <2> QED BY <1>5, <1>6, <2>1
<1> DEFINE r == <<rates, muted>>
<1>9. r \in (0..2) \X BOOLEAN /\ r[1] = rates /\ r[2] = muted
  BY <1>1
<1> HIDE DEF r
<1>10. r \in Readings(words)
  <2>1. Reading(words, rates, muted)
    BY <1>2, <1>4, <1>7, <1>8 DEF Reading, n
  <2> QED BY <1>9, <2>1 DEF Readings
<1>11. Means(words, r, p)
  <2>1. p.channels = 2 <=> words[1] = "stereo"
    BY <1>3, SMT
  <2>2. p.sampling = IF rates >= 1 THEN Rate(words[2]) ELSE 24000
    BY <1>3, <1>5, SMT
  <2>3. p.playback = IF rates = 2 THEN Rate(words[3]) ELSE 24000
    BY <1>3, <1>6, SMT
  <2> QED BY <1>3, <1>9, <2>1, <2>2, <2>3, SMT DEF Means
<1> QED BY <1>10, <1>11 DEF words, p

\* Words of a form README describes are taken.
LEMMA ReadingsAccepted ==
    ASSUME NEW c, c.words \in Seq(STRING), Readings(c.words) # {}
    PROVE  WordsAccepted(c)
<1> DEFINE words == c.words
           n == Len(words)
           rates == RateWords(words)
           muted == StartMuted(words)
           p == Params(c)
<1>1. PICK r \in (0..2) \X BOOLEAN : Reading(words, r[1], r[2])
  BY DEF Readings
<1> DEFINE k == r[1]
           m == r[2]
<1>2. k \in 0..2 /\ m \in BOOLEAN /\ n = 1 + k + (IF m THEN 1 ELSE 0)
      /\ words[1] \in {"mono", "mixed", "stereo"}
      /\ (\A i \in 2..(k + 1) : words[i] \in RateNames)
      /\ (m => IsMuteUser(words[n]))
  BY <1>1 DEF Reading
<1>3. words # <<>>
  <2>1. n # 0
    BY <1>2
  <2> QED BY <2>1
<1>4. /\ n \in Nat /\ n >= 1 /\ rates \in 0..2 /\ muted \in BOOLEAN /\ n >= rates + 1
      /\ muted <=> n >= rates + 2 /\ IsMuteUser(words[rates + 2])
      /\ Leftover(words) <=> n >= rates + 2 + IF muted THEN 1 ELSE 0
      /\ rates >= 1 <=> n >= 2 /\ ~IsMuteUser(words[2])
      /\ rates = 2 <=> n >= 3 /\ ~IsMuteUser(words[2]) /\ ~IsMuteUser(words[3])
  BY <1>3, WordsCounted
<1>5. /\ p.sampling = IF rates >= 1 THEN ParseSamplingRate(words[2]) ELSE 24000
      /\ p.playback = IF rates = 2 THEN ParseSamplingRate(words[3]) ELSE 24000
  BY SMT DEF Params
<1> HIDE DEF words, n, rates, muted, p, k, m
<1>6. /\ k >= 1 => words[2] \in RateNames /\ ~IsMuteUser(words[2])
      /\ k = 2 => words[3] \in RateNames /\ ~IsMuteUser(words[3])
  <2>1. (k >= 1 => 2 \in 2..(k + 1)) /\ (k = 2 => 3 \in 2..(k + 1))
    BY <1>2
  <2> QED BY <1>2, <2>1, RatesTaken
<1>7. rates = k /\ muted = m
  <2>1. CASE k = 0
    BY <1>2, <1>4, <2>1
  <2>2. CASE k = 1
    BY <1>2, <1>4, <1>6, <2>2
  <2>3. CASE k = 2
    BY <1>2, <1>4, <1>6, <2>3
  <2> QED BY <1>2, <2>1, <2>2, <2>3
<1>8. ~Leftover(words)
  BY <1>2, <1>4, <1>7
<1>9. RateOK(p.sampling)
  <2>1. CASE k >= 1
    <3>1. p.sampling = ParseSamplingRate(words[2])
      BY <1>5, <1>7, <2>1, SMT
    <3> QED BY <1>6, <2>1, <3>1, RatesTaken
  <2>2. CASE ~(k >= 1)
    <3>1. p.sampling = 24000
      BY <1>5, <1>7, <2>2, SMT
    <3> QED BY <3>1, DefaultRate, SMT
  <2> QED BY <2>1, <2>2
<1>10. RateOK(p.playback)
  <2>1. CASE k = 2
    <3>1. p.playback = ParseSamplingRate(words[3])
      BY <1>5, <1>7, <2>1, SMT
    <3> QED BY <1>6, <2>1, <3>1, RatesTaken
  <2>2. CASE k # 2
    <3>1. p.playback = 24000
      BY <1>5, <1>7, <2>2, SMT
    <3> QED BY <3>1, DefaultRate, SMT
  <2> QED BY <2>1, <2>2
<1> QED BY <1>2, <1>3, <1>8, <1>9, <1>10 DEF WordsAccepted, words, p

\* What start is accepted with is what README describes.
LEMMA StartChecked ==
    ASSUME NEW c, c.words \in Seq(STRING), c.uri.rest \in Seq(STRING)
    PROVE  /\ StartAccepted(c) =>
                  IsWsUri(c.uri, MaxWsUri) /\ \E r \in Readings(c.words) : Means(c.words, r, Params(c))
           /\ ~StartAccepted(c) => ~IsWsUri(c.uri, MaxWsUri) \/ Readings(c.words) = {}
<1>1. ValidateWsUri(c.uri, MaxWsUri) <=> IsWsUri(c.uri, MaxWsUri)
  <2>1. MaxWsUri \in Nat
    BY FramesAssumption
  <2> QED BY <2>1, UrisAreChecked
<1>2. StartAccepted(c) <=> WordsAccepted(c) /\ ValidateWsUri(c.uri, MaxWsUri)
  BY Zenon DEF StartAccepted, WordsAccepted
<1> QED BY <1>1, <1>2, AcceptedWords, ReadingsAccepted, Zenon

\* The command line is one that may be given, or has been cleared; what is executed was
\* accepted, and what was refused was not.
Checked ==
    /\ cmd.words \in Seq(STRING) /\ cmd.uri.rest \in Seq(STRING) /\ cmd.text \in Seq(1..255) /\ cmd.args \in Nat
    /\ stage = "execute" => Accepted(cmd) /\ (cmd.name = "start" => params = Params(cmd))
    /\ verdict = "refused" => stage = "release" /\ ~Accepted(cmd)

\* The cleared command line.
LEMMA ClearedShape ==
    ASSUME NEW c, c \in {NoCommand, [NoCommand EXCEPT !.name = "start"]}
    PROVE  c.words \in Seq(STRING) /\ c.uri.rest \in Seq(STRING) /\ c.text \in Seq(1..255) /\ c.args \in Nat
<1>1. c.words = <<>> /\ c.uri.rest = <<>> /\ c.text = <<>> /\ c.args = 0
  BY DEF NoCommand, Command, NoUri
<1>2. <<>> \in Seq(STRING) /\ <<>> \in Seq(1..255) /\ 0 \in Nat
  OBVIOUS
<1> QED BY <1>1, <1>2, Zenon

\* No command is under way in the beginning.
LEMMA CheckedInitially == Init => Checked
<1> SUFFICES ASSUME Init PROVE Checked
  OBVIOUS
<1>1. cmd = NoCommand /\ stage = "idle" /\ verdict = "none"
  BY DEF Init
<1> QED BY <1>1, ClearedShape DEF Checked

\* No step of a command or a callback runs what was not accepted.
LEMMA CheckedStep ==
    ASSUME IInv, Checked, [Next]_vars
    PROVE  Checked'
<1> DEFINE Shaped(c) == c.words \in Seq(STRING) /\ c.uri.rest \in Seq(STRING) /\ c.text \in Seq(1..255)
                        /\ c.args \in Nat
<1>1. /\ Shaped(cmd)
      /\ stage = "execute" => Accepted(cmd) /\ (cmd.name = "start" => params = Params(cmd))
      /\ verdict = "refused" => stage = "release" /\ ~Accepted(cmd)
  BY DEF Checked
<1>2. ASSUME Shaped(cmd'), stage' # "execute", verdict' # "refused" PROVE Checked'
  BY <1>2 DEF Checked
<1>3. ASSUME UNCHANGED <<stage, cmd, verdict, params>> PROVE Checked'
  BY <1>1, <1>3 DEF Checked, Accepted, StartAccepted, Params
<1>4. Shaped(NoCommand) /\ Shaped([NoCommand EXCEPT !.name = "start"])
  BY ClearedShape
<1>5. stage \in {"locate", "lock", "switch"} => verdict = "none"
  BY DEF IInv, Answer
<1> HIDE DEF Shaped
<1>6. CASE LoadStep
  BY <1>3, <1>6 DEF LoadStep
<1>7. CASE Unload
  BY <1>3, <1>7 DEF Unload
<1>8. CASE TakeCommand
  <2>1. cmd' \in Commands \cup StartCommands \cup TextCommands /\ stage' = "locate" /\ verdict' = "none"
    BY <1>8 DEF TakeCommand
  <2>2. Shaped(cmd')
    BY <2>1, CommandsAssumption DEF Shaped
  <2> QED BY <1>2, <2>1, <2>2
<1>9. CASE Usage
  BY <1>2, <1>4, <1>5, <1>9 DEF Usage
<1>10. CASE LocateSession
  BY <1>1, <1>2, <1>5, <1>10 DEF LocateSession
<1>11. CASE LockLifecycle
  <2>1. stage' \in {"switch", "release"} /\ UNCHANGED <<cmd, verdict>> /\ stage = "lock"
    BY <1>11 DEF LockLifecycle
  <2> QED BY <1>1, <1>2, <1>5, <2>1
<1>12. CASE Accept
  <2>1. /\ Accepted(cmd) /\ verdict' = "accepted" /\ cmd' = cmd
        /\ params' = IF cmd.name = "start" THEN Params(cmd) ELSE params
    BY <1>12 DEF Accept
  <2>2. Accepted(cmd)' /\ Params(cmd)' = Params(cmd)
    BY <2>1 DEF Accepted, StartAccepted, Params
  <2> QED BY <1>1, <2>1, <2>2 DEF Checked, Shaped
<1>13. CASE Refuse
  <2>1. ~Accepted(cmd) /\ verdict' = "refused" /\ stage' = "release" /\ cmd' = cmd
    BY <1>13 DEF Refuse
  <2>2. ~Accepted(cmd)'
    BY <2>1 DEF Accepted, StartAccepted, Params
  <2> QED BY <1>1, <2>1, <2>2 DEF Checked, Shaped
<1>14. CASE BeginStart
  <2>1. stage = "execute" /\ stage' = "start" /\ cmd' = [NoCommand EXCEPT !.name = "start"] /\ verdict' = verdict
    BY <1>14 DEF BeginStart, Executes
  <2> QED BY <1>1, <1>2, <1>4, <2>1
<1>15. CASE BuildStream
  <2>1. stage = "start" /\ UNCHANGED <<stage, cmd, verdict>>
    BY <1>15 DEF BuildStream
  <2> QED BY <1>1, <1>2, <2>1
<1>16. CASE EndStart
  BY <1>1, <1>2, <1>16 DEF EndStart, Returns
<1>17. CASE Stop
  <2>1. stage = "execute" /\ stage' = "release" /\ UNCHANGED <<cmd, verdict>>
    BY <1>17 DEF Stop, Executes, Returns
  <2> QED BY <1>1, <1>2, <2>1
<1>18. CASE PauseResume
  BY <1>1, <1>2, <1>18 DEF PauseResume, Executes, Returns
<1>19. CASE Mute
  BY <1>1, <1>2, <1>19 DEF Mute, Executes, Returns
<1>20. CASE SendJson
  BY <1>1, <1>2, <1>20 DEF SendJson, Executes, Returns
<1>21. CASE Release
  BY <1>2, <1>4, <1>21 DEF Release
<1>22. CASE Reply
  BY <1>1, <1>2, <1>4, <1>22 DEF Reply
<1>23. CASE SendAudio
  BY <1>3, <1>23 DEF SendAudio
<1>24. CASE CloseCallback
  BY <1>3, <1>24 DEF CloseCallback
<1>25. CASE UNCHANGED vars
  BY <1>3, <1>25 DEF vars
<1> QED
  BY <1>6, <1>7, <1>8, <1>9, <1>10, <1>11, <1>12, <1>13, <1>14, <1>15, <1>16, <1>17, <1>18, <1>19, <1>20, <1>21, <1>22, <1>23, <1>24, <1>25 DEF Next, Execute

\* What stream_api_execute runs was accepted by its checks, and with the parameters
\* they read: at every point of a command, for command lines of any length.
LEMMA CheckedHolds == Spec => []Checked
<1>1. Init => Checked
  BY CheckedInitially
<1>2. IInv /\ Checked /\ [Next]_vars => Checked'
  BY CheckedStep
<1> QED BY <1>1, <1>2, Invariant, PTL DEF Spec

\* A start runs if and only if its URI and its words are what README describes, and with
\* what they mean; a stop is refused a text if and only if it is not UTF-8: for commands
\* of any length.
THEOREM ArgumentsAsDocumentedHolds == Spec => []ArgumentsAsDocumented
<1>1. ASSUME Checked PROVE StartAsDocumented
  <2>1. cmd.words \in Seq(STRING) /\ cmd.uri.rest \in Seq(STRING)
    BY <1>1 DEF Checked
  <2>2. /\ StartAccepted(cmd) =>
               IsWsUri(cmd.uri, MaxWsUri) /\ \E r \in Readings(cmd.words) : Means(cmd.words, r, Params(cmd))
        /\ ~StartAccepted(cmd) => ~IsWsUri(cmd.uri, MaxWsUri) \/ Readings(cmd.words) = {}
    BY <2>1, StartChecked
  <2>3. cmd.name = "start" => (Accepted(cmd) <=> StartAccepted(cmd))
    BY DEF Accepted
  <2> QED BY <1>1, <2>2, <2>3, Zenon DEF Checked, StartAsDocumented
<1>2. ASSUME Checked PROVE StopTakesUtf8
  <2> SUFFICES ASSUME cmd.name = "stop"
               PROVE  /\ stage = "execute" => cmd.args = 0 \/ (cmd.args = 1 /\ IsUtf8(cmd.text))
                      /\ verdict = "refused" => cmd.args > 1 \/ ~IsUtf8(cmd.text)
    BY DEF StopTakesUtf8
  <2>1. cmd.text \in Seq(1..255) /\ cmd.args \in Nat
    BY <1>2 DEF Checked
  <2>2. IsValidUtf8(Memory(cmd.text)) <=> IsUtf8(cmd.text)
    BY <2>1, Utf8IsChecked DEF Memory
  <2>3. Accepted(cmd) <=> cmd.args <= 1 /\ (cmd.args = 1 => IsUtf8(cmd.text))
    BY <2>2 DEF Accepted
  <2>4. (stage = "execute" => Accepted(cmd)) /\ (verdict = "refused" => ~Accepted(cmd))
    BY <1>2 DEF Checked
  <2> QED BY <2>1, <2>3, <2>4
<1>3. Checked => ArgumentsAsDocumented
  BY <1>1, <1>2 DEF ArgumentsAsDocumented
<1> QED BY <1>3, CheckedHolds, PTL

-----------------------------------------------------------------------------
(* Base64, in both directions *)

\* What send_json gives to cJSON is what was decoded, up to a 0 byte, if it could be; what
\* was last written of the audio is the text of one of its frames.
TextDecodedAs(text) == IF DecodeFails(text) \/ text = <<>> THEN {} ELSE {CString(Base64Decode(text))}
Encoded(w) == \E frame \in AudioFrames : w = [frame |-> frame, text |-> Base64Encode(frame, FALSE)]
SendsText == stage = "release" /\ verdict = "accepted" /\ cmd.name = "send_json" /\ Published
Carried ==
    /\ SendsText => json_text = TextDecodedAs(cmd.text)
    /\ wire = NoWire \/ Encoded(wire)

\* Only send_json decodes and only stream_frame encodes.
LEMMA CarriedStep ==
    ASSUME IInv, Carried, [Next]_vars
    PROVE  Carried'
<1>1. /\ SendsText => json_text = TextDecodedAs(cmd.text)
      /\ wire = NoWire \/ Encoded(wire)
  BY DEF Carried
<1>2. ASSUME UNCHANGED wire \/ wire' = NoWire PROVE wire' = NoWire \/ Encoded(wire')
  BY <1>1, <1>2
<1>3. ASSUME wire' = NoWire \/ Encoded(wire'), ~SendsText' PROVE Carried'
  BY <1>3 DEF Carried, Encoded, NoWire
<1>4. ASSUME wire' = NoWire \/ Encoded(wire'), SendsText' => SendsText, UNCHANGED <<cmd, json_text>> PROVE Carried'
  BY <1>1, <1>4 DEF Carried, Encoded, NoWire, TextDecodedAs
<1>5. stage \in {"locate", "lock", "switch"} => verdict = "none"
  BY DEF IInv, Answer
<1>6. stage = "start" => cmd.name = "start"
  BY DEF IInv, Configured
<1> HIDE DEF Encoded
<1>7. CASE LoadStep
  BY <1>2, <1>4, <1>7 DEF LoadStep, SendsText, Published
<1>8. CASE Unload
  BY <1>2, <1>4, <1>8 DEF Unload, SendsText, Published
<1>9. CASE TakeCommand
  BY <1>2, <1>3, <1>9 DEF TakeCommand, SendsText
<1>10. CASE Usage
  BY <1>2, <1>3, <1>10 DEF Usage, SendsText
<1>11. CASE LocateSession
  BY <1>2, <1>3, <1>11 DEF LocateSession, SendsText
<1>12. CASE LockLifecycle
  BY <1>2, <1>3, <1>5, <1>12 DEF LockLifecycle, SendsText
<1>13. CASE Accept
  BY <1>2, <1>3, <1>13 DEF Accept, SendsText
<1>14. CASE Refuse
  BY <1>2, <1>3, <1>14 DEF Refuse, SendsText
<1>15. CASE BeginStart
  BY <1>2, <1>3, <1>15 DEF BeginStart, SendsText
<1>16. CASE BuildStream
  <2>1. stage = "start" /\ UNCHANGED <<stage, wire>>
    BY <1>16 DEF BuildStream
  <2> QED BY <1>2, <1>3, <2>1 DEF SendsText
<1>17. CASE EndStart
  BY <1>2, <1>3, <1>6, <1>17 DEF EndStart, SendsText
<1>18. CASE Stop
  <2>1. cmd.name = "stop" /\ UNCHANGED <<cmd, wire>>
    BY <1>18 DEF Stop, Executes
  <2> QED BY <1>2, <1>3, <2>1 DEF SendsText
<1>19. CASE PauseResume
  BY <1>2, <1>3, <1>19 DEF PauseResume, Executes, SendsText
<1>20. CASE Mute
  <2>1. cmd.name \in {"mute", "unmute"} /\ UNCHANGED <<cmd, wire>>
    BY <1>20 DEF Mute, Executes
  <2> QED BY <1>2, <1>3, <2>1 DEF SendsText
<1>21. CASE SendJson
  <2>1. UNCHANGED <<cmd, wire, bug>>
    BY <1>21 DEF SendJson
  <2>2. json_text' = IF ~Published \/ DecodeFails(cmd.text) \/ cmd.text = <<>> THEN {}
                   ELSE {CString(Base64Decode(cmd.text))}
    BY <1>21, Zenon DEF SendJson
  <2>3. SendsText' => json_text' = TextDecodedAs(cmd.text)
    BY <2>1, <2>2 DEF SendsText, TextDecodedAs, Published
  <2> QED BY <1>2, <2>1, <2>3 DEF Carried, Encoded, TextDecodedAs
<1>22. CASE Release
  BY <1>2, <1>3, <1>22 DEF Release, SendsText
<1>23. CASE Reply
  BY <1>2, <1>3, <1>23 DEF Reply, SendsText
<1>24. CASE SendAudio
  <2>1. stage = "idle" /\ UNCHANGED stage
    BY <1>24 DEF SendAudio
  <2>2. Encoded(wire')
    BY <1>24, Zenon DEF SendAudio, Encoded
  <2> QED BY <1>3, <2>1, <2>2 DEF SendsText
<1>25. CASE CloseCallback
  <2>1. bug' = "none" /\ UNCHANGED wire
    BY <1>25 DEF CloseCallback, CleanupDone
  <2> QED BY <1>2, <1>3, <2>1 DEF SendsText, Published
<1>26. CASE UNCHANGED vars
  BY <1>2, <1>4, <1>26 DEF vars, SendsText, Published
<1> QED
  BY <1>7, <1>8, <1>9, <1>10, <1>11, <1>12, <1>13, <1>14, <1>15, <1>16, <1>17, <1>18, <1>19, <1>20, <1>21, <1>22, <1>23, <1>24, <1>25, <1>26 DEF Next, Execute

\* The bytes before the first 0.
LEMMA CStringIs ==
    ASSUME NEW bytes \in Seq(Nat)
    PROVE  \E n \in 0..Len(bytes) :
               /\ Len(CString(bytes)) = n
               /\ \A i \in 1..n : CString(bytes)[i] = bytes[i] /\ bytes[i] # 0
               /\ n = Len(bytes) => CString(bytes) = bytes
               /\ n < Len(bytes) => bytes[n + 1] = 0
<1> DEFINE L == Len(bytes)
           T == {i \in 1..(L + 1) : i > L \/ bytes[i] = 0}
           m == Min(T)
           n == m - 1
           cut == CString(bytes)
<1>1. L \in Nat
  BY LenProperties
<1>2. m \in T /\ \A y \in T : m <= y
  <2>1. L + 1 \in 1..(L + 1) /\ L + 1 > L
    BY <1>1
  <2>2. L + 1 \in T /\ T \subseteq Nat
    BY <1>1, <2>1
  <2> HIDE DEF T
  <2> QED BY <2>2, Smallest
<1>3. cut = SubSeq(bytes, 1, n)
  BY Zenon DEF CString
<1> HIDE DEF L, m, cut
<1>4. n \in 0..L /\ m = n + 1 /\ (m > L \/ bytes[m] = 0)
  BY <1>1, <1>2
<1>5. \A i \in 1..n : bytes[i] # 0
  <2> SUFFICES ASSUME NEW i \in 1..n, bytes[i] = 0 PROVE FALSE
    OBVIOUS
  <2>1. i \in 1..(L + 1) /\ ~(m <= i)
    BY <1>1, <1>2, <1>4
  <2> QED BY <1>2, <2>1
<1> HIDE DEF n
<1>6. Len(cut) = n /\ \A i \in 1..n : cut[i] = bytes[i]
  <2>1. 1 \in 1..(L + 1) /\ n \in (1 - 1)..L /\ n - 1 + 1 = n
    BY <1>1, <1>4
  <2>2. \A i \in 1..n : 1 + i - 1 = i
    BY <1>1, <1>4
  <2> QED BY <1>3, <2>1, <2>2, SubSeqProperties DEF L
<1>7. n = L => cut = bytes
  <2> SUFFICES ASSUME n = L PROVE cut = bytes
    OBVIOUS
  <2>1. cut \in Seq(Nat)
    BY <1>1, <1>3, <1>4, SubSeqProperties DEF L
  <2> QED BY <1>6, <2>1, SeqEqual DEF L
<1>8. n < L => bytes[n + 1] = 0
  BY <1>1, <1>4
<1> QED BY <1>4, <1>5, <1>6, <1>7, <1>8 DEF L, cut

\* What carries bytes carries those before the first 0, and then that 0.
LEMMA CutCarries ==
    ASSUME NEW chars, NEW bytes \in Seq(Nat), Carries(chars, bytes)
    PROVE  CarriesText(chars, CString(bytes))
<1> DEFINE L == Len(bytes)
           text == CString(bytes)
           six == Bits(chars, 6)
           eight == Bits(bytes, 8)
           bits == Bits(text, 8)
<1>1. PICK n \in 0..L : /\ Len(text) = n
                        /\ \A i \in 1..n : text[i] = bytes[i] /\ bytes[i] # 0
                        /\ n = L => text = bytes
                        /\ n < L => bytes[n + 1] = 0
  BY CStringIs
<1>2. L \in Nat /\ Len(chars) = (8 * L + 5) \div 6 /\ \A i \in 1..Len(eight) : six[i] = eight[i]
  BY LenProperties, Zenon DEF Carries
<1>3. Len(chars) \in Nat /\ 6 * Len(chars) >= 8 * L
  BY <1>2, SMT
<1>4. Len(six) = 6 * Len(chars)
  BY <1>3, BitsOf
<1>5. Len(eight) = 8 * L /\ \A i \in 1..(8 * L) : eight[i] = Bit(bytes[(i - 1) \div 8 + 1], 8, ((i - 1) % 8) + 1)
  BY <1>2, BitsOf
<1>6. Len(bits) = 8 * n /\ \A i \in 1..(8 * n) : bits[i] = Bit(text[(i - 1) \div 8 + 1], 8, ((i - 1) % 8) + 1)
  <2>1. Len(text) \in Nat /\ Len(text) = n
    BY <1>1, <1>2
  <2> QED BY <2>1, BitsOf
<1> HIDE DEF L, text, six, eight, bits
<1>7. \A i \in 1..Len(bits) : six[i] = bits[i]
  <2> SUFFICES ASSUME NEW i \in 1..(8 * n) PROVE six[i] = bits[i]
    BY <1>6
  <2> DEFINE k == (i - 1) \div 8 + 1
             b == ((i - 1) % 8) + 1
  <2>1. k \in 1..n /\ i \in 1..(8 * L)
    BY <1>1, <1>2, SMT
  <2>2. bits[i] = Bit(text[k], 8, b) /\ eight[i] = Bit(bytes[k], 8, b)
    BY <1>5, <1>6, <2>1
  <2> HIDE DEF k, b
  <2>3. text[k] = bytes[k] /\ six[i] = eight[i]
    BY <1>1, <1>2, <1>5, <2>1
  <2> QED BY <2>2, <2>3
<1>8. CASE n = L
  <2>1. Carries(chars, text)
    BY <1>1, <1>8
  <2> QED BY <1>1, <1>7, <2>1 DEF CarriesText, text, six, bits
<1>9. CASE n < L
  <2>1. Len(six) >= Len(bits) + 8
    BY <1>1, <1>2, <1>3, <1>4, <1>6, <1>9, SMT
  <2>2. ASSUME NEW j \in 1..8 PROVE six[Len(bits) + j] = 0
    <3> DEFINE i == 8 * n + j
               b == ((i - 1) % 8) + 1
    <3>1. i \in 1..(8 * L) /\ (i - 1) \div 8 + 1 = n + 1 /\ b \in 1..8
      BY <1>1, <1>2, <1>9, SMT
    <3>2. eight[i] = Bit(bytes[n + 1], 8, b)
      BY <1>5, <3>1
    <3>3. six[i] = eight[i] /\ i = Len(bits) + j
      BY <1>2, <1>5, <1>6, <3>1
    <3> HIDE DEF i, b
    <3>4. Bit(0, 8, b) = 0
      <4>1. 8 - 8 + b = b /\ Weight[b] \in {128, 64, 32, 16, 8, 4, 2, 1}
        BY <3>1 DEF Weight
      <4>2. \A w \in {128, 64, 32, 16, 8, 4, 2, 1} : (0 \div w) % 2 = 0
        BY SMT
      <4> QED BY <4>1, <4>2 DEF Bit
    <3> QED BY <1>1, <1>9, <3>2, <3>3, <3>4
  <2> QED BY <1>1, <1>7, <2>1, <2>2 DEF CarriesText, text, six, bits
<1> QED BY <1>1, <1>2, <1>8, <1>9

\* What send_json reads as JSON is what its base64 text carries, up to a 0 byte, and audio
\* goes out as base64 text that carries every byte of its frame: for texts and frames of
\* any length.
THEOREM Base64CarriesHolds == Spec => []Base64Carries
<1>1. Init => Carried
  BY DEF Init, Carried, SendsText
<1>2. IInv /\ Carried /\ [Next]_vars => Carried'
  BY CarriedStep
<1>3. ASSUME Checked, Carried PROVE DecodedIsText
  <2> SUFFICES ASSUME SendsText, IsBase64(cmd.text), cmd.text # <<>>
               PROVE  \E text \in json_text : CarriesText(Values(cmd.text), text)
    BY DEF DecodedIsText, SendsText
  <2>1. 1..255 \subseteq Int /\ cmd.text \in Seq(1..255)
    BY <1>3 DEF Checked
  <2>2. cmd.text \in Seq(Int)
    BY <2>1, SeqWidens
  <2>3. /\ ~DecodeFails(cmd.text) /\ Carries(Values(cmd.text), Base64Decode(cmd.text))
        /\ Base64Decode(cmd.text) \in Seq(Nat)
    BY <2>2, TextDecoded
  <2>4. json_text = {CString(Base64Decode(cmd.text))}
    BY <1>3, <2>3, Zenon DEF Carried, TextDecodedAs
  <2>5. CarriesText(Values(cmd.text), CString(Base64Decode(cmd.text)))
    BY <2>3, CutCarries
  <2> QED BY <2>4, <2>5, Zenon
<1>4. ASSUME Carried PROVE AudioIsBase64
  <2> DEFINE Sound(text, frame) == /\ IsBase64(text) /\ Len(text) % 4 = 0
                                   /\ Carries(Values(text), frame)
                                   /\ \A i \in 1..Len(text) : text[i] \notin {45, 46, 95}
  <2> SUFFICES ASSUME wire.frame # <<>> PROVE Sound(wire.text, wire.frame)
    BY DEF AudioIsBase64
  <2>1. wire # NoWire
    BY DEF NoWire
  <2>2. PICK frame \in AudioFrames : wire = [frame |-> frame, text |-> Base64Encode(frame, FALSE)]
    BY <1>4, <2>1, Zenon DEF Carried, Encoded
  <2>3. wire.frame = frame /\ wire.text = Base64Encode(frame, FALSE)
    BY <2>2
  <2>4. frame \in Seq(0..255) /\ frame # <<>>
    BY <2>2, <2>3, FramesAssumption
  <2>5. Sound(Base64Encode(frame, FALSE), frame)
    BY <2>4, AudioEncoded
  <2> HIDE DEF Sound
  <2> QED BY <2>3, <2>5
<1>5. Checked /\ Carried => Base64Carries
  BY <1>3, <1>4 DEF Base64Carries
<1> QED BY <1>1, <1>2, <1>5, Invariant, CheckedHolds, PTL DEF Spec
=============================================================================
