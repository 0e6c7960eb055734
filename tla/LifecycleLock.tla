--------------------------- MODULE LifecycleLock ---------------------------
(***************************************************************************)
(* acquire_lifecycle_lock and release_lifecycle_lock: a registry of weak   *)
(* pointers hands out one recursive mutex per session.  The mutex lives as *)
(* long as some handle refers to it; the last handle to be released erases *)
(* the registry entry.  The registry is guarded by a mutex of its own, but *)
(* the session mutex is locked, and the handle deleted, outside of it.     *)
(***************************************************************************)
EXTENDS Naturals, Sequences

CONSTANTS
    Threads, Sessions,
    Mutexes,     \* identities of LifecycleMutex objects
    NoMutex,     \* no registry entry, or one whose weak pointer never pointed
    MaxDepth     \* bound: locks a thread holds at once

ASSUME LockAssumption == NoMutex \notin Mutexes /\ MaxDepth \in Nat \ {0}

VARIABLES
    registry,    \* lifecycle_mutexes: session -> weak pointer
    handles,     \* handles[t]: LifecycleLockHandle objects of thread t, innermost last
    pc           \* what thread t does with its innermost handle

vars == <<registry, handles, pc>>

Top(t) == handles[t][Len(handles[t])]

\* The handles whose shared_ptr points to m: m.use_count() is their number.
Refs(m) == {h \in Threads \X (1..MaxDepth) :
               h[2] <= Len(handles[h[1]]) /\ handles[h[1]][h[2]].mutex = m}

\* weak_ptr::lock() on the entry of s yields a mutex.
Alive(s) == registry[s] # NoMutex /\ Refs(registry[s]) # {}

\* The innermost handle is not locked while its thread waits for the mutex, nor
\* after the unlock; all the others are.
Locked(t, i) == i \in 1..Len(handles[t]) /\ (i < Len(handles[t]) \/ pc[t] = "run")

OnlyRef(t) == Refs(Top(t).mutex) = {<<t, Len(handles[t])>>}

Init ==
    /\ registry = [s \in Sessions |-> NoMutex]
    /\ handles = [t \in Threads |-> <<>>]
    /\ pc = [t \in Threads |-> "run"]

-----------------------------------------------------------------------------
\* A thread works on one session: the nested scopes of stream_session_cleanup
\* lock the session that the API command or the media callback is about.
MayAcquire(t, s) ==
    /\ pc[t] = "run" /\ Len(handles[t]) < MaxDepth
    /\ handles[t] # <<>> => Top(t).session = s

\* The registry critical section of acquire_lifecycle_lock: share the live
\* mutex, or register a new one.  m names the mutex the new handle refers to.
Register(t, s, m) ==
    /\ MayAcquire(t, s)
    /\ IF Alive(s)
       THEN m = registry[s] /\ UNCHANGED registry
       ELSE /\ Refs(m) = {} /\ \A r \in Sessions : registry[r] # m
            /\ registry' = [registry EXCEPT ![s] = m]
    /\ handles' = [handles EXCEPT ![t] = Append(@, [session |-> s, mutex |-> m])]
    /\ pc' = [pc EXCEPT ![t] = "lock"]

\* An allocation fails and nullptr is returned.  A mutex that was just registered
\* dies again: the entry it leaves cannot be locked.
AcquireFails(t, s) ==
    /\ MayAcquire(t, s)
    /\ registry' = [registry EXCEPT ![s] = IF Alive(s) THEN @ ELSE NoMutex]
    /\ UNCHANGED <<handles, pc>>

\* The handle's unique_lock gets the recursive mutex.
Lock(t) ==
    /\ pc[t] = "lock"
    /\ \A u \in Threads \ {t} : \A i \in 1..Len(handles[u]) :
           Locked(u, i) => handles[u][i].mutex # Top(t).mutex
    /\ pc' = [pc EXCEPT ![t] = "run"]
    /\ UNCHANGED <<registry, handles>>

\* A faulty variant of the next action: no check for a null handle.
UnlockUnchecked(t) ==
    /\ pc[t] = "run"
    /\ pc' = [pc EXCEPT ![t] = "release"]
    /\ UNCHANGED <<registry, handles>>

\* release_lifecycle_lock: unlock, then the registry section, then the delete.
Unlock(t) ==
    /\ pc[t] = "run" /\ handles[t] # <<>>
    /\ pc' = [pc EXCEPT ![t] = "release"]
    /\ UNCHANGED <<registry, handles>>

\* A faulty variant of the next action: the entry is erased whoever still refers to
\* the mutex.
UnregisterOwn(t) ==
    /\ pc[t] = "release"
    /\ registry' = [registry EXCEPT ![Top(t).session] =
                       IF registry[Top(t).session] = Top(t).mutex THEN NoMutex ELSE @]
    /\ pc' = [pc EXCEPT ![t] = "delete"]
    /\ UNCHANGED handles

Unregister(t) ==
    /\ pc[t] = "release"
    /\ registry' = IF OnlyRef(t) /\ registry[Top(t).session] = Top(t).mutex
                   THEN [registry EXCEPT ![Top(t).session] = NoMutex]
                   ELSE registry
    /\ pc' = [pc EXCEPT ![t] = "delete"]
    /\ UNCHANGED handles

Delete(t) ==
    /\ pc[t] = "delete"
    /\ handles' = [handles EXCEPT ![t] = SubSeq(@, 1, Len(@) - 1)]
    /\ pc' = [pc EXCEPT ![t] = "run"]
    /\ UNCHANGED registry

Next ==
    \E t \in Threads :
        \/ Lock(t) \/ Unlock(t) \/ Unregister(t) \/ Delete(t)
        \/ \E s \in Sessions :
               AcquireFails(t, s) \/ \E m \in Mutexes : Register(t, s, m)

Spec == Init /\ [][Next]_vars

-----------------------------------------------------------------------------
Handle == [session : Sessions, mutex : Mutexes]

\* The types; a thread that waits for, releases or deletes a handle has one.
TypeOK ==
    /\ registry \in [Sessions -> Mutexes \union {NoMutex}]
    /\ handles \in [Threads -> Seq(Handle)]
    /\ pc \in [Threads -> {"run", "lock", "release", "delete"}]
    /\ \A t \in Threads : /\ Len(handles[t]) <= MaxDepth
                          /\ pc[t] # "run" => handles[t] # <<>>

\* Two threads never both hold the lifecycle lock of a session, however many
\* mutex objects the session went through.
MutualExclusion ==
    \A t, u \in Threads : \A i \in 1..MaxDepth, j \in 1..MaxDepth :
        t # u /\ Locked(t, i) /\ Locked(u, j) => handles[t][i].session # handles[u][j].session

\* A live session has one mutex: whoever holds, waits for or has yet to
\* unregister a handle on it finds the handle's mutex in the registry.
RegistryCurrent ==
    \A t \in Threads : \A i \in 1..Len(handles[t]) :
        i < Len(handles[t]) \/ pc[t] # "delete"
            => registry[handles[t][i].session] = handles[t][i].mutex

\* The refinement mapping: the sessions whose mutex a thread has locked.
holding == [t \in Threads |->
               [i \in 1..(IF pc[t] = "run" THEN Len(handles[t]) ELSE Len(handles[t]) - 1)
                   |-> handles[t][i].session]]

Abstract == INSTANCE SessionLock

\* The registry of weak pointers implements one recursive lock per session.
ImplementsSessionLock == Abstract!Spec
=============================================================================
