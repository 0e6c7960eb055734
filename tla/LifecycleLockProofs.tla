------------------------ MODULE LifecycleLockProofs ------------------------
(* Theorems about LifecycleLock, for any threads, sessions and mutexes. *)
EXTENDS LifecycleLock, TLAPS, SequenceTheorems

USE LockAssumption

\* The handles that still count on the registry entry: all but one that its
\* thread has unregistered and is about to delete.
Current(t, i) == i \in 1..Len(handles[t]) /\ (i < Len(handles[t]) \/ pc[t] # "delete")

\* Each mutex is locked by one thread; with RegistryCurrent, each session too.
MutexOwned ==
    \A t, u \in Threads : \A i \in 1..Len(handles[t]), j \in 1..Len(handles[u]) :
        t # u /\ Locked(t, i) /\ Locked(u, j) => handles[t][i].mutex # handles[u][j].mutex

Inv == TypeOK /\ RegistryCurrent /\ MutexOwned

\* A handle on a mutex is among its references.
LEMMA RefsHas ==
    ASSUME TypeOK, NEW t \in Threads, NEW i \in 1..Len(handles[t])
    PROVE  <<t, i>> \in Refs(handles[t][i].mutex)
<1>1. Len(handles[t]) \in Nat /\ Len(handles[t]) <= MaxDepth
  BY LenProperties DEF TypeOK
<1>2. i \in 1..MaxDepth
  BY <1>1
<1> QED BY <1>2 DEF Refs

\* What the innermost handle is.
LEMMA TopHandle ==
    ASSUME TypeOK, NEW t \in Threads, handles[t] # <<>>
    PROVE  /\ handles[t] \in Seq(Handle)
           /\ Len(handles[t]) \in Nat /\ Len(handles[t]) \in 1..Len(handles[t])
           /\ Top(t) = handles[t][Len(handles[t])] /\ Top(t) \in Handle
<1>1. handles[t] \in Seq(Handle)
  BY DEF TypeOK
<1>2. Len(handles[t]) \in Nat \ {0}
  BY <1>1, EmptySeq
<1>3. Len(handles[t]) \in 1..Len(handles[t])
  BY <1>2
<1> QED BY <1>1, <1>2, <1>3, ElementOfSeq DEF Top

\* A new handle goes on top; the others stay where they are.
LEMMA AppendHandle ==
    ASSUME TypeOK, NEW t \in Threads, NEW h \in Handle,
           handles' = [handles EXCEPT ![t] = Append(@, h)]
    PROVE  /\ handles'[t] \in Seq(Handle) /\ Len(handles'[t]) = Len(handles[t]) + 1
           /\ Len(handles[t]) \in Nat
           /\ handles'[t][Len(handles[t]) + 1] = h
           /\ \A i \in 1..Len(handles[t]) : handles'[t][i] = handles[t][i]
           /\ \A u \in Threads \ {t} : handles'[u] = handles[u]
<1>1. handles[t] \in Seq(Handle) /\ handles'[t] = Append(handles[t], h)
  BY DEF TypeOK
<1>2. \A u \in Threads \ {t} : handles'[u] = handles[u]
  BY DEF TypeOK
<1> QED BY <1>1, <1>2, AppendProperties, LenProperties

\* A deleted handle was on top; the others stay where they are.
LEMMA DeleteHandle ==
    ASSUME TypeOK, NEW t \in Threads, handles[t] # <<>>,
           handles' = [handles EXCEPT ![t] = SubSeq(@, 1, Len(@) - 1)]
    PROVE  /\ handles'[t] \in Seq(Handle) /\ Len(handles'[t]) = Len(handles[t]) - 1
           /\ \A i \in 1..Len(handles[t]) - 1 : handles'[t][i] = handles[t][i]
           /\ \A u \in Threads \ {t} : handles'[u] = handles[u]
<1> DEFINE n == Len(handles[t])
<1>1. handles[t] \in Seq(Handle) /\ n \in Nat \ {0}
  BY TopHandle
<1>2. handles'[t] = SubSeq(handles[t], 1, n - 1)
  BY DEF TypeOK
<1>3. \A i \in 1..n - 1 : handles[t][i] \in Handle
  BY <1>1, ElementOfSeq
<1>4. \A u \in Threads \ {t} : handles'[u] = handles[u]
  BY DEF TypeOK
<1> HIDE DEF n
<1>5. /\ SubSeq(handles[t], 1, n - 1) \in Seq(Handle)
      /\ Len(SubSeq(handles[t], 1, n - 1)) = IF 1 <= n - 1 THEN (n - 1) - 1 + 1 ELSE 0
      /\ \A i \in 1..(n - 1) - 1 + 1 : SubSeq(handles[t], 1, n - 1)[i] = handles[t][1 + i - 1]
  BY <1>1, <1>3, SubSeqProperties
<1>6. (n - 1) - 1 + 1 = n - 1 /\ \A i \in 1..n - 1 : 1 + i - 1 = i
  BY <1>1
<1>7. Len(handles'[t]) = n - 1
  BY <1>1, <1>2, <1>5
<1> QED BY <1>2, <1>4, <1>5, <1>6, <1>7 DEF n

-----------------------------------------------------------------------------
\* An entry that a current handle is on is alive: acquiring its session changes
\* nothing, and only the last reference may erase it.
LEMMA CurrentIsAlive ==
    ASSUME Inv, NEW t \in Threads, NEW i \in 1..Len(handles[t]), Current(t, i)
    PROVE  /\ registry[handles[t][i].session] = handles[t][i].mutex
           /\ Alive(handles[t][i].session)
           /\ <<t, i>> \in Refs(handles[t][i].mutex)
<1>1. registry[handles[t][i].session] = handles[t][i].mutex
  BY DEF Inv, RegistryCurrent, Current
<1>2. <<t, i>> \in Refs(handles[t][i].mutex)
  BY RefsHas DEF Inv
<1>3. handles[t][i] \in Handle
  BY ElementOfSeq DEF Inv, TypeOK
<1>4. handles[t][i].mutex # NoMutex
  BY <1>3 DEF Handle
<1> QED BY <1>1, <1>2, <1>4 DEF Alive

\* Locking, unlocking and unregistering move no handle.
LEMMA SameHandles ==
    ASSUME TypeOK, NEW t \in Threads, handles' = handles, handles[t] # <<>>,
           NEW p \in {"run", "release", "delete"}, pc' = [pc EXCEPT ![t] = p],
           registry' \in [Sessions -> Mutexes \union {NoMutex}]
    PROVE  TypeOK'
<1>1. /\ handles' \in [Threads -> Seq(Handle)]
      /\ pc' \in [Threads -> {"run", "lock", "release", "delete"}]
      /\ \A u \in Threads : Len(handles'[u]) <= MaxDepth
  BY DEF TypeOK
<1>2. ASSUME NEW u \in Threads, pc'[u] # "run"
      PROVE  handles'[u] # <<>>
  BY <1>2 DEF TypeOK
<1> QED BY <1>1, <1>2 DEF TypeOK

\* Acquiring: the handle that goes on top is the one the registry is about to hold.
LEMMA RegisterStep ==
    ASSUME Inv, NEW t \in Threads, NEW s \in Sessions, NEW m \in Mutexes, Register(t, s, m)
    PROVE  Inv'
<1> DEFINE h == [session |-> s, mutex |-> m]
           n == Len(handles[t])
<1>0. TypeOK /\ RegistryCurrent /\ MutexOwned /\ h \in Handle /\ pc[t] = "run" /\ n < MaxDepth
  BY DEF Inv, Handle, Register, MayAcquire
<1>1. /\ handles'[t] \in Seq(Handle) /\ Len(handles'[t]) = n + 1
      /\ n \in Nat
      /\ handles'[t][n + 1] = h
      /\ \A i \in 1..n : handles'[t][i] = handles[t][i]
      /\ \A u \in Threads \ {t} : handles'[u] = handles[u]
  BY <1>0, AppendHandle DEF Register
<1>2. pc' = [pc EXCEPT ![t] = "lock"]
  BY DEF Register
<1>3. registry'[s] = m /\ \A r \in Sessions \ {s} : registry'[r] = registry[r]
  BY <1>0 DEF Register, TypeOK
<1>4. Alive(s) => registry' = registry
  BY DEF Register
<1>5. registry' \in [Sessions -> Mutexes \union {NoMutex}]
  BY <1>0 DEF Register, TypeOK
<1>6. handles' \in [Threads -> Seq(Handle)]
  <2>1. DOMAIN handles' = Threads /\ handles' = [u \in Threads |-> handles'[u]]
    BY <1>0 DEF Register, TypeOK
  <2>2. \A u \in Threads : handles'[u] \in Seq(Handle)
    BY <1>0, <1>1 DEF TypeOK
  <2> QED BY <2>1, <2>2
<1>7. TypeOK'
  <2>1. pc' \in [Threads -> {"run", "lock", "release", "delete"}]
    BY <1>0, <1>2 DEF TypeOK
  <2>2. ASSUME NEW u \in Threads
        PROVE  Len(handles'[u]) <= MaxDepth /\ (pc'[u] # "run" => handles'[u] # <<>>)
    <3>1. CASE u = t
      <4>1. n + 1 <= MaxDepth
        BY <1>0, <1>1
      <4>2. handles'[t] # <<>>
        BY <1>1, EmptySeq
      <4> QED BY <3>1, <4>1, <4>2, <1>1
    <3>2. CASE u # t
      BY <3>2, <1>0, <1>1, <1>2 DEF TypeOK
    <3> QED BY <3>1, <3>2
  <2> QED BY <1>5, <1>6, <2>1, <2>2 DEF TypeOK
\* Whatever was on the stacks is still there, and was current before if it is now.
<1>8. ASSUME NEW u \in Threads, NEW i \in 1..Len(handles'[u]), ~(u = t /\ i = n + 1)
      PROVE  i \in 1..Len(handles[u]) /\ handles'[u][i] = handles[u][i]
  <2>1. CASE u = t
    BY <1>8, <1>1, <2>1
  <2>2. CASE u # t
    BY <1>8, <1>1, <2>2
  <2> QED BY <2>1, <2>2
<1>9. RegistryCurrent'
  <2>1. SUFFICES ASSUME NEW u \in Threads, NEW i \in 1..Len(handles'[u]),
                        i < Len(handles'[u]) \/ pc'[u] # "delete"
                 PROVE  registry'[handles'[u][i].session] = handles'[u][i].mutex
    BY DEF RegistryCurrent
  <2>2. CASE u = t /\ i = n + 1
    BY <2>2, <1>1, <1>3
  <2>3. CASE ~(u = t /\ i = n + 1)
    <3>1. i \in 1..Len(handles[u]) /\ handles'[u][i] = handles[u][i]
      BY <2>3, <1>8
    <3>2. Current(u, i)
      <4>1. CASE u = t
        BY <4>1, <3>1, <1>0 DEF Current
      <4>2. CASE u # t
        BY <4>2, <2>1, <3>1, <1>1, <1>2, <1>0 DEF Current, TypeOK
      <4> QED BY <4>1, <4>2
    <3>3. registry[handles[u][i].session] = handles[u][i].mutex /\ Alive(handles[u][i].session)
      BY <3>1, <3>2, CurrentIsAlive
    <3>4. handles[u][i] \in Handle
      BY <3>1, <1>0, ElementOfSeq DEF TypeOK
    <3>5. handles[u][i].session \in Sessions
      BY <3>4 DEF Handle
    <3>6. registry'[handles[u][i].session] = registry[handles[u][i].session]
      BY <3>3, <3>5, <1>3, <1>4
    <3> QED BY <3>1, <3>3, <3>6
  <2> QED BY <2>2, <2>3
<1>10. MutexOwned'
  <2>1. ASSUME NEW u \in Threads, NEW i \in 1..Len(handles'[u]), Locked(u, i)'
        PROVE  i \in 1..Len(handles[u]) /\ Locked(u, i) /\ handles'[u][i] = handles[u][i]
    <3>1. CASE u = t
      <4>1. pc'[t] = "lock"
        BY <1>2, <1>0 DEF TypeOK
      <4>2. i < n + 1
        BY <2>1, <3>1, <4>1, <1>1 DEF Locked
      <4>3. i \in 1..n
        BY <4>2, <1>1, <3>1
      <4> QED BY <3>1, <4>3, <1>1, <1>0 DEF Locked
    <3>2. CASE u # t
      <4>1. pc'[u] = pc[u] /\ handles'[u] = handles[u]
        BY <3>2, <1>1, <1>2, <1>0 DEF TypeOK
      <4> QED BY <2>1, <4>1 DEF Locked
    <3> QED BY <3>1, <3>2
  <2>2. SUFFICES ASSUME NEW u \in Threads, NEW v \in Threads,
                        NEW i \in 1..Len(handles'[u]), NEW j \in 1..Len(handles'[v]),
                        u # v, Locked(u, i)', Locked(v, j)'
                 PROVE  handles'[u][i].mutex # handles'[v][j].mutex
    BY DEF MutexOwned
  <2>3. i \in 1..Len(handles[u]) /\ Locked(u, i) /\ handles'[u][i] = handles[u][i]
    BY <2>1, <2>2
  <2>4. j \in 1..Len(handles[v]) /\ Locked(v, j) /\ handles'[v][j] = handles[v][j]
    BY <2>1, <2>2
  <2>5. handles[u][i].mutex # handles[v][j].mutex
    BY <2>2, <2>3, <2>4, <1>0 DEF MutexOwned
  <2> QED BY <2>3, <2>4, <2>5
<1> QED BY <1>7, <1>9, <1>10 DEF Inv

\* A failed acquisition leaves every entry that a handle is on.
LEMMA AcquireFailsStep ==
    ASSUME Inv, NEW t \in Threads, NEW s \in Sessions, AcquireFails(t, s)
    PROVE  Inv'
<1>1. handles' = handles /\ pc' = pc /\ TypeOK
  BY DEF AcquireFails, Inv
<1>2. registry' \in [Sessions -> Mutexes \union {NoMutex}]
  BY <1>1 DEF AcquireFails, TypeOK
<1>3. TypeOK'
  BY <1>1, <1>2 DEF TypeOK
<1>4. MutexOwned'
  BY <1>1 DEF Inv, MutexOwned, Locked
<1>5. RegistryCurrent'
  <2>1. SUFFICES ASSUME NEW u \in Threads, NEW i \in 1..Len(handles[u]), Current(u, i)
                 PROVE  registry'[handles[u][i].session] = handles[u][i].mutex
    BY <1>1 DEF RegistryCurrent, Current
  <2>2. registry[handles[u][i].session] = handles[u][i].mutex /\ Alive(handles[u][i].session)
    BY <2>1, CurrentIsAlive
  <2>3. handles[u][i] \in Handle
    BY <2>1, <1>1, ElementOfSeq DEF TypeOK
  <2>4. handles[u][i].session \in Sessions
    BY <2>3 DEF Handle
  <2>5. registry'[handles[u][i].session] = registry[handles[u][i].session]
    BY <2>2, <2>4, <1>1 DEF AcquireFails, TypeOK
  <2> QED BY <2>2, <2>5
<1> QED BY <1>3, <1>4, <1>5 DEF Inv

\* Locking: the guard is that no other thread has locked the mutex.
LEMMA LockStep ==
    ASSUME Inv, NEW t \in Threads, Lock(t)
    PROVE  Inv'
<1>1. TypeOK /\ handles' = handles /\ registry' = registry /\ pc[t] = "lock" /\ pc' = [pc EXCEPT ![t] = "run"]
  BY DEF Inv, Lock
<1>2. handles[t] # <<>>
  BY <1>1 DEF TypeOK
<1>3. TypeOK'
  BY <1>1, <1>2, SameHandles DEF TypeOK
<1>4. RegistryCurrent'
  BY <1>1 DEF Inv, RegistryCurrent, TypeOK
<1>5. ASSUME NEW u \in Threads, NEW i \in 1..Len(handles[u]), Locked(u, i)'
      PROVE  Locked(u, i) \/ (u = t /\ handles[u][i] = Top(t))
  <2>1. CASE u = t
    <3>1. i < Len(handles[t]) \/ i = Len(handles[t])
      BY <2>1, LenProperties, <1>1 DEF TypeOK
    <3> QED BY <2>1, <3>1 DEF Locked, Top
  <2>2. CASE u # t
    BY <2>2, <1>1, <1>5 DEF Locked, TypeOK
  <2> QED BY <2>1, <2>2
<1>6. ASSUME NEW u \in Threads, u # t, NEW i \in 1..Len(handles[u]), Locked(u, i)
      PROVE  handles[u][i].mutex # Top(t).mutex
  BY <1>6 DEF Lock
<1>7. MutexOwned'
  <2>1. SUFFICES ASSUME NEW u \in Threads, NEW v \in Threads, NEW i \in 1..Len(handles[u]),
                        NEW j \in 1..Len(handles[v]), u # v, Locked(u, i)', Locked(v, j)'
                 PROVE  handles[u][i].mutex # handles[v][j].mutex
    BY <1>1 DEF MutexOwned
  <2>2. CASE Locked(u, i) /\ Locked(v, j)
    BY <2>1, <2>2 DEF Inv, MutexOwned
  <2>3. CASE ~Locked(u, i)
    <3>1. u = t /\ handles[u][i] = Top(t) /\ Locked(v, j)
      BY <2>1, <2>3, <1>5
    <3> QED BY <2>1, <3>1, <1>6
  <2>4. CASE ~Locked(v, j)
    <3>1. v = t /\ handles[v][j] = Top(t) /\ Locked(u, i)
      BY <2>1, <2>4, <1>5
    <3> QED BY <2>1, <3>1, <1>6
  <2> QED BY <2>2, <2>3, <2>4
<1> QED BY <1>3, <1>4, <1>7 DEF Inv

\* Unlocking only frees mutexes.
LEMMA UnlockStep ==
    ASSUME Inv, NEW t \in Threads, Unlock(t)
    PROVE  Inv'
<1>1. /\ TypeOK /\ handles' = handles /\ registry' = registry /\ handles[t] # <<>>
      /\ pc[t] = "run" /\ pc' = [pc EXCEPT ![t] = "release"]
  BY DEF Inv, Unlock
<1>2. TypeOK'
  BY <1>1, SameHandles DEF TypeOK
<1>3. RegistryCurrent'
  BY <1>1 DEF Inv, RegistryCurrent, TypeOK
<1>4. \A u \in Threads, i \in Nat : Locked(u, i)' => Locked(u, i)
  BY <1>1 DEF Locked, TypeOK
<1>5. \A u \in Threads : Len(handles[u]) \in Nat
  BY <1>1, LenProperties DEF TypeOK
<1>6. MutexOwned'
  BY <1>1, <1>4, <1>5 DEF Inv, MutexOwned
<1> QED BY <1>2, <1>3, <1>6 DEF Inv

\* Unregistering: the entry is erased only when no other handle is on its mutex.
LEMMA UnregisterStep ==
    ASSUME Inv, NEW t \in Threads, Unregister(t)
    PROVE  Inv'
<1>1. /\ TypeOK /\ handles' = handles /\ pc[t] = "release" /\ pc' = [pc EXCEPT ![t] = "delete"]
  BY DEF Inv, Unregister
<1>2. handles[t] # <<>>
  BY <1>1 DEF TypeOK
<1>3. Len(handles[t]) \in Nat /\ Len(handles[t]) \in 1..Len(handles[t]) /\ Top(t) = handles[t][Len(handles[t])]
  BY <1>1, <1>2, TopHandle
<1>4. registry' \in [Sessions -> Mutexes \union {NoMutex}]
  BY <1>1 DEF Unregister, TypeOK
<1>5. TypeOK'
  BY <1>1, <1>2, <1>4, SameHandles
<1>6. MutexOwned'
  <2>1. \A u \in Threads, i \in Nat : Locked(u, i)' => Locked(u, i)
    BY <1>1 DEF Locked, TypeOK
  <2>2. \A u \in Threads : Len(handles[u]) \in Nat
    BY <1>1, LenProperties DEF TypeOK
  <2> QED BY <1>1, <2>1, <2>2 DEF Inv, MutexOwned
<1>7. RegistryCurrent'
  <2>1. SUFFICES ASSUME NEW u \in Threads, NEW i \in 1..Len(handles[u]), Current(u, i)'
                 PROVE  registry'[handles[u][i].session] = handles[u][i].mutex
    BY <1>1 DEF RegistryCurrent, Current
  <2>2. Current(u, i) /\ <<u, i>> # <<t, Len(handles[t])>>
    <3>1. CASE u = t
      <4>1. pc'[t] = "delete"
        BY <1>1 DEF TypeOK
      <4>2. i < Len(handles[t])
        BY <2>1, <3>1, <4>1, <1>1 DEF Current
      <4> QED BY <3>1, <4>2, <1>3 DEF Current
    <3>2. CASE u # t
      BY <2>1, <3>2, <1>1 DEF Current, TypeOK
    <3> QED BY <3>1, <3>2
  <2>3. /\ registry[handles[u][i].session] = handles[u][i].mutex
        /\ <<u, i>> \in Refs(handles[u][i].mutex)
    BY <2>2, CurrentIsAlive
  <2>4. handles[u][i].session \in Sessions
    <3>1. handles[u][i] \in Handle
      BY <1>1, ElementOfSeq DEF TypeOK
    <3> QED BY <3>1 DEF Handle
  <2>5. CASE OnlyRef(t) /\ registry[Top(t).session] = Top(t).mutex
    <3>1. handles[u][i].mutex # Top(t).mutex
      BY <2>5, <2>2, <2>3 DEF OnlyRef
    <3>2. handles[u][i].session # Top(t).session
      BY <3>1, <2>3, <2>5
    <3> QED BY <2>3, <2>4, <2>5, <3>2, <1>1 DEF Unregister, TypeOK
  <2>6. CASE ~(OnlyRef(t) /\ registry[Top(t).session] = Top(t).mutex)
    BY <2>3, <2>6 DEF Unregister
  <2> QED BY <2>5, <2>6
<1> QED BY <1>5, <1>6, <1>7 DEF Inv

\* Deleting takes away the one handle that was neither current nor locked.
LEMMA DeleteStep ==
    ASSUME Inv, NEW t \in Threads, Delete(t)
    PROVE  Inv'
<1> DEFINE n == Len(handles[t])
<1>1. TypeOK /\ registry' = registry /\ pc[t] = "delete" /\ pc' = [pc EXCEPT ![t] = "run"]
  BY DEF Inv, Delete
<1>2. handles[t] # <<>>
  BY <1>1 DEF TypeOK
<1>3. /\ handles'[t] \in Seq(Handle) /\ Len(handles'[t]) = n - 1
      /\ \A i \in 1..n - 1 : handles'[t][i] = handles[t][i]
      /\ \A u \in Threads \ {t} : handles'[u] = handles[u]
  BY <1>1, <1>2, DeleteHandle DEF Delete
<1>4. n \in Nat /\ n <= MaxDepth
  BY <1>1, LenProperties DEF TypeOK
<1>5. handles' \in [Threads -> Seq(Handle)]
  <2>1. handles' = [u \in Threads |-> handles'[u]]
    BY <1>1 DEF Delete, TypeOK
  <2>2. \A u \in Threads : handles'[u] \in Seq(Handle)
    BY <1>1, <1>3 DEF TypeOK
  <2> QED BY <2>1, <2>2
<1>6. \A u \in Threads \ {t} : pc'[u] = pc[u]
  BY <1>1 DEF TypeOK
<1>7. pc'[t] = "run"
  BY <1>1 DEF TypeOK
<1>8. TypeOK'
  <2>1. pc' \in [Threads -> {"run", "lock", "release", "delete"}]
    BY <1>1 DEF TypeOK
  <2>2. ASSUME NEW u \in Threads
        PROVE  Len(handles'[u]) <= MaxDepth /\ (pc'[u] # "run" => handles'[u] # <<>>)
    <3>1. CASE u = t
      <4>1. n - 1 <= MaxDepth
        BY <1>4
      <4> QED BY <3>1, <4>1, <1>3, <1>7
    <3>2. CASE u # t
      BY <3>2, <1>1, <1>3, <1>6 DEF TypeOK
    <3> QED BY <3>1, <3>2
  <2>3. registry' \in [Sessions -> Mutexes \union {NoMutex}]
    BY <1>1 DEF TypeOK
  <2> QED BY <1>5, <2>1, <2>2, <2>3 DEF TypeOK
\* The handles that are left were there, current and, if locked now, locked.
<1>9. ASSUME NEW u \in Threads, NEW i \in 1..Len(handles'[u])
      PROVE  /\ i \in 1..Len(handles[u]) /\ handles'[u][i] = handles[u][i]
             /\ u = t => i < n
  <2>1. CASE u = t
    BY <2>1, <1>9, <1>3, <1>4
  <2>2. CASE u # t
    BY <2>2, <1>9, <1>3
  <2> QED BY <2>1, <2>2
<1>10. RegistryCurrent'
  <2>1. SUFFICES ASSUME NEW u \in Threads, NEW i \in 1..Len(handles'[u]),
                        i < Len(handles'[u]) \/ pc'[u] # "delete"
                 PROVE  registry[handles'[u][i].session] = handles'[u][i].mutex
    BY <1>1 DEF RegistryCurrent
  <2>2. i \in 1..Len(handles[u]) /\ handles'[u][i] = handles[u][i]
    BY <1>9
  <2>3. i < Len(handles[u]) \/ pc[u] # "delete"
    <3>1. CASE u = t
      BY <3>1, <1>9
    <3>2. CASE u # t
      BY <3>2, <2>1, <1>3, <1>6
    <3> QED BY <3>1, <3>2
  <2> QED BY <2>2, <2>3 DEF Inv, RegistryCurrent
<1>11. MutexOwned'
  <2>1. ASSUME NEW u \in Threads, NEW i \in 1..Len(handles'[u]), Locked(u, i)'
        PROVE  i \in 1..Len(handles[u]) /\ Locked(u, i) /\ handles'[u][i] = handles[u][i]
    <3>1. i \in 1..Len(handles[u]) /\ handles'[u][i] = handles[u][i]
      BY <1>9
    <3>2. Locked(u, i)
      <4>1. CASE u = t
        BY <4>1, <3>1, <1>9 DEF Locked
      <4>2. CASE u # t
        BY <4>2, <2>1, <1>3, <1>6 DEF Locked
      <4> QED BY <4>1, <4>2
    <3> QED BY <3>1, <3>2
  <2> QED BY <2>1 DEF Inv, MutexOwned
<1> QED BY <1>8, <1>10, <1>11 DEF Inv

\* Inv holds at first: nothing is acquired.
LEMMA InvInit == Init => Inv
<1> SUFFICES ASSUME Init PROVE Inv
  OBVIOUS
<1>1. <<>> \in Seq(Handle) /\ Len(<<>>) = 0
  BY EmptySeq
<1>2. TypeOK
  <2>1. handles \in [Threads -> Seq(Handle)]
    BY <1>1 DEF Init
  <2>2. registry \in [Sessions -> Mutexes \union {NoMutex}]
    BY DEF Init
  <2>3. pc \in [Threads -> {"run", "lock", "release", "delete"}]
    BY DEF Init
  <2>4. ASSUME NEW t \in Threads
        PROVE  Len(handles[t]) <= MaxDepth /\ pc[t] = "run"
    <3>1. handles[t] = <<>> /\ pc[t] = "run"
      BY DEF Init
    <3>2. Len(handles[t]) = 0
      BY <3>1, <1>1
    <3> QED BY <3>1, <3>2
  <2> QED BY <2>1, <2>2, <2>3, <2>4 DEF TypeOK
<1>3. ASSUME NEW t \in Threads
      PROVE  1..Len(handles[t]) = {}
  <2>1. handles[t] = <<>>
    BY DEF Init
  <2>2. Len(handles[t]) = 0
    BY <2>1, <1>1
  <2> QED BY <2>2
<1> QED BY <1>2, <1>3 DEF Inv, RegistryCurrent, MutexOwned

\* Every step of every thread preserves Inv.
LEMMA InvStep == Inv /\ [Next]_vars => Inv'
<1> SUFFICES ASSUME Inv, [Next]_vars PROVE Inv'
  OBVIOUS
<1>1. CASE UNCHANGED vars
  BY <1>1 DEF vars, Inv, TypeOK, RegistryCurrent, MutexOwned, Locked
<1>2. CASE Next
  <2>1. PICK t \in Threads :
            \/ Lock(t) \/ Unlock(t) \/ Unregister(t) \/ Delete(t)
            \/ \E s \in Sessions : AcquireFails(t, s) \/ \E m \in Mutexes : Register(t, s, m)
    BY <1>2 DEF Next
  <2> QED BY <2>1, LockStep, UnlockStep, UnregisterStep, DeleteStep, AcquireFailsStep, RegisterStep
<1> QED BY <1>1, <1>2

\* Two handles of two threads on one session would be on the mutex its entry names.
LEMMA InvExcludes == Inv => MutualExclusion
<1> SUFFICES ASSUME Inv, NEW t \in Threads, NEW u \in Threads,
                    NEW i \in 1..MaxDepth, NEW j \in 1..MaxDepth,
                    t # u, Locked(t, i), Locked(u, j)
             PROVE  handles[t][i].session # handles[u][j].session
  BY DEF MutualExclusion
<1>1. i \in 1..Len(handles[t]) /\ j \in 1..Len(handles[u])
  BY DEF Locked
<1>2. handles[t][i].mutex # handles[u][j].mutex
  BY <1>1 DEF Inv, MutexOwned
<1>3. /\ registry[handles[t][i].session] = handles[t][i].mutex
      /\ registry[handles[u][j].session] = handles[u][j].mutex
  BY <1>1 DEF Inv, RegistryCurrent, Locked
<1> QED BY <1>2, <1>3

\* The invariant of the specification.
LEMMA Invariance == Spec => []Inv
<1> QED BY InvInit, InvStep, PTL DEF Spec

-----------------------------------------------------------------------------
\* Handles, registry entries and program counters keep their types.
THEOREM TypeCorrect == Spec => []TypeOK
<1>1. Inv => TypeOK
  BY DEF Inv
<1> QED BY <1>1, Invariance, PTL

\* A handle that is held or waited for is on the mutex its session's entry names:
\* erasing entries never gives a live session a second mutex.
THEOREM RegistryIsCurrent == Spec => []RegistryCurrent
<1>1. Inv => RegistryCurrent
  BY DEF Inv
<1> QED BY <1>1, Invariance, PTL

\* No two threads hold the lifecycle lock of one session, for any number of
\* threads, sessions and mutexes and any depth of nesting.
THEOREM Exclusion == Spec => []MutualExclusion
<1> QED BY InvExcludes, Invariance, PTL

-----------------------------------------------------------------------------
(* The registry implements SessionLock.                                     *)

\* The sessions of the first n handles of hs; how many handles of t are locked.
Names(hs, n) == [i \in 1..n |-> hs[i].session]
Depth(t) == IF pc[t] = "run" THEN Len(handles[t]) ELSE Len(handles[t]) - 1

\* What Names returns.
LEMMA NamesProperties ==
    ASSUME NEW hs \in Seq(Handle), NEW n \in 0..Len(hs)
    PROVE  /\ Names(hs, n) \in Seq(Sessions) /\ Len(Names(hs, n)) = n
           /\ \A i \in 1..n : Names(hs, n)[i] = hs[i].session
<1>1. n \in Nat /\ \A i \in 1..n : hs[i] \in Handle
  BY ElementOfSeq, LenProperties
<1>2. Names(hs, n) \in [1..n -> Sessions]
  BY <1>1 DEF Names, Handle
<1>3. Names(hs, n) \in Seq(Sessions)
  BY <1>1, <1>2, SeqDef
<1>4. Len(Names(hs, n)) = n
  BY <1>1, <1>2, <1>3, LenProperties
<1> QED BY <1>3, <1>4 DEF Names

\* One more handle is one more session at the end.
LEMMA NamesAppend ==
    ASSUME NEW hs \in Seq(Handle), NEW n \in Nat, n + 1 <= Len(hs)
    PROVE  Names(hs, n + 1) = Append(Names(hs, n), hs[n + 1].session)
<1> DEFINE a == Names(hs, n)
           b == Names(hs, n + 1)
           s == hs[n + 1].session
<1>1. Len(hs) \in Nat /\ n \in 0..Len(hs) /\ n + 1 \in 0..Len(hs) /\ n + 1 \in 1..Len(hs)
  BY LenProperties
<1>2. a \in Seq(Sessions) /\ Len(a) = n /\ \A i \in 1..n : a[i] = hs[i].session
  BY <1>1, NamesProperties
<1>3. b \in Seq(Sessions) /\ Len(b) = n + 1 /\ \A i \in 1..n + 1 : b[i] = hs[i].session
  BY <1>1, NamesProperties
<1>4. s \in Sessions
  <2>1. hs[n + 1] \in Handle
    BY <1>1, ElementOfSeq
  <2> QED BY <2>1 DEF Handle
<1> HIDE DEF a, b, s
<1>5. /\ Append(a, s) \in Seq(Sessions) /\ Len(Append(a, s)) = n + 1
      /\ \A i \in 1..n : Append(a, s)[i] = a[i]
      /\ Append(a, s)[n + 1] = s
  BY <1>2, <1>4, AppendProperties
<1>6. ASSUME NEW i \in 1..n + 1
      PROVE  b[i] = Append(a, s)[i]
  <2>1. CASE i = n + 1
    BY <2>1, <1>3, <1>5 DEF s
  <2>2. CASE i # n + 1
    <3>1. i \in 1..n
      BY <2>2
    <3> QED BY <3>1, <1>2, <1>3, <1>5
  <2> QED BY <2>1, <2>2
<1>7. b = Append(a, s)
  BY <1>3, <1>5, <1>6, SeqEqual
<1> QED BY <1>7 DEF a, b, s

\* One handle less is one session less at the end.
LEMMA NamesFront ==
    ASSUME NEW hs \in Seq(Handle), NEW n \in 1..Len(hs)
    PROVE  Names(hs, n - 1) = SubSeq(Names(hs, n), 1, Len(Names(hs, n)) - 1)
<1> DEFINE a == Names(hs, n - 1)
           b == Names(hs, n)
<1>1. Len(hs) \in Nat /\ n \in Nat /\ n - 1 \in 0..Len(hs) /\ n \in 0..Len(hs)
  BY LenProperties
<1>2. a \in Seq(Sessions) /\ Len(a) = n - 1 /\ \A i \in 1..n - 1 : a[i] = hs[i].session
  BY <1>1, NamesProperties
<1>3. b \in Seq(Sessions) /\ Len(b) = n /\ \A i \in 1..n : b[i] = hs[i].session
  BY <1>1, NamesProperties
<1> HIDE DEF a, b
<1>4. \A i \in 1..n - 1 : b[i] \in Sessions
  BY <1>1, <1>3, ElementOfSeq
<1> DEFINE c == SubSeq(b, 1, n - 1)
<1>5. /\ c \in Seq(Sessions)
      /\ Len(c) = IF 1 <= n - 1 THEN (n - 1) - 1 + 1 ELSE 0
      /\ \A i \in 1..(n - 1) - 1 + 1 : c[i] = b[1 + i - 1]
  BY <1>1, <1>4, SubSeqProperties
<1> HIDE DEF c
<1>6. Len(c) = n - 1
  BY <1>1, <1>5
<1>7. ASSUME NEW i \in 1..n - 1
      PROVE  a[i] = c[i]
  <2>1. i \in 1..(n - 1) - 1 + 1 /\ 1 + i - 1 = i /\ i \in 1..n
    BY <1>1
  <2>2. c[i] = b[i]
    BY <2>1, <1>5
  <2> QED BY <2>1, <2>2, <1>2, <1>3
<1>8. a = c
  BY <1>2, <1>5, <1>6, <1>7, SeqEqual
<1> QED BY <1>3, <1>8 DEF a, b, c

\* The mapping in terms of Names and Depth.
LEMMA HoldingNames ==
    /\ holding = [t \in Threads |-> Names(handles[t], Depth(t))]
    /\ holding' = [t \in Threads |-> Names(handles'[t], Depth(t)')]
BY DEF holding, Names, Depth

\* The locked handles are a prefix of the stack.
LEMMA DepthType ==
    ASSUME TypeOK, NEW t \in Threads
    PROVE  /\ handles[t] \in Seq(Handle) /\ Len(handles[t]) \in Nat
           /\ Depth(t) \in 0..Len(handles[t])
<1>1. handles[t] \in Seq(Handle)
  BY DEF TypeOK
<1>2. Len(handles[t]) \in Nat
  BY <1>1, LenProperties
<1>3. CASE pc[t] = "run"
  BY <1>1, <1>2, <1>3 DEF Depth
<1>4. CASE pc[t] # "run"
  <2>1. Len(handles[t]) # 0
    BY <1>1, <1>4, EmptySeq DEF TypeOK
  <2> QED BY <1>1, <1>2, <1>4, <2>1 DEF Depth
<1> QED BY <1>3, <1>4

\* A step that leaves the locked handles of every thread alone is a stutter.
LEMMA HoldingSame ==
    ASSUME \A t \in Threads : Names(handles'[t], Depth(t)') = Names(handles[t], Depth(t))
    PROVE  holding' = holding
BY HoldingNames

\* Initially nobody holds anything.
LEMMA AbstractInit == Init => Abstract!Init
<1> SUFFICES ASSUME Init PROVE holding = [t \in Threads |-> <<>>]
  BY DEF Abstract!Init
<1>1. ASSUME NEW t \in Threads
      PROVE  Names(handles[t], Depth(t)) = <<>>
  <2>1. handles[t] = <<>> /\ pc[t] = "run" /\ <<>> \in Seq(Handle) /\ Len(<<>>) = 0
    BY EmptySeq DEF Init
  <2>2. Depth(t) = 0
    BY <2>1 DEF Depth
  <2>3. Names(<<>>, 0) \in Seq(Sessions) /\ Len(Names(<<>>, 0)) = 0
    <3> DEFINE e == <<>>
    <3>1. e \in Seq(Handle) /\ 0 \in 0..Len(e)
      BY <2>1
    <3> HIDE DEF e
    <3>2. Names(e, 0) \in Seq(Sessions) /\ Len(Names(e, 0)) = 0
      BY <3>1, NamesProperties
    <3> QED BY <3>2 DEF e
  <2>4. Names(<<>>, 0) = <<>>
    BY <2>3, EmptySeq
  <2> QED BY <2>1, <2>2, <2>4
<1> QED BY <1>1, HoldingNames

\* A registered handle is not locked yet.
LEMMA AbstractRegister ==
    ASSUME Inv, NEW t \in Threads, NEW s \in Sessions, NEW m \in Mutexes, Register(t, s, m)
    PROVE  holding' = holding
<1> DEFINE h == [session |-> s, mutex |-> m]
           n == Len(handles[t])
<1>1. TypeOK /\ h \in Handle /\ pc[t] = "run" /\ pc' = [pc EXCEPT ![t] = "lock"]
  BY DEF Inv, Handle, Register, MayAcquire
<1>2. /\ handles'[t] \in Seq(Handle) /\ Len(handles'[t]) = n + 1 /\ n \in Nat
      /\ \A i \in 1..n : handles'[t][i] = handles[t][i]
      /\ \A u \in Threads \ {t} : handles'[u] = handles[u]
  BY <1>1, AppendHandle DEF Register
<1>3. ASSUME NEW u \in Threads
      PROVE  Names(handles'[u], Depth(u)') = Names(handles[u], Depth(u))
  <2>1. CASE u = t
    <3>1. Depth(t) = n /\ Depth(t)' = n
      BY <1>1, <1>2 DEF Depth, TypeOK
    <3> QED BY <2>1, <3>1, <1>2 DEF Names
  <2>2. CASE u # t
    <3>1. handles'[u] = handles[u] /\ pc'[u] = pc[u]
      BY <2>2, <1>1, <1>2 DEF TypeOK
    <3> QED BY <3>1 DEF Depth
  <2> QED BY <2>1, <2>2
<1> QED BY <1>3, HoldingSame

\* The lock of the mutex is the acquisition: whoever else holds the session would
\* hold the mutex its entry names, and that is the mutex that was just locked.
LEMMA AbstractLock ==
    ASSUME Inv, NEW t \in Threads, Lock(t)
    PROVE  \E s \in Sessions : Abstract!Acquire(t, s)
<1> DEFINE n == Len(handles[t])
           s == Top(t).session
<1>1. TypeOK /\ handles' = handles /\ pc[t] = "lock" /\ pc' = [pc EXCEPT ![t] = "run"]
  BY DEF Inv, Lock
<1>2. handles[t] # <<>>
  BY <1>1 DEF TypeOK
<1>3. /\ handles[t] \in Seq(Handle) /\ n \in Nat /\ n \in 1..n
      /\ Top(t) = handles[t][n] /\ Top(t) \in Handle
  BY <1>1, <1>2, TopHandle
<1>4. s \in Sessions
  BY <1>3 DEF Handle
<1>5. ASSUME NEW u \in Threads \ {t}, NEW i \in 1..Len(holding[u]), holding[u][i] = s
      PROVE  FALSE
  <2>1. /\ handles[u] \in Seq(Handle) /\ Len(handles[u]) \in Nat
        /\ Depth(u) \in 0..Len(handles[u])
    BY <1>1, DepthType
  <2>2. holding[u] = Names(handles[u], Depth(u))
    BY HoldingNames
  <2>3. Len(holding[u]) = Depth(u) /\ holding[u][i] = handles[u][i].session
    BY <2>1, <2>2, NamesProperties
  <2>4. i \in 1..Depth(u)
    BY <2>3
  <2>5. i \in 1..Len(handles[u])
    BY <2>1, <2>4
  <2>6. Locked(u, i)
    BY <2>1, <2>4, <2>5 DEF Locked, Depth
  <2>7. registry[handles[u][i].session] = handles[u][i].mutex
    BY <2>5, <2>6 DEF Inv, RegistryCurrent, Locked
  <2>8. registry[s] = Top(t).mutex
    BY <1>1, <1>3 DEF Inv, RegistryCurrent
  <2>9. handles[u][i].mutex # Top(t).mutex
    BY <2>5, <2>6 DEF Lock
  <2> QED BY <1>5, <2>3, <2>7, <2>8, <2>9
<1>6. \A u \in Threads \ {t} : ~Abstract!Holds(u, s)
  BY <1>5 DEF Abstract!Holds
<1>7. holding' = [holding EXCEPT ![t] = Append(@, s)]
  <2>1. Depth(t) = n - 1 /\ Depth(t)' = n
    BY <1>1 DEF Depth, TypeOK
  <2>2. n - 1 \in Nat /\ (n - 1) + 1 = n
    BY <1>3
  <2>3. Names(handles[t], (n - 1) + 1) = Append(Names(handles[t], n - 1), handles[t][(n - 1) + 1].session)
    BY <1>3, <2>2, NamesAppend
  <2>4. Names(handles'[t], Depth(t)') = Append(Names(handles[t], Depth(t)), s)
    BY <1>1, <1>3, <2>1, <2>2, <2>3
  <2>5. \A u \in Threads \ {t} : Names(handles'[u], Depth(u)') = Names(handles[u], Depth(u))
    BY <1>1 DEF Depth, TypeOK
  <2> QED BY <2>4, <2>5, HoldingNames
<1> QED BY <1>4, <1>6, <1>7 DEF Abstract!Acquire

\* The unlock is the release.
LEMMA AbstractUnlock ==
    ASSUME Inv, NEW t \in Threads, Unlock(t)
    PROVE  Abstract!Release(t)
<1> DEFINE n == Len(handles[t])
<1>1. TypeOK /\ handles' = handles /\ handles[t] # <<>> /\ pc[t] = "run" /\ pc' = [pc EXCEPT ![t] = "release"]
  BY DEF Inv, Unlock
<1>2. handles[t] \in Seq(Handle) /\ n \in Nat /\ n \in 1..n /\ n \in 0..n
  BY <1>1, TopHandle
<1>3. Depth(t) = n /\ Depth(t)' = n - 1
  BY <1>1 DEF Depth, TypeOK
<1>4. holding[t] = Names(handles[t], n)
  BY <1>3, HoldingNames
<1>5. holding[t] # <<>>
  <2>1. Len(holding[t]) = n
    BY <1>2, <1>4, NamesProperties
  <2> QED BY <2>1, <1>2, EmptySeq
<1>6. Names(handles[t], n - 1) = SubSeq(Names(handles[t], n), 1, Len(Names(handles[t], n)) - 1)
  BY <1>2, NamesFront
<1>7. Names(handles'[t], Depth(t)') = SubSeq(holding[t], 1, Len(holding[t]) - 1)
  BY <1>1, <1>3, <1>4, <1>6
<1>8. \A u \in Threads \ {t} : Names(handles'[u], Depth(u)') = Names(handles[u], Depth(u))
  BY <1>1 DEF Depth, TypeOK
<1>9. holding' = [holding EXCEPT ![t] = SubSeq(@, 1, Len(@) - 1)]
  BY <1>7, <1>8, HoldingNames
<1> QED BY <1>5, <1>9 DEF Abstract!Release

\* Neither the registry section of the release nor the delete is visible.
LEMMA AbstractUnregisterDelete ==
    ASSUME Inv, NEW t \in Threads, Unregister(t) \/ Delete(t)
    PROVE  holding' = holding
<1>1. CASE Unregister(t)
  <2>1. TypeOK /\ handles' = handles /\ pc[t] = "release" /\ pc' = [pc EXCEPT ![t] = "delete"]
    BY <1>1 DEF Inv, Unregister
  <2>2. \A u \in Threads : Depth(u)' = Depth(u)
    BY <2>1 DEF Depth, TypeOK
  <2> QED BY <2>1, <2>2, HoldingSame
<1>2. CASE Delete(t)
  <2> DEFINE n == Len(handles[t])
  <2>1. TypeOK /\ pc[t] = "delete" /\ pc' = [pc EXCEPT ![t] = "run"]
    BY <1>2 DEF Inv, Delete
  <2>2. handles[t] # <<>>
    BY <2>1 DEF TypeOK
  <2>3. /\ Len(handles'[t]) = n - 1
        /\ \A i \in 1..n - 1 : handles'[t][i] = handles[t][i]
        /\ \A u \in Threads \ {t} : handles'[u] = handles[u]
    BY <2>1, <2>2, <1>2, DeleteHandle DEF Delete
  <2>4. ASSUME NEW u \in Threads
        PROVE  Names(handles'[u], Depth(u)') = Names(handles[u], Depth(u))
    <3>1. CASE u = t
      <4>1. Depth(t) = n - 1 /\ Depth(t)' = n - 1
        BY <2>1, <2>3 DEF Depth, TypeOK
      <4> QED BY <3>1, <4>1, <2>3 DEF Names
    <3>2. CASE u # t
      <4>1. handles'[u] = handles[u] /\ pc'[u] = pc[u]
        BY <3>2, <2>1, <2>3 DEF TypeOK
      <4> QED BY <4>1 DEF Depth
    <3> QED BY <3>1, <3>2
  <2> QED BY <2>4, HoldingSame
<1> QED BY <1>1, <1>2

\* Every step of the registry is a step of the abstract lock or a stutter.
LEMMA AbstractStep == Inv /\ [Next]_vars => [Abstract!Next]_holding
<1> SUFFICES ASSUME Inv, [Next]_vars PROVE [Abstract!Next]_holding
  OBVIOUS
<1>1. CASE UNCHANGED vars
  BY <1>1, HoldingSame DEF vars, Depth
<1>2. CASE Next
  <2>1. PICK t \in Threads :
            \/ Lock(t) \/ Unlock(t) \/ Unregister(t) \/ Delete(t)
            \/ \E s \in Sessions : AcquireFails(t, s) \/ \E m \in Mutexes : Register(t, s, m)
    BY <1>2 DEF Next
  <2>2. CASE Lock(t)
    BY <2>2, AbstractLock DEF Abstract!Next
  <2>3. CASE Unlock(t)
    BY <2>3, AbstractUnlock DEF Abstract!Next
  <2>4. CASE Unregister(t) \/ Delete(t)
    BY <2>4, AbstractUnregisterDelete
  <2>5. ASSUME NEW s \in Sessions, AcquireFails(t, s)
        PROVE  holding' = holding
    BY <2>5, HoldingSame DEF AcquireFails, Depth
  <2>6. ASSUME NEW s \in Sessions, NEW m \in Mutexes, Register(t, s, m)
        PROVE  holding' = holding
    BY <2>6, AbstractRegister
  <2> QED BY <2>1, <2>2, <2>3, <2>4, <2>5, <2>6
<1> QED BY <1>1, <1>2

\* acquire_lifecycle_lock and release_lifecycle_lock implement one recursive lock
\* per session.
THEOREM Refinement == Spec => ImplementsSessionLock
<1>1. Spec => Abstract!Spec
  BY AbstractInit, AbstractStep, Invariance, PTL DEF Spec, Abstract!Spec
<1> QED BY <1>1 DEF ImplementsSessionLock
=============================================================================
