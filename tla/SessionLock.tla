---------------------------- MODULE SessionLock ----------------------------
(***************************************************************************)
(* What stream_session_lifecycle_lock and LifecycleLockScope promise: one  *)
(* recursive lock per session.  A thread that works on a session excludes  *)
(* every other thread from it and may lock it again; locks are released in *)
(* the opposite order.  How the lock objects come and go is not visible.   *)
(***************************************************************************)
EXTENDS Naturals, Sequences

CONSTANTS Threads, Sessions

VARIABLE holding   \* holding[t]: the sessions thread t has locked, innermost last

Holds(t, s) == \E i \in 1..Len(holding[t]) : holding[t][i] = s

Init == holding = [t \in Threads |-> <<>>]

Acquire(t, s) ==
    /\ \A u \in Threads \ {t} : ~Holds(u, s)
    /\ holding' = [holding EXCEPT ![t] = Append(@, s)]

Release(t) ==
    /\ holding[t] # <<>>
    /\ holding' = [holding EXCEPT ![t] = SubSeq(@, 1, Len(@) - 1)]

Next == \E t \in Threads : Release(t) \/ \E s \in Sessions : Acquire(t, s)

Spec == Init /\ [][Next]_holding
=============================================================================
