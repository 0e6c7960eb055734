--------------------------- MODULE PlayoutBacklog ---------------------------
(***************************************************************************)
(* What the playback path promises a listener, whatever the number of      *)
(* threads, buffers and messages it takes: accepted audio waits, leaves    *)
(* oldest first and once, and is only given up for a barge-in, which drops *)
(* the newest part at once and the oldest soon afterwards.                 *)
(***************************************************************************)
EXTENDS Naturals

VARIABLES
    accepted,   \* samples accepted so far; they are numbered from 1
    waiting,    \* the samples that wait to be played
    due         \* barge-ins whose second part is still to come

Init == accepted = 0 /\ waiting = {} /\ due = 0

Accept ==
    /\ accepted' \in Nat /\ accepted' > accepted
    /\ waiting' = waiting \cup ((accepted + 1)..accepted')
    /\ UNCHANGED due

\* The samples up to k are played, or tossed while the playback is muted.
Take(k) ==
    /\ waiting' = {n \in waiting : n > k}
    /\ UNCHANGED <<accepted, due>>

BargeIn(k) ==
    /\ waiting' = {n \in waiting : n <= k} /\ due' = due + 1
    /\ UNCHANGED accepted

\* One discard serves all barge-ins before it.
Discard(k) ==
    /\ due > 0 /\ due' \in 0..(due - 1)
    /\ waiting' = {n \in waiting : n > k}
    /\ UNCHANGED accepted

Next == Accept \/ \E k \in 0..accepted : Take(k) \/ BargeIn(k) \/ Discard(k)

Spec == Init /\ [][Next]_<<accepted, waiting, due>>
=============================================================================
