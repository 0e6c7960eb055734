--------------------------- MODULE PlaybackProofs ---------------------------
(* Theorems about Playback, for every value of its constants. *)
EXTENDS Playback, TLAPS, SequenceTheorems

Chunk == [first : Nat, last : Nat]

\* A product of naturals is a natural, a fact the arithmetic solver wants spelled out.
LEMMA ProductNat ==
    ASSUME NEW a \in Nat, NEW b \in Nat
    PROVE  a * b \in Nat
OBVIOUS

\* Products distribute over differences, the other fact the solver wants spelled out.
LEMMA ProductMinus ==
    ASSUME NEW a \in Int, NEW b \in Int, NEW c \in Int
    PROVE  (a - b) * c = a * c - b * c
OBVIOUS

USE SizesAssumption

\* NumChunks(n) is the number of chunks of at most MaxChunk that n samples need.
LEMMA NumChunksBounds ==
    ASSUME NEW n \in Nat \ {0}
    PROVE  /\ NumChunks(n) \in Nat \ {0}
           /\ (NumChunks(n) - 1) * MaxChunk < n
           /\ n <= NumChunks(n) * MaxChunk
<1> DEFINE k == NumChunks(n)
           a == n + MaxChunk - 1
<1>1. a \in Nat /\ a >= MaxChunk
  OBVIOUS
<1>2. k = a \div MaxChunk
  BY DEF NumChunks
<1>3. k \in Int /\ k * MaxChunk <= a /\ a < (k + 1) * MaxChunk
  BY <1>1, <1>2
<1>4. k >= 1
  <2>1. CASE k <= 0
    <3>1. (k + 1) * MaxChunk <= MaxChunk
      BY <1>3, <2>1
    <3> QED BY <3>1, <1>1, <1>3
  <2> QED BY <2>1, <1>3
<1>5. (k - 1) * MaxChunk = k * MaxChunk - MaxChunk /\ (k + 1) * MaxChunk = k * MaxChunk + MaxChunk
  BY <1>3
<1> QED BY <1>1, <1>3, <1>4, <1>5

\* What push_audio_queue appends: the samples first..first+n-1, cut in order into
\* chunks that are neither empty nor longer than MaxChunk.
LEMMA ChunksProperties ==
    ASSUME NEW first \in Nat, NEW n \in Nat \ {0}
    PROVE  LET cs == Chunks(first, n) IN
           /\ cs \in Seq(Chunk)
           /\ Len(cs) = NumChunks(n) /\ Len(cs) >= 1
           /\ cs[1].first = first
           /\ cs[Len(cs)].last = first + n - 1
           /\ \A i \in 1..Len(cs) : /\ first <= cs[i].first
                                     /\ cs[i].first <= cs[i].last
                                     /\ cs[i].last <= first + n - 1
                                     /\ Size(cs[i]) <= MaxChunk
           /\ \A i \in 1..Len(cs) - 1 : cs[i + 1].first = cs[i].last + 1
<1> DEFINE k == NumChunks(n)
           cs == Chunks(first, n)
<1>1. k \in Nat \ {0} /\ (k - 1) * MaxChunk < n /\ n <= k * MaxChunk
  BY NumChunksBounds
<1> HIDE DEF k
<1>2. ASSUME NEW i \in 1..k
      PROVE  /\ (i - 1) * MaxChunk \in Nat /\ i * MaxChunk \in Nat
             /\ (i - 1) * MaxChunk = i * MaxChunk - MaxChunk
             /\ i < k => i * MaxChunk <= (k - 1) * MaxChunk
             /\ i * MaxChunk <= k * MaxChunk
  <2>1. i \in Nat /\ k \in Nat /\ i - 1 \in Nat /\ k - i \in Nat /\ k - 1 \in Nat
    BY <1>1
  <2>2. (i - 1) * MaxChunk \in Nat /\ i * MaxChunk \in Nat /\ (k - i) * MaxChunk \in Nat
    BY <2>1, ProductNat
  <2>3. /\ (i - 1) * MaxChunk = i * MaxChunk - MaxChunk
        /\ (k - i) * MaxChunk = k * MaxChunk - i * MaxChunk
        /\ (k - 1) * MaxChunk = k * MaxChunk - MaxChunk
    <3>1. 1 * MaxChunk = MaxChunk
      OBVIOUS
    <3> QED BY <2>1, <3>1, ProductMinus
  <2>4. i < k => (k - 1 - i) * MaxChunk \in Nat
                 /\ (k - 1 - i) * MaxChunk = (k - 1) * MaxChunk - i * MaxChunk
    <3>1. SUFFICES ASSUME i < k
                   PROVE  /\ (k - 1 - i) * MaxChunk \in Nat
                          /\ (k - 1 - i) * MaxChunk = (k - 1) * MaxChunk - i * MaxChunk
      OBVIOUS
    <3>2. k - 1 - i \in Nat
      BY <2>1, <3>1
    <3> QED BY <2>1, <3>2, ProductNat, ProductMinus
  <2>5. k * MaxChunk \in Nat /\ (k - 1) * MaxChunk \in Nat
    BY <2>1, ProductNat
  <2> QED BY <2>2, <2>3, <2>4, <2>5
<1>3. cs = [i \in 1..k |-> [first |-> first + (i - 1) * MaxChunk,
                           last  |-> IF i = k THEN first + n - 1 ELSE first + i * MaxChunk - 1]]
  BY DEF Chunks, k
<1>4. ASSUME NEW i \in 1..k
      PROVE  /\ cs[i] \in Chunk
             /\ cs[i].first = first + (i - 1) * MaxChunk
             /\ first <= cs[i].first
             /\ i = k => cs[i].last = first + n - 1
             /\ i < k => cs[i].last = first + i * MaxChunk - 1
             /\ cs[i].first <= cs[i].last /\ cs[i].last <= first + n - 1
             /\ Size(cs[i]) <= MaxChunk
  <2> DEFINE x == (i - 1) * MaxChunk
             y == i * MaxChunk
  <2>1. /\ cs[i].first = first + x
        /\ cs[i].last = IF i = k THEN first + n - 1 ELSE first + y - 1
        /\ cs[i] = [first |-> first + x,
                    last |-> IF i = k THEN first + n - 1 ELSE first + y - 1]
    BY <1>3
  <2>2. x \in Nat /\ y \in Nat /\ x = y - MaxChunk
    BY <1>2
  <2>3. i = k => x < n /\ n <= y
    BY <1>1
  <2>4. i < k => y < n
    BY <1>1, <1>2
  <2>5. i \in Int /\ k \in Int /\ i <= k
    BY <1>1
  <2> HIDE DEF x, y
  <2>6. x < n /\ (i # k => y < n)
    BY <2>2, <2>3, <2>4, <2>5
  <2>7. cs[i].first \in Nat /\ first <= cs[i].first /\ cs[i].last \in Nat /\ cs[i].first <= cs[i].last
        /\ cs[i].last <= first + n - 1 /\ Size(cs[i]) <= MaxChunk
    BY <2>1, <2>2, <2>3, <2>5, <2>6 DEF Size
  <2>8. cs[i] \in Chunk
    BY <2>1, <2>7 DEF Chunk
  <2> QED BY <2>1, <2>5, <2>7, <2>8 DEF x, y
<1>5. cs \in Seq(Chunk) /\ Len(cs) = k
  <2>1. cs \in [1..k -> Chunk]
    BY <1>3, <1>4
  <2> QED BY <2>1, <1>1
<1>6. cs[1].first = first
  BY <1>1, <1>4
<1>7. ASSUME NEW i \in 1..k - 1 PROVE cs[i + 1].first = cs[i].last + 1
  <2>1. i \in 1..k /\ i < k /\ i + 1 \in 1..k
    BY <1>1
  <2>2. cs[i + 1].first = first + ((i + 1) - 1) * MaxChunk
    BY <2>1, <1>4
  <2>3. cs[i].last = first + i * MaxChunk - 1
    BY <2>1, <1>4
  <2>4. ((i + 1) - 1) * MaxChunk = i * MaxChunk /\ i * MaxChunk \in Nat
    BY <2>1, <1>2
  <2> HIDE DEF cs
  <2> QED BY <2>2, <2>3, <2>4
<1>8. k \in 1..k
  BY <1>1
<1> HIDE DEF cs
<1>9. cs[k].last = first + n - 1
  BY <1>4, <1>8
<1>10. k = NumChunks(n)
  BY DEF k
<1>11. cs = Chunks(first, n)
  BY DEF cs
<1> QED BY <1>1, <1>4, <1>5, <1>6, <1>7, <1>9, <1>10, <1>11

-----------------------------------------------------------------------------
(* The queue. *)

\* QueueExact for a queue q holding s samples of which number a is the newest,
\* strengthened: no chunk reaches beyond a, and none is longer than MaxChunk.
Exact(q, s, a) ==
    /\ q \in Seq(Chunk) /\ s \in Nat /\ a \in Nat /\ s <= a
    /\ \A i \in 1..Len(q) : /\ q[i].first <= q[i].last
                            /\ q[i].last <= a
                            /\ Size(q[i]) <= MaxChunk
    /\ \A i \in 1..Len(q) - 1 : q[i + 1].first = q[i].last + 1
    /\ q = <<>> => s = 0
    /\ q # <<>> => q[Len(q)].last = a /\ q[1].first = a - s + 1

\* push_audio_queue keeps the counter equal to the audio in the queue.
LEMMA ExactPush ==
    ASSUME NEW q, NEW s, NEW a, NEW n \in Nat \ {0}, Exact(q, s, a)
    PROVE  /\ Exact(q \o Chunks(a + 1, n), s + n, a + n)
           /\ \A i \in 1..Len(q \o Chunks(a + 1, n)) :
                  \/ i <= Len(q) /\ (q \o Chunks(a + 1, n))[i] = q[i]
                  \/ (q \o Chunks(a + 1, n))[i].first > a
<1> DEFINE cs == Chunks(a + 1, n)
           r == q \o cs
<1>1. /\ cs \in Seq(Chunk) /\ Len(cs) >= 1
      /\ cs[1].first = a + 1 /\ cs[Len(cs)].last = a + n
      /\ \A i \in 1..Len(cs) : /\ a < cs[i].first
                                /\ cs[i].first <= cs[i].last
                                /\ cs[i].last <= a + n
                                /\ Size(cs[i]) <= MaxChunk
      /\ \A i \in 1..Len(cs) - 1 : cs[i + 1].first = cs[i].last + 1
  <2>1. a \in Nat /\ a + 1 \in Nat /\ (a + 1) + n - 1 = a + n
    BY DEF Exact
  <2>2. /\ cs \in Seq(Chunk) /\ Len(cs) >= 1
        /\ cs[1].first = a + 1 /\ cs[Len(cs)].last = (a + 1) + n - 1
        /\ \A i \in 1..Len(cs) : /\ a + 1 <= cs[i].first
                                  /\ cs[i].first <= cs[i].last
                                  /\ cs[i].last <= (a + 1) + n - 1
                                  /\ Size(cs[i]) <= MaxChunk
        /\ \A i \in 1..Len(cs) - 1 : cs[i + 1].first = cs[i].last + 1
    BY <2>1, ChunksProperties
  <2> HIDE DEF cs
  <2>3. \A i \in 1..Len(cs) : cs[i] \in Chunk
    BY <2>2, ElementOfSeq
  <2> QED BY <2>1, <2>2, <2>3 DEF Chunk
<1> HIDE DEF cs
<1>2. q \in Seq(Chunk) /\ Len(q) \in Nat /\ Len(cs) \in Nat
  BY <1>1 DEF Exact
<1>3. /\ r \in Seq(Chunk) /\ Len(r) = Len(q) + Len(cs)
      /\ \A i \in 1..Len(r) : r[i] = IF i <= Len(q) THEN q[i] ELSE cs[i - Len(q)]
  BY <1>1, <1>2, ConcatProperties
<1> HIDE DEF r
<1>4. \A i \in 1..Len(q) : q[i] \in Chunk
  BY <1>2, ElementOfSeq
<1>5. \A i \in 1..Len(cs) : cs[i] \in Chunk
  BY <1>1, ElementOfSeq
<1>6. ASSUME NEW i \in 1..Len(r)
      PROVE  /\ r[i].first <= r[i].last
             /\ r[i].last <= a + n
             /\ Size(r[i]) <= MaxChunk
  <2>1. CASE i <= Len(q)
    <3>1. i \in 1..Len(q) /\ r[i] = q[i]
      BY <2>1, <1>2, <1>3
    <3>2. q[i].first <= q[i].last /\ q[i].last <= a /\ Size(q[i]) <= MaxChunk /\ a \in Nat
      BY <3>1 DEF Exact
    <3>3. q[i].last \in Nat
      BY <3>1, <1>4 DEF Chunk
    <3>4. q[i].last <= a + n
      BY <3>2, <3>3
    <3> QED BY <3>1, <3>2, <3>4
  <2>2. CASE i > Len(q)
    <3>1. i - Len(q) \in 1..Len(cs) /\ r[i] = cs[i - Len(q)]
      BY <2>2, <1>2, <1>3
    <3> QED BY <3>1, <1>1
  <2> QED BY <2>1, <2>2, <1>2
<1>7. ASSUME NEW i \in 1..Len(r) - 1
      PROVE  r[i + 1].first = r[i].last + 1
  <2>1. CASE i < Len(q)
    <3>1. i \in 1..Len(q) - 1 /\ r[i] = q[i] /\ r[i + 1] = q[i + 1]
      BY <2>1, <1>2, <1>3
    <3> QED BY <3>1 DEF Exact
  <2>2. CASE i = Len(q)
    <3>1. /\ i \in 1..Len(r) /\ i + 1 \in 1..Len(r)
          /\ i <= Len(q) /\ ~(i + 1 <= Len(q)) /\ (i + 1) - Len(q) = 1
      BY <2>2, <1>2, <1>3
    <3>2. r[i] = q[Len(q)] /\ r[i + 1] = cs[1]
      BY <2>2, <3>1, <1>3
    <3>3. Len(q) >= 1
      BY <2>2
    <3>4. q # <<>>
      BY <3>3
    <3> QED BY <3>2, <3>4, <1>1 DEF Exact
  <2>3. CASE i > Len(q)
    <3>1. i - Len(q) \in 1..Len(cs) - 1
      BY <2>3, <1>2, <1>3
    <3>2. r[i] = cs[i - Len(q)] /\ r[i + 1] = cs[(i - Len(q)) + 1]
      BY <2>3, <1>2, <1>3
    <3> QED BY <3>1, <3>2, <1>1
  <2> QED BY <2>1, <2>2, <2>3, <1>2
<1>8. r # <<>> /\ r[Len(r)].last = a + n
  <2>1. r[Len(r)] = cs[Len(cs)] /\ Len(r) > 0
    BY <1>1, <1>2, <1>3
  <2> QED BY <2>1, <1>1
<1>9. r[1].first = a - s + 1
  <2>1. CASE q = <<>>
    <3>1. r[1] = cs[1] /\ s = 0
      BY <2>1, <1>1, <1>2, <1>3 DEF Exact
    <3> QED BY <3>1, <1>1 DEF Exact
  <2>2. CASE q # <<>>
    <3>1. r[1] = q[1]
      BY <2>2, <1>2, <1>3
    <3> QED BY <3>1, <2>2 DEF Exact
  <2> QED BY <2>1, <2>2
<1>10. a - s + 1 = (a + n) - (s + n) + 1 /\ s + n \in Nat /\ a + n \in Nat /\ s + n <= a + n
  BY DEF Exact
<1>11. Exact(r, s + n, a + n)
  BY <1>3, <1>6, <1>7, <1>8, <1>9, <1>10 DEF Exact
<1>12. ASSUME NEW i \in 1..Len(r)
       PROVE  (i <= Len(q) /\ r[i] = q[i]) \/ r[i].first > a
  <2>1. CASE i <= Len(q)
    BY <2>1, <1>3
  <2>2. CASE i > Len(q)
    <3>1. i - Len(q) \in 1..Len(cs) /\ r[i] = cs[i - Len(q)]
      BY <2>2, <1>2, <1>3
    <3>2. r[i].first > a
      <4>1. cs[i - Len(q)] \in Chunk /\ a < cs[i - Len(q)].first
        BY <3>1, <1>1, <1>5
      <4> QED BY <4>1, <3>1 DEF Exact, Chunk
    <3> QED BY <3>2
  <2> QED BY <2>1, <2>2, <1>2
<1>13. r = q \o Chunks(a + 1, n)
  BY DEF r, cs
<1> QED BY <1>11, <1>12, <1>13

\* pop_audio_queue keeps the counter equal to the audio in the queue.
LEMMA ExactPop ==
    ASSUME NEW q, NEW s, NEW a, Exact(q, s, a), q # <<>>
    PROVE  /\ Head(q) = q[1] /\ Head(q) \in Chunk
           /\ Size(Head(q)) \in 1..MaxChunk
           /\ Head(q).first = a - s + 1
           /\ Head(q).last = a - (s - Size(Head(q)))
           /\ Exact(Tail(q), s - Size(Head(q)), a)
           /\ \A i \in 1..Len(Tail(q)) : i + 1 \in 1..Len(q) /\ Tail(q)[i] = q[i + 1]
<1> DEFINE h == Head(q)
           r == Tail(q)
<1>1. q \in Seq(Chunk) /\ Len(q) \in Nat /\ Len(q) >= 1
  <2>1. q \in Seq(Chunk)
    BY DEF Exact
  <2> QED BY <2>1, EmptySeq, LenProperties
<1>2. h = q[1] /\ h \in Chunk
  BY <1>1, ElementOfSeq
<1>3. /\ r \in Seq(Chunk) /\ Len(r) = Len(q) - 1
      /\ \A i \in 1..Len(r) : i + 1 \in 1..Len(q) /\ r[i] = q[i + 1]
  BY <1>1, HeadTailProperties
<1>4. /\ h.first <= h.last /\ h.last <= a /\ Size(h) <= MaxChunk
      /\ h.first = a - s + 1
      /\ h.first \in Nat /\ h.last \in Nat
  BY <1>1, <1>2 DEF Exact, Chunk
<1>5. Size(h) \in 1..MaxChunk /\ h.last = a - (s - Size(h)) /\ s - Size(h) \in Nat
      /\ s - Size(h) <= a
  <2> HIDE DEF h
  <2>1. s \in Nat /\ a \in Nat /\ s <= a
    BY DEF Exact
  <2>2. Size(h) = h.last - h.first + 1
    BY DEF Size
  <2> QED BY <1>4, <2>1, <2>2
<1> HIDE DEF h, r
<1>6. /\ \A i \in 1..Len(r) : /\ r[i].first <= r[i].last
                               /\ r[i].last <= a
                               /\ Size(r[i]) <= MaxChunk
      /\ \A i \in 1..Len(r) - 1 : r[i + 1].first = r[i].last + 1
  <2>1. ASSUME NEW i \in 1..Len(r)
        PROVE  /\ r[i].first <= r[i].last /\ r[i].last <= a /\ Size(r[i]) <= MaxChunk
    <3>1. i + 1 \in 1..Len(q) /\ r[i] = q[i + 1]
      BY <1>3
    <3> QED BY <3>1 DEF Exact
  <2>2. ASSUME NEW i \in 1..Len(r) - 1
        PROVE  r[i + 1].first = r[i].last + 1
    <3>1. i + 1 \in 1..Len(q) - 1
      BY <1>1, <1>3
    <3>2. r[i] = q[i + 1] /\ r[i + 1] = q[(i + 1) + 1]
      BY <1>1, <1>3
    <3> QED BY <3>1, <3>2 DEF Exact
  <2> QED BY <2>1, <2>2
<1>7. ASSUME r = <<>> PROVE s - Size(h) = 0
  <2>1. Len(q) = 1
    BY <1>1, <1>3, <1>7
  <2> QED BY <2>1, <1>2, <1>5 DEF Exact
<1>8. ASSUME r # <<>>
      PROVE  r[Len(r)].last = a /\ r[1].first = a - (s - Size(h)) + 1
  <2>1. Len(r) >= 1
    BY <1>3, <1>8, EmptySeq, LenProperties
  <2>2. r[Len(r)] = q[Len(q)] /\ r[1] = q[1 + 1] /\ 1 \in 1..Len(q) - 1
    BY <2>1, <1>1, <1>3
  <2> QED BY <2>2, <1>2, <1>5 DEF Exact
<1>9. Exact(r, s - Size(h), a)
  BY <1>3, <1>5, <1>6, <1>7, <1>8 DEF Exact
<1> QED BY <1>2, <1>3, <1>4, <1>5, <1>9 DEF h, r

-----------------------------------------------------------------------------
(* The queue is exact, whatever the interleaving of push, pop and clear. *)

\* TypeOK without the queue, in the three parts that need different provers.
FlagTypes ==
    /\ m_openai_speaking \in BOOLEAN
    /\ m_response_audio_done \in BOOLEAN /\ m_terminal_close \in BOOLEAN
    /\ audio_paused \in BOOLEAN /\ openai_audio_muted \in BOOLEAN
    /\ close_requested \in BOOLEAN /\ session_up \in BOOLEAN
    /\ terminal_close \in BOOLEAN /\ chunk_enqueued \in BOOLEAN

ScalarTypes ==
    /\ m_playback_clear_gen \in Nat /\ m_playback_clear_gen_seen \in Nat
    /\ conn \in {"connecting", "open", "closed"}
    /\ ws \in {"idle", "push", "bump", "terminal"} /\ ws_len \in Nat
    /\ wf \in {"idle", "clear", "snapshot", "fill", "filled", "pruned"}
    /\ taken \in Nat /\ barge_mark \in Nat

BufferType == playback_buffer \in Seq(Nat)

RestTypeOK == FlagTypes /\ ScalarTypes /\ BufferType

QueueInv ==
    /\ Exact(m_audio_queue, m_audio_queue_samples, arrived)
    /\ m_audio_queue_samples <= MaxQueue
    /\ ws = "push" => ws_len \in Nat \ {0}

\* A chunk written to playback_buffer is its samples in order.
LEMMA SamplesProperties ==
    ASSUME NEW c \in Chunk, Size(c) \in Nat
    PROVE  /\ Samples(c) \in Seq(Nat) /\ Len(Samples(c)) = Size(c)
           /\ \A i \in 1..Size(c) : Samples(c)[i] = c.first + i - 1
<1>1. Samples(c) \in [1..Size(c) -> Nat]
  BY DEF Samples, Chunk
<1> QED BY <1>1 DEF Samples

\* An empty queue with a zero counter, as clear_audio_queue leaves it, is exact.
LEMMA EmptyExact ==
    ASSUME NEW a \in Nat
    PROVE  Exact(<<>>, 0, a)
BY DEF Exact

\* A new AudioStreamer has an exact queue.
LEMMA QueueInvInit == Init => QueueInv
<1> SUFFICES ASSUME Init PROVE QueueInv
  OBVIOUS
<1>1. Exact(<<>>, 0, 0)
  BY EmptyExact
<1> QED BY <1>1 DEF Init, QueueInv

\* Every step but the three queue operations and the receipt of audio leaves
\* the queue, its counter and the pending push alone.
LEMMA QueueInvStep == QueueInv /\ [Next]_vars => QueueInv'
<1> SUFFICES ASSUME QueueInv, [Next]_vars PROVE QueueInv'
  OBVIOUS
<1>1. CASE PushAudioQueue
  <2>1. CASE Overflows(ws_len)
    BY <1>1, <2>1 DEF PushAudioQueue, QueueInv, queueVars
  <2>2. CASE ~Overflows(ws_len)
    <3>1. /\ ws_len \in Nat \ {0}
          /\ m_audio_queue' = m_audio_queue \o Chunks(arrived + 1, ws_len)
          /\ m_audio_queue_samples' = m_audio_queue_samples + ws_len
          /\ arrived' = arrived + ws_len /\ ws' = "idle"
      BY <1>1, <2>2 DEF PushAudioQueue, QueueInv
    <3>2. Exact(m_audio_queue', m_audio_queue_samples', arrived')
      BY <3>1, ExactPush DEF QueueInv
    <3>3. m_audio_queue_samples' <= MaxQueue
      BY <2>2, <3>1 DEF Overflows, QueueInv, Exact
    <3> QED BY <3>1, <3>2, <3>3 DEF QueueInv
  <2> QED BY <2>1, <2>2
<1>2. CASE PopAudioQueue
  <2>1. /\ m_audio_queue # <<>> /\ m_audio_queue' = Tail(m_audio_queue)
        /\ m_audio_queue_samples' = m_audio_queue_samples - Size(Head(m_audio_queue))
        /\ arrived' = arrived /\ ws' = ws /\ ws_len' = ws_len
    BY <1>2 DEF PopAudioQueue, wsVars, histVars
  <2>2. /\ Exact(m_audio_queue', m_audio_queue_samples', arrived')
        /\ Size(Head(m_audio_queue)) \in 1..MaxChunk
    BY <2>1, ExactPop DEF QueueInv
  <2>3. m_audio_queue_samples' <= MaxQueue
    BY <2>1, <2>2 DEF QueueInv, Exact
  <2> QED BY <2>1, <2>2, <2>3 DEF QueueInv
<1>3. CASE ClearAudioQueue
  <2>1. /\ m_audio_queue' = <<>> /\ m_audio_queue_samples' = 0
        /\ arrived' = arrived /\ ws' = "bump"
    BY <1>3 DEF ClearAudioQueue, histVars
  <2>2. Exact(<<>>, 0, arrived)
    BY EmptyExact DEF QueueInv, Exact
  <2> QED BY <2>1, <2>2 DEF QueueInv
<1>4. CASE \E n \in Lengths : AudioDelta(n) \/ RawFrame(n)
  BY <1>4 DEF AudioDelta, RawFrame, QueueInv, queueVars, histVars
<1>5. CASE \/ Open \/ ConnectError \/ ConnectionDropped \/ AudioDone
           \/ SetTerminalClose \/ RequestPlaybackClear
  BY <1>5 DEF Open, ConnectError, ConnectionDropped, AudioDone, SetTerminalClose,
              RequestPlaybackClear, QueueInv, queueVars, histVars, wsVars
<1>6. CASE PauseResume \/ SetOpenaiMute \/ Hangup
  BY <1>6 DEF PauseResume, SetOpenaiMute, Hangup, QueueInv, queueVars, histVars, wsVars
<1>7. CASE \/ Prune \/ EnterFrame \/ ConsumePlaybackClear \/ SnapshotTerminalClose
           \/ FillDone \/ Drained \/ Emit
  BY <1>7 DEF Prune, EnterFrame, ConsumePlaybackClear, SnapshotTerminalClose, FillDone,
              Drained, Emit, QueueInv, queueVars, histVars, wsVars
<1>8. CASE UNCHANGED vars
  BY <1>8 DEF vars, QueueInv, queueVars, histVars, wsVars
<1> QED BY <1>1, <1>2, <1>3, <1>4, <1>5, <1>6, <1>7, <1>8
        DEF Next, WsThread, WsInternal, FrameBody

-----------------------------------------------------------------------------
(* The types, and the room for a chunk. *)

\* What a turn of the fill loop does: the chunk always fits.
LEMMA PopFits ==
    ASSUME QueueInv, RestTypeOK, PopAudioQueue
    PROVE  LET c == Head(m_audio_queue) IN
           /\ c \in Chunk /\ c = m_audio_queue[1] /\ Size(c) \in 1..MaxChunk
           /\ Len(playback_buffer) + Size(c) <= BufCap
           /\ playback_buffer' = playback_buffer \o Samples(c)
           /\ m_audio_queue_samples' = m_audio_queue_samples - Size(c)
           /\ chunk_enqueued' = TRUE /\ wf' = "fill"
<1> DEFINE c == Head(m_audio_queue)
<1>1. c \in Chunk /\ c = m_audio_queue[1] /\ Size(c) \in 1..MaxChunk
  BY ExactPop DEF PopAudioQueue, QueueInv
<1> HIDE DEF c
<1>2. Len(playback_buffer) \in Nat /\ Len(playback_buffer) < 2 * FrameLen
  BY LenProperties DEF PopAudioQueue, WantsAudio, RestTypeOK, BufferType
<1>3. Len(playback_buffer) + Size(c) <= BufCap
  BY <1>1, <1>2, CapacityAssumption
<1> QED BY <1>1, <1>3 DEF PopAudioQueue, c

\* What a played or tossed frame does to the buffer.
LEMMA EmitTakes ==
    ASSUME RestTypeOK, Emit
    PROVE  \E k \in 0..Len(playback_buffer) :
             /\ taken' = taken + k
             /\ playback_buffer' \in Seq(Nat)
             /\ Len(playback_buffer') = Len(playback_buffer) - k
             /\ \A i \in 1..Len(playback_buffer) - k :
                    playback_buffer'[i] = playback_buffer[i + k]
<1> DEFINE len == Len(playback_buffer)
           k == IF len > FrameLen THEN FrameLen ELSE len
<1>1. len \in Nat /\ \A i \in 1..len : playback_buffer[i] \in Nat
  BY LenProperties, ElementOfSeq DEF RestTypeOK, BufferType
<1>2. k \in 0..len
  BY <1>1
<1>3. taken' = taken + k /\ playback_buffer' = SubSeq(playback_buffer, k + 1, len)
  BY DEF Emit
<1> HIDE DEF len, k
<1>4. /\ playback_buffer' \in Seq(Nat)
      /\ Len(playback_buffer') = len - k
      /\ \A i \in 1..len - k : playback_buffer'[i] = playback_buffer[i + k]
  <2>1. \A i \in k + 1..len : playback_buffer[i] \in Nat
    BY <1>1, <1>2
  <2>2. /\ SubSeq(playback_buffer, k + 1, len) \in Seq(Nat)
        /\ Len(SubSeq(playback_buffer, k + 1, len)) = IF k + 1 <= len THEN len - (k + 1) + 1 ELSE 0
        /\ \A i \in 1..len - (k + 1) + 1 :
               SubSeq(playback_buffer, k + 1, len)[i] = playback_buffer[(k + 1) + i - 1]
    BY <1>1, <1>2, <2>1, SubSeqProperties
  <2>3. \A i \in 1..len - k : (k + 1) + i - 1 = i + k
    BY <1>1, <1>2
  <2> QED BY <1>1, <1>2, <1>3, <2>2, <2>3
<1> QED BY <1>2, <1>3, <1>4 DEF len

\* The types of all that is not the queue, initially.
LEMMA RestTypeInit == Init => RestTypeOK
<1> SUFFICES ASSUME Init PROVE RestTypeOK
  OBVIOUS
<1>1. FlagTypes
  BY DEF Init, FlagTypes
<1>2. ScalarTypes
  BY DEF Init, ScalarTypes
<1>3. BufferType
  BY DEF Init, BufferType
<1> QED BY <1>1, <1>2, <1>3 DEF RestTypeOK

\* Every step keeps the types of flags and program counters.
LEMMA FlagTypesStep == FlagTypes /\ [Next]_vars => FlagTypes'
<1> SUFFICES ASSUME FlagTypes, [Next]_vars PROVE FlagTypes'
  OBVIOUS
<1> USE DEF FlagTypes, flagVars, apiVars, frameVars, mediaVars
<1>1. CASE WsInternal
  BY <1>1 DEF WsInternal, SetTerminalClose, PushAudioQueue, RequestPlaybackClear
<1>2. CASE Open \/ ConnectError \/ ConnectionDropped \/ AudioDone \/ ClearAudioQueue
  BY <1>2 DEF Open, ConnectError, ConnectionDropped, AudioDone, ClearAudioQueue
<1>3. CASE \E n \in Lengths : AudioDelta(n) \/ RawFrame(n)
  BY <1>3 DEF AudioDelta, RawFrame
<1>4. CASE PauseResume \/ SetOpenaiMute \/ Hangup
  BY <1>4 DEF PauseResume, SetOpenaiMute, Hangup
<1>5. CASE Prune \/ EnterFrame \/ ConsumePlaybackClear \/ SnapshotTerminalClose \/ FillDone
  BY <1>5 DEF Prune, EnterFrame, ConsumePlaybackClear, SnapshotTerminalClose, FillDone
<1>6. CASE Drained \/ Emit
  BY <1>6 DEF Drained, Emit
<1>7. CASE PopAudioQueue
  BY <1>7 DEF PopAudioQueue
<1>8. CASE UNCHANGED vars
  BY <1>8 DEF vars
<1> QED BY <1>1, <1>2, <1>3, <1>4, <1>5, <1>6, <1>7, <1>8 DEF Next, WsThread, FrameBody

\* Every step keeps the types of counters and history.
LEMMA ScalarTypesStep == QueueInv /\ RestTypeOK /\ [Next]_vars => ScalarTypes'
<1> SUFFICES ASSUME QueueInv, RestTypeOK, [Next]_vars PROVE ScalarTypes'
  OBVIOUS
<1>0. ScalarTypes /\ arrived \in Nat
  BY DEF RestTypeOK, QueueInv, Exact
<1> USE DEF ScalarTypes, clearVars, wsVars, frameVars, histVars
<1>1. CASE WsInternal
  BY <1>0, <1>1 DEF WsInternal, SetTerminalClose, PushAudioQueue, RequestPlaybackClear
<1>2. CASE Open \/ ConnectError \/ ConnectionDropped \/ AudioDone \/ ClearAudioQueue
  BY <1>0, <1>2 DEF Open, ConnectError, ConnectionDropped, AudioDone, ClearAudioQueue
<1>3. CASE \E n \in Lengths : AudioDelta(n) \/ RawFrame(n)
  BY <1>0, <1>3 DEF AudioDelta, RawFrame
<1>4. CASE PauseResume \/ SetOpenaiMute \/ Hangup
  BY <1>0, <1>4 DEF PauseResume, SetOpenaiMute, Hangup
<1>5. CASE \/ Prune \/ EnterFrame \/ ConsumePlaybackClear \/ SnapshotTerminalClose
           \/ FillDone \/ Drained \/ PopAudioQueue
  BY <1>0, <1>5 DEF Prune, EnterFrame, ConsumePlaybackClear, SnapshotTerminalClose, FillDone,
                    Drained, PopAudioQueue
<1>6. CASE Emit
  <2>1. taken' \in Nat
    <3>1. Len(playback_buffer) \in Nat
      BY LenProperties DEF RestTypeOK, BufferType
    <3> QED BY <1>0, <1>6, <3>1, EmitTakes
  <2> QED BY <1>0, <1>6, <2>1 DEF Emit
<1>7. CASE UNCHANGED vars
  BY <1>0, <1>7 DEF vars
<1> QED BY <1>1, <1>2, <1>3, <1>4, <1>5, <1>6, <1>7 DEF Next, WsThread, FrameBody

\* Every step keeps the type of playback_buffer.
LEMMA BufferTypeStep == QueueInv /\ RestTypeOK /\ [Next]_vars => BufferType'
<1> SUFFICES ASSUME QueueInv, RestTypeOK, [Next]_vars PROVE BufferType'
  OBVIOUS
<1>0. BufferType
  BY DEF RestTypeOK
<1> USE DEF BufferType, mediaVars
<1>1. CASE PopAudioQueue
  <2> DEFINE c == Head(m_audio_queue)
  <2>1. c \in Chunk /\ Size(c) \in Nat /\ playback_buffer' = playback_buffer \o Samples(c)
    BY <1>1, PopFits
  <2>2. Samples(c) \in Seq(Nat)
    BY <2>1, SamplesProperties
  <2> QED BY <1>0, <2>1, <2>2, ConcatProperties
<1>2. CASE Emit
  BY <1>2, EmitTakes
<1>3. CASE ConsumePlaybackClear
  <2>1. playback_buffer' = playback_buffer \/ playback_buffer' = <<>>
    BY <1>3 DEF ConsumePlaybackClear
  <2> QED BY <1>0, <2>1, EmptySeq
<1>4. CASE WsThread
  BY <1>0, <1>4 DEF WsThread, WsInternal, SetTerminalClose, PushAudioQueue, RequestPlaybackClear,
                    Open, ConnectError, ConnectionDropped, AudioDone, ClearAudioQueue,
                    AudioDelta, RawFrame
<1>5. CASE PauseResume \/ SetOpenaiMute \/ Hangup
  BY <1>0, <1>5 DEF PauseResume, SetOpenaiMute, Hangup
<1>6. CASE Prune \/ EnterFrame \/ SnapshotTerminalClose \/ FillDone \/ Drained
  BY <1>0, <1>6 DEF Prune, EnterFrame, SnapshotTerminalClose, FillDone, Drained
<1>7. CASE UNCHANGED vars
  BY <1>0, <1>7 DEF vars
<1> QED BY <1>1, <1>2, <1>3, <1>4, <1>5, <1>6, <1>7 DEF Next, FrameBody

\* Every step keeps the types of all that is not the queue.
LEMMA RestTypeStep == QueueInv /\ RestTypeOK /\ [Next]_vars => RestTypeOK'
BY FlagTypesStep, ScalarTypesStep, BufferTypeStep DEF RestTypeOK

\* The two inductive invariants together are the type invariant.
LEMMA QueueTypeOK == QueueInv /\ RestTypeOK => TypeOK
BY DEF QueueInv, RestTypeOK, FlagTypes, ScalarTypes, BufferType, Exact, Chunk, TypeOK

\* The queue is exact and typed in every reachable state.
LEMMA CoreInvariant == Spec => [](QueueInv /\ RestTypeOK)
<1>1. Init => QueueInv /\ RestTypeOK
  BY QueueInvInit, RestTypeInit
<1>2. (QueueInv /\ RestTypeOK) /\ [Next]_vars => (QueueInv /\ RestTypeOK)'
  BY QueueInvStep, RestTypeStep
<1> QED BY <1>1, <1>2, PTL DEF Spec

\* Types; that m_audio_queue_samples, a size_t, never goes below zero, and the bound of
\* the backlog, for every way of cutting the audio into messages, are part of it.
THEOREM TypeCorrect == Spec => []TypeOK
BY CoreInvariant, QueueTypeOK, PTL

\* The counter of push_audio_queue's guard is exactly the audio that is queued.
THEOREM QueueIsExact == Spec => []QueueExact
<1>1. QueueInv => QueueExact
  BY DEF QueueInv, Exact, QueueExact, QueueEmpty
<1> QED BY <1>1, CoreInvariant, PTL

\* write_frame never drops a chunk, for every MaxChunk, FrameLen and BufCap that
\* satisfy CapacityAssumption.
THEOREM ChunksAlwaysFit == Spec => []ChunkAlwaysFits
<1>1. QueueInv /\ RestTypeOK => ChunkAlwaysFits
  <2> SUFFICES ASSUME QueueInv, RestTypeOK, Len(playback_buffer) < 2 * FrameLen,
                      NEW i \in 1..Len(m_audio_queue)
               PROVE  Len(playback_buffer) + Size(m_audio_queue[i]) <= BufCap
    BY DEF ChunkAlwaysFits
  <2>1. m_audio_queue[i] \in Chunk /\ Size(m_audio_queue[i]) <= MaxChunk
    BY ElementOfSeq DEF QueueInv, Exact
  <2>2. Size(m_audio_queue[i]) \in Int
    BY <2>1 DEF Size, Chunk
  <2>3. Len(playback_buffer) \in Nat
    BY LenProperties DEF RestTypeOK, BufferType
  <2> QED BY <2>1, <2>2, <2>3, CapacityAssumption
<1> QED BY <1>1, CoreInvariant, PTL

-----------------------------------------------------------------------------
(* Playout order and losses. *)

\* A step either leaves the buffer alone, or is one of the three that change it.
LEMMA BufferSteps ==
    ASSUME [Next]_vars
    PROVE  \/ PopAudioQueue \/ Emit \/ ConsumePlaybackClear
           \/ playback_buffer' = playback_buffer /\ taken' = taken
<1> USE DEF mediaVars, histVars
<1>1. CASE WsThread
  BY <1>1 DEF WsThread, WsInternal, SetTerminalClose, PushAudioQueue, RequestPlaybackClear,
              Open, ConnectError, ConnectionDropped, AudioDone, ClearAudioQueue,
              AudioDelta, RawFrame
<1>2. CASE PauseResume \/ SetOpenaiMute \/ Hangup
  BY <1>2 DEF PauseResume, SetOpenaiMute, Hangup
<1>3. CASE Prune \/ EnterFrame \/ SnapshotTerminalClose \/ FillDone \/ Drained
  BY <1>3 DEF Prune, EnterFrame, SnapshotTerminalClose, FillDone, Drained
<1>4. CASE UNCHANGED vars
  BY <1>4 DEF vars
<1> QED BY <1>1, <1>2, <1>3, <1>4 DEF Next, FrameBody

\* A step that is not one of the three queue operations leaves the queue alone.
LEMMA QueueOperations ==
    ASSUME [Next]_vars
    PROVE  \/ PopAudioQueue \/ ClearAudioQueue \/ PushAudioQueue
           \/ UNCHANGED <<queueVars, arrived>>
<1> USE DEF queueVars, histVars
<1>1. CASE WsThread
  BY <1>1 DEF WsThread, WsInternal, SetTerminalClose, RequestPlaybackClear,
              Open, ConnectError, ConnectionDropped, AudioDone, AudioDelta, RawFrame
<1>2. CASE PauseResume \/ SetOpenaiMute \/ Hangup
  BY <1>2 DEF PauseResume, SetOpenaiMute, Hangup
<1>3. CASE \/ Prune \/ EnterFrame \/ SnapshotTerminalClose \/ FillDone \/ Drained
           \/ ConsumePlaybackClear \/ Emit
  BY <1>3 DEF Prune, EnterFrame, SnapshotTerminalClose, FillDone, Drained,
              ConsumePlaybackClear, Emit
<1>4. CASE UNCHANGED vars
  BY <1>4 DEF vars
<1> QED BY <1>1, <1>2, <1>3, <1>4 DEF Next, FrameBody

\* The boundary between what left the queue and what is in it.
Popped == arrived - m_audio_queue_samples

\* Only a pop, or a barge-in, moves the boundary, and never back.
LEMMA PoppedSteps ==
    ASSUME QueueInv, RestTypeOK, [Next]_vars
    PROVE  /\ Popped \in Nat /\ Popped' \in Nat
           /\ PopAudioQueue => Popped' = Popped + Size(Head(m_audio_queue))
           /\ ~PopAudioQueue /\ ~ClearAudioQueue => Popped' = Popped
           /\ Popped' >= Popped
<1> USE DEF queueVars, histVars
<1>0. /\ m_audio_queue_samples \in Nat /\ arrived \in Nat /\ m_audio_queue_samples <= arrived
      /\ m_audio_queue_samples' \in Nat /\ arrived' \in Nat
      /\ m_audio_queue_samples' <= arrived'
  BY QueueInvStep DEF QueueInv, Exact
<1>1. CASE PopAudioQueue
  <2>1. Size(Head(m_audio_queue)) \in Nat
    BY <1>1, PopFits
  <2>2. m_audio_queue_samples' = m_audio_queue_samples - Size(Head(m_audio_queue))
        /\ arrived' = arrived
    BY <1>1 DEF PopAudioQueue
  <2>3. ~ClearAudioQueue
    BY <1>1 DEF PopAudioQueue, ClearAudioQueue, Event, wsVars
  <2> QED BY <1>0, <1>1, <2>1, <2>2 DEF Popped
<1>2. CASE ClearAudioQueue
  <2>1. m_audio_queue_samples' = 0 /\ arrived' = arrived
    BY <1>2 DEF ClearAudioQueue
  <2>2. ~PopAudioQueue
    BY <1>2 DEF PopAudioQueue, ClearAudioQueue, Event, wsVars
  <2> QED BY <1>0, <1>2, <2>1, <2>2 DEF Popped
<1>3. CASE PushAudioQueue
  <2>1. ~PopAudioQueue /\ ~ClearAudioQueue
    BY <1>3 DEF PushAudioQueue, PopAudioQueue, ClearAudioQueue, Event, wsVars
  <2>2. \/ m_audio_queue_samples' = m_audio_queue_samples /\ arrived' = arrived
        \/ /\ m_audio_queue_samples' = m_audio_queue_samples + ws_len
           /\ arrived' = arrived + ws_len
    BY <1>3 DEF PushAudioQueue
  <2>3. ws_len \in Nat
    BY DEF RestTypeOK, ScalarTypes
  <2>4. Popped \in Nat /\ Popped' = Popped
    <3>1. CASE m_audio_queue_samples' = m_audio_queue_samples /\ arrived' = arrived
      BY <1>0, <3>1 DEF Popped
    <3>2. CASE /\ m_audio_queue_samples' = m_audio_queue_samples + ws_len
               /\ arrived' = arrived + ws_len
      <4>1. ws_len \in Int /\ arrived \in Int /\ m_audio_queue_samples \in Int
        BY <1>0, <2>3
      <4>2. (arrived + ws_len) - (m_audio_queue_samples + ws_len) = arrived - m_audio_queue_samples
        BY <4>1
      <4> QED BY <1>0, <3>2, <4>2 DEF Popped
    <3> QED BY <2>2, <3>1, <3>2
  <2> QED BY <2>1, <2>4
<1>4. CASE UNCHANGED <<queueVars, arrived>> /\ ~PopAudioQueue
  <2>1. m_audio_queue_samples' = m_audio_queue_samples /\ arrived' = arrived
    BY <1>4
  <2> QED BY <1>0, <1>4, <2>1 DEF Popped
<1> QED BY <1>1, <1>2, <1>3, <1>4, QueueOperations

\* The samples a pop appends to the buffer are Popped + 1, Popped + 2, ...
LEMMA PopAppends ==
    ASSUME QueueInv, RestTypeOK, PopAudioQueue
    PROVE  LET len == Len(playback_buffer)
               k   == Size(Head(m_audio_queue))
           IN /\ len \in Nat /\ k \in Nat \ {0}
              /\ playback_buffer' \in Seq(Nat) /\ Len(playback_buffer') = len + k
              /\ \A i \in 1..len : playback_buffer'[i] = playback_buffer[i]
              /\ \A i \in len + 1..len + k : playback_buffer'[i] = Popped + (i - len)
<1> DEFINE c == Head(m_audio_queue)
           len == Len(playback_buffer)
           k == Size(c)
<1>1. c \in Chunk /\ k \in Nat \ {0} /\ playback_buffer' = playback_buffer \o Samples(c)
  BY PopFits
<1>2. c.first = Popped + 1 /\ Popped \in Int
  <2>1. c.first = arrived - m_audio_queue_samples + 1
    BY ExactPop DEF PopAudioQueue, QueueInv
  <2>2. arrived - m_audio_queue_samples \in Int
    BY DEF QueueInv, Exact
  <2> QED BY <2>1, <2>2 DEF Popped
<1>3. Samples(c) \in Seq(Nat) /\ Len(Samples(c)) = k
      /\ \A i \in 1..k : Samples(c)[i] = c.first + i - 1
  BY <1>1, SamplesProperties
<1>4. playback_buffer \in Seq(Nat) /\ len \in Nat
  BY LenProperties DEF RestTypeOK, BufferType
<1> HIDE DEF c, k
<1>5. /\ playback_buffer' \in Seq(Nat) /\ Len(playback_buffer') = len + k
      /\ \A i \in 1..len + k :
            playback_buffer'[i] = IF i <= len THEN playback_buffer[i] ELSE Samples(c)[i - len]
  BY <1>1, <1>3, <1>4, ConcatProperties
<1> HIDE DEF len
<1>6. \A i \in 1..len : playback_buffer'[i] = playback_buffer[i]
  BY <1>1, <1>4, <1>5
<1>7. ASSUME NEW i \in len + 1..len + k PROVE playback_buffer'[i] = Popped + (i - len)
  <2>1. i - len \in 1..k /\ i \in 1..len + k /\ ~(i <= len)
    BY <1>1, <1>4
  <2>2. playback_buffer'[i] = c.first + (i - len) - 1
    BY <2>1, <1>3, <1>5
  <2> QED BY <2>1, <2>2, <1>2
<1> QED BY <1>1, <1>4, <1>5, <1>6, <1>7 DEF c, k, len

\* Every step keeps the buffer in order and older than the queue.
LEMMA PlayoutOrderedStep ==
    QueueInv /\ RestTypeOK /\ PlayoutOrdered /\ [Next]_vars => PlayoutOrdered'
<1> SUFFICES ASSUME QueueInv, RestTypeOK, PlayoutOrdered, [Next]_vars PROVE PlayoutOrdered'
  OBVIOUS
<1> DEFINE len == Len(playback_buffer)
<1>1. /\ Popped \in Nat /\ Popped' \in Nat /\ Popped' >= Popped
      /\ PopAudioQueue => Popped' = Popped + Size(Head(m_audio_queue))
  BY PoppedSteps
<1>2. /\ len \in Nat
      /\ \A i \in 1..len : playback_buffer[i] \in Nat /\ playback_buffer[i] <= Popped
      /\ \A i \in 1..len - 1 : playback_buffer[i] < playback_buffer[i + 1]
  BY LenProperties, ElementOfSeq DEF RestTypeOK, BufferType, PlayoutOrdered, Popped
<1> SUFFICES /\ \A i \in 1..Len(playback_buffer') - 1 :
                    playback_buffer'[i] < playback_buffer'[i + 1]
             /\ \A i \in 1..Len(playback_buffer') : playback_buffer'[i] <= Popped'
  BY DEF PlayoutOrdered, Popped
<1>3. CASE PopAudioQueue
  <2> DEFINE k == Size(Head(m_audio_queue))
  <2>1. /\ k \in Nat \ {0} /\ Len(playback_buffer') = len + k
        /\ \A i \in 1..len : playback_buffer'[i] = playback_buffer[i]
        /\ \A i \in len + 1..len + k : playback_buffer'[i] = Popped + (i - len)
    BY <1>3, PopAppends
  <2>2. Popped' = Popped + k
    BY <1>1, <1>3
  <2> HIDE DEF k, len
  <2>3. ASSUME NEW i \in 1..len + k - 1 PROVE playback_buffer'[i] < playback_buffer'[i + 1]
    <3>1. CASE i < len
      <4>1. i \in 1..len - 1 /\ i \in 1..len /\ i + 1 \in 1..len
        BY <3>1, <1>2, <2>1
      <4> QED BY <4>1, <1>2, <2>1
    <3>2. CASE i = len
      <4>1. i \in 1..len /\ i + 1 \in len + 1..len + k /\ (i + 1) - len = 1
        BY <3>2, <1>2, <2>1
      <4>2. playback_buffer'[i + 1] = Popped + 1
        BY <4>1, <2>1
      <4>3. playback_buffer'[i] = playback_buffer[i]
            /\ playback_buffer[i] \in Nat /\ playback_buffer[i] <= Popped
        BY <4>1, <1>2, <2>1
      <4> QED BY <4>2, <4>3, <1>1
    <3>3. CASE i > len
      <4>1. i \in len + 1..len + k /\ i + 1 \in len + 1..len + k
        BY <3>3, <1>2, <2>1
      <4>2. playback_buffer'[i] = Popped + (i - len)
            /\ playback_buffer'[i + 1] = Popped + ((i + 1) - len)
        BY <4>1, <2>1
      <4>3. Popped + (i - len) < Popped + ((i + 1) - len)
        BY <4>1, <1>1, <1>2
      <4> QED BY <4>2, <4>3
    <3> QED BY <3>1, <3>2, <3>3, <1>2
  <2>4. ASSUME NEW i \in 1..len + k PROVE playback_buffer'[i] <= Popped'
    <3>1. CASE i <= len
      <4>1. i \in 1..len
        BY <3>1
      <4> QED BY <4>1, <1>1, <1>2, <2>1, <2>2
    <3>2. CASE i > len
      <4>1. i \in len + 1..len + k /\ i - len <= k
        BY <3>2, <1>2, <2>1
      <4>2. playback_buffer'[i] = Popped + (i - len)
        BY <4>1, <2>1
      <4> QED BY <4>1, <4>2, <1>1, <1>2, <2>1, <2>2
    <3> QED BY <3>1, <3>2, <1>2
  <2>5. Len(playback_buffer') = len + k /\ Len(playback_buffer') - 1 = len + k - 1
    BY <2>1, <1>2
  <2> QED BY <2>3, <2>4, <2>5
<1>4. CASE Emit
  <2>1. PICK k \in 0..len :
           /\ Len(playback_buffer') = len - k
           /\ \A i \in 1..len - k : playback_buffer'[i] = playback_buffer[i + k]
    BY <1>4, EmitTakes
  <2> HIDE DEF len
  <2>2. ASSUME NEW i \in 1..len - k - 1 PROVE playback_buffer'[i] < playback_buffer'[i + 1]
    <3>1. /\ i \in 1..len - k /\ i + 1 \in 1..len - k /\ i + k \in 1..len - 1
          /\ (i + 1) + k = (i + k) + 1
      BY <1>2
    <3>2. playback_buffer'[i] = playback_buffer[i + k]
          /\ playback_buffer'[i + 1] = playback_buffer[(i + k) + 1]
      BY <3>1, <2>1
    <3> QED BY <3>1, <3>2, <1>2
  <2>3. ASSUME NEW i \in 1..len - k PROVE playback_buffer'[i] <= Popped'
    <3>1. i + k \in 1..len /\ playback_buffer'[i] = playback_buffer[i + k]
      BY <1>2, <2>1
    <3> QED BY <3>1, <1>1, <1>2
  <2>4. (len - k) - 1 = len - k - 1
    BY <1>2
  <2> QED BY <2>1, <2>2, <2>3, <2>4
<1>5. CASE playback_buffer' = playback_buffer
  BY <1>1, <1>2, <1>5
<1>6. CASE playback_buffer' = <<>>
  BY <1>6
<1>7. ConsumePlaybackClear => playback_buffer' = playback_buffer \/ playback_buffer' = <<>>
  BY DEF ConsumePlaybackClear, mediaVars
<1> QED BY <1>3, <1>4, <1>5, <1>6, <1>7, BufferSteps

\* Playout order, for every interleaving of the two threads.
THEOREM PlayoutIsOrdered == Spec => []PlayoutOrdered
<1>1. Init => PlayoutOrdered
  BY DEF Init, PlayoutOrdered
<1>2. QueueInv /\ RestTypeOK /\ PlayoutOrdered /\ [Next]_vars => PlayoutOrdered'
  BY PlayoutOrderedStep
<1> QED BY <1>1, <1>2, CoreInvariant, PTL DEF Spec

\* The generation counters: only RequestPlaybackClear and ConsumePlaybackClear
\* write them, and only ClearAudioQueue leads to the pending bump.
LEMMA GenerationSteps ==
    ASSUME ScalarTypes, m_playback_clear_gen_seen <= m_playback_clear_gen, [Next]_vars
    PROVE  \/ /\ RequestPlaybackClear
              /\ m_playback_clear_gen' = m_playback_clear_gen + 1
              /\ m_playback_clear_gen_seen' = m_playback_clear_gen_seen
              /\ barge_mark' = arrived /\ arrived' = arrived
              /\ ws = "bump" /\ ws' = "idle"
           \/ /\ m_playback_clear_gen' = m_playback_clear_gen
              /\ barge_mark' = barge_mark
              /\ \/ m_playback_clear_gen_seen' = m_playback_clear_gen_seen
                 \/ ConsumePlaybackClear
              /\ ws = "bump" => ws' = "bump"
              /\ ws' = "bump" => ws = "bump" \/ ClearAudioQueue
<1> USE DEF clearVars, histVars, wsVars, Event
<1>1. CASE RequestPlaybackClear
  BY <1>1 DEF RequestPlaybackClear
<1>2. CASE \/ SetTerminalClose \/ PushAudioQueue \/ Open \/ ConnectError \/ ConnectionDropped
           \/ AudioDone \/ ClearAudioQueue
  BY <1>2 DEF SetTerminalClose, PushAudioQueue, Open, ConnectError, ConnectionDropped, AudioDone,
              ClearAudioQueue
<1>3. CASE \E n \in Lengths : AudioDelta(n) \/ RawFrame(n)
  BY <1>3 DEF AudioDelta, RawFrame
<1>4. CASE PauseResume \/ SetOpenaiMute \/ Hangup
  BY <1>4 DEF PauseResume, SetOpenaiMute, Hangup
<1>5. CASE \/ Prune \/ EnterFrame \/ SnapshotTerminalClose \/ FillDone \/ Drained
           \/ PopAudioQueue \/ Emit
  BY <1>5 DEF Prune, EnterFrame, SnapshotTerminalClose, FillDone, Drained, PopAudioQueue, Emit
<1>6. CASE ConsumePlaybackClear
  BY <1>6 DEF ConsumePlaybackClear
<1>7. CASE UNCHANGED vars
  BY <1>7 DEF vars
<1> QED BY <1>1, <1>2, <1>3, <1>4, <1>5, <1>6, <1>7 DEF Next, WsThread, WsInternal, FrameBody

\* The seen generation never passes the requested one, the queue stays empty
\* between the two halves of a barge-in and holds nothing older than the last.
BargeInv ==
    /\ m_playback_clear_gen_seen <= m_playback_clear_gen
    /\ barge_mark <= arrived
    /\ ws = "bump" => m_audio_queue = <<>>
    /\ \A i \in 1..Len(m_audio_queue) : m_audio_queue[i].first > barge_mark
    /\ m_playback_clear_gen_seen = m_playback_clear_gen =>
           \A i \in 1..Len(playback_buffer) : playback_buffer[i] > barge_mark

\* What a step may do to the chunks: keep or drop some, or append newer audio.
LEMMA QueueSteps ==
    ASSUME QueueInv, RestTypeOK, [Next]_vars
    PROVE  /\ arrived \in Nat /\ arrived' \in Nat /\ arrived' >= arrived
           /\ ws = "bump" => m_audio_queue' = m_audio_queue \/ PopAudioQueue \/ ClearAudioQueue
           /\ ClearAudioQueue => m_audio_queue' = <<>>
           /\ \A i \in 1..Len(m_audio_queue') :
                  \/ \E j \in 1..Len(m_audio_queue) : m_audio_queue'[i] = m_audio_queue[j]
                  \/ m_audio_queue'[i].first > arrived
<1>0. arrived \in Nat /\ arrived' \in Nat
  BY QueueInvStep DEF QueueInv, Exact
<1> USE DEF queueVars, histVars
<1>1. CASE PushAudioQueue
  <2>1. ws_len \in Nat \ {0} /\ ws = "push"
    BY <1>1 DEF PushAudioQueue, QueueInv
  <2>2. ~ClearAudioQueue
    BY <1>1 DEF PushAudioQueue, ClearAudioQueue, Event
  <2>3. CASE Overflows(ws_len)
    <3>1. m_audio_queue' = m_audio_queue /\ arrived' = arrived
      BY <1>1, <2>3 DEF PushAudioQueue
    <3> QED BY <1>0, <2>1, <2>2, <3>1
  <2>4. CASE ~Overflows(ws_len)
    <3>1. m_audio_queue' = m_audio_queue \o Chunks(arrived + 1, ws_len)
          /\ arrived' = arrived + ws_len
      BY <1>1, <2>4 DEF PushAudioQueue
    <3>2. \A i \in 1..Len(m_audio_queue') :
              \/ i <= Len(m_audio_queue) /\ m_audio_queue'[i] = m_audio_queue[i]
              \/ m_audio_queue'[i].first > arrived
      BY <2>1, <3>1, ExactPush DEF QueueInv
    <3>3. Len(m_audio_queue) \in Nat
      BY LenProperties DEF QueueInv, Exact
    <3>4. ASSUME NEW i \in 1..Len(m_audio_queue')
          PROVE  \/ \E j \in 1..Len(m_audio_queue) : m_audio_queue'[i] = m_audio_queue[j]
                 \/ m_audio_queue'[i].first > arrived
      <4>1. i \in Nat /\ i >= 1
        BY <3>4
      <4> QED BY <3>2, <3>3, <4>1
    <3>5. arrived' >= arrived
      BY <1>0, <2>1, <3>1
    <3> QED BY <1>0, <2>1, <2>2, <3>4, <3>5
  <2> QED BY <2>3, <2>4
<1>2. CASE PopAudioQueue
  <2>1. /\ m_audio_queue # <<>> /\ m_audio_queue' = Tail(m_audio_queue)
        /\ arrived' = arrived
    BY <1>2 DEF PopAudioQueue
  <2>2. \A i \in 1..Len(m_audio_queue') :
            i + 1 \in 1..Len(m_audio_queue) /\ m_audio_queue'[i] = m_audio_queue[i + 1]
    BY <2>1, ExactPop DEF QueueInv
  <2>3. ~ClearAudioQueue
    BY <1>2 DEF PopAudioQueue, ClearAudioQueue, Event, wsVars
  <2> QED BY <1>0, <1>2, <2>1, <2>2, <2>3
<1>3. CASE ClearAudioQueue
  <2>1. m_audio_queue' = <<>> /\ arrived' = arrived
    BY <1>3 DEF ClearAudioQueue
  <2>2. Len(m_audio_queue') = 0
    BY <2>1
  <2> QED BY <1>0, <1>3, <2>1, <2>2
<1>4. CASE UNCHANGED <<queueVars, arrived>> /\ ~ClearAudioQueue
  BY <1>0, <1>4
<1> QED BY <1>1, <1>2, <1>3, <1>4, QueueOperations

\* Every step keeps the barge-in invariant.
LEMMA BargeInvStep ==
    QueueInv /\ RestTypeOK /\ BargeInv /\ [Next]_vars => BargeInv'
<1> SUFFICES ASSUME QueueInv, RestTypeOK, BargeInv, [Next]_vars PROVE BargeInv'
  OBVIOUS
<1>1. /\ m_playback_clear_gen \in Nat /\ m_playback_clear_gen_seen \in Nat
      /\ m_playback_clear_gen_seen <= m_playback_clear_gen
      /\ barge_mark \in Nat /\ barge_mark <= arrived
      /\ arrived \in Nat /\ arrived' \in Nat /\ arrived' >= arrived
  BY QueueSteps DEF RestTypeOK, ScalarTypes, BargeInv
<1>2. ConsumePlaybackClear =>
          \/ /\ m_playback_clear_gen_seen = m_playback_clear_gen
             /\ m_playback_clear_gen_seen' = m_playback_clear_gen_seen
             /\ playback_buffer' = playback_buffer
          \/ m_playback_clear_gen_seen' = m_playback_clear_gen /\ playback_buffer' = <<>>
  BY DEF ConsumePlaybackClear, mediaVars
<1>3. m_playback_clear_gen_seen' <= m_playback_clear_gen' /\ barge_mark' <= arrived'
  BY <1>1, <1>2, GenerationSteps DEF RestTypeOK
<1>4. ws' = "bump" => m_audio_queue' = <<>>
  <2>1. CASE ClearAudioQueue
    BY <2>1, QueueSteps
  <2>2. CASE ws = "bump" /\ ~ClearAudioQueue
    <3>1. m_audio_queue = <<>>
      BY <2>2 DEF BargeInv
    <3>2. ~PopAudioQueue
      BY <3>1 DEF PopAudioQueue
    <3> QED BY <2>2, <3>1, <3>2, QueueSteps
  <2> QED BY <1>1, <2>1, <2>2, GenerationSteps DEF RestTypeOK
<1>5. \A i \in 1..Len(m_audio_queue') : m_audio_queue'[i].first > barge_mark'
  <2>1. CASE RequestPlaybackClear
    <3>1. m_audio_queue' = <<>>
      BY <2>1 DEF RequestPlaybackClear, BargeInv, queueVars
    <3> QED BY <3>1
  <2>2. CASE barge_mark' = barge_mark
    <3> SUFFICES ASSUME NEW i \in 1..Len(m_audio_queue')
                 PROVE  m_audio_queue'[i].first > barge_mark
      BY <2>2
    <3>1. CASE \E j \in 1..Len(m_audio_queue) : m_audio_queue'[i] = m_audio_queue[j]
      BY <3>1 DEF BargeInv
    <3>2. CASE m_audio_queue'[i].first > arrived
      <4>1. m_audio_queue'[i] \in Chunk
        <5>1. QueueInv'
          BY QueueInvStep
        <5>2. m_audio_queue' \in Seq(Chunk)
          BY <5>1 DEF QueueInv, Exact
        <5> QED BY <5>2, ElementOfSeq
      <4> QED BY <1>1, <3>2, <4>1 DEF Chunk
    <3> QED BY <3>1, <3>2, QueueSteps
  <2> QED BY <1>1, <2>1, <2>2, GenerationSteps DEF RestTypeOK
<1>6. ASSUME m_playback_clear_gen_seen' = m_playback_clear_gen'
      PROVE  \A i \in 1..Len(playback_buffer') : playback_buffer'[i] > barge_mark'
  <2>1. CASE RequestPlaybackClear
    <3>1. m_playback_clear_gen' = m_playback_clear_gen + 1
          /\ m_playback_clear_gen_seen' = m_playback_clear_gen_seen
      BY <2>1 DEF RequestPlaybackClear
    <3> QED BY <1>1, <1>6, <3>1
  <2>2. CASE playback_buffer' = <<>>
    BY <2>2
  <2>3. CASE ~RequestPlaybackClear /\ playback_buffer' # <<>>
    <3>1. /\ barge_mark' = barge_mark /\ m_playback_clear_gen' = m_playback_clear_gen
          /\ m_playback_clear_gen_seen' = m_playback_clear_gen_seen
      BY <1>1, <1>2, <2>3, GenerationSteps DEF RestTypeOK
    <3> DEFINE len == Len(playback_buffer)
    <3>2. /\ len \in Nat
          /\ \A i \in 1..len : playback_buffer[i] > barge_mark
      BY <1>6, <3>1, LenProperties DEF BargeInv, RestTypeOK, BufferType
    <3>3. CASE PopAudioQueue
      <4> DEFINE c == Head(m_audio_queue)
                 k == Size(c)
      <4>1. /\ k \in Nat \ {0} /\ Len(playback_buffer') = len + k
            /\ \A i \in 1..len : playback_buffer'[i] = playback_buffer[i]
            /\ \A i \in len + 1..len + k : playback_buffer'[i] = Popped + (i - len)
        BY <3>3, PopAppends
      <4>2. Popped \in Nat /\ Popped + 1 > barge_mark
        <5>1. Popped \in Nat
          BY PoppedSteps
        <5>2. m_audio_queue # <<>> /\ Head(m_audio_queue) = m_audio_queue[1]
              /\ Head(m_audio_queue).first = Popped + 1
          BY <3>3, ExactPop DEF PopAudioQueue, QueueInv, Popped
        <5>3. 1 \in 1..Len(m_audio_queue)
          <6>1. m_audio_queue \in Seq(Chunk)
            BY DEF QueueInv, Exact
          <6> QED BY <5>2, <6>1, EmptySeq
        <5> QED BY <5>1, <5>2, <5>3 DEF BargeInv
      <4> HIDE DEF len, k
      <4>3. ASSUME NEW i \in 1..len + k PROVE playback_buffer'[i] > barge_mark
        <5>1. CASE i <= len
          <6>1. i \in 1..len
            BY <5>1
          <6> QED BY <6>1, <3>2, <4>1
        <5>2. CASE i > len
          <6>1. i \in len + 1..len + k /\ i - len >= 1 /\ i - len \in Int
            BY <5>2, <3>2, <4>1
          <6>2. playback_buffer'[i] = Popped + (i - len)
            BY <6>1, <4>1
          <6>3. Popped + (i - len) >= Popped + 1
            BY <6>1, <4>2
          <6>4. Popped + (i - len) \in Int
            BY <6>1, <4>2
          <6> QED BY <6>2, <6>3, <6>4, <4>2, <1>1
        <5> QED BY <5>1, <5>2, <3>2
      <4> QED BY <3>1, <4>1, <4>3
    <3>4. CASE Emit
      <4>1. PICK k \in 0..len :
               /\ Len(playback_buffer') = len - k
               /\ \A i \in 1..len - k : playback_buffer'[i] = playback_buffer[i + k]
        BY <3>4, EmitTakes
      <4> HIDE DEF len
      <4>2. \A i \in 1..len - k : i + k \in 1..len
        BY <3>2
      <4> QED BY <3>1, <3>2, <4>1, <4>2
    <3>5. CASE playback_buffer' = playback_buffer
      BY <3>1, <3>2, <3>5
    <3> QED BY <1>2, <2>3, <3>3, <3>4, <3>5, BufferSteps
  <2> QED BY <2>1, <2>2, <2>3
<1> QED BY <1>3, <1>4, <1>5, <1>6 DEF BargeInv

\* The barge-in invariant holds in every reachable state.
LEMMA BargeInvariant == Spec => [](QueueInv /\ RestTypeOK /\ BargeInv)
<1>1. Init => BargeInv
  BY DEF Init, BargeInv
<1>2. QueueInv /\ RestTypeOK /\ BargeInv /\ [Next]_vars => BargeInv'
  BY BargeInvStep
<1> QED BY <1>1, <1>2, CoreInvariant, PTL DEF Spec

\* A barge-in, once seen by the media thread, leaves nothing older than itself.
THEOREM BargeInIsComplete == Spec => []BargeInFlushes
<1>1. BargeInv => BargeInFlushes
  BY DEF BargeInv, BargeInFlushes
<1> QED BY <1>1, BargeInvariant, PTL

\* Without a barge-in every step moves samples and drops none.
LEMMA NoLossStep ==
    QueueInv /\ RestTypeOK /\ BargeInv /\ NoLossWithoutBargeIn /\ [Next]_vars
        => NoLossWithoutBargeIn'
<1> SUFFICES ASSUME QueueInv, RestTypeOK, BargeInv, NoLossWithoutBargeIn, [Next]_vars,
                    m_playback_clear_gen' = 0, ws' # "bump"
             PROVE  arrived' = taken' + Len(playback_buffer') + m_audio_queue_samples'
  BY DEF NoLossWithoutBargeIn
<1>1. /\ m_playback_clear_gen \in Nat /\ m_playback_clear_gen_seen \in Nat
      /\ m_playback_clear_gen_seen <= m_playback_clear_gen
      /\ taken \in Nat /\ Len(playback_buffer) \in Nat
      /\ m_audio_queue_samples \in Nat /\ arrived \in Nat
      /\ m_audio_queue_samples' \in Nat /\ arrived' \in Nat
  <2>1. QueueInv'
    BY QueueInvStep
  <2> QED BY <2>1, LenProperties
          DEF RestTypeOK, ScalarTypes, BufferType, BargeInv, QueueInv, Exact
<1>2. m_playback_clear_gen = 0 /\ ws # "bump" /\ ~ClearAudioQueue
  <2>1. ~ClearAudioQueue
    BY DEF ClearAudioQueue
  <2> QED BY <1>1, <2>1, GenerationSteps DEF RestTypeOK
<1>3. Popped = taken + Len(playback_buffer)
  BY <1>1, <1>2 DEF NoLossWithoutBargeIn, Popped
<1>4. Popped' = taken' + Len(playback_buffer')
  <2>1. CASE PopAudioQueue
    <3>1. taken' = taken
      BY <2>1 DEF PopAudioQueue, histVars
    <3>2. Popped' = Popped + Size(Head(m_audio_queue))
      BY <2>1, PoppedSteps
    <3>3. /\ Size(Head(m_audio_queue)) \in Nat
          /\ Len(playback_buffer') = Len(playback_buffer) + Size(Head(m_audio_queue))
      BY <2>1, PopAppends
    <3> QED BY <1>1, <1>3, <3>1, <3>2, <3>3
  <2>2. CASE ~PopAudioQueue
    <3>1. Popped' = Popped
      BY <1>2, <2>2, PoppedSteps
    <3>2. CASE Emit
      <4>1. PICK k \in 0..Len(playback_buffer) :
               taken' = taken + k /\ Len(playback_buffer') = Len(playback_buffer) - k
        BY <3>2, EmitTakes
      <4> QED BY <1>1, <1>3, <3>1, <4>1
    <3>3. CASE playback_buffer' = playback_buffer /\ taken' = taken
      BY <1>3, <3>1, <3>3
    <3>4. CASE ConsumePlaybackClear
      <4>1. m_playback_clear_gen = m_playback_clear_gen_seen
        BY <1>1, <1>2
      <4>2. playback_buffer' = playback_buffer /\ taken' = taken
        BY <3>4, <4>1 DEF ConsumePlaybackClear, mediaVars, histVars
      <4> QED BY <1>3, <3>1, <4>2
    <3> QED BY <2>2, <3>2, <3>3, <3>4, BufferSteps
  <2> QED BY <2>1, <2>2
<1>5. taken' \in Nat /\ Len(playback_buffer') \in Nat
  <2>1. RestTypeOK'
    BY RestTypeStep
  <2> QED BY <2>1, LenProperties DEF RestTypeOK, ScalarTypes, BufferType
<1> QED BY <1>1, <1>4, <1>5 DEF Popped

\* Without barge-in nothing that was accepted is lost.
THEOREM NothingIsLost == Spec => []NoLossWithoutBargeIn
<1>1. Init => NoLossWithoutBargeIn
  BY DEF Init, NoLossWithoutBargeIn
<1>2. QueueInv /\ RestTypeOK /\ BargeInv /\ NoLossWithoutBargeIn /\ [Next]_vars
        => NoLossWithoutBargeIn'
  BY NoLossStep
<1> QED BY <1>1, <1>2, BargeInvariant, PTL DEF Spec

-----------------------------------------------------------------------------
(* The teardown of a stream that does not reconnect. *)

\* m_terminal_close is stored last, by a thread that has nothing left to do; a
\* snapshot of it before a failed pop therefore means that nothing is queued.
\* Before the first connection there is nothing to play.
TerminalInv ==
    /\ m_terminal_close \/ ws = "terminal" => conn = "closed" /\ m_response_audio_done
    /\ m_terminal_close => ws = "idle"
    /\ terminal_close => m_terminal_close
    /\ terminal_close /\ wf = "filled" /\ NothingToPlay => m_audio_queue = <<>>
    /\ chunk_enqueued => wf \in {"fill", "filled"} /\ playback_buffer # <<>>
    /\ conn = "connecting" /\ ~Reconnect =>
           /\ m_audio_queue = <<>> /\ playback_buffer = <<>>
           /\ ~m_openai_speaking /\ ws = "idle"
    /\ TerminalPlayedOut

\* Every step keeps the invariant of the terminal close.
LEMMA TerminalInvStep ==
    QueueInv /\ RestTypeOK /\ TerminalInv /\ [Next]_vars => TerminalInv'
<1> SUFFICES ASSUME QueueInv, RestTypeOK, TerminalInv, [Next]_vars PROVE TerminalInv'
  OBVIOUS
<1> USE DEF TerminalInv, TerminalPlayedOut, QueueEmpty, NothingToPlay, Event,
            queueVars, flagVars, wsVars, frameVars, mediaVars
<1>1. CASE Open \/ ConnectError
  BY <1>1 DEF Open, ConnectError
<1>2. CASE ConnectionDropped \/ SetTerminalClose
  BY <1>2 DEF ConnectionDropped, SetTerminalClose
<1>3. CASE AudioDone \/ ClearAudioQueue \/ RequestPlaybackClear \/ PushAudioQueue
  BY <1>3 DEF AudioDone, ClearAudioQueue, RequestPlaybackClear, PushAudioQueue
<1>4. CASE \E n \in Lengths : AudioDelta(n) \/ RawFrame(n)
  BY <1>4 DEF AudioDelta, RawFrame
<1>5. CASE PauseResume \/ SetOpenaiMute \/ Hangup
  BY <1>5 DEF PauseResume, SetOpenaiMute, Hangup, apiVars
<1>6. CASE Prune \/ EnterFrame
  BY <1>6 DEF Prune, EnterFrame
<1>7. CASE ConsumePlaybackClear \/ SnapshotTerminalClose
  BY <1>7 DEF ConsumePlaybackClear, SnapshotTerminalClose
<1>8. CASE PopAudioQueue
  <2>1. playback_buffer' # <<>>
    <3>1. Len(playback_buffer') > 0 /\ playback_buffer' \in Seq(Nat)
      BY <1>8, PopAppends
    <3> QED BY <3>1
  <2> QED BY <1>8, <2>1, PopFits DEF PopAudioQueue
<1>9. CASE FillDone
  <2>1. playback_buffer = <<>> => WantsAudio
    BY DEF WantsAudio
  <2> QED BY <1>9, <2>1 DEF FillDone
<1>10. CASE Drained
  BY <1>10 DEF Drained, SpeechOver, TeardownDue
<1>11. CASE Emit
  <2>1. playback_buffer # <<>>
    BY <1>11 DEF Emit
  <2> QED BY <1>11, <2>1 DEF Emit
<1>12. CASE UNCHANGED vars
  BY <1>12 DEF vars
<1> QED BY <1>1, <1>2, <1>3, <1>4, <1>5, <1>6, <1>7, <1>8, <1>9, <1>10, <1>11, <1>12
        DEF Next, WsThread, WsInternal, FrameBody

\* A stream asks for its teardown only when everything it accepted was played.
THEOREM TeardownAfterPlayout == Spec => []TerminalPlayedOut
<1>1. Init => TerminalInv
  BY DEF Init, TerminalInv, TerminalPlayedOut
<1>2. QueueInv /\ RestTypeOK /\ TerminalInv /\ [Next]_vars => TerminalInv'
  BY TerminalInvStep
<1>3. TerminalInv => TerminalPlayedOut
  BY DEF TerminalInv
<1> QED BY <1>1, <1>2, <1>3, CoreInvariant, PTL DEF Spec
=============================================================================
