------------------------- MODULE PlaybackRefinement -------------------------
(* The playback path implements PlayoutBacklog, for every value of the constants. *)
EXTENDS PlaybackProofs

\* The samples of the chunks of q, and those of the buffer b.
Held(q) == UNION {q[i].first..q[i].last : i \in 1..Len(q)}
Buffered(b) == {b[i] : i \in 1..Len(b)}

\* The samples of the queue, member by member.
LEMMA InHeld ==
    ASSUME NEW q, NEW x
    PROVE  x \in Held(q) <=> \E i \in 1..Len(q) : x \in q[i].first..q[i].last
BY DEF Held

\* Multiplying by MaxChunk keeps the order.
LEMMA MultiplesOrdered ==
    ASSUME NEW a \in Nat, NEW b \in Nat, a <= b
    PROVE  a * MaxChunk \in Nat /\ b * MaxChunk \in Nat /\ a * MaxChunk <= b * MaxChunk
<1>1. MaxChunk \in Nat /\ b - a \in Nat
  BY SizesAssumption
<1>2. a * MaxChunk \in Nat /\ b * MaxChunk \in Nat /\ (b - a) * MaxChunk \in Nat
  BY <1>1, ProductNat
<1>3. (b - a) * MaxChunk = b * MaxChunk - a * MaxChunk
  BY <1>1, ProductMinus
<1> QED BY <1>2, <1>3

\* The chunks of a push are disjoint, in order, and leave no sample out.
LEMMA ChunksCover ==
    ASSUME NEW first \in Nat, NEW n \in Nat \ {0}
    PROVE  LET cs == Chunks(first, n) IN
           /\ \A x \in first..first + n - 1 :
                  \E i \in 1..Len(cs) : x \in cs[i].first..cs[i].last
           /\ \A i, j \in 1..Len(cs) : i < j => cs[i].last < cs[j].first
<1> DEFINE k == NumChunks(n)
           cs == Chunks(first, n)
<1>1. k \in Nat \ {0} /\ n <= k * MaxChunk /\ Len(cs) = k
  BY NumChunksBounds, ChunksProperties
<1>2. MaxChunk \in Nat \ {0}
  BY SizesAssumption
<1>3. ASSUME NEW i \in 1..k
      PROVE  /\ cs[i].first = first + (i - 1) * MaxChunk
             /\ cs[i].last = IF i = k THEN first + n - 1 ELSE first + i * MaxChunk - 1
  BY DEF Chunks
<1> HIDE DEF k, cs
<1>4. ASSUME NEW x \in first..first + n - 1
      PROVE  \E i \in 1..k : x \in cs[i].first..cs[i].last
  <2> DEFINE z == x - first
             d == z \div MaxChunk
  <2>1. z \in Nat /\ z < n /\ x = first + z /\ x \in Nat
    OBVIOUS
  <2> HIDE DEF z
  <2>2. d \in Int /\ d * MaxChunk <= z /\ z < (d + 1) * MaxChunk
    BY <2>1, <1>2
  <2> HIDE DEF d
  <2>3. d >= 0
    <3>1. ASSUME d + 1 <= 0 PROVE FALSE
      <4>1. (d + 1) * MaxChunk <= 0
        BY <3>1, <2>2, <1>2
      <4>2. (d + 1) * MaxChunk \in Int
        BY <2>2, <1>2
      <4> QED BY <4>1, <4>2, <2>1, <2>2
    <3>2. d + 1 > 0
      BY <3>1, <2>2
    <3> QED BY <3>2, <2>2
  <2>4. d < k
    <3>1. CASE k <= d
      <4>1. k * MaxChunk <= d * MaxChunk /\ k * MaxChunk \in Nat /\ d * MaxChunk \in Nat
        BY <3>1, <1>1, <2>2, <2>3, MultiplesOrdered
      <4> QED BY <4>1, <1>1, <2>1, <2>2
    <3> QED BY <3>1, <1>1, <2>2
  <2>5. d + 1 \in 1..k /\ (d + 1) - 1 = d
    BY <1>1, <2>2, <2>3, <2>4
  <2>6. /\ cs[d + 1].first = first + d * MaxChunk
        /\ cs[d + 1].last = IF d + 1 = k THEN first + n - 1 ELSE first + (d + 1) * MaxChunk - 1
    BY <1>3, <2>5
  <2>7. d * MaxChunk \in Nat /\ (d + 1) * MaxChunk \in Nat
    BY <2>2, <2>3, MultiplesOrdered
  <2>8. x \in cs[d + 1].first..cs[d + 1].last
    BY <2>1, <2>2, <2>6, <2>7
  <2> QED BY <2>5, <2>8
<1>5. ASSUME NEW i \in 1..k, NEW j \in 1..k, i < j
      PROVE  cs[i].last < cs[j].first
  <2>1. i * MaxChunk \in Nat /\ (j - 1) * MaxChunk \in Nat /\ i * MaxChunk <= (j - 1) * MaxChunk
    <3>1. i \in Nat /\ j - 1 \in Nat /\ i <= j - 1
      BY <1>1, <1>5
    <3> QED BY <3>1, MultiplesOrdered
  <2>2. cs[i].last = first + i * MaxChunk - 1 /\ cs[j].first = first + (j - 1) * MaxChunk
    BY <1>1, <1>3, <1>5
  <2> QED BY <2>1, <2>2
<1> QED BY <1>1, <1>4, <1>5 DEF cs

\* What makes the queue and the buffer one backlog: the chunks are in order and
\* hold exactly the samples after Popped, and the buffer is in order.
BacklogInv ==
    /\ m_playback_clear_gen_seen <= m_playback_clear_gen
    /\ Held(m_audio_queue) = (Popped + 1)..arrived
    /\ \A i, j \in 1..Len(m_audio_queue) :
           i < j => m_audio_queue[i].last < m_audio_queue[j].first
    /\ \A i \in 1..Len(playback_buffer) : playback_buffer[i] <= Popped
    /\ \A i, j \in 1..Len(playback_buffer) : i < j => playback_buffer[i] < playback_buffer[j]

\* Appending the chunks of n samples adds these samples to the queue, at its end.
LEMMA HeldPush ==
    ASSUME NEW q, NEW s, NEW a, NEW n \in Nat \ {0}, Exact(q, s, a),
           Held(q) = (a - s + 1)..a,
           \A i, j \in 1..Len(q) : i < j => q[i].last < q[j].first
    PROVE  LET r == q \o Chunks(a + 1, n) IN
           /\ Held(r) = (a - s + 1)..(a + n)
           /\ \A i, j \in 1..Len(r) : i < j => r[i].last < r[j].first
<1> DEFINE cs == Chunks(a + 1, n)
           r == q \o cs
<1>1. a \in Nat /\ s \in Nat /\ s <= a /\ a + 1 \in Nat /\ (a + 1) + n - 1 = a + n
  BY DEF Exact
<1>2. /\ cs \in Seq(Chunk)
      /\ \A i \in 1..Len(cs) : a + 1 <= cs[i].first /\ cs[i].last <= a + n
      /\ \A x \in a + 1..a + n : \E i \in 1..Len(cs) : x \in cs[i].first..cs[i].last
      /\ \A i, j \in 1..Len(cs) : i < j => cs[i].last < cs[j].first
  <2>1. /\ cs \in Seq(Chunk)
        /\ \A i \in 1..Len(cs) : a + 1 <= cs[i].first /\ cs[i].last <= (a + 1) + n - 1
    BY <1>1, ChunksProperties
  <2>2. /\ \A x \in a + 1..(a + 1) + n - 1 : \E i \in 1..Len(cs) : x \in cs[i].first..cs[i].last
        /\ \A i, j \in 1..Len(cs) : i < j => cs[i].last < cs[j].first
    BY <1>1, ChunksCover
  <2> HIDE DEF cs
  <2> QED BY <1>1, <2>1, <2>2
<1> HIDE DEF cs
<1>3. /\ q \in Seq(Chunk) /\ Len(q) \in Nat /\ Len(cs) \in Nat
      /\ \A i \in 1..Len(q) : q[i] \in Chunk /\ q[i].last <= a
      /\ \A i \in 1..Len(cs) : cs[i] \in Chunk
  BY <1>2, LenProperties, ElementOfSeq DEF Exact
<1>4. /\ Len(r) = Len(q) + Len(cs)
      /\ \A i \in 1..Len(r) : r[i] = IF i <= Len(q) THEN q[i] ELSE cs[i - Len(q)]
  BY <1>2, <1>3, ConcatProperties
<1> HIDE DEF r
<1>5. ASSUME NEW x PROVE x \in Held(r) <=> x \in (a - s + 1)..(a + n)
  <2>1. ASSUME NEW i \in 1..Len(r), x \in r[i].first..r[i].last PROVE x \in (a - s + 1)..(a + n)
    <3>1. CASE i <= Len(q)
      <4>1. i \in 1..Len(q) /\ r[i] = q[i]
        BY <3>1, <1>3, <1>4
      <4>2. x \in Held(q)
        BY <4>1, <2>1, InHeld
      <4> QED BY <4>2, <1>1
    <3>2. CASE i > Len(q)
      <4>1. i - Len(q) \in 1..Len(cs) /\ r[i] = cs[i - Len(q)]
        BY <3>2, <1>3, <1>4
      <4>2. r[i] \in Chunk /\ a + 1 <= r[i].first /\ r[i].last <= a + n
        BY <4>1, <1>2, <1>3
      <4> QED BY <4>2, <2>1, <1>1 DEF Chunk
    <3> QED BY <3>1, <3>2, <1>3
  <2>2. ASSUME x \in (a - s + 1)..a PROVE \E i \in 1..Len(r) : x \in r[i].first..r[i].last
    <3>1. PICK i \in 1..Len(q) : x \in q[i].first..q[i].last
      BY <2>2, InHeld
    <3>2. i \in 1..Len(r) /\ r[i] = q[i]
      BY <1>3, <1>4
    <3> QED BY <3>1, <3>2
  <2>3. ASSUME x \in a + 1..a + n PROVE \E i \in 1..Len(r) : x \in r[i].first..r[i].last
    <3>1. PICK i \in 1..Len(cs) : x \in cs[i].first..cs[i].last
      BY <2>3, <1>2
    <3>2. i + Len(q) \in 1..Len(r) /\ r[i + Len(q)] = cs[i]
      BY <1>3, <1>4
    <3> QED BY <3>1, <3>2
  <2>4. x \in (a - s + 1)..(a + n) => x \in (a - s + 1)..a \/ x \in a + 1..a + n
    BY <1>1
  <2> QED BY <2>1, <2>2, <2>3, <2>4, InHeld
<1>6. ASSUME NEW i \in 1..Len(r), NEW j \in 1..Len(r), i < j
      PROVE  r[i].last < r[j].first
  <2>1. CASE j <= Len(q)
    <3>1. i \in 1..Len(q) /\ j \in 1..Len(q) /\ r[i] = q[i] /\ r[j] = q[j]
      BY <1>6, <2>1, <1>3, <1>4
    <3> QED BY <3>1, <1>6
  <2>2. CASE i <= Len(q) /\ j > Len(q)
    <3>1. /\ i \in 1..Len(q) /\ r[i] = q[i]
          /\ j - Len(q) \in 1..Len(cs) /\ r[j] = cs[j - Len(q)]
      BY <2>2, <1>3, <1>4
    <3>2. r[i] \in Chunk /\ r[i].last <= a /\ r[j] \in Chunk /\ a + 1 <= r[j].first
      BY <3>1, <1>2, <1>3
    <3> QED BY <3>2, <1>1 DEF Chunk
  <2>3. CASE i > Len(q)
    <3>1. /\ i - Len(q) \in 1..Len(cs) /\ r[i] = cs[i - Len(q)]
          /\ j - Len(q) \in 1..Len(cs) /\ r[j] = cs[j - Len(q)]
          /\ i - Len(q) < j - Len(q)
      BY <1>6, <2>3, <1>3, <1>4
    <3> QED BY <3>1, <1>2
  <2> QED BY <2>1, <2>2, <2>3, <1>3
<1>7. Held(r) = (a - s + 1)..(a + n)
  BY <1>5
<1>8. r = q \o Chunks(a + 1, n)
  BY DEF r, cs
<1> QED BY <1>6, <1>7, <1>8

\* Popping a chunk takes exactly its samples, the oldest of the queue.
LEMMA HeldPop ==
    ASSUME NEW q, NEW s, NEW a, Exact(q, s, a), q # <<>>,
           Held(q) = (a - s + 1)..a,
           \A i, j \in 1..Len(q) : i < j => q[i].last < q[j].first
    PROVE  /\ Held(Tail(q)) = (a - (s - Size(Head(q))) + 1)..a
           /\ \A i, j \in 1..Len(Tail(q)) : i < j => Tail(q)[i].last < Tail(q)[j].first
<1> DEFINE c == Head(q)
           b == a - (s - Size(c))
           r == Tail(q)
<1>1. /\ c = q[1] /\ c \in Chunk /\ Size(c) \in 1..MaxChunk
      /\ c.first = a - s + 1 /\ c.last = b
      /\ Exact(r, s - Size(c), a)
      /\ \A i \in 1..Len(r) : i + 1 \in 1..Len(q) /\ r[i] = q[i + 1]
  BY ExactPop
<1>2. /\ a \in Nat /\ s \in Nat /\ b \in Nat /\ Len(q) \in Nat /\ Len(q) >= 1 /\ q \in Seq(Chunk)
      /\ c.first \in Nat /\ c.last \in Nat /\ c.first <= c.last /\ b >= a - s + 1
      /\ Len(r) = Len(q) - 1
  <2>1. q \in Seq(Chunk) /\ a \in Nat /\ s \in Nat
    BY DEF Exact
  <2>2. Len(q) \in Nat /\ Len(q) >= 1 /\ Len(r) = Len(q) - 1
    BY <2>1, EmptySeq, LenProperties, HeadTailProperties
  <2>3. c.first \in Nat /\ c.last \in Nat
    BY <1>1 DEF Chunk
  <2>4. c.first <= c.last
    BY <1>1, <2>2 DEF Exact
  <2> HIDE DEF c, r, b
  <2> QED BY <2>1, <2>2, <2>3, <2>4, <1>1
<1>3. \A i \in 1..Len(q) : q[i] \in Chunk
  BY <1>2, ElementOfSeq
<1> HIDE DEF c, b, r
<1>4. ASSUME NEW x PROVE x \in Held(r) <=> x \in (b + 1)..a
  <2>1. ASSUME NEW i \in 1..Len(r), x \in r[i].first..r[i].last PROVE x \in (b + 1)..a
    <3>1. i + 1 \in 1..Len(q) /\ r[i] = q[i + 1] /\ 1 \in 1..Len(q) /\ 1 < i + 1
      BY <1>1, <1>2
    <3>2. x \in Held(q)
      BY <3>1, <2>1, InHeld
    <3>3. b < r[i].first /\ r[i] \in Chunk
      BY <3>1, <1>1, <1>3
    <3>4. x \in (a - s + 1)..a
      BY <3>2
    <3>5. r[i].first \in Nat /\ r[i].last \in Nat
      BY <3>3 DEF Chunk
    <3> QED BY <3>3, <3>4, <3>5, <2>1, <1>2
  <2>2. ASSUME x \in (b + 1)..a PROVE \E i \in 1..Len(r) : x \in r[i].first..r[i].last
    <3>1. x \in (a - s + 1)..a
      BY <2>2, <1>2
    <3>2. PICK i \in 1..Len(q) : x \in q[i].first..q[i].last
      BY <3>1, InHeld
    <3>3. i # 1
      BY <3>2, <2>2, <1>1, <1>2
    <3>4. i - 1 \in 1..Len(r) /\ (i - 1) + 1 = i
      BY <3>3, <1>2
    <3>5. r[i - 1] = q[i]
      BY <3>4, <1>1
    <3> QED BY <3>2, <3>4, <3>5
  <2> QED BY <2>1, <2>2, InHeld
<1>5. ASSUME NEW i \in 1..Len(r), NEW j \in 1..Len(r), i < j
      PROVE  r[i].last < r[j].first
  <2>1. /\ i + 1 \in 1..Len(q) /\ r[i] = q[i + 1]
        /\ j + 1 \in 1..Len(q) /\ r[j] = q[j + 1] /\ i + 1 < j + 1
    BY <1>1, <1>2, <1>5
  <2> QED BY <2>1
<1>6. Held(r) = (b + 1)..a
  BY <1>4
<1> QED BY <1>5, <1>6 DEF b, c, r

-----------------------------------------------------------------------------
(* The invariant holds in every reachable state. *)

\* An empty queue and an empty buffer have the invariant.
LEMMA BacklogInvInit == Init => BacklogInv
<1> SUFFICES ASSUME Init PROVE BacklogInv
  OBVIOUS
<1>1. m_audio_queue = <<>> /\ playback_buffer = <<>> /\ Popped + 1 = 1 /\ arrived = 0
  BY DEF Init, Popped
<1>2. Held(<<>>) = {}
  BY DEF Held
<1> QED BY <1>1, <1>2 DEF BacklogInv, Init

\* Every step keeps the queue an unbroken run that ends with the newest sample.
LEMMA HeldStep ==
    ASSUME QueueInv, RestTypeOK, BacklogInv, [Next]_vars
    PROVE  /\ Held(m_audio_queue') = (Popped' + 1)..arrived'
           /\ \A i, j \in 1..Len(m_audio_queue') :
                  i < j => m_audio_queue'[i].last < m_audio_queue'[j].first
<1> USE DEF BacklogInv, Popped
<1>1. CASE PushAudioQueue
  <2>1. ws_len \in Nat \ {0}
    BY <1>1 DEF PushAudioQueue, QueueInv
  <2>2. CASE Overflows(ws_len)
    BY <1>1, <2>2 DEF PushAudioQueue, queueVars
  <2>3. CASE ~Overflows(ws_len)
    <3>1. /\ m_audio_queue' = m_audio_queue \o Chunks(arrived + 1, ws_len)
          /\ m_audio_queue_samples' = m_audio_queue_samples + ws_len
          /\ arrived' = arrived + ws_len
      BY <1>1, <2>3 DEF PushAudioQueue
    <3>2. arrived \in Nat /\ m_audio_queue_samples \in Nat
      BY DEF QueueInv, Exact
    <3>3. (arrived + ws_len) - (m_audio_queue_samples + ws_len) = arrived - m_audio_queue_samples
      BY <2>1, <3>2
    <3>4. /\ Held(m_audio_queue') = (arrived - m_audio_queue_samples + 1)..(arrived + ws_len)
          /\ \A i, j \in 1..Len(m_audio_queue') :
                 i < j => m_audio_queue'[i].last < m_audio_queue'[j].first
      BY <2>1, <3>1, HeldPush DEF QueueInv
    <3> QED BY <3>1, <3>3, <3>4
  <2> QED BY <2>2, <2>3
<1>2. CASE PopAudioQueue
  <2>1. /\ m_audio_queue # <<>> /\ m_audio_queue' = Tail(m_audio_queue)
        /\ m_audio_queue_samples' = m_audio_queue_samples - Size(Head(m_audio_queue))
        /\ arrived' = arrived
    BY <1>2 DEF PopAudioQueue, histVars
  <2> QED BY <2>1, HeldPop DEF QueueInv
<1>3. CASE ClearAudioQueue
  <2>1. m_audio_queue' = <<>> /\ m_audio_queue_samples' = 0 /\ arrived' = arrived
    BY <1>3 DEF ClearAudioQueue, histVars
  <2>2. arrived \in Nat /\ Popped' = arrived
    BY <2>1 DEF QueueInv, Exact
  <2>3. Held(m_audio_queue') = {} /\ 1..Len(m_audio_queue') = {}
    BY <2>1 DEF Held
  <2> HIDE DEF Popped
  <2>4. (Popped' + 1)..arrived' = {}
    BY <2>1, <2>2
  <2> QED BY <2>3, <2>4
<1>4. CASE UNCHANGED <<queueVars, arrived>>
  BY <1>4 DEF queueVars
<1> QED BY <1>1, <1>2, <1>3, <1>4, QueueOperations

\* Every step keeps the buffer in order and older than the queue.
LEMMA BufferedStep ==
    ASSUME QueueInv, RestTypeOK, BacklogInv, [Next]_vars
    PROVE  /\ \A i \in 1..Len(playback_buffer') : playback_buffer'[i] <= Popped'
           /\ \A i, j \in 1..Len(playback_buffer') :
                  i < j => playback_buffer'[i] < playback_buffer'[j]
<1> DEFINE len == Len(playback_buffer)
<1>1. /\ Popped \in Nat /\ Popped' \in Nat /\ Popped' >= Popped
      /\ PopAudioQueue => Popped' = Popped + Size(Head(m_audio_queue))
  BY PoppedSteps
<1>2. /\ len \in Nat
      /\ \A i \in 1..len : playback_buffer[i] \in Nat /\ playback_buffer[i] <= Popped
      /\ \A i, j \in 1..len : i < j => playback_buffer[i] < playback_buffer[j]
  BY LenProperties, ElementOfSeq DEF RestTypeOK, BufferType, BacklogInv
<1>3. CASE PopAudioQueue
  <2> DEFINE k == Size(Head(m_audio_queue))
  <2>1. /\ k \in Nat \ {0} /\ Len(playback_buffer') = len + k
        /\ \A i \in 1..len : playback_buffer'[i] = playback_buffer[i]
        /\ \A i \in len + 1..len + k : playback_buffer'[i] = Popped + (i - len)
    BY <1>3, PopAppends
  <2>2. Popped' = Popped + k
    BY <1>1, <1>3
  <2> HIDE DEF k, len
  <2>3. ASSUME NEW i \in 1..len + k
        PROVE  \/ /\ i \in 1..len /\ playback_buffer'[i] = playback_buffer[i]
                  /\ playback_buffer'[i] \in Nat /\ playback_buffer'[i] <= Popped
               \/ /\ i > len /\ playback_buffer'[i] = Popped + (i - len)
                  /\ playback_buffer'[i] > Popped /\ playback_buffer'[i] <= Popped'
    <3>1. CASE i <= len
      <4>1. i \in 1..len
        BY <3>1
      <4> QED BY <4>1, <1>2, <2>1
    <3>2. CASE i > len
      <4>1. i \in len + 1..len + k /\ i - len \in 1..k
        BY <3>2, <1>2, <2>1
      <4>2. playback_buffer'[i] = Popped + (i - len)
        BY <4>1, <2>1
      <4> QED BY <3>2, <4>1, <4>2, <1>1, <2>1, <2>2
    <3> QED BY <3>1, <3>2, <1>2
  <2>4. ASSUME NEW i \in 1..len + k PROVE playback_buffer'[i] <= Popped'
    BY <2>3, <1>1
  <2>5. ASSUME NEW i \in 1..len + k, NEW j \in 1..len + k, i < j
        PROVE  playback_buffer'[i] < playback_buffer'[j]
    <3>1. CASE i \in 1..len /\ j \in 1..len
      BY <2>1, <2>5, <3>1, <1>2
    <3>2. CASE i \in 1..len /\ j > len
      <4>1. playback_buffer'[i] \in Nat /\ playback_buffer'[i] <= Popped
        BY <3>2, <1>2, <2>1
      <4>2. playback_buffer'[j] = Popped + (j - len) /\ j - len > 0
        BY <3>2, <1>2, <2>3
      <4> QED BY <4>1, <4>2, <1>1, <1>2
    <3>3. CASE i > len
      <4>1. playback_buffer'[i] = Popped + (i - len) /\ playback_buffer'[j] = Popped + (j - len)
        BY <3>3, <2>5, <1>2, <2>3
      <4> QED BY <4>1, <2>5, <1>1, <1>2
    <3> QED BY <3>1, <3>2, <3>3, <1>2
  <2> QED BY <2>1, <2>4, <2>5
<1>4. CASE Emit
  <2>1. PICK k \in 0..len :
           /\ Len(playback_buffer') = len - k
           /\ \A i \in 1..len - k : playback_buffer'[i] = playback_buffer[i + k]
    BY <1>4, EmitTakes
  <2> HIDE DEF len
  <2>2. ASSUME NEW i \in 1..len - k
        PROVE  i + k \in 1..len /\ playback_buffer'[i] = playback_buffer[i + k]
    BY <1>2, <2>1
  <2>3. ASSUME NEW i \in 1..len - k PROVE playback_buffer'[i] <= Popped'
    BY <1>1, <1>2, <2>2
  <2>4. ASSUME NEW i \in 1..len - k, NEW j \in 1..len - k, i < j
        PROVE  playback_buffer'[i] < playback_buffer'[j]
    <3>1. i + k < j + k
      BY <2>4
    <3> QED BY <3>1, <1>2, <2>2
  <2> QED BY <2>1, <2>3, <2>4
<1>5. CASE playback_buffer' = playback_buffer
  BY <1>1, <1>2, <1>5
<1>6. CASE playback_buffer' = <<>>
  BY <1>6
<1>7. ConsumePlaybackClear => playback_buffer' = playback_buffer \/ playback_buffer' = <<>>
  BY DEF ConsumePlaybackClear, mediaVars
<1> QED BY <1>3, <1>4, <1>5, <1>6, <1>7, BufferSteps

\* Every step preserves the invariant.
LEMMA BacklogInvStep ==
    QueueInv /\ RestTypeOK /\ BacklogInv /\ [Next]_vars => BacklogInv'
<1> SUFFICES ASSUME QueueInv, RestTypeOK, BacklogInv, [Next]_vars PROVE BacklogInv'
  OBVIOUS
<1>1. ScalarTypes /\ m_playback_clear_gen_seen <= m_playback_clear_gen
  BY DEF RestTypeOK, BacklogInv
<1>2. ConsumePlaybackClear => \/ m_playback_clear_gen_seen' = m_playback_clear_gen_seen
                              \/ m_playback_clear_gen_seen' = m_playback_clear_gen
  BY DEF ConsumePlaybackClear
<1>3. m_playback_clear_gen_seen' <= m_playback_clear_gen'
  BY <1>1, <1>2, GenerationSteps DEF ScalarTypes
<1> QED BY <1>3, HeldStep, BufferedStep DEF BacklogInv

\* The invariant holds in every reachable state.
LEMMA BacklogInvariant == Spec => [](QueueInv /\ RestTypeOK /\ BacklogInv)
<1>1. Init => BacklogInv
  BY BacklogInvInit
<1>2. QueueInv /\ RestTypeOK /\ BacklogInv /\ [Next]_vars => BacklogInv'
  BY BacklogInvStep
<1> QED BY <1>1, <1>2, CoreInvariant, PTL DEF Spec

-----------------------------------------------------------------------------
(* The refinement: every step is a step of the backlog, or none. *)

\* What waits is the buffer and the run of samples that have not left the queue.
LEMMA WaitingIs ==
    /\ BacklogInv => Waiting = Buffered(playback_buffer) \cup (Popped + 1)..arrived
    /\ BacklogInv' => Waiting' = Buffered(playback_buffer') \cup (Popped' + 1)..arrived'
BY DEF BacklogInv, Waiting, Held, Buffered

\* Barge-ins are counted by clear_audio_queue and served by consume_playback_clear.
LEMMA DueSteps ==
    ASSUME RestTypeOK, BacklogInv, [Next]_vars
    PROVE  /\ Due \in Nat
           /\ ClearAudioQueue => Due' = Due + 1
           /\ ConsumePlaybackClear => \/ /\ UNCHANGED <<m_playback_clear_gen_seen, playback_buffer>>
                                         /\ Due' = Due
                                      \/ playback_buffer' = <<>> /\ Due > 0 /\ Due' \in 0..(Due - 1)
           /\ ~ClearAudioQueue /\ ~ConsumePlaybackClear => Due' = Due
<1>1. /\ ScalarTypes /\ m_playback_clear_gen_seen <= m_playback_clear_gen
      /\ m_playback_clear_gen \in Nat /\ m_playback_clear_gen_seen \in Nat
  BY DEF RestTypeOK, ScalarTypes, BacklogInv
<1>2. ClearAudioQueue => Due' = Due + 1
  BY <1>1 DEF ClearAudioQueue, Event, clearVars, Due
<1>3. ASSUME ConsumePlaybackClear
      PROVE  \/ UNCHANGED <<m_playback_clear_gen_seen, playback_buffer>> /\ Due' = Due
             \/ playback_buffer' = <<>> /\ Due > 0 /\ Due' \in 0..(Due - 1)
  <2>1. m_playback_clear_gen' = m_playback_clear_gen /\ ws' = ws
    BY <1>3 DEF ConsumePlaybackClear, wsVars
  <2>2. CASE m_playback_clear_gen = m_playback_clear_gen_seen
    BY <1>3, <2>1, <2>2 DEF ConsumePlaybackClear, mediaVars, Due
  <2>3. CASE m_playback_clear_gen # m_playback_clear_gen_seen
    <3>1. m_playback_clear_gen_seen' = m_playback_clear_gen /\ playback_buffer' = <<>>
      BY <1>3, <2>3 DEF ConsumePlaybackClear
    <3>2. Due > 0 /\ Due' \in 0..(Due - 1)
      BY <1>1, <2>1, <2>3, <3>1 DEF Due
    <3> QED BY <3>1, <3>2
  <2> QED BY <2>2, <2>3
<1>4. ASSUME ~ClearAudioQueue, ~ConsumePlaybackClear PROVE Due' = Due
  <2>1. CASE /\ m_playback_clear_gen' = m_playback_clear_gen + 1
             /\ m_playback_clear_gen_seen' = m_playback_clear_gen_seen
             /\ ws = "bump" /\ ws' = "idle"
    BY <1>1, <2>1 DEF Due
  <2>2. CASE /\ m_playback_clear_gen' = m_playback_clear_gen
             /\ m_playback_clear_gen_seen' = m_playback_clear_gen_seen
             /\ ws = "bump" <=> ws' = "bump"
    BY <2>2 DEF Due
  <2> QED BY <1>1, <1>4, <2>1, <2>2, GenerationSteps
<1>5. Due \in Nat
  BY <1>1 DEF Due
<1> QED BY <1>2, <1>3, <1>4, <1>5

\* A push that is not dropped accepts samples.
LEMMA PushMaps ==
    ASSUME QueueInv, RestTypeOK, BacklogInv, BacklogInv', PushAudioQueue, Due' = Due
    PROVE  Backlog!Accept \/ UNCHANGED <<arrived, Waiting, Due>>
<1> DEFINE b == Buffered(playback_buffer)
<1>0. /\ Waiting = b \cup (Popped + 1)..arrived
      /\ Waiting' = Buffered(playback_buffer') \cup (Popped' + 1)..arrived'
      /\ playback_buffer' = playback_buffer
      /\ arrived \in Nat /\ m_audio_queue_samples \in Nat /\ m_audio_queue_samples <= arrived
      /\ ws_len \in Nat \ {0}
  <2>1. playback_buffer' = playback_buffer /\ ws_len \in Nat \ {0}
    BY DEF PushAudioQueue, mediaVars, QueueInv
  <2>2. arrived \in Nat /\ m_audio_queue_samples \in Nat /\ m_audio_queue_samples <= arrived
    BY DEF QueueInv, Exact
  <2> QED BY <2>1, <2>2, WaitingIs
<1>1. CASE Overflows(ws_len)
  <2>1. arrived' = arrived /\ Popped' = Popped
    BY <1>1 DEF PushAudioQueue, queueVars, Popped
  <2> QED BY <1>0, <2>1
<1>2. CASE ~Overflows(ws_len)
  <2>1. arrived' = arrived + ws_len /\ m_audio_queue_samples' = m_audio_queue_samples + ws_len
    BY <1>2 DEF PushAudioQueue
  <2>2. Popped \in Nat /\ Popped <= arrived /\ Popped' = Popped
    BY <1>0, <2>1 DEF Popped
  <2>3. (Popped + 1)..arrived' = (Popped + 1)..arrived \cup (arrived + 1)..arrived'
    BY <1>0, <2>1, <2>2
  <2>4. Waiting' = Waiting \cup (arrived + 1)..arrived'
    <3> HIDE DEF b
    <3>1. Waiting' = b \cup (Popped + 1)..arrived'
      BY <1>0, <2>2 DEF b
    <3> QED BY <1>0, <2>3, <3>1
  <2> QED BY <1>0, <2>1, <2>4 DEF Backlog!Accept
<1> QED BY <1>1, <1>2

\* Less is left when a positive number is taken away.
LEMMA MinusBelow ==
    ASSUME NEW a \in Nat, NEW s \in Nat
    PROVE  a - s <= a
OBVIOUS

\* A pop moves samples from the queue to the buffer: they still wait.
LEMMA PopMaps ==
    ASSUME QueueInv, RestTypeOK, BacklogInv, BacklogInv', PopAudioQueue, [Next]_vars
    PROVE  UNCHANGED <<arrived, Waiting>>
<1> DEFINE len == Len(playback_buffer)
           k == Size(Head(m_audio_queue))
<1>1. /\ len \in Nat /\ k \in Nat \ {0} /\ Len(playback_buffer') = len + k
      /\ \A i \in 1..len : playback_buffer'[i] = playback_buffer[i]
      /\ \A i \in len + 1..len + k : playback_buffer'[i] = Popped + (i - len)
  BY PopAppends
<1>2. /\ Popped \in Nat /\ Popped' = Popped + k /\ Popped' \in Nat
      /\ arrived' = arrived /\ arrived \in Nat /\ Popped' <= arrived
  <2>1. QueueInv'
    BY QueueInvStep
  <2>2. arrived' = arrived
    BY DEF PopAudioQueue, histVars
  <2>3. Popped \in Nat /\ Popped' \in Nat /\ Popped' = Popped + k
    BY PoppedSteps
  <2>4. arrived' \in Nat /\ m_audio_queue_samples' \in Nat
    BY <2>1 DEF QueueInv, Exact
  <2>5. Popped' = arrived' - m_audio_queue_samples'
    BY DEF Popped
  <2>6. arrived' - m_audio_queue_samples' <= arrived'
    BY <2>4, MinusBelow
  <2>7. Popped' <= arrived
    BY <2>2, <2>5, <2>6, Zenon
  <2> QED BY <2>2, <2>3, <2>4, <2>7
<1> HIDE DEF k, len
<1>3. ASSUME NEW x
      PROVE  x \in Buffered(playback_buffer')
                 <=> x \in Buffered(playback_buffer) \/ x \in (Popped + 1)..(Popped + k)
  <2>1. ASSUME NEW i \in 1..len + k
        PROVE  playback_buffer'[i] \in Buffered(playback_buffer) \cup (Popped + 1)..(Popped + k)
    <3>1. CASE i <= len
      BY <3>1, <1>1 DEF Buffered, len
    <3>2. CASE i > len
      <4>1. playback_buffer'[i] = Popped + (i - len) /\ i - len \in 1..k
        BY <3>2, <1>1
      <4> QED BY <4>1, <1>1, <1>2
    <3> QED BY <3>1, <3>2, <1>1
  <2>2. ASSUME NEW i \in 1..len PROVE i \in 1..len + k /\ playback_buffer'[i] = playback_buffer[i]
    BY <1>1
  <2>3. ASSUME x \in (Popped + 1)..(Popped + k)
        PROVE  \E i \in 1..len + k : playback_buffer'[i] = x
    <3>1. len + (x - Popped) \in len + 1..len + k /\ (len + (x - Popped)) - len = x - Popped
          /\ Popped + (x - Popped) = x /\ len + (x - Popped) \in 1..len + k
      BY <2>3, <1>1, <1>2
    <3> QED BY <3>1, <1>1
  <2> QED BY <2>1, <2>2, <2>3, <1>1 DEF Buffered, len
<1>4. (Popped + 1)..arrived = (Popped + 1)..(Popped + k) \cup (Popped' + 1)..arrived
  BY <1>1, <1>2
<1>5. /\ Waiting = Buffered(playback_buffer) \cup (Popped + 1)..arrived
      /\ Waiting' = Buffered(playback_buffer') \cup (Popped' + 1)..arrived
  BY WaitingIs, <1>2
<1>6. Buffered(playback_buffer') = Buffered(playback_buffer) \cup (Popped + 1)..(Popped + k)
  BY <1>3
<1>7. Waiting' = Waiting
  BY <1>4, <1>5, <1>6
<1> QED BY <1>2, <1>7

\* A frame takes the oldest samples that wait.
LEMMA EmitMaps ==
    ASSUME QueueInv, RestTypeOK, BacklogInv, BacklogInv', Emit, [Next]_vars, Due' = Due
    PROVE  (\E n \in 0..arrived : Backlog!Take(n)) \/ UNCHANGED <<arrived, Waiting, Due>>
<1> DEFINE b == playback_buffer
           len == Len(b)
<1>1. PICK k \in 0..len :
         /\ Len(b') = len - k /\ \A i \in 1..len - k : b'[i] = b[i + k]
         /\ b' \in Seq(Nat)
  BY EmitTakes
<1>2. /\ len \in Nat /\ b \in Seq(Nat) /\ Popped \in Nat /\ Popped' = Popped
      /\ arrived' = arrived /\ arrived \in Nat /\ Popped <= arrived
      /\ \A i \in 1..len : b[i] \in Nat /\ b[i] <= Popped
      /\ \A i, j \in 1..len : i < j => b[i] < b[j]
  <2>1. arrived' = arrived /\ m_audio_queue_samples' = m_audio_queue_samples
    BY DEF Emit, queueVars
  <2> QED BY <2>1, LenProperties, ElementOfSeq
          DEF RestTypeOK, BufferType, BacklogInv, QueueInv, Exact, Popped
<1>3. /\ Waiting = Buffered(b) \cup (Popped + 1)..arrived
      /\ Waiting' = Buffered(b') \cup (Popped + 1)..arrived
  BY WaitingIs, <1>2
<1> HIDE DEF len, b
<1>4. CASE k = 0
  <2>1. Buffered(b') = Buffered(b)
    BY <1>1, <1>2, <1>4 DEF Buffered, len
  <2> QED BY <1>2, <1>3, <2>1
<1>5. CASE k > 0
  <2>1. k \in 1..len /\ b[k] \in Nat /\ b[k] <= Popped
    BY <1>1, <1>2, <1>5
  <2>2. ASSUME NEW x PROVE x \in Buffered(b') <=> x \in Buffered(b) /\ x > b[k]
    <3>1. ASSUME NEW i \in 1..len - k
          PROVE  b'[i] = b[i + k] /\ i + k \in 1..len /\ b[i + k] > b[k]
      BY <1>1, <1>2, <2>1
    <3>2. ASSUME NEW i \in 1..len, b[i] > b[k]
          PROVE  i - k \in 1..len - k /\ b'[i - k] = b[i]
      <4>1. i > k
        BY <3>2, <1>2, <2>1
      <4>2. i - k \in 1..len - k /\ (i - k) + k = i
        BY <4>1, <1>2, <2>1
      <4> QED BY <4>2, <1>1
    <3>3. x \in Buffered(b') <=> \E i \in 1..len - k : b'[i] = x
      BY <1>1 DEF Buffered
    <3>4. x \in Buffered(b) <=> \E i \in 1..len : b[i] = x
      BY DEF Buffered, len
    <3>5. ASSUME NEW i \in 1..len, b[i] = x, x > b[k] PROVE \E j \in 1..len - k : b'[j] = x
      BY <3>2, <3>5
    <3> QED BY <3>1, <3>3, <3>4, <3>5
  <2>3. ASSUME NEW x \in (Popped + 1)..arrived PROVE x > b[k]
    BY <1>2, <2>1
  <2>4. Waiting' = {n \in Waiting : n > b[k]}
    BY <1>3, <2>2, <2>3
  <2>5. b[k] \in 0..arrived
    BY <1>2, <2>1
  <2> QED BY <1>2, <2>4, <2>5 DEF Backlog!Take
<1> QED BY <1>1, <1>2, <1>4, <1>5

\* clear_audio_queue drops the newest part of what waits: all that is in the queue.
LEMMA ClearMaps ==
    ASSUME QueueInv, RestTypeOK, BacklogInv, BacklogInv', ClearAudioQueue, Due' = Due + 1
    PROVE  \E n \in 0..arrived : Backlog!BargeIn(n)
<1>1. /\ arrived' = arrived /\ m_audio_queue_samples' = 0 /\ playback_buffer' = playback_buffer
      /\ arrived \in Nat /\ Popped \in 0..arrived /\ Popped' = arrived
  <2>1. arrived' = arrived /\ m_audio_queue_samples' = 0 /\ playback_buffer' = playback_buffer
    BY DEF ClearAudioQueue, histVars, mediaVars
  <2>2. /\ arrived \in Nat /\ m_audio_queue_samples \in Nat /\ m_audio_queue_samples <= arrived
    BY DEF QueueInv, Exact
  <2> QED BY <2>1, <2>2 DEF Popped
<1>2. \A x \in Buffered(playback_buffer) : x <= Popped
  BY DEF BacklogInv, Buffered
<1>3. Waiting' = Buffered(playback_buffer) \cup (arrived + 1)..arrived
  BY <1>1, WaitingIs
<1>4. (arrived + 1)..arrived = {} /\ \A x \in (Popped + 1)..arrived : ~(x <= Popped)
  BY <1>1
<1>5. Waiting' = {n \in Waiting : n <= Popped}
  BY <1>2, <1>3, <1>4, WaitingIs
<1> QED BY <1>1, <1>5 DEF Backlog!BargeIn

\* consume_playback_clear drops the oldest part: all that is in the buffer.
LEMMA ConsumeMaps ==
    ASSUME QueueInv, RestTypeOK, BacklogInv, BacklogInv', ConsumePlaybackClear,
           playback_buffer' = <<>>, Due > 0, Due' \in 0..(Due - 1)
    PROVE  \E n \in 0..arrived : Backlog!Discard(n)
<1>1. arrived' = arrived /\ arrived \in Nat /\ Popped \in 0..arrived /\ Popped' = Popped
  <2>1. arrived' = arrived /\ m_audio_queue_samples' = m_audio_queue_samples
    BY DEF ConsumePlaybackClear, histVars, queueVars
  <2>2. /\ arrived \in Nat /\ m_audio_queue_samples \in Nat /\ m_audio_queue_samples <= arrived
    BY DEF QueueInv, Exact
  <2> QED BY <2>1, <2>2 DEF Popped
<1>2. \A x \in Buffered(playback_buffer) : ~(x > Popped)
  <2>1. \A i \in 1..Len(playback_buffer) : playback_buffer[i] \in Nat /\ playback_buffer[i] <= Popped
    BY ElementOfSeq DEF BacklogInv, RestTypeOK, BufferType
  <2> QED BY <1>1, <2>1 DEF Buffered
<1>3. Buffered(playback_buffer') = {}
  BY DEF Buffered
<1>4. Waiting' = (Popped + 1)..arrived
  BY <1>1, <1>3, WaitingIs
<1>5. \A x \in (Popped + 1)..arrived : x > Popped
  BY <1>1
<1>6. Waiting' = {n \in Waiting : n > Popped}
  BY <1>2, <1>4, <1>5, WaitingIs
<1> QED BY <1>1, <1>6 DEF Backlog!Discard

\* Every step of the playback path is a step of the backlog, or leaves it as it is.
LEMMA StepMaps ==
    QueueInv /\ RestTypeOK /\ BacklogInv /\ [Next]_vars
        => [Backlog!Next]_<<arrived, Waiting, Due>>
<1> SUFFICES ASSUME QueueInv, RestTypeOK, BacklogInv, [Next]_vars
             PROVE  Backlog!Next \/ UNCHANGED <<arrived, Waiting, Due>>
  OBVIOUS
<1>0. BacklogInv'
  BY BacklogInvStep
<1> USE DEF Event, wsVars
<1>1. CASE PushAudioQueue
  <2>1. ~ClearAudioQueue /\ ~ConsumePlaybackClear
    BY <1>1 DEF PushAudioQueue, ClearAudioQueue, ConsumePlaybackClear
  <2> QED BY <1>0, <1>1, <2>1, DueSteps, PushMaps DEF Backlog!Next
<1>2. CASE PopAudioQueue
  <2>1. ~ClearAudioQueue /\ ~ConsumePlaybackClear
    BY <1>2 DEF PopAudioQueue, ClearAudioQueue, ConsumePlaybackClear
  <2> QED BY <1>0, <1>2, <2>1, DueSteps, PopMaps
<1>3. CASE ClearAudioQueue
  BY <1>0, <1>3, DueSteps, ClearMaps DEF Backlog!Next
<1>4. CASE Emit
  <2>1. ~ClearAudioQueue /\ ~ConsumePlaybackClear
    BY <1>4 DEF Emit, ClearAudioQueue, ConsumePlaybackClear
  <2> QED BY <1>0, <1>4, <2>1, DueSteps, EmitMaps DEF Backlog!Next
<1>5. CASE ConsumePlaybackClear /\ playback_buffer' = <<>> /\ Due > 0 /\ Due' \in 0..(Due - 1)
  BY <1>0, <1>5, ConsumeMaps DEF Backlog!Next
<1>6. CASE /\ UNCHANGED <<queueVars, arrived>> /\ playback_buffer' = playback_buffer
           /\ Due' = Due
  BY <1>6 DEF Waiting, queueVars
<1>7. ConsumePlaybackClear => UNCHANGED <<queueVars, arrived>>
  BY DEF ConsumePlaybackClear, histVars
<1> QED BY <1>1, <1>2, <1>3, <1>4, <1>5, <1>6, <1>7, DueSteps, QueueOperations, BufferSteps

\* Whatever the threads do, and however audio is cut into chunks and frames, the
\* playback path is a backlog from which every sample leaves once and in order.
THEOREM PlaybackImplementsBacklog == Spec => ImplementsBacklog
<1>1. Init => Backlog!Init
  <2> SUFFICES ASSUME Init PROVE Backlog!Init
    OBVIOUS
  <2>1. Waiting = {}
    BY DEF Init, Waiting
  <2>2. Due = 0 /\ arrived = 0
    BY DEF Init, Due
  <2> QED BY <2>1, <2>2 DEF Backlog!Init
<1>2. QueueInv /\ RestTypeOK /\ BacklogInv /\ [Next]_vars
        => [Backlog!Next]_<<arrived, Waiting, Due>>
  BY StepMaps
<1> QED BY <1>1, <1>2, BacklogInvariant, PTL DEF Spec, ImplementsBacklog, Backlog!Spec
=============================================================================
