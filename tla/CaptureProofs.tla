--------------------------- MODULE CaptureProofs ---------------------------
(* Theorems about Capture, for any packet size, aggregation and resampling. *)
EXTENDS Capture, TLAPS, SequenceTheorems

USE AggregationAssumption

\* tech_pvt->mutex and what its holder does.
Locks ==
    /\ mutex = "media" <=> frame \in {"locked", "connected", "read"}
    /\ mutex = "api" <=> api \in {"mute_residue", "silence", "stop_residue", "final", "remove"}
    /\ api = "stopped" => frame = "idle"

\* The samples on the wire and in the buffer are in order, and were read already.
Ordered ==
    /\ SentInOrder
    /\ \A s \in Range(sbuffer) : s.number <= next
    /\ \A i \in 1..Len(wire) : \A s \in Range(wire[i].body) : s.number <= next

\* Before the first connection opens nothing is read, and nothing asks for a reset
\* until it drops.
Kept ==
    /\ conn # 0
    /\ conn = 1 /\ link = "connecting" => next = 0 /\ frame \notin {"connected", "read"}
    /\ conn = 1 /\ link \in {"connecting", "open"} => ~capture_reset_pending
    /\ NothingLostWhileConnected

\* A stream that sends each packet for itself has nothing in its buffer.
Full == FullMessages /\ (rtp_packets = 1 => sbuffer = <<>>)

\* From the residue of a mute or a stop to its last message the buffer is empty.
Marked ==
    /\ MarksAudio
    /\ \A i \in 1..Len(wire) : wire[i].upto <= next
    /\ api \in {"silence", "final", "remove", "stopped"} => sbuffer = <<>>

\* Audio of an earlier connection is in the buffer only while a reset is pending.
Fresh == ~capture_reset_pending => \A s \in Range(sbuffer) : s.conn = conn

IInv == TypeOK /\ Locks /\ Ordered /\ Kept /\ Full /\ Marked /\ Fresh

-----------------------------------------------------------------------------
(* Whole buffers in a sequence of n samples: arithmetic.                    *)

\* The number of whole buffers of c samples in n, and what is left.
LEMMA Buffers ==
    ASSUME NEW n \in Nat, NEW c \in Nat \ {0}
    PROVE  n \div c \in Nat /\ (n \div c) * c <= n /\ n - (n \div c) * c < c
OBVIOUS

\* Buffers do not overlap and follow one another.
LEMMA Offsets ==
    ASSUME NEW i \in Nat, NEW j \in Nat, NEW c \in Nat, i <= j
    PROVE  i * c \in Nat /\ j * c \in Nat /\ i * c <= j * c
OBVIOUS

LEMMA NextOffset ==
    ASSUME NEW i \in Nat \ {0}, NEW c \in Nat
    PROVE  (i - 1) * c \in Nat /\ (i - 1) * c + c = i * c
OBVIOUS

\* Every position in the first q buffers is in one of them.
LEMMA BufferOf ==
    ASSUME NEW q \in Nat, NEW c \in Nat \ {0}, NEW k \in 1..q * c
    PROVE  \E i \in 1..q : (i - 1) * c + 1 <= k /\ k <= i * c
<1> DEFINE i == (k - 1) \div c + 1
<1>1. k - 1 \in Nat
  OBVIOUS
<1>2. /\ (k - 1) \div c \in Nat
      /\ ((k - 1) \div c) * c <= k - 1 /\ k - 1 - ((k - 1) \div c) * c < c
  BY <1>1, Buffers
<1>3. i \in Nat \ {0} /\ i - 1 = (k - 1) \div c
  BY <1>2
<1>4. (i - 1) * c + 1 <= k /\ k <= (i - 1) * c + c
  BY <1>2, <1>3
<1> HIDE DEF i
<1>5. k <= i * c
  BY <1>3, <1>4, NextOffset
<1>6. i <= q
  <2>1. SUFFICES ASSUME q <= i - 1 PROVE FALSE
    BY <1>3
  <2>2. q * c <= (i - 1) * c
    BY <1>3, <2>1, Offsets
  <2>3. q * c \in Nat /\ (i - 1) * c \in Nat
    BY <1>3
  <2> QED BY <1>4, <2>2, <2>3
<1> QED BY <1>3, <1>4, <1>5, <1>6

-----------------------------------------------------------------------------
(* send_or_buffer_audio cuts a sequence into full messages and a rest.      *)

\* A stretch of a sequence of samples.
LEMMA Stretch ==
    ASSUME NEW audio \in Seq(Sample), NEW a \in Nat \ {0}, NEW b \in Nat,
           a <= b + 1, b <= Len(audio)
    PROVE  /\ SubSeq(audio, a, b) \in Seq(Sample) /\ Len(SubSeq(audio, a, b)) = b - a + 1
           /\ \A s : s \in Range(SubSeq(audio, a, b)) <=> \E k \in a..b : s = audio[k]
           /\ InOrder(audio) => InOrder(SubSeq(audio, a, b))
<1> DEFINE part == SubSeq(audio, a, b)
           n == b - a + 1
<1>1. Len(audio) \in Nat /\ n \in Nat
  BY LenProperties
<1>2. \A k \in a..b : audio[k] \in Sample
  BY <1>1, ElementOfSeq
<1>3. part \in Seq(Sample) /\ Len(part) = n /\ \A p \in 1..n : part[p] = audio[a + p - 1]
  <2>1. /\ part \in Seq(Sample)
        /\ Len(part) = IF a <= b THEN b - a + 1 ELSE 0
        /\ \A p \in 1..(b - a + 1) : part[p] = audio[a + p - 1]
    BY <1>1, <1>2, SubSeqProperties
  <2> HIDE DEF part
  <2> QED BY <2>1
<1> HIDE DEF part
<1>4. \A s : s \in Range(part) <=> \E k \in a..b : s = audio[k]
  <2>1. ASSUME NEW s \in Range(part) PROVE \E k \in a..b : s = audio[k]
    <3>1. PICK p \in 1..n : s = part[p]
      BY <1>3 DEF Range
    <3>2. a + p - 1 \in a..b
      OBVIOUS
    <3> QED BY <1>3, <3>1, <3>2
  <2>2. ASSUME NEW k \in a..b PROVE audio[k] \in Range(part)
    <3>1. k - a + 1 \in 1..n /\ a + (k - a + 1) - 1 = k
      OBVIOUS
    <3>2. part[k - a + 1] = audio[k]
      BY <1>3, <3>1
    <3>3. DOMAIN part = 1..n
      BY <1>3
    <3> QED BY <3>1, <3>2, <3>3 DEF Range
  <2> QED BY <2>1, <2>2
<1>5. ASSUME InOrder(audio) PROVE InOrder(part)
  <2> SUFFICES ASSUME NEW p \in 1..n, NEW r \in 1..n, p < r
               PROVE  part[p].number < part[r].number
    BY <1>3 DEF InOrder
  <2>1. a + p - 1 \in 1..Len(audio) /\ a + r - 1 \in 1..Len(audio) /\ a + p - 1 < a + r - 1
    BY <1>1
  <2> QED BY <1>3, <1>5, <2>1 DEF InOrder
<1> QED BY <1>3, <1>4, <1>5 DEF part

\* What a cut of audio into messages and a rest must be: each a stretch of it, in its
\* order, and nothing left out.
Cut(audio, messages, rest) ==
    /\ \A i \in 1..Len(messages) : /\ InOrder(messages[i].body) /\ Range(messages[i].body) \subseteq Range(audio)
                                   /\ Precedes(messages[i].body, rest)
    /\ \A i, j \in 1..Len(messages) : i < j => Precedes(messages[i].body, messages[j].body)
    /\ InOrder(rest) /\ Range(rest) \subseteq Range(audio)
    /\ \A s \in Range(audio) : s \in Range(rest) \/ \E i \in 1..Len(messages) : s \in Range(messages[i].body)

MessageSet ==
    [kind : {"frame", "residue", "silence", "json", "final"}, conn : Nat, body : Seq(Sample), upto : Nat]

\* The messages of stream_frame are full, what it keeps is less than a buffer, and
\* both together are the audio in its order.
LEMMA MessagesCut ==
    ASSUME NEW audio \in Seq(Sample), InOrder(audio), rtp_packets \in RtpPackets,
           conn \in Nat, next \in Nat
    PROVE  /\ Messages(audio) \in Seq(MessageSet)
           /\ \A i \in 1..Len(Messages(audio)) :
                  /\ Messages(audio)[i].kind = "frame" /\ Messages(audio)[i].upto = next
                  /\ Len(Messages(audio)[i].body) = Capacity
           /\ Rest(audio) \in Seq(Sample) /\ Len(Rest(audio)) < Capacity
           /\ Cut(audio, Messages(audio), Rest(audio))
<1> DEFINE n == Len(audio)
           c == Capacity
           q == FullBuffers(audio)
           z == q * c
           ms == Messages(audio)
           rest == Rest(audio)
           lo(i) == (i - 1) * c + 1
           hi(i) == i * c
<1>1. n \in Nat /\ c \in Nat \ {0}
  BY DEF Capacity
<1>2. q \in Nat /\ z \in Nat /\ z <= n /\ n - z < c
  BY <1>1, Buffers DEF FullBuffers
<1>3. ASSUME NEW i \in 1..q
      PROVE  /\ lo(i) \in Nat \ {0} /\ hi(i) \in Nat /\ lo(i) <= hi(i) + 1
             /\ hi(i) <= z /\ hi(i) - lo(i) + 1 = c
  <2> HIDE DEF c, q
  <2>1. i \in Nat \ {0} /\ i <= q
    BY <1>2
  <2>2. (i - 1) * c \in Nat /\ (i - 1) * c + c = i * c
    BY <1>1, <2>1, NextOffset
  <2>3. i * c \in Nat /\ i * c <= q * c
    BY <1>1, <1>2, <2>1, Offsets
  <2> QED BY <1>1, <2>2, <2>3
<1>4. ASSUME NEW i \in 1..q, NEW j \in 1..q, i < j
      PROVE  hi(i) < lo(j)
  <2> HIDE DEF c, q
  <2>1. i \in Nat /\ j - 1 \in Nat /\ i <= j - 1
    BY <1>2, <1>4
  <2>2. i * c \in Nat /\ (j - 1) * c \in Nat /\ i * c <= (j - 1) * c
    BY <1>1, <2>1, Offsets
  <2> QED BY <2>2
<1>5. \A k \in 1..z : \E i \in 1..q : k \in lo(i)..hi(i)
  <2> SUFFICES ASSUME NEW k \in 1..z PROVE \E i \in 1..q : k \in lo(i)..hi(i)
    OBVIOUS
  <2> HIDE DEF c, q
  <2>1. PICK i \in 1..q : (i - 1) * c + 1 <= k /\ k <= i * c
    BY <1>1, <1>2, BufferOf
  <2>2. lo(i) \in Nat /\ hi(i) \in Nat /\ lo(i) <= k /\ k <= hi(i)
    BY <1>3, <2>1
  <2> HIDE DEF lo, hi
  <2> QED BY <2>2
<1>6. ASSUME NEW i \in 1..q
      PROVE  /\ ms[i] = Message("frame", SubSeq(audio, lo(i), hi(i)))
             /\ ms[i].kind = "frame" /\ ms[i].upto = next
             /\ ms[i].body = SubSeq(audio, lo(i), hi(i))
  BY DEF Messages, Message
<1>7. rest = SubSeq(audio, z + 1, n)
  BY DEF Rest
<1>8. ms = [i \in 1..q |-> Message("frame", SubSeq(audio, lo(i), hi(i)))]
  BY DEF Messages
<1> HIDE DEF n, c, q, z, ms, rest, lo, hi
<1>9. ASSUME NEW i \in 1..q
      PROVE  /\ ms[i].body \in Seq(Sample) /\ Len(ms[i].body) = c /\ InOrder(ms[i].body)
             /\ \A s : s \in Range(ms[i].body) <=> \E k \in lo(i)..hi(i) : s = audio[k]
  <2>1. lo(i) \in Nat \ {0} /\ hi(i) \in Nat /\ lo(i) <= hi(i) + 1 /\ hi(i) <= n
    BY <1>1, <1>2, <1>3
  <2>2. /\ SubSeq(audio, lo(i), hi(i)) \in Seq(Sample)
        /\ Len(SubSeq(audio, lo(i), hi(i))) = hi(i) - lo(i) + 1
        /\ \A s : s \in Range(SubSeq(audio, lo(i), hi(i))) <=> \E k \in lo(i)..hi(i) : s = audio[k]
        /\ InOrder(SubSeq(audio, lo(i), hi(i)))
    BY <2>1, Stretch DEF n
  <2> QED BY <1>3, <1>6, <2>2
<1>10. /\ rest \in Seq(Sample) /\ Len(rest) < c /\ InOrder(rest)
       /\ \A s : s \in Range(rest) <=> \E k \in z + 1..n : s = audio[k]
  <2> DEFINE a == z + 1
  <2>1. a \in Nat \ {0} /\ a <= n + 1 /\ n - a + 1 < c
    BY <1>1, <1>2
  <2>2. rest = SubSeq(audio, a, n)
    BY <1>7
  <2> HIDE DEF a
  <2>3. /\ SubSeq(audio, a, n) \in Seq(Sample) /\ Len(SubSeq(audio, a, n)) = n - a + 1
        /\ \A s : s \in Range(SubSeq(audio, a, n)) <=> \E k \in a..n : s = audio[k]
        /\ InOrder(SubSeq(audio, a, n))
    BY <1>1, <2>1, Stretch DEF n
  <2>4. /\ rest \in Seq(Sample) /\ Len(rest) < c /\ InOrder(rest)
        /\ \A s : s \in Range(rest) <=> \E k \in a..n : s = audio[k]
    BY <2>1, <2>2, <2>3
  <2> QED BY <2>4 DEF a
<1>11. ms \in Seq(MessageSet) /\ Len(ms) = q
  <2>1. ms \in [1..q -> MessageSet]
    <3>1. \A i \in 1..q : Message("frame", SubSeq(audio, lo(i), hi(i))) \in MessageSet
      BY <1>6, <1>9 DEF Message, MessageSet
    <3> QED BY <1>8, <3>1
  <2> QED BY <1>2, <2>1
<1>12. \A s : s \in Range(audio) <=> \E k \in 1..n : s = audio[k]
  BY <1>1 DEF Range, n
<1>13. \A k, m \in 1..n : k < m => audio[k].number < audio[m].number
  BY DEF InOrder, n
<1>14. \A i \in 1..q : \A k \in lo(i)..hi(i) : k \in 1..n /\ k <= z
  <2> SUFFICES ASSUME NEW i \in 1..q, NEW k \in lo(i)..hi(i) PROVE k \in 1..n /\ k <= z
    OBVIOUS
  <2> QED BY <1>1, <1>2, <1>3
<1>15. \A k \in z + 1..n : k \in 1..n /\ z < k
  BY <1>1, <1>2
<1>16. \A i \in 1..q : Range(ms[i].body) \subseteq Range(audio) /\ Precedes(ms[i].body, rest)
  <2> SUFFICES ASSUME NEW i \in 1..q
               PROVE  Range(ms[i].body) \subseteq Range(audio) /\ Precedes(ms[i].body, rest)
    OBVIOUS
  <2>1. \A s : s \in Range(ms[i].body) <=> \E k \in lo(i)..hi(i) : s = audio[k]
    BY <1>9
  <2>2. \A k \in lo(i)..hi(i) : k \in 1..n /\ k <= z
    BY <1>14
  <2>3. ASSUME NEW s \in Range(ms[i].body) PROVE s \in Range(audio)
    <3>1. PICK k \in lo(i)..hi(i) : s = audio[k]
      BY <2>1
    <3>2. k \in 1..n
      BY <2>2
    <3> QED BY <1>12, <3>1, <3>2
  <2>4. ASSUME NEW s \in Range(ms[i].body), NEW r \in Range(rest) PROVE s.number < r.number
    <3>1. PICK k \in lo(i)..hi(i) : s = audio[k]
      BY <2>1
    <3>2. PICK m \in z + 1..n : r = audio[m]
      BY <1>10
    <3>3. k \in 1..n /\ m \in 1..n /\ k <= z /\ z < m
      BY <1>15, <2>2
    <3>4. k < m
      BY <1>1, <1>2, <3>3
    <3> QED BY <1>13, <3>1, <3>2, <3>3, <3>4
  <2> QED BY <2>3, <2>4 DEF Precedes
<1>17. \A i, j \in 1..q : i < j => Precedes(ms[i].body, ms[j].body)
  <2> SUFFICES ASSUME NEW i \in 1..q, NEW j \in 1..q, i < j,
                      NEW s \in Range(ms[i].body), NEW r \in Range(ms[j].body)
               PROVE  s.number < r.number
    BY DEF Precedes
  <2>1. \A t : t \in Range(ms[i].body) => \E k \in lo(i)..hi(i) : t = audio[k]
    BY <1>9
  <2>2. \A t : t \in Range(ms[j].body) => \E k \in lo(j)..hi(j) : t = audio[k]
    BY <1>9
  <2>3. PICK k \in lo(i)..hi(i) : s = audio[k]
    BY <2>1
  <2>4. PICK m \in lo(j)..hi(j) : r = audio[m]
    BY <2>2
  <2>5. k \in 1..n /\ m \in 1..n
    BY <1>14
  <2>6. hi(i) \in Nat /\ lo(j) \in Nat /\ hi(i) < lo(j)
    BY <1>3, <1>4
  <2>7. k < m
    BY <1>1, <2>5, <2>6
  <2> QED BY <1>13, <2>3, <2>4, <2>5, <2>7
<1>18. Range(rest) \subseteq Range(audio)
  BY <1>10, <1>12, <1>15
<1>19. \A s \in Range(audio) : s \in Range(rest) \/ \E i \in 1..q : s \in Range(ms[i].body)
  <2> SUFFICES ASSUME NEW k \in 1..n
               PROVE  audio[k] \in Range(rest) \/ \E i \in 1..q : audio[k] \in Range(ms[i].body)
    BY <1>12
  <2>1. k \in 1..z \/ k \in z + 1..n
    BY <1>1, <1>2
  <2> QED BY <1>5, <1>9, <1>10, <2>1
<1>20. Cut(audio, ms, rest)
  BY <1>9, <1>10, <1>11, <1>16, <1>17, <1>18, <1>19 DEF Cut
<1> QED BY <1>6, <1>9, <1>10, <1>11, <1>20 DEF ms, rest, c

\* A sequence that leaves in one message.
LEMMA WholeCut ==
    ASSUME NEW audio \in Seq(Sample), InOrder(audio), NEW m, m.body = audio
    PROVE  Cut(audio, <<m>>, <<>>)
<1>1. InOrder(<<>>) /\ Range(<<>>) = {}
  BY DEF InOrder, Range
<1>2. Len(<<m>>) = 1 /\ <<m>>[1] = m
  OBVIOUS
<1> QED BY <1>1, <1>2 DEF Cut, Precedes

\* A message without audio, or none, takes nothing.
LEMMA NothingCut ==
    ASSUME NEW audio \in Seq(Sample), InOrder(audio), NEW m, m.body = <<>>
    PROVE  Cut(audio, <<m>>, audio) /\ Cut(audio, <<>>, audio)
<1>1. InOrder(<<>>) /\ Range(<<>>) = {}
  BY DEF InOrder, Range
<1>2. Len(<<m>>) = 1 /\ <<m>>[1] = m /\ Len(<<>>) = 0
  OBVIOUS
<1> QED BY <1>1, <1>2 DEF Cut, Precedes

\* The elements of a concatenation are those of its parts.
LEMMA Joined ==
    ASSUME NEW s \in Seq(Sample), NEW t \in Seq(Sample)
    PROVE  /\ s \o t \in Seq(Sample) /\ Len(s \o t) = Len(s) + Len(t)
           /\ Range(s \o t) = Range(s) \cup Range(t)
           /\ InOrder(s) /\ InOrder(t) /\ Precedes(s, t) => InOrder(s \o t)
<1> DEFINE both == s \o t
           n == Len(s)
           m == Len(t)
<1>1. n \in Nat /\ m \in Nat
  BY LenProperties
<1>2. /\ both \in Seq(Sample) /\ Len(both) = n + m /\ DOMAIN both = 1..(n + m)
      /\ \A i \in 1..(n + m) : both[i] = IF i <= n THEN s[i] ELSE t[i - n]
  BY ConcatProperties
<1>3. DOMAIN s = 1..n /\ DOMAIN t = 1..m
  OBVIOUS
<1> HIDE DEF both, n, m
<1>4. Range(both) \subseteq Range(s) \cup Range(t)
  <2> SUFFICES ASSUME NEW i \in 1..(n + m) PROVE both[i] \in Range(s) \cup Range(t)
    BY <1>2 DEF Range
  <2>1. CASE i <= n
    <3>1. i \in 1..n /\ both[i] = s[i]
      BY <1>1, <1>2, <2>1
    <3> QED BY <1>3, <3>1 DEF Range
  <2>2. CASE ~ (i <= n)
    <3>1. i - n \in 1..m /\ both[i] = t[i - n]
      BY <1>1, <1>2, <2>2
    <3> QED BY <1>3, <3>1 DEF Range
  <2> QED BY <2>1, <2>2
<1>5. Range(s) \subseteq Range(both)
  <2> SUFFICES ASSUME NEW i \in 1..n PROVE s[i] \in Range(both)
    BY <1>3 DEF Range
  <2>1. i \in 1..(n + m) /\ both[i] = s[i]
    BY <1>1, <1>2
  <2> QED BY <1>2, <2>1 DEF Range
<1>6. Range(t) \subseteq Range(both)
  <2> SUFFICES ASSUME NEW i \in 1..m PROVE t[i] \in Range(both)
    BY <1>3 DEF Range
  <2>1. n + i \in 1..(n + m) /\ both[n + i] = t[i]
    BY <1>1, <1>2
  <2> QED BY <1>2, <2>1 DEF Range
<1>7. ASSUME InOrder(s), InOrder(t), Precedes(s, t) PROVE InOrder(both)
  <2> SUFFICES ASSUME NEW i \in 1..(n + m), NEW j \in 1..(n + m), i < j
               PROVE  both[i].number < both[j].number
    BY <1>2 DEF InOrder
  <2>1. CASE j <= n
    <3>1. i \in 1..n /\ j \in 1..n /\ both[i] = s[i] /\ both[j] = s[j]
      BY <1>1, <1>2, <2>1
    <3> QED BY <1>7, <3>1 DEF InOrder, n
  <2>2. CASE i <= n /\ ~ (j <= n)
    <3>1. i \in 1..n /\ j - n \in 1..m /\ both[i] = s[i] /\ both[j] = t[j - n]
      BY <1>1, <1>2, <2>2
    <3>2. s[i] \in Range(s) /\ t[j - n] \in Range(t)
      BY <1>3, <3>1 DEF Range
    <3> QED BY <1>7, <3>1, <3>2 DEF Precedes
  <2>3. CASE ~ (i <= n)
    <3>1. /\ i - n \in 1..m /\ j - n \in 1..m /\ i - n < j - n
          /\ both[i] = t[i - n] /\ both[j] = t[j - n]
      BY <1>1, <1>2, <2>3
    <3> QED BY <1>7, <3>1 DEF InOrder, m
  <2> QED BY <2>1, <2>2, <2>3
<1> QED BY <1>2, <1>4, <1>5, <1>6, <1>7 DEF both, n, m

-----------------------------------------------------------------------------
(* What any step that sends does to the wire and the buffer.                *)

\* What was on the wire stays, and what is added are the messages, in their order.
LEMMA Added ==
    ASSUME wire \in Seq(MessageSet), NEW ms \in Seq(MessageSet), NEW w, w = Sent(ms)
    PROVE  /\ w \in Seq(MessageSet) /\ Len(wire) \in Nat
           /\ \A i \in 1..Len(wire) : i \in 1..Len(w) /\ w[i] = wire[i]
           /\ \A i \in 1..Len(w) :
                  \/ i \in 1..Len(wire) /\ w[i] = wire[i]
                  \/ Len(wire) < i /\ \E k \in 1..Len(ms) : i = Len(wire) + k /\ w[i] = ms[k]
           /\ Connected => \A k \in 1..Len(ms) :
                               Len(wire) + k \in 1..Len(w) /\ w[Len(wire) + k] = ms[k]
<1>1. Len(wire) \in Nat /\ Len(ms) \in Nat
  BY LenProperties
<1>2. CASE ~Connected
  BY <1>1, <1>2 DEF Sent
<1>3. CASE Connected
  <2>1. w = wire \o ms
    BY <1>3 DEF Sent
  <2>2. /\ w \in Seq(MessageSet) /\ Len(w) = Len(wire) + Len(ms)
        /\ \A i \in 1..(Len(wire) + Len(ms)) :
               w[i] = IF i <= Len(wire) THEN wire[i] ELSE ms[i - Len(wire)]
    BY <2>1, ConcatProperties
  <2>3. \A i \in 1..Len(wire) : i \in 1..Len(w) /\ w[i] = wire[i]
    BY <1>1, <2>2
  <2>4. \A k \in 1..Len(ms) : Len(wire) + k \in 1..Len(w) /\ w[Len(wire) + k] = ms[k]
    BY <1>1, <2>2
  <2>5. ASSUME NEW i \in 1..Len(w), ~ (i \in 1..Len(wire) /\ w[i] = wire[i])
        PROVE  Len(wire) < i /\ \E k \in 1..Len(ms) : i = Len(wire) + k /\ w[i] = ms[k]
    <3>1. Len(wire) < i
      BY <1>1, <2>3, <2>5
    <3>2. i - Len(wire) \in 1..Len(ms) /\ i = Len(wire) + (i - Len(wire))
      BY <1>1, <2>2, <3>1
    <3> QED BY <2>4, <3>1, <3>2
  <2> QED BY <1>1, <2>2, <2>3, <2>4, <2>5
<1> QED BY <1>2, <1>3

\* A step that sends: audio is the buffer and what was read, which it cuts into messages
\* and the rest; a silence or a final JSON is sent alone and with an empty buffer.
Emits(audio, messages, rest) ==
    /\ wire' = Sent(messages) /\ sbuffer' = rest
    /\ audio \in Seq(Sample) /\ messages \in Seq(MessageSet) /\ rest \in Seq(Sample)
    /\ Cut(audio, messages, rest)
    /\ Range(sbuffer) \subseteq Range(audio)
    /\ \A s \in Range(audio) : s \in Range(sbuffer) \/ (next < s.number /\ s.number <= next')
    /\ \A n \in (next + 1)..next' : \E s \in Range(audio) : s.number = n
    /\ next' \in Nat /\ next <= next'
    /\ \A k \in 1..Len(messages) :
           /\ messages[k].upto = next
           /\ rtp_packets > 1 /\ messages[k].kind = "frame" => Len(messages[k].body) = Capacity
           /\ rtp_packets > 1 /\ messages[k].kind = "residue" => Len(messages[k].body) < Capacity
           /\ messages[k].kind \in {"silence", "final"} => Len(messages) = 1 /\ rest = <<>>

\* The audio on the wire and in the buffer stays in order.
LEMMA EmitsOrdered ==
    ASSUME TypeOK, Ordered, NEW audio, NEW ms, NEW rest, Emits(audio, ms, rest)
    PROVE  Ordered'
<1> DEFINE w == wire'
<1>1. wire \in Seq(MessageSet) /\ next \in Nat /\ next' \in Nat /\ next <= next'
  BY DEF TypeOK, Emits, MessageSet
<1>2. w = Sent(ms) /\ ms \in Seq(MessageSet) /\ Cut(audio, ms, rest) /\ sbuffer' = rest
  BY DEF Emits
<1> HIDE DEF w
<1>3. /\ w \in Seq(MessageSet) /\ Len(wire) \in Nat
      /\ \A i \in 1..Len(w) :
             \/ i \in 1..Len(wire) /\ w[i] = wire[i]
             \/ Len(wire) < i /\ \E k \in 1..Len(ms) : i = Len(wire) + k /\ w[i] = ms[k]
  BY <1>1, <1>2, Added
<1>4. \A s \in Range(audio) : s \in Range(sbuffer) \/ (next < s.number /\ s.number <= next')
  BY DEF Emits
<1>5. \A s \in Range(audio) : s \in Sample
  <2>1. audio \in Seq(Sample)
    BY DEF Emits
  <2> QED BY <2>1 DEF Range
<1>6. \A i \in 1..Len(wire) : \A s \in Range(wire[i].body) : s \in Sample
  <2> SUFFICES ASSUME NEW i \in 1..Len(wire) PROVE \A s \in Range(wire[i].body) : s \in Sample
    OBVIOUS
  <2>1. wire[i] \in MessageSet
    BY <1>1, ElementOfSeq
  <2>2. wire[i].body \in Seq(Sample)
    BY <2>1 DEF MessageSet
  <2> QED BY <2>2 DEF Range
<1>7. \A i \in 1..Len(wire) : \A s \in Range(wire[i].body), r \in Range(audio) : s.number < r.number
  <2> SUFFICES ASSUME NEW i \in 1..Len(wire), NEW s \in Range(wire[i].body), NEW r \in Range(audio)
               PROVE  s.number < r.number
    OBVIOUS
  <2>1. s.number \in Nat /\ r.number \in Nat
    BY <1>5, <1>6 DEF Sample
  <2>2. CASE r \in Range(sbuffer)
    BY <2>2 DEF Ordered, SentInOrder, Precedes
  <2>3. CASE next < r.number
    <3>1. s.number <= next
      BY DEF Ordered
    <3> QED BY <1>1, <2>1, <2>3, <3>1
  <2> QED BY <1>4, <2>2, <2>3
<1>8. \A s \in Range(audio) : s.number <= next'
  <2> SUFFICES ASSUME NEW s \in Range(audio) PROVE s.number <= next'
    OBVIOUS
  <2>1. s.number \in Nat
    BY <1>5 DEF Sample
  <2>2. CASE s \in Range(sbuffer)
    <3>1. s.number <= next
      BY <2>2 DEF Ordered
    <3> QED BY <1>1, <2>1, <3>1
  <2> QED BY <1>4, <2>2
<1>9. \A i \in 1..Len(wire) : \A s \in Range(wire[i].body) : s.number <= next'
  <2> SUFFICES ASSUME NEW i \in 1..Len(wire), NEW s \in Range(wire[i].body) PROVE s.number <= next'
    OBVIOUS
  <2>1. s.number \in Nat /\ s.number <= next
    BY <1>6 DEF Sample, Ordered
  <2> QED BY <1>1, <2>1
<1>10. \A k \in 1..Len(ms) : /\ InOrder(ms[k].body) /\ Range(ms[k].body) \subseteq Range(audio)
                             /\ Precedes(ms[k].body, rest)
  BY <1>2 DEF Cut
<1>11. InOrder(rest) /\ Range(rest) \subseteq Range(audio)
  BY <1>2 DEF Cut
<1>12. \A i \in 1..Len(w) : InOrder(w[i].body) /\ Precedes(w[i].body, rest)
  <2> SUFFICES ASSUME NEW i \in 1..Len(w) PROVE InOrder(w[i].body) /\ Precedes(w[i].body, rest)
    OBVIOUS
  <2>1. CASE i \in 1..Len(wire) /\ w[i] = wire[i]
    BY <1>7, <1>11, <2>1 DEF Ordered, SentInOrder, Precedes
  <2>2. CASE \E k \in 1..Len(ms) : w[i] = ms[k]
    BY <1>10, <2>2
  <2> QED BY <1>3, <2>1, <2>2
<1>13. \A i, j \in 1..Len(w) : i < j => Precedes(w[i].body, w[j].body)
  <2> SUFFICES ASSUME NEW i \in 1..Len(w), NEW j \in 1..Len(w), i < j
               PROVE  Precedes(w[i].body, w[j].body)
    OBVIOUS
  <2>1. CASE j \in 1..Len(wire) /\ w[j] = wire[j]
    <3>1. i \in 1..Len(wire) /\ w[i] = wire[i]
      BY <1>3, <2>1
    <3> QED BY <2>1, <3>1 DEF Ordered, SentInOrder
  <2>2. CASE i \in 1..Len(wire) /\ w[i] = wire[i] /\ \E k \in 1..Len(ms) : w[j] = ms[k]
    <3>1. PICK k \in 1..Len(ms) : w[j] = ms[k]
      BY <2>2
    <3>2. Range(w[j].body) \subseteq Range(audio)
      BY <1>10, <3>1
    <3> QED BY <1>7, <2>2, <3>2 DEF Precedes
  <2>3. CASE /\ \E k \in 1..Len(ms) : i = Len(wire) + k /\ w[i] = ms[k]
             /\ \E k \in 1..Len(ms) : j = Len(wire) + k /\ w[j] = ms[k]
    <3>1. PICK k \in 1..Len(ms) : i = Len(wire) + k /\ w[i] = ms[k]
      BY <2>3
    <3>2. PICK l \in 1..Len(ms) : j = Len(wire) + l /\ w[j] = ms[l]
      BY <2>3
    <3>3. k < l
      BY <1>3, <3>1, <3>2
    <3> QED BY <1>2, <3>1, <3>2, <3>3 DEF Cut
  <2> QED BY <1>3, <2>1, <2>2, <2>3
<1>14. \A i \in 1..Len(w) : \A s \in Range(w[i].body) : s.number <= next'
  <2> SUFFICES ASSUME NEW i \in 1..Len(w) PROVE \A s \in Range(w[i].body) : s.number <= next'
    OBVIOUS
  <2>1. CASE \E k \in 1..Len(ms) : w[i] = ms[k]
    BY <1>8, <1>10, <2>1
  <2> QED BY <1>3, <1>9, <2>1
<1> QED BY <1>2, <1>8, <1>11, <1>12, <1>13, <1>14 DEF Ordered, SentInOrder, w

\* While the first connection is open no audio is lost.
LEMMA EmitsKept ==
    ASSUME TypeOK, NothingLostWhileConnected, conn' = conn, link' = link,
           NEW audio, NEW ms, NEW rest, Emits(audio, ms, rest)
    PROVE  NothingLostWhileConnected'
<1> DEFINE w == wire'
<1>1. /\ wire \in Seq(MessageSet) /\ next \in Nat /\ next' \in Nat
      /\ w = Sent(ms) /\ ms \in Seq(MessageSet) /\ Cut(audio, ms, rest) /\ sbuffer' = rest
  BY DEF TypeOK, Emits, MessageSet
<1> HIDE DEF w
<1> SUFFICES ASSUME conn = 1, Connected, NEW n \in 1..next'
             PROVE  \/ \E s \in Range(rest) : s.number = n
                    \/ \E i \in 1..Len(w) : \E s \in Range(w[i].body) : s.number = n
  BY <1>1 DEF NothingLostWhileConnected, Connected, w
<1>2. /\ \A i \in 1..Len(wire) : i \in 1..Len(w) /\ w[i] = wire[i]
      /\ \A k \in 1..Len(ms) : Len(wire) + k \in 1..Len(w) /\ w[Len(wire) + k] = ms[k]
  BY <1>1, Added
<1>3. CASE \E s \in Range(audio) : s.number = n
  <2>1. PICK s \in Range(audio) : s.number = n
    BY <1>3
  <2>2. CASE s \in Range(rest)
    BY <2>1, <2>2
  <2>3. CASE \E k \in 1..Len(ms) : s \in Range(ms[k].body)
    BY <1>2, <2>1, <2>3
  <2> QED BY <1>1, <2>1, <2>2, <2>3 DEF Cut
<1>4. CASE n \in 1..next
  <2>1. \/ \E s \in Range(sbuffer) : s.number = n
        \/ \E i \in 1..Len(wire) : \E s \in Range(wire[i].body) : s.number = n
    BY <1>4 DEF NothingLostWhileConnected
  <2>2. CASE \E s \in Range(sbuffer) : s.number = n
    BY <1>3, <2>2 DEF Emits
  <2>3. CASE \E i \in 1..Len(wire) : \E s \in Range(wire[i].body) : s.number = n
    BY <1>2, <2>3
  <2> QED BY <2>1, <2>2, <2>3
<1>5. CASE ~ (n \in 1..next)
  <2>1. n \in (next + 1)..next'
    BY <1>1, <1>5
  <2> QED BY <1>3, <2>1 DEF Emits
<1> QED BY <1>4, <1>5

\* A message of stream_frame is a full buffer, a residue less.
LEMMA EmitsFull ==
    ASSUME TypeOK, FullMessages, rtp_packets' = rtp_packets,
           NEW audio, NEW ms, NEW rest, Emits(audio, ms, rest)
    PROVE  FullMessages'
<1> DEFINE w == wire'
<1>1. wire \in Seq(MessageSet) /\ w = Sent(ms) /\ ms \in Seq(MessageSet)
  BY DEF TypeOK, Emits, MessageSet
<1> HIDE DEF w
<1> SUFFICES ASSUME rtp_packets > 1, NEW i \in 1..Len(w)
             PROVE  /\ w[i].kind = "frame" => Len(w[i].body) = Capacity
                    /\ w[i].kind = "residue" => Len(w[i].body) < Capacity
  BY DEF FullMessages, Capacity, w
<1>2. \/ i \in 1..Len(wire) /\ w[i] = wire[i]
      \/ \E k \in 1..Len(ms) : w[i] = ms[k]
  BY <1>1, Added
<1>3. CASE i \in 1..Len(wire) /\ w[i] = wire[i]
  BY <1>3 DEF FullMessages
<1>4. CASE \E k \in 1..Len(ms) : w[i] = ms[k]
  BY <1>4 DEF Emits
<1> QED BY <1>2, <1>3, <1>4

\* Silence and the final JSON keep their place.
LEMMA EmitsMarked ==
    ASSUME TypeOK, Ordered, Marked,
           NEW audio, NEW ms, NEW rest, Emits(audio, ms, rest)
    PROVE  /\ MarksAudio'
           /\ \A i \in 1..Len(wire') : wire'[i].upto <= next'
<1> DEFINE w == wire'
<1>1. /\ wire \in Seq(MessageSet) /\ w = Sent(ms) /\ ms \in Seq(MessageSet) /\ Cut(audio, ms, rest)
      /\ sbuffer' = rest /\ next \in Nat /\ next' \in Nat /\ next <= next'
  BY DEF TypeOK, Emits, MessageSet
<1> HIDE DEF w
<1>2. /\ Len(wire) \in Nat
      /\ \A i \in 1..Len(w) :
             \/ i \in 1..Len(wire) /\ w[i] = wire[i]
             \/ Len(wire) < i /\ \E k \in 1..Len(ms) : i = Len(wire) + k /\ w[i] = ms[k]
  BY <1>1, Added
<1>3. \A i \in 1..Len(wire) : wire[i].upto \in Nat /\ wire[i].upto <= next
  <2> SUFFICES ASSUME NEW i \in 1..Len(wire) PROVE wire[i].upto \in Nat /\ wire[i].upto <= next
    OBVIOUS
  <2>1. wire[i] \in MessageSet
    BY <1>1, ElementOfSeq
  <2> QED BY <2>1 DEF MessageSet, Marked
<1>4. \A k \in 1..Len(ms) :
          /\ ms[k].upto = next
          /\ ms[k].kind \in {"silence", "final"} => Len(ms) = 1 /\ rest = <<>>
          /\ Range(ms[k].body) \subseteq Range(audio)
  BY <1>1 DEF Emits, Cut
<1>5. ASSUME NEW i \in 1..Len(wire), wire[i].kind \in {"silence", "final"}, NEW s \in Range(audio)
      PROVE  s.number > wire[i].upto
  <2>1. audio \in Seq(Sample)
    BY DEF Emits
  <2>2. s.number \in Nat
    <3>1. s \in Sample
      BY <1>5, <2>1 DEF Range
    <3> QED BY <3>1 DEF Sample
  <2>3. CASE s \in Range(sbuffer)
    BY <1>5, <2>3 DEF Marked, MarksAudio
  <2>4. CASE next < s.number
    BY <1>1, <1>3, <2>2, <2>4
  <2> QED BY <2>3, <2>4 DEF Emits
<1>6. ASSUME NEW i \in 1..Len(w), w[i].kind \in {"silence", "final"}
      PROVE  /\ \A s \in Range(rest) : s.number > w[i].upto
             /\ \A j \in (i + 1)..Len(w) : \A s \in Range(w[j].body) : s.number > w[i].upto
  <2>1. CASE i \in 1..Len(wire) /\ w[i] = wire[i]
    <3>1. wire[i].kind \in {"silence", "final"}
      BY <1>6, <2>1
    <3>2. Range(rest) \subseteq Range(audio)
      BY <1>1 DEF Cut
    <3>3. ASSUME NEW j \in (i + 1)..Len(w), NEW s \in Range(w[j].body) PROVE s.number > w[i].upto
      <4>1. j \in 1..Len(w) /\ i < j
        BY <1>1
      <4>2. CASE j \in 1..Len(wire) /\ w[j] = wire[j]
        <5>1. j \in (i + 1)..Len(wire)
          BY <1>2, <4>1, <4>2
        <5> QED BY <2>1, <3>1, <3>3, <4>2, <5>1 DEF Marked, MarksAudio
      <4>3. CASE \E k \in 1..Len(ms) : w[j] = ms[k]
        <5>1. s \in Range(audio)
          BY <1>4, <3>3, <4>3
        <5> QED BY <1>5, <2>1, <3>1, <5>1
      <4> QED BY <1>2, <4>1, <4>2, <4>3
    <3>4. \A s \in Range(audio) : s.number > w[i].upto
      BY <1>5, <2>1, <3>1
    <3> QED BY <3>2, <3>3, <3>4
  <2>2. CASE \E k \in 1..Len(ms) : i = Len(wire) + k /\ w[i] = ms[k]
    <3>1. PICK k \in 1..Len(ms) : i = Len(wire) + k /\ w[i] = ms[k]
      BY <2>2
    <3>2. Len(ms) = 1 /\ rest = <<>> /\ k = 1
      BY <1>4, <1>6, <3>1
    <3>3. Range(rest) = {}
      BY <3>2 DEF Range
    <3>4. (i + 1)..Len(w) = {}
      <4> SUFFICES ASSUME NEW j \in (i + 1)..Len(w) PROVE FALSE
        OBVIOUS
      <4>1. j \in 1..Len(w) /\ Len(wire) + 1 < j
        BY <1>2, <3>1, <3>2
      <4>2. ~ (j \in 1..Len(wire))
        BY <1>2, <4>1
      <4>3. PICK l \in 1..Len(ms) : j = Len(wire) + l
        BY <1>2, <4>1, <4>2
      <4> QED BY <1>2, <3>2, <4>1, <4>3
    <3> QED BY <3>3, <3>4
  <2> QED BY <1>2, <2>1, <2>2
<1>7. ASSUME NEW i \in 1..Len(w) PROVE w[i].upto <= next'
  <2>1. CASE i \in 1..Len(wire) /\ w[i] = wire[i]
    BY <1>1, <1>3, <2>1
  <2>2. CASE \E k \in 1..Len(ms) : w[i] = ms[k]
    BY <1>1, <1>4, <2>2
  <2> QED BY <1>2, <2>1, <2>2
<1> QED BY <1>1, <1>6, <1>7 DEF MarksAudio, w

-----------------------------------------------------------------------------
(* The steps that send.                                                     *)

\* A function on an initial segment of the positive numbers is a sequence.
LEMMA IsSequence ==
    ASSUME NEW S, NEW n \in Nat, NEW f \in [1..n -> S]
    PROVE  f \in Seq(S) /\ Len(f) = n
OBVIOUS

\* The samples one frame of the bug becomes are new, and of the current connection.
LEMMA SamplesRead ==
    ASSUME next \in Nat, conn \in Nat, NEW n \in Nat,
           NEW samples, samples = [i \in 1..n |-> [number |-> next + i, conn |-> conn]]
    PROVE  /\ samples \in Seq(Sample) /\ Len(samples) = n /\ InOrder(samples)
           /\ \A s \in Range(samples) : next < s.number /\ s.number <= next + n /\ s.conn = conn
           /\ \A m \in (next + 1)..(next + n) : \E s \in Range(samples) : s.number = m
<1>1. \A i \in 1..n : [number |-> next + i, conn |-> conn] \in Sample
  BY DEF Sample
<1>2. samples \in [1..n -> Sample]
  BY <1>1
<1>3. samples \in Seq(Sample) /\ Len(samples) = n /\ DOMAIN samples = 1..n
  <2>1. samples \in Seq(Sample) /\ Len(samples) = n
    BY <1>2, IsSequence
  <2> QED BY <1>2, <2>1
<1>4. \A i \in 1..n : samples[i].number = next + i /\ samples[i].conn = conn
  OBVIOUS
<1>5. InOrder(samples)
  BY <1>3, <1>4 DEF InOrder
<1>6. \A s \in Range(samples) : next < s.number /\ s.number <= next + n /\ s.conn = conn
  <2> SUFFICES ASSUME NEW i \in 1..n
               PROVE  /\ next < samples[i].number /\ samples[i].number <= next + n
                      /\ samples[i].conn = conn
    BY <1>3 DEF Range
  <2> QED BY <1>4
<1>7. \A m \in (next + 1)..(next + n) : \E s \in Range(samples) : s.number = m
  <2> SUFFICES ASSUME NEW m \in (next + 1)..(next + n) PROVE \E s \in Range(samples) : s.number = m
    OBVIOUS
  <2>1. m - next \in 1..n /\ next + (m - next) = m
    OBVIOUS
  <2>2. samples[m - next] \in Range(samples) /\ samples[m - next].number = m
    BY <1>3, <1>4, <2>1 DEF Range
  <2> QED BY <2>2
<1> QED BY <1>3, <1>5, <1>6, <1>7

\* A message is of its type.
LEMMA MessageType ==
    ASSUME conn \in Nat, next \in Nat, NEW body \in Seq(Sample),
           NEW kind \in {"frame", "residue", "silence", "json", "final"}
    PROVE  /\ Message(kind, body) \in MessageSet /\ Message(kind, body).body = body
           /\ Message(kind, body).kind = kind /\ Message(kind, body).upto = next
           /\ <<>> \in Seq(MessageSet) /\ <<Message(kind, body)>> \in Seq(MessageSet)
           /\ <<Message(kind, body)>>[1] = Message(kind, body) /\ Len(<<Message(kind, body)>>) = 1
<1>1. /\ Message(kind, body) \in MessageSet /\ Message(kind, body).body = body
      /\ Message(kind, body).kind = kind /\ Message(kind, body).upto = next
  BY DEF Message, MessageSet
<1>2. ASSUME NEW m \in MessageSet PROVE <<m>> \in Seq(MessageSet) /\ <<m>>[1] = m /\ Len(<<m>>) = 1
  OBVIOUS
<1> QED BY <1>1, <1>2

\* ReadFrame sends what it cannot keep, and keeps the rest.
LEMMA ReadFrameEmits ==
    ASSUME IInv, ReadFrame
    PROVE  \E audio, ms, rest :
               /\ Emits(audio, ms, rest) /\ Len(rest) < Capacity
               /\ \A s \in Range(rest) : s \in Range(sbuffer) \/ s.conn = conn
               /\ rtp_packets = 1 => rest = <<>>
<1>1. /\ next \in Nat /\ conn \in Nat /\ sbuffer \in Seq(Sample) /\ Len(sbuffer) < Capacity
      /\ rtp_packets \in RtpPackets /\ InOrder(sbuffer)
      /\ \A s \in Range(sbuffer) : s.number <= next
  BY DEF IInv, TypeOK, Ordered, SentInOrder
<1>2. PICK n \in OutputSizes :
          LET samples == [i \in 1..n |-> [number |-> next + i, conn |-> conn]]
          IN  /\ next + n <= MaxSamples /\ next' = next + n
              /\ IF rtp_packets = 1
                 THEN /\ wire' = IF n = 0 THEN wire ELSE Sent(<<Message("frame", samples)>>)
                      /\ UNCHANGED sbuffer
                 ELSE /\ wire' = Sent(Messages(sbuffer \o samples))
                      /\ sbuffer' = Rest(sbuffer \o samples)
  BY DEF ReadFrame
<1> DEFINE samples == [i \in 1..n |-> [number |-> next + i, conn |-> conn]]
<1>3. n \in Nat /\ next' = next + n /\ next' \in Nat /\ next <= next'
  BY <1>1, <1>2
<1>4. /\ samples \in Seq(Sample) /\ Len(samples) = n /\ InOrder(samples)
      /\ \A s \in Range(samples) : next < s.number /\ s.number <= next + n /\ s.conn = conn
      /\ \A m \in (next + 1)..(next + n) : \E s \in Range(samples) : s.number = m
  BY <1>1, <1>3, SamplesRead
<1>5. /\ rtp_packets = 1 /\ n = 0 => wire' = wire /\ sbuffer' = sbuffer
      /\ rtp_packets = 1 /\ n # 0 => wire' = Sent(<<Message("frame", samples)>>) /\ sbuffer' = sbuffer
      /\ rtp_packets # 1 => wire' = Sent(Messages(sbuffer \o samples)) /\ sbuffer' = Rest(sbuffer \o samples)
  BY <1>2
<1> HIDE DEF samples
<1>6. CASE rtp_packets = 1 /\ n # 0
  <2> DEFINE m == Message("frame", samples)
  <2>1. sbuffer = <<>> /\ Range(sbuffer) = {}
    BY <1>6 DEF IInv, Full, Range
  <2>2. /\ m \in MessageSet /\ m.body = samples /\ m.kind = "frame" /\ m.upto = next
        /\ <<m>> \in Seq(MessageSet) /\ <<m>>[1] = m /\ Len(<<m>>) = 1
    BY <1>1, <1>4, MessageType
  <2> HIDE DEF m
  <2>3. Cut(samples, <<m>>, <<>>)
    BY <1>4, <2>2, WholeCut
  <2>4. wire' = Sent(<<m>>) /\ sbuffer' = <<>>
    BY <1>5, <1>6, <2>1 DEF m
  <2>5. Emits(samples, <<m>>, <<>>)
    BY <1>3, <1>4, <1>6, <2>1, <2>2, <2>3, <2>4 DEF Emits
  <2>6. Range(<<>>) = {} /\ Len(<<>>) < Capacity
    BY <1>1, <2>1
  <2> QED BY <2>1, <2>5, <2>6
<1>7. CASE rtp_packets = 1 /\ n = 0
  <2>1. sbuffer = <<>> /\ Range(sbuffer) = {}
    BY <1>7 DEF IInv, Full, Range
  <2>2. <<>> \in Seq(MessageSet) /\ Sent(<<>>) = wire
    <3>1. wire \in Seq(MessageSet)
      BY DEF IInv, TypeOK, MessageSet
    <3>2. wire \o <<>> = wire
      BY <3>1, ConcatEmptySeq
    <3> QED BY <3>2 DEF Sent
  <2>3. Cut(sbuffer, <<>>, sbuffer)
    <3>1. Message("json", <<>>).body = <<>>
      BY DEF Message
    <3> QED BY <1>1, <3>1, NothingCut
  <2>4. Emits(sbuffer, <<>>, sbuffer)
    BY <1>1, <1>3, <1>5, <1>7, <2>1, <2>2, <2>3 DEF Emits
  <2> QED BY <1>1, <2>1, <2>4
<1>8. CASE rtp_packets # 1
  <2> DEFINE audio == sbuffer \o samples
             ms == Messages(audio)
             rest == Rest(audio)
  <2>1. \A s \in Range(sbuffer) : s \in Sample
    BY <1>1 DEF Range
  <2>2. Precedes(sbuffer, samples)
    <3> SUFFICES ASSUME NEW s \in Range(sbuffer), NEW r \in Range(samples) PROVE s.number < r.number
      BY DEF Precedes
    <3>1. r \in Sample
      BY <1>4 DEF Range
    <3>2. s.number \in Nat /\ r.number \in Nat
      BY <2>1, <3>1 DEF Sample
    <3> QED BY <1>1, <1>4, <3>2
  <2>3. audio \in Seq(Sample) /\ Range(audio) = Range(sbuffer) \cup Range(samples) /\ InOrder(audio)
    BY <1>1, <1>4, <2>2, Joined
  <2> HIDE DEF audio
  <2>4. /\ ms \in Seq(MessageSet)
        /\ \A i \in 1..Len(ms) : ms[i].kind = "frame" /\ ms[i].upto = next /\ Len(ms[i].body) = Capacity
        /\ rest \in Seq(Sample) /\ Len(rest) < Capacity
        /\ Cut(audio, ms, rest)
    BY <1>1, <2>3, MessagesCut
  <2>5. wire' = Sent(ms) /\ sbuffer' = rest
    BY <1>5, <1>8 DEF audio
  <2> HIDE DEF ms, rest
  <2>6. \A s \in Range(audio) : s \in Range(sbuffer) \/ (next < s.number /\ s.number <= next' /\ s.conn = conn)
    BY <1>3, <1>4, <2>3
  <2>7. \A k \in (next + 1)..next' : \E s \in Range(audio) : s.number = k
    BY <1>3, <1>4, <2>3
  <2>8. Emits(audio, ms, rest)
    BY <1>3, <2>3, <2>4, <2>5, <2>6, <2>7 DEF Emits
  <2>9. \A s \in Range(rest) : s \in Range(sbuffer) \/ s.conn = conn
    BY <2>4, <2>6 DEF Cut
  <2> QED BY <1>8, <2>4, <2>8, <2>9
<1> QED BY <1>6, <1>7, <1>8

\* flush_capture_residue sends what the buffer holds, if anything.
LEMMA FlushEmits ==
    ASSUME IInv, FlushCaptureResidue
    PROVE  \E audio, ms, rest : Emits(audio, ms, rest)
<1>1. /\ next \in Nat /\ conn \in Nat /\ sbuffer \in Seq(Sample) /\ Len(sbuffer) < Capacity
      /\ InOrder(sbuffer) /\ next' = next /\ sbuffer' = <<>>
      /\ wire' = IF sbuffer = <<>> THEN wire ELSE Sent(<<Message("residue", sbuffer)>>)
  BY DEF IInv, TypeOK, Ordered, SentInOrder, FlushCaptureResidue
<1>2. \A k \in (next + 1)..next' : FALSE
  BY <1>1
<1>3. CASE sbuffer = <<>>
  <2>1. <<>> \in Seq(MessageSet) /\ wire' = Sent(<<>>)
    <3>1. wire \in Seq(MessageSet)
      BY DEF IInv, TypeOK, MessageSet
    <3>2. wire \o <<>> = wire
      BY <3>1, ConcatEmptySeq
    <3> QED BY <1>1, <1>3, <3>2 DEF Sent
  <2>2. Cut(sbuffer, <<>>, sbuffer)
    <3>1. Message("json", <<>>).body = <<>>
      BY DEF Message
    <3> QED BY <1>1, <3>1, NothingCut
  <2>3. Emits(sbuffer, <<>>, sbuffer)
    BY <1>1, <1>2, <1>3, <2>1, <2>2 DEF Emits
  <2> QED BY <2>3
<1>4. CASE sbuffer # <<>>
  <2> DEFINE m == Message("residue", sbuffer)
  <2>1. /\ m \in MessageSet /\ m.body = sbuffer /\ m.kind = "residue" /\ m.upto = next
        /\ <<m>> \in Seq(MessageSet) /\ <<m>>[1] = m /\ Len(<<m>>) = 1
    BY <1>1, MessageType
  <2>2. wire' = Sent(<<m>>)
    BY <1>1, <1>4
  <2> HIDE DEF m
  <2>3. Cut(sbuffer, <<m>>, <<>>)
    BY <1>1, <2>1, WholeCut
  <2>4. Emits(sbuffer, <<m>>, <<>>)
    BY <1>1, <1>2, <2>1, <2>2, <2>3 DEF Emits
  <2> QED BY <2>4
<1> QED BY <1>3, <1>4

\* A message without audio leaves the buffer as it is.
LEMMA PlainEmits ==
    ASSUME IInv, UNCHANGED <<sbuffer, next>>, NEW kind \in {"silence", "json", "final"},
           wire' \in {wire, Sent(<<Message(kind, <<>>)>>)},
           kind # "json" => sbuffer = <<>>
    PROVE  \E audio, ms, rest : Emits(audio, ms, rest)
<1> DEFINE none == <<>>
           m == Message(kind, none)
<1>1. next \in Nat /\ conn \in Nat /\ sbuffer \in Seq(Sample) /\ InOrder(sbuffer) /\ next' = next
  BY DEF IInv, TypeOK, Ordered, SentInOrder
<1>2. \A k \in (next + 1)..next' : FALSE
  BY <1>1
<1>3. /\ m \in MessageSet /\ m.body = <<>> /\ m.kind = kind /\ m.upto = next
      /\ <<>> \in Seq(MessageSet) /\ <<m>> \in Seq(MessageSet) /\ <<m>>[1] = m /\ Len(<<m>>) = 1
  <2>1. none \in Seq(Sample)
    OBVIOUS
  <2>2. kind \in {"frame", "residue", "silence", "json", "final"}
    OBVIOUS
  <2> HIDE DEF none
  <2>3. /\ m \in MessageSet /\ m.body = none /\ m.kind = kind /\ m.upto = next
        /\ <<>> \in Seq(MessageSet) /\ <<m>> \in Seq(MessageSet) /\ <<m>>[1] = m /\ Len(<<m>>) = 1
    BY <1>1, <2>1, <2>2, MessageType
  <2> QED BY <2>3 DEF none
<1>4. wire' \in {wire, Sent(<<m>>)}
  OBVIOUS
<1> HIDE DEF m
<1>5. Cut(sbuffer, <<m>>, sbuffer) /\ Cut(sbuffer, <<>>, sbuffer)
  BY <1>1, <1>3, NothingCut
<1>6. CASE wire' = wire
  <2>1. wire' = Sent(<<>>)
    <3>1. wire \in Seq(MessageSet)
      BY DEF IInv, TypeOK, MessageSet
    <3>2. wire \o <<>> = wire
      BY <3>1, ConcatEmptySeq
    <3> QED BY <1>6, <3>2 DEF Sent
  <2>2. Emits(sbuffer, <<>>, sbuffer)
    BY <1>1, <1>2, <1>3, <1>5, <2>1 DEF Emits
  <2> QED BY <2>2
<1>7. CASE wire' = Sent(<<m>>)
  <2>1. Emits(sbuffer, <<m>>, sbuffer)
    BY <1>1, <1>2, <1>3, <1>5, <1>7 DEF Emits
  <2> QED BY <2>1
<1> QED BY <1>4, <1>6, <1>7

-----------------------------------------------------------------------------
(* The invariant is inductive.                                              *)

\* What a step that sends keeps, whatever the step is.
LEMMA EmitsAll ==
    ASSUME IInv, conn' = conn, link' = link, rtp_packets' = rtp_packets,
           NEW audio, NEW ms, NEW rest, Emits(audio, ms, rest)
    PROVE  /\ Ordered' /\ NothingLostWhileConnected' /\ FullMessages' /\ MarksAudio'
           /\ \A i \in 1..Len(wire') : wire'[i].upto <= next'
           /\ wire' \in Seq(MessageSet) /\ next' \in Nat /\ sbuffer' = rest /\ rest \in Seq(Sample)
<1>1. TypeOK /\ Ordered /\ Marked /\ FullMessages /\ NothingLostWhileConnected
  BY DEF IInv, Full, Kept
<1>2. Ordered'
  BY <1>1, EmitsOrdered
<1>3. NothingLostWhileConnected'
  BY <1>1, EmitsKept
<1>4. FullMessages'
  BY <1>1, EmitsFull
<1>5. /\ MarksAudio'
      /\ \A i \in 1..Len(wire') : wire'[i].upto <= next'
  BY <1>1, EmitsMarked
<1>6. wire \in Seq(MessageSet) /\ ms \in Seq(MessageSet) /\ wire' = Sent(ms)
  BY <1>1 DEF TypeOK, MessageSet, Emits
<1>7. wire' \in Seq(MessageSet)
  BY <1>6, Added
<1> QED BY <1>2, <1>3, <1>4, <1>5, <1>7 DEF Emits

\* Steps that move no audio need only keep the locks, and the order of the commands.
LEMMA UnsentStep ==
    ASSUME IInv, UNCHANGED <<rtp_packets, sbuffer, capture_reset_pending, conn, next, wire>>,
           TypeOK', Locks',
           link' = link \/ link' \notin {"connecting", "open"},
           link' = "connecting" /\ frame' \in {"connected", "read"} => frame \in {"connected", "read"},
           api' \in {"silence", "final", "remove", "stopped"}
               => api \in {"silence", "final", "remove", "stopped"}
    PROVE  IInv'
<1>1. Ordered'
  BY DEF IInv, Ordered, SentInOrder, InOrder, Precedes
<1>2. Kept'
  <2>1. NothingLostWhileConnected'
    BY DEF IInv, Kept, NothingLostWhileConnected, Connected
  <2> QED BY <2>1 DEF IInv, Kept
<1>3. Full'
  BY DEF IInv, Full, FullMessages, Capacity
<1>4. Marked'
  <2>1. MarksAudio'
    BY DEF IInv, Marked, MarksAudio
  <2> QED BY <2>1 DEF IInv, Marked
<1>5. Fresh'
  BY DEF IInv, Fresh
<1> QED BY <1>1, <1>2, <1>3, <1>4, <1>5 DEF IInv

\* The invariant holds at the start.
LEMMA Initially == Init => IInv
<1> SUFFICES ASSUME Init PROVE IInv
  OBVIOUS
<1>1. Range(<<>>) = {} /\ Len(<<>>) = 0
  BY DEF Range
<1>2. TypeOK
  <2>1. Capacity \in Nat \ {0}
    BY DEF Init, Capacity
  <2>2. rtp_packets \in RtpPackets /\ Len(sbuffer) < Capacity
    BY <1>1, <2>1 DEF Init
  <2>3. sbuffer \in Seq(Sample) /\ wire \in Seq(MessageSet)
    BY DEF Init
  <2>4. /\ mutex = "free" /\ frame = "idle" /\ api = "idle" /\ link = "connecting"
        /\ pending \in Nat /\ conn \in Nat /\ next \in Nat /\ commands \in Nat
        /\ audio_paused \in BOOLEAN /\ user_audio_muted \in BOOLEAN /\ capture_reset_pending \in BOOLEAN
    BY DEF Init
  <2> QED BY <2>2, <2>3, <2>4 DEF TypeOK, MessageSet
<1>3. Locks
  BY DEF Init, Locks
<1>4. Ordered
  BY <1>1 DEF Init, Ordered, SentInOrder, InOrder, Precedes
<1>5. Kept
  BY DEF Init, Kept, NothingLostWhileConnected, Connected
<1>6. Full /\ Marked /\ Fresh
  BY <1>1 DEF Init, Full, FullMessages, Marked, MarksAudio, Fresh
<1> QED BY <1>2, <1>3, <1>4, <1>5, <1>6 DEF IInv

\* The media thread's steps that move no audio.
LEMMA MediaStep ==
    ASSUME IInv, UNCHANGED rtp_packets,
           BugWrite \/ FrameBegins \/ TryLock \/ CheckConnected \/ FrameEnds
    PROVE  IInv'
<1> USE DEF flags
<1>0. UNCHANGED <<rtp_packets, sbuffer, capture_reset_pending, conn, next, wire, api, link>>
  BY DEF BugWrite, FrameBegins, TryLock, CheckConnected, FrameEnds
<1>1. TypeOK'
  <2>1. Capacity' = Capacity
    BY DEF Capacity
  <2>2. CASE BugWrite
    BY <1>0, <2>1, <2>2 DEF IInv, TypeOK, BugWrite
  <2>3. CASE FrameBegins
    BY <1>0, <2>1, <2>3 DEF IInv, TypeOK, FrameBegins
  <2>4. CASE TryLock
    BY <1>0, <2>1, <2>4 DEF IInv, TypeOK, TryLock
  <2>5. CASE CheckConnected
    BY <1>0, <2>1, <2>5 DEF IInv, TypeOK, CheckConnected
  <2>6. CASE FrameEnds
    BY <1>0, <2>1, <2>6 DEF IInv, TypeOK, FrameEnds
  <2> QED BY <2>2, <2>3, <2>4, <2>5, <2>6
<1>2. Locks'
  BY DEF IInv, Locks, BugWrite, FrameBegins, TryLock, CheckConnected, FrameEnds
<1>3. link' = "connecting" /\ frame' \in {"connected", "read"} => frame \in {"connected", "read"}
  BY DEF BugWrite, FrameBegins, TryLock, CheckConnected, FrameEnds, Connected
<1> QED BY <1>0, <1>1, <1>2, <1>3, UnsentStep

\* The steps of the API thread that move no audio.
LEMMA CommandStep ==
    ASSUME IInv, UNCHANGED rtp_packets,
           BeginCommand \/ PauseResume \/ SetUserMute \/ LockContext \/ Finish \/ RemoveRefused
    PROVE  IInv'
<1> USE DEF flags
<1>0. /\ UNCHANGED <<rtp_packets, sbuffer, capture_reset_pending, conn, next, wire, frame>>
      /\ link' = link \/ link' = "closed"
  BY DEF BeginCommand, PauseResume, SetUserMute, LockContext, Finish, RemoveRefused
<1>1. TypeOK'
  <2>1. Capacity' = Capacity
    BY DEF Capacity
  <2>2. CASE BeginCommand
    BY <1>0, <2>1, <2>2 DEF IInv, TypeOK, BeginCommand
  <2>3. CASE PauseResume
    BY <1>0, <2>1, <2>3 DEF IInv, TypeOK, PauseResume
  <2>4. CASE SetUserMute
    BY <1>0, <2>1, <2>4 DEF IInv, TypeOK, SetUserMute
  <2>5. CASE LockContext
    BY <1>0, <2>1, <2>5 DEF IInv, TypeOK, LockContext
  <2>6. CASE Finish
    BY <1>0, <2>1, <2>6 DEF IInv, TypeOK, Finish
  <2>7. CASE RemoveRefused
    BY <1>0, <2>1, <2>7 DEF IInv, TypeOK, RemoveRefused
  <2> QED BY <2>2, <2>3, <2>4, <2>5, <2>6, <2>7
<1>2. Locks'
  <2>2. CASE BeginCommand
    BY <2>2 DEF IInv, Locks, BeginCommand
  <2>3. CASE PauseResume
    BY <2>3 DEF IInv, Locks, PauseResume
  <2>4. CASE SetUserMute
    BY <2>4 DEF IInv, Locks, SetUserMute
  <2>5. CASE LockContext
    BY <2>5 DEF IInv, Locks, LockContext
  <2>6. CASE Finish
    BY <2>6 DEF IInv, Locks, Finish
  <2>7. CASE RemoveRefused
    BY <2>7 DEF IInv, Locks, RemoveRefused
  <2> QED BY <2>2, <2>3, <2>4, <2>5, <2>6, <2>7
<1>3. api' \in {"silence", "final", "remove", "stopped"}
          => api \in {"silence", "final", "remove", "stopped"}
  BY DEF BeginCommand, PauseResume, SetUserMute, LockContext, Finish, RemoveRefused
<1> QED BY <1>0, <1>1, <1>2, <1>3, UnsentStep

\* The connection opens: nothing was read before the first one did.
LEMMA OpenStep ==
    ASSUME IInv, UNCHANGED rtp_packets, Open
    PROVE  IInv'
<1> USE DEF flags, Open
<1>1. TypeOK'
  <2>1. Capacity' = Capacity
    BY DEF Capacity
  <2> QED BY <2>1 DEF IInv, TypeOK
<1>2. Locks'
  BY DEF IInv, Locks
<1>3. Ordered'
  BY DEF IInv, Ordered, SentInOrder, InOrder, Precedes
<1>4. Kept'
  <2>1. NothingLostWhileConnected'
    BY DEF IInv, Kept, NothingLostWhileConnected
  <2> QED BY <2>1 DEF IInv, Kept
<1>5. Full'
  BY DEF IInv, Full, FullMessages, Capacity
<1>6. Marked'
  <2>1. MarksAudio'
    BY DEF IInv, Marked, MarksAudio
  <2> QED BY <2>1 DEF IInv, Marked
<1>7. Fresh'
  BY DEF IInv, Fresh
<1> QED BY <1>1, <1>2, <1>3, <1>4, <1>5, <1>6, <1>7 DEF IInv

\* The connection is lost: what waits for it is no longer needed.
LEMMA DropStep ==
    ASSUME IInv, UNCHANGED rtp_packets, Drop
    PROVE  IInv'
<1> USE DEF flags, Drop
<1>1. TypeOK'
  <2>1. Capacity' = Capacity
    BY DEF Capacity
  <2> QED BY <2>1 DEF IInv, TypeOK
<1>2. Locks'
  BY DEF IInv, Locks
<1> QED BY <1>1, <1>2, UnsentStep

\* The drop is reported: the request to empty the buffer is set before a reconnection
\* counts, and the count leaves 1 for good.
LEMMA ConnectionDroppedStep ==
    ASSUME IInv, UNCHANGED rtp_packets, ConnectionDropped
    PROVE  IInv'
<1> USE DEF flags
<1>0. /\ UNCHANGED <<rtp_packets, sbuffer, mutex, frame, api, next, wire>>
      /\ capture_reset_pending' = TRUE
      /\ \/ link' = "connecting" /\ conn' = conn + 1
         \/ link' = "closed" /\ conn' = conn
  BY DEF ConnectionDropped
<1>1. conn \in Nat /\ conn # 0
  BY DEF IInv, TypeOK, Kept
<1>2. TypeOK'
  <2>1. Capacity' = Capacity
    BY <1>0 DEF Capacity
  <2> QED BY <1>1, <2>1 DEF IInv, TypeOK, ConnectionDropped
<1>3. Locks'
  BY <1>0 DEF IInv, Locks
<1>4. Ordered'
  BY <1>0 DEF IInv, Ordered, SentInOrder, InOrder, Precedes
<1>5. Kept'
  <2>1. link' = "connecting" => conn' # 1
    BY <1>0, <1>1
  <2>2. conn' # 0 /\ link' # "open"
    BY <1>0, <1>1
  <2> QED BY <2>1, <2>2 DEF Kept, NothingLostWhileConnected, Connected
<1>6. Full'
  BY <1>0 DEF IInv, Full, FullMessages, Capacity
<1>7. Marked'
  <2>1. MarksAudio'
    BY <1>0 DEF IInv, Marked, MarksAudio
  <2> QED BY <1>0, <2>1 DEF IInv, Marked
<1>8. Fresh'
  BY <1>0 DEF Fresh
<1> QED BY <1>2, <1>3, <1>4, <1>5, <1>6, <1>7, <1>8 DEF IInv

\* The reset empties the buffer, which costs nothing before the first drop.
LEMMA ConsumeCaptureResetStep ==
    ASSUME IInv, UNCHANGED rtp_packets, ConsumeCaptureReset
    PROVE  IInv'
<1> USE DEF flags
<1>0. /\ UNCHANGED <<rtp_packets, mutex, api, link, conn, next, wire>>
      /\ frame = "connected" /\ frame' = "read"
      /\ sbuffer' = IF capture_reset_pending THEN <<>> ELSE sbuffer
  BY DEF ConsumeCaptureReset
<1>1. Range(<<>>) = {} /\ Len(<<>>) = 0 /\ <<>> \in Seq(Sample)
  BY DEF Range
<1>2. Range(sbuffer') \subseteq Range(sbuffer)
  BY <1>0, <1>1
<1>3. TypeOK'
  <2>1. Capacity' = Capacity /\ Capacity \in Nat \ {0}
    BY <1>0 DEF Capacity, IInv, TypeOK
  <2>2. sbuffer' \in Seq(Sample) /\ Len(sbuffer') < Capacity'
    BY <1>0, <1>1, <2>1 DEF IInv, TypeOK
  <2> QED BY <1>0, <2>2 DEF IInv, TypeOK, ConsumeCaptureReset
<1>4. Locks'
  BY <1>0 DEF IInv, Locks
<1>5. Ordered'
  <2>1. InOrder(sbuffer')
    BY <1>0, <1>1 DEF IInv, Ordered, SentInOrder, InOrder
  <2> QED BY <1>0, <1>2, <2>1 DEF IInv, Ordered, SentInOrder, InOrder, Precedes
<1>6. Kept'
  <2>1. NothingLostWhileConnected'
    BY <1>0 DEF IInv, Kept, NothingLostWhileConnected, Connected
  <2> QED BY <1>0, <2>1 DEF IInv, Kept, ConsumeCaptureReset
<1>7. Full'
  BY <1>0 DEF IInv, Full, FullMessages, Capacity
<1>8. Marked'
  <2>1. MarksAudio'
    BY <1>0, <1>2 DEF IInv, Marked, MarksAudio
  <2> QED BY <1>0, <2>1 DEF IInv, Marked
<1>9. Fresh'
  BY <1>0, <1>1 DEF IInv, Fresh
<1> QED BY <1>3, <1>4, <1>5, <1>6, <1>7, <1>8, <1>9 DEF IInv

\* A frame is read: its samples go out or wait.
LEMMA ReadFrameStep ==
    ASSUME IInv, UNCHANGED rtp_packets, ReadFrame
    PROVE  IInv'
<1> USE DEF flags
<1>0. /\ UNCHANGED <<rtp_packets, capture_reset_pending, mutex, frame, api, link, conn>>
      /\ frame = "read"
  BY DEF ReadFrame
<1>1. api \notin {"silence", "final", "remove", "stopped"} /\ ~ (conn = 1 /\ link = "connecting")
  BY <1>0 DEF IInv, Locks, Kept
<1>2. PICK audio, ms, rest :
          /\ Emits(audio, ms, rest) /\ Len(rest) < Capacity
          /\ \A s \in Range(rest) : s \in Range(sbuffer) \/ s.conn = conn
          /\ rtp_packets = 1 => rest = <<>>
  BY ReadFrameEmits
<1>3. /\ Ordered' /\ NothingLostWhileConnected' /\ FullMessages' /\ MarksAudio'
      /\ \A i \in 1..Len(wire') : wire'[i].upto <= next'
      /\ wire' \in Seq(MessageSet) /\ next' \in Nat /\ sbuffer' = rest /\ rest \in Seq(Sample)
  <2>1. conn' = conn /\ link' = link /\ rtp_packets' = rtp_packets /\ Emits(audio, ms, rest)
    BY <1>0, <1>2
  <2> QED BY <2>1, EmitsAll
<1>4. TypeOK'
  <2>1. Capacity' = Capacity
    BY <1>0 DEF Capacity
  <2> QED BY <1>2, <1>3, <2>1 DEF IInv, TypeOK, ReadFrame, MessageSet
<1>5. Locks'
  BY <1>0 DEF IInv, Locks
<1>6. Kept'
  BY <1>0, <1>1, <1>3 DEF IInv, Kept
<1>7. Full'
  BY <1>0, <1>2, <1>3 DEF Full
<1>8. Marked'
  BY <1>0, <1>1, <1>3 DEF Marked
<1>9. Fresh'
  BY <1>0, <1>2, <1>3 DEF IInv, Fresh
<1> QED BY <1>3, <1>4, <1>5, <1>6, <1>7, <1>8, <1>9 DEF IInv

\* The steps of a command that send: the residue, the silence, the JSON.
LEMMA SendStep ==
    ASSUME IInv, UNCHANGED rtp_packets,
           FlushCaptureResidue \/ SendSilence \/ SendJson \/ SendFinalJson
    PROVE  IInv'
<1> USE DEF flags
<1>0. /\ UNCHANGED <<rtp_packets, capture_reset_pending, frame, link, conn, next>>
      /\ sbuffer' \in {sbuffer, <<>>}
      /\ api' \in {"silence", "final"} => sbuffer' = <<>>
      /\ api' = "remove" => api = "final" /\ sbuffer' = sbuffer
      /\ api' # "stopped"
  BY DEF FlushCaptureResidue, SendSilence, SendJson, SendFinalJson
<1>1. \E audio, ms, rest : Emits(audio, ms, rest)
  <2>1. CASE FlushCaptureResidue
    BY <2>1, FlushEmits
  <2>2. CASE SendSilence
    <3>1. wire' \in {wire, Sent(<<Message("silence", <<>>)>>)}
      BY <2>2 DEF SendSilence
    <3>2. UNCHANGED <<sbuffer, next>> /\ sbuffer = <<>>
      BY <2>2 DEF SendSilence, IInv, Marked
    <3> QED BY <3>1, <3>2, PlainEmits
  <2>3. CASE SendJson
    <3>1. wire' \in {wire, Sent(<<Message("json", <<>>)>>)}
      BY <2>3 DEF SendJson
    <3>2. UNCHANGED <<sbuffer, next>>
      BY <2>3 DEF SendJson
    <3> QED BY <3>1, <3>2, PlainEmits
  <2>4. CASE SendFinalJson
    <3>1. wire' \in {wire, Sent(<<Message("final", <<>>)>>)}
      BY <2>4 DEF SendFinalJson
    <3>2. UNCHANGED <<sbuffer, next>> /\ sbuffer = <<>>
      BY <2>4 DEF SendFinalJson, IInv, Marked
    <3> QED BY <3>1, <3>2, PlainEmits
  <2> QED BY <2>1, <2>2, <2>3, <2>4
<1>2. PICK audio, ms, rest : Emits(audio, ms, rest)
  BY <1>1
<1>3. /\ Ordered' /\ NothingLostWhileConnected' /\ FullMessages' /\ MarksAudio'
      /\ \A i \in 1..Len(wire') : wire'[i].upto <= next'
      /\ wire' \in Seq(MessageSet) /\ next' \in Nat /\ sbuffer' = rest /\ rest \in Seq(Sample)
  <2>1. conn' = conn /\ link' = link /\ rtp_packets' = rtp_packets /\ Emits(audio, ms, rest)
    BY <1>0, <1>2
  <2> QED BY <2>1, EmitsAll
<1>4. TypeOK'
  <2>1. Capacity' = Capacity /\ Capacity \in Nat \ {0}
    BY <1>0 DEF Capacity, IInv, TypeOK
  <2>2. Len(sbuffer') < Capacity'
    BY <1>0, <2>1 DEF IInv, TypeOK
  <2>3. CASE FlushCaptureResidue
    BY <1>3, <2>2, <2>3 DEF IInv, TypeOK, FlushCaptureResidue, MessageSet
  <2>4. CASE SendSilence
    BY <1>3, <2>2, <2>4 DEF IInv, TypeOK, SendSilence, MessageSet
  <2>5. CASE SendJson
    BY <1>3, <2>2, <2>5 DEF IInv, TypeOK, SendJson, MessageSet
  <2>6. CASE SendFinalJson
    BY <1>3, <2>2, <2>6 DEF IInv, TypeOK, SendFinalJson, MessageSet
  <2> QED BY <2>3, <2>4, <2>5, <2>6
<1>5. Locks'
  BY DEF IInv, Locks, FlushCaptureResidue, SendSilence, SendJson, SendFinalJson
<1>6. Kept'
  BY <1>0, <1>3 DEF IInv, Kept
<1>7. Full'
  BY <1>0, <1>3 DEF IInv, Full
<1>8. Marked'
  BY <1>0, <1>3 DEF IInv, Marked
<1>9. Fresh'
  <2>1. Range(<<>>) = {}
    BY DEF Range
  <2> QED BY <1>0, <2>1 DEF IInv, Fresh
<1> QED BY <1>3, <1>4, <1>5, <1>6, <1>7, <1>8, <1>9 DEF IInv

\* Every step, and stuttering, keeps the invariant.
LEMMA Inductive == IInv /\ [Next]_vars => IInv'
<1> SUFFICES ASSUME IInv, [Next]_vars PROVE IInv'
  OBVIOUS
<1>1. CASE UNCHANGED vars
  <2>1. UNCHANGED <<rtp_packets, pending, sbuffer, audio_paused, user_audio_muted, capture_reset_pending,
                    mutex, frame, api, link, conn, next, wire, commands>>
    BY <1>1 DEF vars, flags
  <2>2. TypeOK'
    BY <2>1 DEF IInv, TypeOK, Capacity
  <2>3. Locks'
    BY <2>1 DEF IInv, Locks
  <2> QED BY <2>1, <2>2, <2>3, UnsentStep
<1>2. CASE Next
  <2>1. UNCHANGED rtp_packets /\ (MediaThread \/ ApiThread \/ WebSocketThread)
    BY <1>2 DEF Next
  <2>2. CASE MediaThread
    BY <2>1, <2>2, MediaStep, ConsumeCaptureResetStep, ReadFrameStep DEF MediaThread
  <2>3. CASE ApiThread
    BY <2>1, <2>3, CommandStep, SendStep DEF ApiThread
  <2>4. CASE WebSocketThread
    BY <2>1, <2>4, OpenStep, DropStep, ConnectionDroppedStep DEF WebSocketThread
  <2> QED BY <2>1, <2>2, <2>3, <2>4
<1> QED BY <1>1, <1>2

-----------------------------------------------------------------------------
\* The threads keep the locks, the order and the completeness of the caller's audio,
\* for any packet size, aggregation and resampling.
THEOREM Invariant == Spec => []IInv
<1> QED BY Initially, Inductive, PTL DEF Spec

\* The aggregation buffer is never full between two steps.
THEOREM TypeCorrect == Spec => []TypeOK
<1>1. IInv => TypeOK
  BY DEF IInv
<1> QED BY <1>1, Invariant, PTL

\* Caller audio leaves once, in the order of its capture.
THEOREM SentInOrderHolds == Spec => []SentInOrder
<1>1. IInv => SentInOrder
  BY DEF IInv, Ordered
<1> QED BY <1>1, Invariant, PTL

\* Until the first drop every sample read was sent or waits in the buffer.
THEOREM NothingLostWhileConnectedHolds == Spec => []NothingLostWhileConnected
<1>1. IInv => NothingLostWhileConnected
  BY DEF IInv, Kept
<1> QED BY <1>1, Invariant, PTL

\* stream_frame sends full buffers; only mute and stop send less.
THEOREM FullMessagesHolds == Spec => []FullMessages
<1>1. IInv => FullMessages
  BY DEF IInv, Full
<1> QED BY <1>1, Invariant, PTL

\* The silence of a mute and the final JSON of a stop keep their place in the audio, and
\* a stop that has sent all it has to say is followed by nothing unless it is refused.
THEOREM ResidueGoesFirstHolds == Spec => ResidueGoesFirst
<1>1. ASSUME IInv, IInv', [Next]_vars
      PROVE  [MarksAudio' /\ (wire' # wire => api \notin {"remove", "stopped"})]_vars
  <2>1. MarksAudio'
    BY <1>1 DEF IInv, Marked
  <2>2. ASSUME Next, api \in {"remove", "stopped"} PROVE wire' = wire
    <3>1. frame # "read"
      BY <1>1, <2>2 DEF IInv, Locks
    <3> QED BY <2>2, <3>1 DEF Next, MediaThread, ApiThread, WebSocketThread, BugWrite, FrameBegins, TryLock,
               CheckConnected, ConsumeCaptureReset, ReadFrame, FrameEnds, BeginCommand, PauseResume,
               SetUserMute, LockContext, FlushCaptureResidue, SendSilence, SendJson, SendFinalJson, Finish,
               RemoveRefused, Open, Drop, ConnectionDropped
  <2> QED BY <1>1, <2>1, <2>2
<1> QED BY <1>1, Invariant, PTL DEF Spec, ResidueGoesFirst

\* Once stream_frame has looked at the reset request, no audio of an earlier
\* connection is left.
THEOREM ResidueDiscardedHolds == Spec => ResidueDiscarded
<1> DEFINE Clean == frame = "connected" /\ frame' = "read" => \A s \in Range(sbuffer') : s.conn = conn
<1>1. IInv /\ [Next]_vars => [Clean]_vars
  <2> SUFFICES ASSUME IInv, Next, frame = "connected", frame' = "read"
               PROVE  \A s \in Range(sbuffer') : s.conn = conn
    OBVIOUS
  <2>1. ConsumeCaptureReset
    BY DEF Next, MediaThread, ApiThread, WebSocketThread, BugWrite, FrameBegins, TryLock, CheckConnected,
           ReadFrame, FrameEnds, BeginCommand, PauseResume, SetUserMute, LockContext,
           FlushCaptureResidue, SendSilence, SendJson, SendFinalJson, Finish, RemoveRefused, Open, Drop, ConnectionDropped
  <2>2. Range(<<>>) = {}
    BY DEF Range
  <2> QED BY <2>1, <2>2 DEF ConsumeCaptureReset, IInv, Fresh
<1> QED BY <1>1, Invariant, PTL DEF Spec, ResidueDiscarded
=============================================================================
