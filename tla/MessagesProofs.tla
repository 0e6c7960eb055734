---------------------------- MODULE MessagesProofs ----------------------------
(* Theorems about RawAudio and Messages, for every size, limit, depth and set of files. *)
EXTENDS Messages, TLAPS, SequenceTheorems

USE RawAudioAssumption

-----------------------------------------------------------------------------
(* Bytes to samples: RawAudio *)

\* The carried byte is the one that StreamDecoded leaves over.
CarryIsLastByte ==
    /\ m_has_pending_raw_byte <=> Len(accepted) % 2 = 1
    /\ m_has_pending_raw_byte => m_pending_raw_byte = accepted[Len(accepted)]

Inv == TypeOK /\ StreamDecoded /\ CarryIsLastByte

\* A byte of the current connection.
ConnByte == [conn : {conn}, at : 1..sent]

\* Division by two.
LEMMA Halves ==
    ASSUME NEW n \in Nat
    PROVE  n \div 2 \in Nat /\ n % 2 \in 0..1 /\ n = 2 * (n \div 2) + (n % 2)
OBVIOUS

\* The quotient and the remainder are determined by their equation.
LEMMA Halved ==
    ASSUME NEW n \in Nat, NEW k \in Nat, NEW r \in 0..1, n = 2 * k + r
    PROVE  n \div 2 = k /\ n % 2 = r
<1>1. CASE r = 0
  BY <1>1
<1>2. CASE r = 1
  BY <1>2
<1> QED BY <1>1, <1>2

\* A sequence over a set is one over a larger set.
LEMMA SeqMonotone ==
    ASSUME NEW S, NEW T, S \subseteq T, NEW s \in Seq(S)
    PROVE  s \in Seq(T)
<1>1. s \in [1..Len(s) -> S] /\ Len(s) \in Nat
  BY LenProperties
<1>2. s \in [1..Len(s) -> T]
  BY <1>1
<1> QED BY <1>1, <1>2, SeqDef

\* The first part of a concatenation keeps its places.
LEMMA ConcatLeft ==
    ASSUME NEW S, NEW s \in Seq(S), NEW t \in Seq(S), NEW i \in 1..Len(s)
    PROVE  (s \o t)[i] = s[i]
<1>1. Len(s) \in Nat /\ Len(t) \in Nat
  BY LenProperties
<1>2. i \in 1..Len(s) + Len(t) /\ i <= Len(s)
  BY <1>1
<1>3. (s \o t)[i] = IF i <= Len(s) THEN s[i] ELSE t[i - Len(s)]
  BY <1>2, ConcatProperties
<1> QED BY <1>2, <1>3

\* The same for the second part.
LEMMA ConcatRight ==
    ASSUME NEW S, NEW s \in Seq(S), NEW t \in Seq(S), NEW i \in 1..Len(t)
    PROVE  (s \o t)[Len(s) + i] = t[i]
<1> DEFINE j == Len(s) + i
<1>1. Len(s) \in Nat /\ Len(t) \in Nat
  BY LenProperties
<1>2. j \in 1..Len(s) + Len(t) /\ ~(j <= Len(s)) /\ j - Len(s) = i
  BY <1>1
<1> HIDE DEF j
<1>3. (s \o t)[j] = IF j <= Len(s) THEN s[j] ELSE t[j - Len(s)]
  BY <1>2, ConcatProperties
<1> QED BY <1>2, <1>3 DEF j

\* The samples of a sequence, by their places.
LEMMA PairsAt ==
    ASSUME NEW S, NEW data \in Seq(S)
    PROVE  /\ Pairs(data) \in Seq(S \X S)
           /\ Len(Pairs(data)) = Len(data) \div 2
           /\ \A i \in 1..Len(data) \div 2 : Pairs(data)[i] = <<data[2 * i - 1], data[2 * i]>>
<1>1. Len(data) \in Nat /\ Len(data) \div 2 \in Nat /\ 2 * (Len(data) \div 2) <= Len(data)
  BY Halves, LenProperties
<1>2. \A i \in 1..Len(data) \div 2 : 2 * i - 1 \in 1..Len(data) /\ 2 * i \in 1..Len(data)
  BY <1>1
<1>3. \A i \in 1..Len(data) \div 2 : <<data[2 * i - 1], data[2 * i]>> \in S \X S
  BY <1>2, ElementOfSeq
<1>4. Pairs(data) \in [1..Len(data) \div 2 -> S \X S]
  BY <1>3 DEF Pairs
<1>5. Pairs(data) \in Seq(S \X S) /\ Len(Pairs(data)) = Len(data) \div 2
  BY <1>1, <1>4, SeqDef, LenProperties
<1> QED BY <1>5 DEF Pairs

\* The bytes that arrive follow those sent before, on the same connection.
LEMMA ArrivingBytes ==
    ASSUME TypeOK, NEW n \in Nat
    PROVE  /\ Arriving(n) \in Seq([conn : {conn}, at : 1..sent + n])
           /\ accepted \in Seq([conn : {conn}, at : 1..sent + n])
           /\ [conn : {conn}, at : 1..sent + n] \subseteq Byte
<1> DEFINE B == [conn : {conn}, at : 1..sent + n]
<1>1. sent \in Nat /\ conn \in Nat
  BY DEF TypeOK
<1>2. \A i \in 1..n : sent + i \in 1..sent + n
  BY <1>1
<1>3. Arriving(n) \in [1..n -> B]
  BY <1>2 DEF Arriving
<1>4. ConnByte \subseteq B
  BY <1>1 DEF ConnByte
<1>5. accepted \in Seq(B)
  <2>1. accepted \in Seq(ConnByte)
    BY DEF TypeOK, ConnByte
  <2> QED BY <2>1, <1>4, SeqMonotone
<1>6. B \subseteq Byte
  BY <1>1 DEF Byte
<1>7. Arriving(n) \in Seq(B)
  BY <1>3, SeqDef
<1> QED BY <1>5, <1>6, <1>7

\* What convertRawAudio cuts is the stream from its last whole sample on: the
\* carried byte is the first byte after it.
LEMMA StitchedIsRest ==
    ASSUME Inv, NEW S, accepted \in Seq(S), NEW frame \in Seq(S),
           NEW k \in Nat, NEW r \in 0..1, Len(accepted) = 2 * k + r
    PROVE  LET all == accepted \o frame
           IN  /\ Stitched(frame) \in Seq(S)
               /\ Len(all) = 2 * k + Len(Stitched(frame))
               /\ \A j \in 1..Len(Stitched(frame)) : Stitched(frame)[j] = all[2 * k + j]
<1> DEFINE all == accepted \o frame
           data == Stitched(frame)
           a == 2 * k + r
           f == Len(frame)
<1>1. f \in Nat /\ a \in Nat /\ Len(accepted) = a
  BY LenProperties
<1>2. /\ Len(all) = a + f
      /\ \A i \in 1..a : all[i] = accepted[i]
      /\ \A i \in 1..f : all[a + i] = frame[i]
  <2>1. Len(all) = a + f
    BY <1>1, ConcatProperties
  <2>2. ASSUME NEW i \in 1..a
        PROVE  all[i] = accepted[i]
    BY <1>1, ConcatLeft
  <2>3. ASSUME NEW i \in 1..f
        PROVE  all[a + i] = frame[i]
    <3>1. all[Len(accepted) + i] = frame[i]
      BY ConcatRight
    <3> QED BY <1>1, <3>1
  <2> QED BY <2>1, <2>2, <2>3
<1>3. m_has_pending_raw_byte <=> r = 1
  <2>1. Len(accepted) % 2 = r
    BY Halved
  <2> QED BY <2>1 DEF Inv, CarryIsLastByte
<1>4. CASE m_has_pending_raw_byte
  <2>1. r = 1 /\ a = 2 * k + 1 /\ a \in 1..a
    BY <1>3, <1>4
  <2> DEFINE p == <<m_pending_raw_byte>>
  <2>2. m_pending_raw_byte = accepted[a] /\ m_pending_raw_byte \in S
    BY <1>1, <1>4, <2>1, ElementOfSeq DEF Inv, CarryIsLastByte
  <2>3. p \in Seq(S) /\ Len(p) = 1 /\ p[1] = accepted[a]
    BY <2>2
  <2>4. data = p \o frame
    BY <1>4 DEF Stitched
  <2>5. /\ data \in Seq(S) /\ Len(data) = 1 + f
        /\ \A j \in 1..1 : data[j] = p[j]
        /\ \A j \in 2..1 + f : data[j] = frame[j - 1]
    <3>1. /\ p \o frame \in Seq(S) /\ Len(p \o frame) = 1 + f
          /\ \A j \in 1..1 : (p \o frame)[j] = p[j]
          /\ \A j \in 1 + 1..1 + f : (p \o frame)[j] = frame[j - 1]
      BY <2>3, ConcatProperties
    <3> QED BY <2>4, <3>1
  <2>6. ASSUME NEW j \in 1..1 + f
        PROVE  data[j] = all[2 * k + j]
    <3>1. CASE j = 1
      BY <3>1, <1>1, <1>2, <2>1, <2>3, <2>5
    <3>2. CASE j # 1
      <4>1. j - 1 \in 1..f /\ j \in 2..1 + f /\ a + (j - 1) = 2 * k + j
        BY <3>2, <1>1, <2>1
      <4>2. data[j] = frame[j - 1] /\ all[a + (j - 1)] = frame[j - 1]
        BY <4>1, <1>2, <2>5
      <4> QED BY <4>1, <4>2
    <3> QED BY <3>1, <3>2
  <2>7. Len(all) = 2 * k + Len(data)
    BY <1>1, <1>2, <2>1, <2>5
  <2> QED BY <2>5, <2>6, <2>7
<1>5. CASE ~m_has_pending_raw_byte
  <2>1. r = 0 /\ a = 2 * k /\ data = frame
    BY <1>3, <1>5 DEF Stitched
  <2> QED BY <2>1, <1>1, <1>2
<1> QED BY <1>4, <1>5

\* An accepted message extends the decoded stream by the samples it completes.
LEMMA AcceptStep ==
    ASSUME Inv, NEW n \in Nat, Accept(n)
    PROVE  Inv'
<1> DEFINE S == [conn : {conn}, at : 1..sent + n]
           frame == Arriving(n)
           data == Stitched(frame)
           all == accepted \o frame
<1>1. /\ TypeOK /\ StreamDecoded /\ CarryIsLastByte
      /\ conn' = conn /\ open' = open /\ sent' = sent + n /\ sent + n <= MaxBytes
      /\ accepted' = all /\ decoded' = decoded \o Pairs(data)
  BY DEF Inv, Accept, Receive, ConvertRawAudio
<1>2. frame \in Seq(S) /\ accepted \in Seq(S) /\ S \subseteq Byte
  BY <1>1, ArrivingBytes
<1>3. PICK k \in Nat, r \in 0..1 : Len(accepted) = 2 * k + r /\ Len(accepted) \div 2 = k
  BY <1>2, Halves, LenProperties
<1>4. /\ data \in Seq(S) /\ Len(all) = 2 * k + Len(data)
      /\ \A i \in 1..Len(data) : data[i] = all[2 * k + i]
  BY <1>2, <1>3, StitchedIsRest
<1>5. PICK m \in Nat, q \in 0..1 :
        Len(data) = 2 * m + q /\ Len(data) \div 2 = m /\ Len(data) % 2 = q
  BY <1>4, Halves, LenProperties
<1>6. all \in Seq(S) /\ \A i \in 1..Len(accepted) : all[i] = accepted[i]
  BY <1>2, ConcatProperties
<1>7. Len(all) = 2 * (k + m) + q /\ Len(all) \div 2 = k + m /\ Len(all) % 2 = q
  <2>1. Len(all) = 2 * (k + m) + q /\ Len(all) \in Nat /\ k + m \in Nat
    BY <1>4, <1>5
  <2> QED BY <2>1, Halved
<1>8. /\ Pairs(data) \in Seq(Byte \X Byte) /\ Len(Pairs(data)) = m
      /\ \A i \in 1..m : Pairs(data)[i] = <<data[2 * i - 1], data[2 * i]>>
  <2>1. /\ Pairs(data) \in Seq(S \X S) /\ Len(Pairs(data)) = m
        /\ \A i \in 1..m : Pairs(data)[i] = <<data[2 * i - 1], data[2 * i]>>
    BY <1>4, <1>5, PairsAt
  <2>2. S \X S \subseteq Byte \X Byte
    BY <1>2
  <2> QED BY <2>1, <2>2, SeqMonotone
<1>9. /\ decoded \in Seq(Byte \X Byte) /\ Len(decoded) = k
      /\ \A i \in 1..k : decoded[i] = <<accepted[2 * i - 1], accepted[2 * i]>>
  BY <1>1, <1>3 DEF TypeOK, StreamDecoded
<1>10. /\ decoded' \in Seq(Byte \X Byte) /\ Len(decoded') = k + m
       /\ \A i \in 1..k : decoded'[i] = decoded[i]
       /\ \A i \in 1..m : decoded'[k + i] = Pairs(data)[i]
  <2> DEFINE new == Pairs(data)
             T == Byte \X Byte
  <2>1. /\ decoded \in Seq(T) /\ Len(decoded) = k
        /\ new \in Seq(T) /\ Len(new) = m
    BY <1>8, <1>9
  <2> HIDE DEF new, T
  <2>2. /\ decoded \o new \in Seq(T) /\ Len(decoded \o new) = k + m
        /\ \A i \in 1..k : (decoded \o new)[i] = decoded[i]
        /\ \A i \in 1..m : (decoded \o new)[k + i] = new[i]
    <3>1. decoded \o new \in Seq(T) /\ Len(decoded \o new) = k + m
      BY <2>1, ConcatProperties
    <3>2. ASSUME NEW i \in 1..k
          PROVE  (decoded \o new)[i] = decoded[i]
      BY <2>1, ConcatLeft
    <3>3. ASSUME NEW i \in 1..m
          PROVE  (decoded \o new)[k + i] = new[i]
      <4>1. (decoded \o new)[Len(decoded) + i] = new[i]
        BY <2>1, ConcatRight
      <4> QED BY <2>1, <4>1
    <3> QED BY <3>1, <3>2, <3>3
  <2> QED BY <1>1, <2>2 DEF new, T
<1>11. StreamDecoded'
  <2>1. Len(accepted') \div 2 = Len(decoded')
    BY <1>1, <1>7, <1>10
  <2>2. ASSUME NEW i \in 1..k + m
        PROVE  decoded'[i] = <<all[2 * i - 1], all[2 * i]>>
    <3>1. CASE i \in 1..k
      <4>1. 2 * i - 1 \in 1..Len(accepted) /\ 2 * i \in 1..Len(accepted)
        BY <3>1, <1>3
      <4> QED BY <3>1, <4>1, <1>6, <1>9, <1>10
    <3>2. CASE i \notin 1..k
      <4> DEFINE j == i - k
      <4>1. j \in 1..m /\ k + j = i
        BY <3>2
      <4>2. /\ 2 * j - 1 \in 1..Len(data) /\ 2 * j \in 1..Len(data)
            /\ 2 * k + (2 * j - 1) = 2 * i - 1 /\ 2 * k + 2 * j = 2 * i
        BY <4>1, <1>5
      <4>3. decoded'[i] = <<data[2 * j - 1], data[2 * j]>>
        BY <4>1, <1>8, <1>10
      <4>4. data[2 * j - 1] = all[2 * i - 1] /\ data[2 * j] = all[2 * i]
        BY <4>2, <1>4
      <4> QED BY <4>3, <4>4
    <3> QED BY <3>1, <3>2
  <2> QED BY <2>1, <2>2, <1>1, <1>10 DEF StreamDecoded
<1>12. /\ accepted' \in Seq([conn : {conn'}, at : 1..sent'])
       /\ decoded' \in Seq(Byte \X Byte) /\ sent' \in 0..MaxBytes
  BY <1>1, <1>6, <1>10 DEF TypeOK
<1>13. CASE q = 0
  <2>1. m_has_pending_raw_byte' = FALSE /\ m_pending_raw_byte' = m_pending_raw_byte
    BY <1>5, <1>13 DEF Accept, ConvertRawAudio
  <2>2. CarryIsLastByte'
    BY <2>1, <1>1, <1>7, <1>13 DEF CarryIsLastByte
  <2>3. TypeOK'
    BY <2>1, <1>1, <1>12 DEF TypeOK
  <2> QED BY <2>2, <2>3, <1>11 DEF Inv
<1>14. CASE q = 1
  <2>1. m_has_pending_raw_byte' = TRUE /\ m_pending_raw_byte' = data[Len(data)]
    BY <1>5, <1>14 DEF Accept, ConvertRawAudio
  <2>2. Len(data) \in 1..Len(data)
    BY <1>5, <1>14
  <2>3. data[Len(data)] = all[Len(all)] /\ data[Len(data)] \in S
    BY <2>2, <1>4, ElementOfSeq
  <2>4. CarryIsLastByte'
    BY <2>1, <2>3, <1>1, <1>7, <1>14 DEF CarryIsLastByte
  <2>5. m_pending_raw_byte' \in Byte /\ m_pending_raw_byte'.conn = conn
    BY <2>1, <2>3, <1>2
  <2>6. TypeOK'
    BY <2>1, <2>5, <1>1, <1>12 DEF TypeOK
  <2> QED BY <2>4, <2>6, <1>11 DEF Inv
<1> QED BY <1>13, <1>14

\* A new connection starts with nothing decoded and nothing carried.
LEMMA OpenStep ==
    ASSUME Inv, Open
    PROVE  Inv'
<1>1. /\ accepted' = <<>> /\ decoded' = <<>> /\ m_has_pending_raw_byte' = FALSE
      /\ m_pending_raw_byte' = m_pending_raw_byte
      /\ open' = TRUE /\ conn' = conn + 1 /\ conn < MaxConns /\ sent' = 0
  BY DEF Open
<1>2. TypeOK'
  <2>1. conn' \in 0..MaxConns /\ sent' \in 0..MaxBytes /\ m_pending_raw_byte' \in Byte
    BY <1>1 DEF Inv, TypeOK
  <2>2. /\ accepted' \in Seq([conn : {conn'}, at : 1..sent'])
        /\ decoded' \in Seq(Byte \X Byte)
    BY <1>1
  <2> QED BY <1>1, <2>1, <2>2 DEF TypeOK
<1>3. StreamDecoded' /\ CarryIsLastByte'
  BY <1>1 DEF StreamDecoded, CarryIsLastByte
<1> QED BY <1>2, <1>3 DEF Inv

\* A dropped message moves the peer's position, and nothing else.
LEMMA OversizedStep ==
    ASSUME Inv, NEW n \in Nat, Oversized(n)
    PROVE  Inv'
<1>1. /\ UNCHANGED <<carryVars, open, conn, accepted, decoded>>
      /\ sent' = sent + n /\ sent + n <= MaxBytes
  BY DEF Oversized, Receive
<1>2. accepted \in Seq([conn : {conn}, at : 1..sent + n])
  BY ArrivingBytes DEF Inv
<1>3. TypeOK'
  BY <1>1, <1>2 DEF Inv, TypeOK, carryVars
<1>4. StreamDecoded' /\ CarryIsLastByte'
  BY <1>1 DEF Inv, StreamDecoded, CarryIsLastByte, carryVars
<1> QED BY <1>3, <1>4 DEF Inv

\* The invariant is inductive.
LEMMA Invariance == Spec => []Inv
<1>1. Init => Inv
  <2> SUFFICES ASSUME Init PROVE Inv
    OBVIOUS
  <2>1. TypeOK
    <3>1. m_pending_raw_byte \in Byte /\ conn \in 0..MaxConns /\ sent \in 0..MaxBytes
      BY DEF Init, Byte
    <3>2. /\ accepted \in Seq([conn : {conn}, at : 1..sent])
          /\ decoded \in Seq(Byte \X Byte)
      BY DEF Init
    <3> QED BY <3>1, <3>2 DEF Init, TypeOK
  <2>2. StreamDecoded /\ CarryIsLastByte
    BY DEF Init, StreamDecoded, CarryIsLastByte
  <2> QED BY <2>1, <2>2 DEF Inv
<1>2. Inv /\ [Next]_vars => Inv'
  <2> SUFFICES ASSUME Inv, [Next]_vars PROVE Inv'
    OBVIOUS
  <2>1. CASE UNCHANGED vars
    BY <2>1 DEF vars, carryVars, Inv, TypeOK, StreamDecoded, CarryIsLastByte
  <2>2. CASE Open
    BY <2>2, OpenStep
  <2>3. CASE Close
    BY <2>3 DEF Close, carryVars, Inv, TypeOK, StreamDecoded, CarryIsLastByte
  <2>4. ASSUME NEW n \in Sizes, BinaryFrame(n) \/ AudioDelta(n)
        PROVE  Inv'
    BY <2>4, AcceptStep DEF BinaryFrame, AudioDelta
  <2>5. ASSUME NEW n \in Sizes, Oversized(n)
        PROVE  Inv'
    BY <2>5, OversizedStep
  <2> QED BY <2>1, <2>2, <2>3, <2>4, <2>5 DEF Next
<1> QED BY <1>1, <1>2, PTL DEF Spec

\* The carry and the histories keep their types, and a carried byte is never one
\* of an earlier connection.
THEOREM TypeCorrect == Spec => []TypeOK
<1>1. Inv => TypeOK
  BY DEF Inv
<1> QED BY <1>1, Invariance, PTL

\* The samples do not depend on how the stream is cut into messages.
THEOREM DecodingIsStreamwise == Spec => []StreamDecoded
<1>1. Inv => StreamDecoded
  BY DEF Inv
<1> QED BY <1>1, Invariance, PTL
-----------------------------------------------------------------------------
(* Texts *)

USE NamesAssumption

Literal == [in_string : BOOLEAN, skip : BOOLEAN]
Opened == [literal : Literal, stack : Seq(Opening), result : {"running", "value", "error"}]

\* As long as the parser runs, it is where json_depth_exceeded is, as deep as that has
\* counted; a parser that has stopped was not too deep when it did.
TextInv ==
    /\ scan \in [literal : Literal, depth : Nat]
    /\ parse \in Opened
    /\ parse.result = "running" => scan.literal = parse.literal /\ scan.depth = Len(parse.stack)
    /\ parse.result # "running" => Len(parse.stack) <= MaxDepth

\* Both readers go in and out of strings at the same characters.
LEMMA SameLiteral ==
    ASSUME NEW literal \in Literal, NEW c
    PROVE  ScanLiteral(literal, c) = ParseLiteral(literal, c) /\ ScanLiteral(literal, c) \in Literal
<1>1. ScanLiteral(literal, c) = ParseLiteral(literal, c)
  BY DEF ScanLiteral, ParseLiteral
<1>2. ScanLiteral(literal, c) \in Literal
  BY DEF ScanLiteral, Literal
<1> QED BY <1>1, <1>2

\* The depth stays a number.
LEMMA ScanType ==
    ASSUME NEW s \in [literal : Literal, depth : Nat], NEW c
    PROVE  Scan(s, c) \in [literal : Literal, depth : Nat]
<1>1. ScanLiteral(s.literal, c) \in Literal
  BY SameLiteral
<1> QED BY <1>1 DEF Scan

\* A bracket that the parser takes changes its stack as it changes the count.
LEMMA SameDepth ==
    ASSUME NEW s \in [literal : Literal, depth : Nat], NEW p \in Opened, NEW c \in Chars,
           s.literal = p.literal, s.depth = Len(p.stack), CanRead(p, c)
    PROVE  ReadStack(p, c) \in Seq(Opening) /\ Scan(s, c).depth = Len(ReadStack(p, c))
<1>1. p.stack \in Seq(Opening) /\ Len(p.stack) \in Nat
  BY DEF Opened
<1>2. CASE p.literal.in_string
  BY <1>1, <1>2 DEF Scan, ReadStack
<1>3. CASE ~p.literal.in_string /\ c \in Opening
  BY <1>1, <1>3 DEF Scan, ReadStack
<1>4. CASE ~p.literal.in_string /\ c \in Closing
  <2>1. c \notin Opening
    BY <1>4 DEF Opening, Closing
  <2>2. Len(p.stack) > 0
    <3>1. p.stack # <<>>
      BY <1>4 DEF CanRead
    <3> QED BY <1>1, <3>1, EmptySeq
  <2>3. Pop(p.stack) \in Seq(Opening) /\ Len(Pop(p.stack)) = Len(p.stack) - 1
    BY <1>1, <2>2 DEF Pop
  <2> QED BY <1>4, <2>1, <2>2, <2>3 DEF Scan, ReadStack
<1>5. CASE ~p.literal.in_string /\ c \notin Opening /\ c \notin Closing
  BY <1>1, <1>5 DEF Scan, ReadStack
<1> QED BY <1>2, <1>3, <1>4, <1>5

\* Reading one more character preserves the invariant.
LEMMA ReadStep ==
    ASSUME TextInv, ~Exceeded(scan), NEW c \in Chars, scan' = Scan(scan, c), parse' \in Parses(parse, c)
    PROVE  TextInv'
<1> USE DepthAssumption
<1>1. scan \in [literal : Literal, depth : Nat] /\ parse \in Opened /\ Len(parse.stack) \in Nat
  BY DEF TextInv, Opened
<1>2. scan' \in [literal : Literal, depth : Nat]
  BY <1>1, ScanType
<1>3. CASE parse.result # "running"
  <2>1. parse' = parse
    BY <1>3 DEF Parses
  <2> QED BY <1>2, <1>3, <2>1 DEF TextInv
<1>4. CASE parse.result = "running" /\ parse' = [parse EXCEPT !.result = "error"]
  <2>1. parse' \in Opened /\ parse'.result = "error" /\ parse'.stack = parse.stack
    BY <1>1, <1>4 DEF Opened
  <2>2. Len(parse.stack) <= MaxDepth
    BY <1>1, <1>4 DEF TextInv, Exceeded
  <2> QED BY <1>2, <2>1, <2>2 DEF TextInv
<1>5. CASE parse.result = "running" /\ CanRead(parse, c) /\ parse' = Read(parse, c)
  <2>1. scan.literal = parse.literal /\ scan.depth = Len(parse.stack)
    BY <1>5 DEF TextInv
  <2>2. ReadStack(parse, c) \in Seq(Opening) /\ scan'.depth = Len(ReadStack(parse, c))
    BY <1>1, <1>5, <2>1, SameDepth
  <2>3. scan'.literal = ParseLiteral(parse.literal, c) /\ ParseLiteral(parse.literal, c) \in Literal
    <3>1. parse.literal \in Literal
      BY <1>1 DEF Opened
    <3> QED BY <2>1, <3>1, SameLiteral DEF Scan
  <2>4. /\ parse'.literal = ParseLiteral(parse.literal, c) /\ parse'.stack = ReadStack(parse, c)
        /\ parse'.result \in {"running", "value"}
        /\ parse'.result = "value" => ReadStack(parse, c) = <<>>
    BY <1>5 DEF Read
  <2>5. parse' \in Opened
    <3>1. parse' = [literal |-> ParseLiteral(parse.literal, c), stack |-> ReadStack(parse, c), result |-> parse'.result]
      BY <1>5 DEF Read
    <3> QED BY <2>2, <2>3, <2>4, <3>1 DEF Opened
  <2>6. parse'.result # "running" => Len(parse'.stack) <= MaxDepth
    BY <2>4
  <2> QED BY <1>2, <2>2, <2>3, <2>4, <2>5, <2>6 DEF TextInv
<1>6. parse.result = "running" =>
          parse' = [parse EXCEPT !.result = "error"] \/ (CanRead(parse, c) /\ parse' = Read(parse, c))
  BY DEF Parses
<1> QED BY <1>3, <1>4, <1>5, <1>6

\* A text that has not been read has the invariant.
LEMMA TextStarts ==
    ASSUME scan' = ScanStart, parse' = ParseStart
    PROVE  TextInv'
BY DepthAssumption DEF TextInv, ScanStart, ParseStart, Outside, Literal, Opened

\* Every step preserves it.
LEMMA TextStep ==
    ASSUME TextInv, [MsgNext]_msgVars
    PROVE  TextInv'
<1>1. CASE UNCHANGED textVars
  BY <1>1 DEF textVars, TextInv
<1>2. CASE scan' = ScanStart /\ parse' = ParseStart
  BY <1>2, TextStarts
<1>3. ASSUME NEW c \in Chars, ReadChar(c)
      PROVE  TextInv'
  BY <1>3, ReadStep DEF ReadChar
<1>4. \/ UNCHANGED textVars
      \/ scan' = ScanStart /\ parse' = ParseStart
      \/ \E c \in Chars : ReadChar(c)
  BY DEF MsgNext, Callback, msgVars, TakeBinary, TakeOversized, DecodeDelta, TakeText, TooDeep, OtherText, CreateFile,
         WriteFile, NotifyPlay, ConvertBinary, ConvertDelta, Connection, Hangup, Disconnect, DeleteFiles
<1> QED BY <1>1, <1>2, <1>3, <1>4

\* The recursive parser is never deeper than MAX_JSON_DEPTH, for any limit and any text,
\* and only texts that are deeper are refused for that.
THEOREM ParserDepthIsBounded == MsgSpec => []DepthGuard
<1>1. MsgInit => TextInv
  BY DepthAssumption DEF MsgInit, TextInv, ScanStart, ParseStart, Outside, Literal, Opened
<1>2. TextInv => DepthGuard
  <2> SUFFICES ASSUME TextInv PROVE DepthGuard
    OBVIOUS
  <2>1. scan.depth \in Nat /\ Len(parse.stack) \in Nat
    BY DEF TextInv, Opened
  <2> QED BY <2>1, DepthAssumption DEF TextInv, DepthGuard, Exceeded
<1> QED BY <1>1, <1>2, TextStep, PTL DEF MsgSpec

-----------------------------------------------------------------------------
(* The callback *)

\* Audio is converted.
Convert == ConvertBinary \/ ConvertDelta


Kinds == {"none", "binary", "oversized", "deep", "other", "delta"}
Msg == [kind : Kinds, audio : Seq(Byte), file : Names \cup {-1}, events : SUBSET {"json", "play"},
        original : BOOLEAN, samples : {"none", "queued", "dropped"}]
AudioStages == {"create", "write", "play", "convert"}

\* Between two messages, and while a text is read, there is no message; from then on its
\* audio is the next of the peer's stream, which no other action moves.  The callback has
\* ended when the WebSocket thread has been joined.
Control ==
    /\ conn \in Nat /\ sent \in Nat
    /\ msg \in Msg /\ m_playFile \in Nat
    /\ stage = "write" => m_playFile - 1 \in Names
    /\ stage \in {"idle", "scan"} \cup AudioStages
    /\ stage \in AudioStages => \E n \in Sizes : msg.audio = Arriving(n)
    /\ stage \in AudioStages => msg.kind \in {"binary", "delta"}
    /\ stage \notin AudioStages => msg = NoMessage
    /\ stream \in {"running", "joined", "gone"}
    /\ stream # "running" => stage = "idle"

\* The bytes that arrive are the next ones.
LEMMA Arrivals ==
    ASSUME NEW n \in Nat, conn \in Nat, sent \in Nat
    PROVE  /\ Arriving(n) \in Seq(Byte) /\ Len(Arriving(n)) = n
           /\ \A i \in 1..n : Arriving(n)[i] = [conn |-> conn, at |-> sent + i]
<1>1. Arriving(n) \in [1..n -> Byte]
  BY DEF Arriving, Byte
<1>2. Arriving(n) \in Seq(Byte) /\ Len(Arriving(n)) = n
  BY <1>1, SeqDef, LenProperties
<1> QED BY <1>2 DEF Arriving

\* There is a message of no kind.
LEMMA NoMessageType == NoMessage \in Msg
BY EmptySeq DEF NoMessage, Message, Msg, Kinds

\* Messages as they start.
LEMMA FirstMessages ==
    ASSUME NEW n \in Nat, conn \in Nat, sent \in Nat,
           NEW m \in {Message("binary", Arriving(n)), Decoded(n)}
    PROVE  /\ m \in Msg /\ m.audio = Arriving(n) /\ m.kind \in {"binary", "delta"}
           /\ m.events = {} /\ m.samples = "none" /\ (m.kind = "delta" => ~m.original)
<1>1. Arriving(n) \in Seq(Byte)
  BY Arrivals
<1>2. PICK kind \in {"binary", "delta"}, original \in BOOLEAN :
          /\ kind = "delta" => ~original
          /\ m = [kind |-> kind, audio |-> Arriving(n), file |-> -1, events |-> {}, original |-> original, samples |-> "none"]
  <2>1. CASE m = Message("binary", Arriving(n))
    BY <2>1 DEF Message
  <2>2. CASE m = Decoded(n)
    BY <2>2 DEF Message, Decoded
  <2> QED BY <2>1, <2>2
<1>3. kind \in Kinds /\ -1 \in Names \cup {-1} /\ {} \in SUBSET {"json", "play"}
  BY DEF Kinds
<1>4. m \in Msg
  BY <1>1, <1>2, <1>3 DEF Msg
<1> QED BY <1>2, <1>4

\* What the callback does to the message and to the audio, action by action.
LEMMA ControlStep ==
    ASSUME Control, [MsgNext]_msgVars
    PROVE  Control'
<1> USE DEF AudioStages
<1>0. NoMessage \in Msg
  BY NoMessageType
<1>1. CASE UNCHANGED msgVars
  BY <1>1 DEF msgVars, fileVars, audioVars, vars, Control, Arriving
<1>2. ASSUME NEW n \in Sizes, TakeBinary(n) \/ DecodeDelta(n)
      PROVE  Control'
  <2>1. /\ UNCHANGED <<conn, sent, stream, m_playFile>> /\ stage' \in {"create", "convert"}
        /\ stream = "running"
        /\ msg' \in {Message("binary", Arriving(n)), Decoded(n)}
    BY <1>2 DEF TakeBinary, MayTake, DecodeDelta, FirstStage, fileVars, audioVars, vars, Control
  <2>2. msg' \in Msg /\ msg'.audio = Arriving(n) /\ msg'.kind \in {"binary", "delta"}
    BY <2>1, FirstMessages DEF Control
  <2> QED BY <2>1, <2>2 DEF Control, Arriving
<1>3. ASSUME NEW n \in Sizes, TakeOversized(n)
      PROVE  Control'
  <2>1. sent' = sent + n /\ conn' = conn /\ n \in Nat
    BY <1>3 DEF TakeOversized, Oversized, Receive
  <2>2. stage' = "idle" /\ msg' = NoMessage /\ UNCHANGED <<stream, m_playFile>>
    BY <1>3 DEF TakeOversized, Done, fileVars
  <2> QED BY <1>0, <2>1, <2>2 DEF Control
<1>4. CASE TakeText
  BY <1>4 DEF TakeText, MayTake, fileVars, audioVars, vars, Control
<1>5. ASSUME NEW c \in Chars, ReadChar(c)
      PROVE  Control'
  BY <1>5 DEF ReadChar, fileVars, audioVars, vars, Control
<1>6. CASE TooDeep \/ OtherText
  BY <1>0, <1>6 DEF TooDeep, OtherText, Done, fileVars, audioVars, vars, Control
<1>7. CASE CreateFile \/ WriteFile \/ NotifyPlay
  <2>1. /\ UNCHANGED <<conn, sent, stream>> /\ stage \in AudioStages /\ stage' \in AudioStages
        /\ m_playFile' \in Nat /\ (stage' = "write" => m_playFile' - 1 \in Names)
    <3>1. CASE CreateFile
      <4>1. m_playFile' = m_playFile + 1 /\ m_playFile \in Nat /\ m_playFile \in Names
        BY <3>1 DEF CreateFile, Control
      <4>2. m_playFile' \in Nat /\ m_playFile' - 1 = m_playFile
        BY <4>1
      <4>3. UNCHANGED <<conn, sent, stream>> /\ stage = "create" /\ stage' \in {"write", "convert"}
        BY <3>1 DEF CreateFile, audioVars, vars
      <4> QED BY <4>1, <4>2, <4>3
    <3>2. CASE WriteFile
      BY <3>2 DEF WriteFile, audioVars, vars, Control
    <3>3. CASE NotifyPlay
      BY <3>3 DEF NotifyPlay, fileVars, audioVars, vars, Control
    <3> QED BY <1>7, <3>1, <3>2, <3>3
  <2>2. \/ msg' = msg
        \/ stage = "write" /\ msg' = [msg EXCEPT !.file = m_playFile - 1]
        \/ msg' = [msg EXCEPT !.events = @ \cup {"play"}]
    BY <1>7 DEF CreateFile, WriteFile, NotifyPlay
  <2>3. msg' \in Msg /\ msg'.kind = msg.kind /\ msg'.audio = msg.audio
    <3> msg \in Msg
      BY DEF Control
    <3>1. CASE msg' = msg
      BY <3>1
    <3>2. CASE stage = "write" /\ msg' = [msg EXCEPT !.file = m_playFile - 1]
      <4>1. m_playFile - 1 \in Names
        BY <3>2 DEF Control
      <4> QED BY <3>2, <4>1 DEF Msg
    <3>3. CASE msg' = [msg EXCEPT !.events = @ \cup {"play"}]
      BY <3>3 DEF Msg
    <3> QED BY <2>2, <3>1, <3>2, <3>3
  <2> QED BY <2>1, <2>3 DEF Control, Arriving
<1>8. CASE Convert
  <2>1. Len(msg.audio) \in Nat
    BY <1>8, Arrivals DEF Convert, ConvertBinary, ConvertDelta, Control
  <2>2. stage' = "idle" /\ msg' = NoMessage /\ UNCHANGED <<stream, m_playFile, conn>> /\ sent' = sent + Len(msg.audio)
    BY <1>8 DEF Convert, ConvertBinary, ConvertDelta, Done, BinaryFrame, AudioDelta, Accept, Receive, fileVars
  <2> QED BY <1>0, <2>1, <2>2 DEF Control
<1>9. CASE Connection
  BY <1>9 DEF Connection, Open, Close, fileVars, Control
<1>10. CASE Hangup \/ Disconnect \/ DeleteFiles
  BY <1>10 DEF Hangup, Disconnect, DeleteFiles, fileVars, audioVars, vars, Control, Arriving
<1> QED BY <1>1, <1>2, <1>3, <1>4, <1>5, <1>6, <1>7, <1>8, <1>9, <1>10 DEF MsgNext, Callback, Convert

\* Every step is one of RawAudio, or leaves its variables.
LEMMA AudioStep ==
    ASSUME Control, [MsgNext]_msgVars
    PROVE  [Next]_vars
<1>1. ASSUME NEW n \in Sizes, TakeOversized(n)
      PROVE  Next
  BY <1>1 DEF TakeOversized, Next
<1>2. CASE Convert
  <2>1. PICK n \in Sizes : msg.audio = Arriving(n)
    BY <1>2 DEF Convert, ConvertBinary, ConvertDelta, Control, AudioStages
  <2>2. Len(msg.audio) = n
    <3>1. conn \in Nat /\ sent \in Nat /\ n \in Nat
      BY DEF Control
    <3> QED BY <2>1, <3>1, Arrivals
  <2> QED BY <1>2, <2>2 DEF Convert, ConvertBinary, ConvertDelta, Next
<1>3. CASE Connection
  BY <1>3 DEF Connection, Next
<1>4. \/ UNCHANGED vars
      \/ \E n \in Sizes : TakeOversized(n)
      \/ Convert \/ Connection
  BY DEF MsgNext, Callback, Convert, msgVars, TakeBinary, DecodeDelta, TakeText, ReadChar, TooDeep, OtherText, CreateFile,
         WriteFile, NotifyPlay, Hangup, Disconnect, DeleteFiles, audioVars
<1> QED BY <1>1, <1>2, <1>3, <1>4

\* The control of the callback is invariant.
LEMMA ControlInvariant == MsgSpec => []Control
<1>1. MsgInit => Control
  BY NoMessageType DEF MsgInit, Init, Control, AudioStages
<1> QED BY <1>1, ControlStep, PTL DEF MsgSpec

\* The callback, with its files, its texts and finish, decodes audio as RawAudio does, so
\* all that is proved of RawAudio holds of it.
THEOREM MessagesImplementRawAudio == MsgSpec => Spec
<1>1. MsgInit => Init
  BY DEF MsgInit
<1>2. Control /\ [MsgNext]_msgVars => [Next]_vars
  BY AudioStep
<1> QED BY <1>1, <1>2, ControlInvariant, PTL DEF MsgSpec, Spec

-----------------------------------------------------------------------------
(* Alignment *)

\* Unless an odd number of bytes was dropped, the accepted bytes are at odd and even places
\* of the peer's stream by turns, and so will the next ones be.
Align ==
    ~lost_odd =>
        /\ Len(accepted) % 2 = sent % 2
        /\ \A i \in 1..Len(accepted) : accepted[i].at % 2 = i % 2

\* Numbers of the same parity still have the same parity when they grow by the same.
LEMMA Parity ==
    ASSUME NEW a \in Nat, NEW b \in Nat, NEW n \in Nat, a % 2 = b % 2
    PROVE  (a + n) % 2 = (b + n) % 2
OBVIOUS

\* Accepted bytes follow those before them.
LEMMA AlignAccept ==
    ASSUME Inv, Control, ~lost_odd, Align, NEW n \in Nat, Accept(n), lost_odd' = lost_odd
    PROVE  Align'
<1>1. accepted' = accepted \o Arriving(n) /\ sent' = sent + n /\ sent \in Nat /\ conn \in Nat
  BY DEF Accept, Receive, Control
<1>2. /\ Arriving(n) \in Seq(Byte) /\ accepted \in Seq(Byte) /\ Len(Arriving(n)) = n
      /\ \A i \in 1..n : Arriving(n)[i] = [conn |-> conn, at |-> sent + i]
  <2>1. accepted \in Seq([conn : {conn}, at : 1..sent + n]) /\ [conn : {conn}, at : 1..sent + n] \subseteq Byte
    BY ArrivingBytes DEF Inv
  <2>2. accepted \in Seq(Byte)
    BY <2>1, SeqMonotone
  <2> QED BY <1>1, <2>2, Arrivals
<1>3. Len(accepted) \in Nat /\ Len(accepted') = Len(accepted) + n
  BY <1>1, <1>2, ConcatProperties, LenProperties
<1>4. Len(accepted') % 2 = sent' % 2
  <2>1. Len(accepted) % 2 = sent % 2
    BY DEF Align
  <2>2. (Len(accepted) + n) % 2 = (sent + n) % 2
    BY <1>1, <1>3, <2>1, Parity
  <2> QED BY <1>1, <1>3, <2>2
<1>5. ASSUME NEW i \in 1..Len(accepted')
      PROVE  accepted'[i].at % 2 = i % 2
  <2>1. CASE i <= Len(accepted)
    <3>1. i \in 1..Len(accepted)
      BY <1>3, <2>1
    <3>2. accepted'[i] = accepted[i]
      BY <1>1, <1>2, <3>1, ConcatLeft
    <3> QED BY <3>1, <3>2 DEF Align
  <2>2. CASE ~(i <= Len(accepted))
    <3>1. PICK j \in 1..n : i = Len(accepted) + j
      <4>1. i - Len(accepted) \in 1..n /\ i = Len(accepted) + (i - Len(accepted))
        BY <1>3, <2>2
      <4> QED BY <4>1
    <3>2. accepted'[i] = Arriving(n)[j]
      BY <1>1, <1>2, <3>1, ConcatRight
    <3>3. accepted'[i].at = sent + j
      BY <1>2, <3>2
    <3>4. (Len(accepted) + j) % 2 = (sent + j) % 2
      <4>1. Len(accepted) % 2 = sent % 2 /\ j \in Nat
        BY DEF Align
      <4>2. Len(accepted) \in Nat /\ sent \in Nat
        BY <1>1, <1>3
      <4> QED BY <4>1, <4>2, Parity
    <3> QED BY <3>1, <3>3, <3>4
  <2> QED BY <2>1, <2>2
<1> QED BY <1>4, <1>5 DEF Align

\* Every step keeps the bytes aligned.
LEMMA AlignStep ==
    ASSUME Inv, Control, Align, [MsgNext]_msgVars
    PROVE  Align'
<1>1. CASE UNCHANGED <<accepted, sent, lost_odd>>
  BY <1>1 DEF Align
<1>2. ASSUME NEW n \in Sizes, TakeOversized(n)
      PROVE  Align'
  <2>1. /\ sent' = sent + n /\ accepted' = accepted /\ lost_odd' = (lost_odd \/ n % 2 = 1)
        /\ sent \in Nat /\ n \in Nat
    BY <1>2 DEF TakeOversized, Oversized, Receive, Control
  <2>2. n % 2 # 1 => (sent + n) % 2 = sent % 2
    BY <2>1
  <2> QED BY <2>1, <2>2 DEF Align
<1>3. CASE Convert
  <2>1. CASE lost_odd
    BY <1>3, <2>1 DEF Convert, ConvertBinary, ConvertDelta, Align
  <2>2. CASE ~lost_odd
    <3>1. Len(msg.audio) \in Nat /\ Accept(Len(msg.audio)) /\ lost_odd' = lost_odd
      BY <1>3, Arrivals DEF Convert, ConvertBinary, ConvertDelta, Control, BinaryFrame, AudioDelta, AudioStages
    <3> QED BY <2>2, <3>1, AlignAccept
  <2> QED BY <2>1, <2>2
<1>4. CASE Connection
  <2>1. CASE Open
    BY <2>1 DEF Open, Align
  <2>2. CASE Close /\ UNCHANGED lost_odd
    BY <2>2 DEF Close, Align
  <2> QED BY <1>4, <2>1, <2>2 DEF Connection
<1>5. \/ UNCHANGED <<accepted, sent, lost_odd>>
      \/ \E n \in Sizes : TakeOversized(n)
      \/ Convert \/ Connection
  BY DEF MsgNext, Callback, Convert, msgVars, TakeBinary, DecodeDelta, TakeText, ReadChar, TooDeep, OtherText, CreateFile,
         WriteFile, NotifyPlay, Hangup, Disconnect, DeleteFiles, audioVars, vars
<1> QED BY <1>1, <1>2, <1>3, <1>4, <1>5

\* With every byte accepted in turn, a sample is an odd and an even byte of the stream.
LEMMA AlignedPairs ==
    ASSUME Inv, Align
    PROVE  SamplesAligned
<1>1. StreamDecoded /\ accepted \in Seq([conn : {conn}, at : 1..sent]) /\ Len(accepted) \in Nat
  BY LenProperties DEF Inv, TypeOK
<1>2. ASSUME ~lost_odd, NEW i \in 1..Len(decoded)
      PROVE  decoded[i][1].at % 2 = 1 /\ decoded[i][2].at % 2 = 0
  <2>1. Len(decoded) = Len(accepted) \div 2 /\ 2 * (Len(accepted) \div 2) <= Len(accepted)
    BY <1>1, Halves DEF StreamDecoded
  <2>2. i \in Nat /\ 2 * i - 1 \in 1..Len(accepted) /\ 2 * i \in 1..Len(accepted)
    BY <1>1, <2>1
  <2>3. (2 * i - 1) % 2 = 1 /\ (2 * i) % 2 = 0
    BY <2>2
  <2>4. accepted[2 * i - 1].at % 2 = 1 /\ accepted[2 * i].at % 2 = 0
    BY <1>2, <2>2, <2>3 DEF Align
  <2>5. decoded[i] = <<accepted[2 * i - 1], accepted[2 * i]>>
    BY <1>1 DEF StreamDecoded
  <2> QED BY <2>4, <2>5
<1> QED BY <1>1, <1>2 DEF SamplesAligned

\* Samples are never shifted by a byte by anything but a dropped message of odd length,
\* and with the next connection they are right again.
THEOREM SamplesStayAligned == MsgSpec => []SamplesAligned
<1>1. MsgInit => Align
  BY DEF MsgInit, Init, Align
<1>2. MsgSpec => []Inv
  BY MessagesImplementRawAudio, Invariance, PTL
<1> QED BY <1>1, <1>2, ControlInvariant, AlignStep, AlignedPairs, PTL DEF MsgSpec

-----------------------------------------------------------------------------
(* Answers *)

\* A handled message has its answer.
Answered(m) ==
    /\ m.kind = "delta" => (m.samples = "none" <=> "json" \in m.events) /\ ~m.original
    /\ m.kind = "other" => m.events = {"json"} /\ m.original

\* The message in hand has none yet, and every one behind it has.
Answers ==
    /\ m_disable_audiofiles \in BOOLEAN /\ session_up \in BOOLEAN /\ lost_odd \in BOOLEAN
    /\ log \in Seq(Msg)
    /\ stage \in AudioStages => "json" \notin msg.events /\ msg.samples = "none" /\ (msg.kind = "delta" => ~msg.original)
    /\ \A i \in 1..Len(log) : Answered(log[i])

\* What is in a longer log.
LEMMA LogGrows ==
    ASSUME log \in Seq(Msg), NEW m \in Msg, log' = Append(log, m)
    PROVE  /\ log' \in Seq(Msg) /\ Len(log') = Len(log) + 1 /\ Len(log) \in Nat
           /\ \A i \in 1..Len(log) : log'[i] = log[i]
           /\ log'[Len(log) + 1] = m
BY AppendProperties, LenProperties

\* A message that is answered may be logged.
LEMMA AnsweredLog ==
    ASSUME log \in Seq(Msg), \A i \in 1..Len(log) : Answered(log[i]),
           NEW m \in Msg, Answered(m), log' = Append(log, m)
    PROVE  log' \in Seq(Msg) /\ \A i \in 1..Len(log') : Answered(log'[i])
<1>1. /\ log' \in Seq(Msg) /\ Len(log') = Len(log) + 1 /\ Len(log) \in Nat
      /\ \A i \in 1..Len(log) : log'[i] = log[i]
      /\ log'[Len(log) + 1] = m
  BY LogGrows
<1>2. \A i \in 1..Len(log') : i \in 1..Len(log) \/ i = Len(log) + 1
  BY <1>1
<1> QED BY <1>1, <1>2

\* Messages that are done with as soon as they are looked at.
LEMMA ShortMessages ==
    ASSUME conn \in Nat, sent \in Nat, NEW n \in Nat,
           NEW m \in {Message("oversized", Arriving(n)), Message("deep", <<>>), Reported(Message("other", <<>>))}
    PROVE  m \in Msg /\ Answered(m) /\ "play" \notin m.events
<1>1. Arriving(n) \in Seq(Byte) /\ <<>> \in Seq(Byte)
  BY Arrivals, EmptySeq
<1>2. PICK kind \in {"oversized", "deep", "other"}, audio \in Seq(Byte), events \in {{}, {"json"}} :
          /\ kind = "other" => events = {"json"}
          /\ m = [kind |-> kind, audio |-> audio, file |-> -1, events |-> events, original |-> TRUE, samples |-> "none"]
  <2>1. CASE m = Message("oversized", Arriving(n))
    BY <1>1, <2>1 DEF Message
  <2>2. CASE m = Message("deep", <<>>)
    BY <1>1, <2>2 DEF Message
  <2>3. CASE m = Reported(Message("other", <<>>))
    BY <1>1, <2>3 DEF Message, Reported
  <2> QED BY <2>1, <2>2, <2>3
<1>3. kind \in Kinds /\ -1 \in Names \cup {-1} /\ events \in SUBSET {"json", "play"}
  BY DEF Kinds
<1>4. m \in Msg
  BY <1>2, <1>3 DEF Msg
<1> QED BY <1>2, <1>4 DEF Answered

\* The answer to audio.
LEMMA AudioAnswered ==
    ASSUME msg \in Msg, msg.kind \in {"binary", "delta"}, "json" \notin msg.events,
           msg.kind = "delta" => ~msg.original, NEW samples \in {"none", "queued", "dropped"}
    PROVE  /\ Answer(samples) \in Msg /\ Answered(Answer(samples))
           /\ "play" \in Answer(samples).events => "play" \in msg.events
           /\ Answer(samples).audio = msg.audio /\ Answer(samples).file = msg.file
<1>1. PICK events \in SUBSET {"json", "play"} :
          /\ Answer(samples) = [[msg EXCEPT !.events = events] EXCEPT !.samples = samples]
          /\ events = IF msg.kind = "delta" /\ samples = "none" THEN msg.events \cup {"json"} ELSE msg.events
  <2>1. CASE msg.kind = "delta" /\ samples = "none"
    <3>1. msg.events \cup {"json"} \in SUBSET {"json", "play"}
      BY DEF Msg
    <3> QED BY <2>1, <3>1 DEF Answer, Reported
  <2>2. CASE ~(msg.kind = "delta" /\ samples = "none")
    <3>1. msg = [msg EXCEPT !.events = msg.events] /\ msg.events \in SUBSET {"json", "play"}
      BY DEF Msg
    <3> QED BY <2>2, <3>1 DEF Answer
  <2> QED BY <2>1, <2>2
<1>2. /\ Answer(samples).kind = msg.kind /\ Answer(samples).original = msg.original
      /\ Answer(samples).samples = samples /\ Answer(samples).audio = msg.audio
      /\ Answer(samples).file = msg.file /\ Answer(samples).events = events
  BY <1>1 DEF Msg
<1>3. Answer(samples) \in Msg
  BY <1>1 DEF Msg
<1> QED BY <1>1, <1>2, <1>3 DEF Answered

\* Every step answers what it logs.
LEMMA AnswersStep ==
    ASSUME Control, Answers, [MsgNext]_msgVars
    PROVE  Answers'
<1> USE DEF AudioStages
<1>1. CASE UNCHANGED msgVars
  BY <1>1 DEF msgVars, Answers
<1>2. ASSUME NEW n \in Sizes, TakeBinary(n) \/ DecodeDelta(n)
      PROVE  Answers'
  <2>1. /\ UNCHANGED <<m_disable_audiofiles, session_up, lost_odd, log>>
        /\ msg' \in {Message("binary", Arriving(n)), Decoded(n)}
    BY <1>2 DEF TakeBinary, DecodeDelta
  <2>2. msg'.events = {} /\ msg'.samples = "none" /\ (msg'.kind = "delta" => ~msg'.original)
    BY <2>1, FirstMessages DEF Control
  <2> QED BY <2>1, <2>2 DEF Answers
<1>3. ASSUME NEW n \in Nat, TakeOversized(n) \/ TooDeep \/ OtherText
      PROVE  Answers'
  <2>1. PICK m \in {Message("oversized", Arriving(n)), Message("deep", <<>>), Reported(Message("other", <<>>))} :
            Done(m)
    BY <1>3 DEF TakeOversized, TooDeep, OtherText
  <2>2. m \in Msg /\ Answered(m) /\ stage' = "idle"
    BY <2>1, ShortMessages DEF Control, Done
  <2>3. log' \in Seq(Msg) /\ \A i \in 1..Len(log') : Answered(log'[i])
    BY <2>1, <2>2, AnsweredLog DEF Done, Answers
  <2>4. UNCHANGED <<m_disable_audiofiles, session_up>> /\ lost_odd' \in BOOLEAN
    BY <1>3 DEF TakeOversized, TooDeep, OtherText, Answers
  <2> QED BY <2>2, <2>3, <2>4 DEF Answers
<1>4. CASE CreateFile \/ WriteFile \/ NotifyPlay
  <2>1. UNCHANGED <<m_disable_audiofiles, session_up, lost_odd, log>> /\ stage \in AudioStages
    BY <1>4 DEF CreateFile, WriteFile, NotifyPlay
  <2>2. \/ msg' = msg
        \/ stage = "write" /\ msg' = [msg EXCEPT !.file = m_playFile - 1]
        \/ msg' = [msg EXCEPT !.events = @ \cup {"play"}]
    BY <1>4 DEF CreateFile, WriteFile, NotifyPlay
  <2>3. /\ "json" \in msg'.events => "json" \in msg.events
        /\ msg'.kind = msg.kind /\ msg'.original = msg.original /\ msg'.samples = msg.samples
    <3> msg \in Msg
      BY DEF Control
    <3>1. CASE msg' = msg
      BY <3>1
    <3>2. CASE msg' = [msg EXCEPT !.file = m_playFile - 1]
      BY <3>2 DEF Msg
    <3>3. CASE msg' = [msg EXCEPT !.events = @ \cup {"play"}]
      BY <3>3 DEF Msg
    <3> QED BY <2>2, <3>1, <3>2, <3>3
  <2> QED BY <2>1, <2>3 DEF Answers
<1>5. CASE Convert
  <2>1. PICK samples \in {"none", "queued", "dropped"} : Done(Answer(samples))
    BY <1>5 DEF Convert, ConvertBinary, ConvertDelta, Pushed
  <2>2. Answer(samples) \in Msg /\ Answered(Answer(samples))
    BY <1>5, AudioAnswered DEF Convert, ConvertBinary, ConvertDelta, Control, Answers
  <2>3. log' \in Seq(Msg) /\ \A i \in 1..Len(log') : Answered(log'[i])
    BY <2>1, <2>2, AnsweredLog DEF Done, Answers
  <2> QED BY <1>5, <2>1, <2>3 DEF Convert, ConvertBinary, ConvertDelta, Done, Answers
<1>6. CASE TakeText \/ (\E c \in Chars : ReadChar(c)) \/ Connection \/ Hangup \/ Disconnect \/ DeleteFiles
  <2>1. UNCHANGED <<m_disable_audiofiles, log, msg>> /\ session_up' \in BOOLEAN /\ lost_odd' \in BOOLEAN
    BY <1>6 DEF TakeText, ReadChar, Connection, Hangup, Disconnect, DeleteFiles, Answers
  <2>2. stage' \in AudioStages => stage \in AudioStages
    BY <1>6 DEF TakeText, ReadChar, Connection, Hangup, Disconnect, DeleteFiles
  <2>3. log' \in Seq(Msg) /\ \A i \in 1..Len(log') : Answered(log'[i])
    BY <2>1 DEF Answers
  <2>4. stage' \in AudioStages => "json" \notin msg'.events /\ msg'.samples = "none" /\ (msg'.kind = "delta" => ~msg'.original)
    BY <2>1, <2>2 DEF Answers
  <2> QED BY <2>1, <2>3, <2>4 DEF Answers
<1>7. Sizes \subseteq Nat /\ 0 \in Nat
  OBVIOUS
<1> QED BY <1>1, <1>2, <1>3, <1>4, <1>5, <1>6, <1>7 DEF MsgNext, Callback, Convert

\* The answers are invariant.
LEMMA AnswersInvariant == MsgSpec => []Answers
<1>1. MsgInit => Answers
  <2> SUFFICES ASSUME MsgInit PROVE Answers
    OBVIOUS
  <2>1. m_disable_audiofiles \in BOOLEAN /\ session_up \in BOOLEAN /\ lost_odd \in BOOLEAN
    BY DEF MsgInit
  <2>2. log = <<>> /\ stage \notin AudioStages
    BY DEF MsgInit, AudioStages
  <2>3. log \in Seq(Msg) /\ Len(log) = 0
    BY <2>2, EmptySeq
  <2> QED BY <2>1, <2>2, <2>3 DEF Answers
<1> QED BY <1>1, ControlInvariant, AnswersStep, PTL DEF MsgSpec

\* No audio delta is both heard and reported, or neither; every other text is reported.
THEOREM TextsAreAnswered == MsgSpec => []EveryTextAnswered
<1>1. Answers => EveryTextAnswered
  BY DEF Answers, Answered, EveryTextAnswered
<1> QED BY <1>1, AnswersInvariant, PTL

-----------------------------------------------------------------------------
(* Files *)

\* Message m has its file: one created already, with all of its audio.
HasFile(m) == m.file \in Names /\ m.file < m_playFile /\ disk[m.file] = File("us", m.audio, TRUE)
Played(m) == "play" \in m.events => HasFile(m)

\* What the disk holds of this stream is what will be removed; the file being written is
\* the newest one, and no message that is logged has it.
Files ==
    /\ m_Files \subseteq Names /\ \A name \in m_Files : name < m_playFile
    /\ DOMAIN disk = Names /\ \A name \in Names : disk[name].owner \in {"none", "us", "other"}
    /\ stream # "gone" => \A name \in Names : disk[name].owner = "us" <=> name \in m_Files
    /\ stream = "gone" => \A name \in Names : disk[name].owner # "us"
    /\ stage = "write" => m_playFile - 1 \in m_Files
    /\ stage \in {"create", "write"} => "play" \notin msg.events
    /\ stage = "play" => HasFile(msg)
    /\ stage = "convert" => Played(msg)
    /\ stream # "gone" => \A i \in 1..Len(log) : Played(log[i])
    /\ stage = "write" => \A i \in 1..Len(log) : "play" \in log[i].events => log[i].file < m_playFile - 1

\* Nothing changes for the files, and what is logged has its file.
LEMMA FilesLog ==
    ASSUME Files, Answers, UNCHANGED <<fileVars, stream>>, stream = "running",
           stage' = "idle", NEW m \in Msg, Played(m), log' = Append(log, m)
    PROVE  Files'
<1>1. /\ Len(log') = Len(log) + 1 /\ Len(log) \in Nat
      /\ \A i \in 1..Len(log) : log'[i] = log[i]
      /\ log'[Len(log) + 1] = m
  BY LogGrows DEF Answers
<1>2. UNCHANGED <<m_playFile, m_Files, disk, stream>>
  BY DEF fileVars
<1>3. ASSUME NEW i \in 1..Len(log')
      PROVE  Played(log[i])'
  <2>1. i \in 1..Len(log) \/ i = Len(log) + 1
    BY <1>1
  <2>2. Played(log'[i])
    BY <1>1, <2>1 DEF Files
  <2> QED BY <1>2, <2>2 DEF Played, HasFile
<1> QED BY <1>2, <1>3 DEF Files

\* A new file has a name that no message has, and the name is counted up.
LEMMA FilesCreate ==
    ASSUME Control, Files, CreateFile
    PROVE  Files'
<1>1. /\ m_playFile \in Nat /\ m_playFile \in Names /\ m_playFile' = m_playFile + 1
      /\ stage = "create" /\ stream = "running"
      /\ UNCHANGED <<msg, log, stream>>
  BY DEF CreateFile, Control
<1>2. /\ \A name \in m_Files : name < m_playFile
      /\ \A i \in 1..Len(log) : "play" \in log[i].events =>
             log[i].file \in Names /\ log[i].file < m_playFile
      /\ \A name \in Names : name < m_playFile => name < m_playFile'
  <2>1. \A name \in m_Files : name < m_playFile
    BY DEF Files
  <2>2. \A i \in 1..Len(log) : "play" \in log[i].events =>
            log[i].file \in Names /\ log[i].file < m_playFile
    BY <1>1 DEF Files, Played, HasFile
  <2>3. \A name \in Names : name < m_playFile => name < m_playFile'
    BY <1>1
  <2> QED BY <2>1, <2>2, <2>3
<1>3. CASE /\ ~Exists(m_playFile) /\ disk' = [disk EXCEPT ![m_playFile] = File("us", <<>>, FALSE)]
           /\ m_Files' = m_Files \cup {m_playFile} /\ stage' = "write"
  <2>1. DOMAIN disk' = Names /\ \A name \in Names :
            disk'[name] = IF name = m_playFile THEN File("us", <<>>, FALSE) ELSE disk[name]
    BY <1>1, <1>3 DEF Files
  <2>2. \A name \in Names : /\ disk'[name].owner \in {"none", "us", "other"}
                            /\ disk'[name].owner = "us" <=> name \in m_Files'
    BY <1>1, <1>3, <2>1 DEF Files, File
  <2>3. m_Files' \subseteq Names /\ (\A name \in m_Files' : name < m_playFile') /\ m_playFile' - 1 = m_playFile
    <3>1. m_Files \subseteq Names /\ m_Files' = m_Files \cup {m_playFile}
      BY <1>3 DEF Files
    <3>2. m_playFile < m_playFile' /\ m_playFile' - 1 = m_playFile
      BY <1>1
    <3>3. \A name \in m_Files : name < m_playFile'
      BY <1>2, <3>1
    <3> QED BY <1>1, <3>1, <3>2, <3>3
  <2>4. \A i \in 1..Len(log) : "play" \in log[i].events =>
            log[i].file # m_playFile /\ disk'[log[i].file] = disk[log[i].file] /\ log[i].file < m_playFile'
    <3> SUFFICES ASSUME NEW i \in 1..Len(log), "play" \in log[i].events
                 PROVE  log[i].file # m_playFile /\ disk'[log[i].file] = disk[log[i].file] /\ log[i].file < m_playFile'
      OBVIOUS
    <3>1. log[i].file \in Names /\ log[i].file < m_playFile /\ log[i].file < m_playFile'
      BY <1>2
    <3>2. log[i].file # m_playFile
      BY <1>1, <3>1
    <3> QED BY <2>1, <3>1, <3>2
  <2>5. \A i \in 1..Len(log') : Played(log[i])'
    BY <1>1, <1>2, <2>4 DEF Files, Played, HasFile
  <2>6. \A i \in 1..Len(log') : "play" \in log'[i].events => log'[i].file < m_playFile' - 1
    BY <1>1, <1>2, <2>3
  <2>7. m_playFile' - 1 \in m_Files' /\ "play" \notin msg'.events
    BY <1>1, <1>3, <2>3 DEF Files
  <2> QED BY <1>1, <1>3, <2>1, <2>2, <2>3, <2>5, <2>6, <2>7 DEF Files
<1>4. CASE stage' = "convert" /\ UNCHANGED <<m_Files, disk>>
  <2>1. \A i \in 1..Len(log') : Played(log[i])'
    BY <1>1, <1>2, <1>4 DEF Files, Played, HasFile
  <2>2. \A name \in m_Files' : name < m_playFile'
    BY <1>1, <1>2, <1>4 DEF Files
  <2>3. Played(msg)'
    BY <1>1 DEF Files, Played
  <2> QED BY <1>1, <1>4, <2>1, <2>2, <2>3 DEF Files
<1> QED BY <1>3, <1>4 DEF CreateFile

\* The file is written before it becomes the message's.
LEMMA FilesWrite ==
    ASSUME Control, Files, WriteFile
    PROVE  Files'
<1>1. /\ m_playFile \in Nat /\ m_playFile - 1 \in m_Files /\ m_playFile - 1 \in Names /\ m_playFile - 1 < m_playFile
      /\ stage = "write" /\ stream = "running" /\ msg \in Msg
      /\ UNCHANGED <<m_playFile, m_Files, log, stream>>
  BY DEF WriteFile, Control, Files
<1>2. CASE /\ disk' = [disk EXCEPT ![m_playFile - 1] = File("us", msg.audio, TRUE)]
           /\ msg' = [msg EXCEPT !.file = m_playFile - 1] /\ stage' = "play"
  <2>1. DOMAIN disk' = Names /\ \A name \in Names :
            disk'[name] = IF name = m_playFile - 1 THEN File("us", msg.audio, TRUE) ELSE disk[name]
    BY <1>1, <1>2 DEF Files
  <2>2. \A name \in Names : /\ disk'[name].owner \in {"none", "us", "other"}
                            /\ disk'[name].owner = "us" <=> name \in m_Files'
    BY <1>1, <2>1 DEF Files, File
  <2>3. msg'.file = m_playFile - 1 /\ msg'.audio = msg.audio
    BY <1>1, <1>2 DEF Msg
  <2>4. HasFile(msg)'
    BY <1>1, <2>1, <2>3 DEF HasFile
  <2>5. \A i \in 1..Len(log) : "play" \in log[i].events =>
            log[i].file # m_playFile - 1 /\ disk'[log[i].file] = disk[log[i].file]
    <3> SUFFICES ASSUME NEW i \in 1..Len(log), "play" \in log[i].events
                 PROVE  log[i].file # m_playFile - 1 /\ disk'[log[i].file] = disk[log[i].file]
      OBVIOUS
    <3>1. log[i].file \in Names /\ log[i].file < m_playFile - 1
      BY <1>1 DEF Files, Played, HasFile
    <3>2. log[i].file # m_playFile - 1
      BY <1>1, <3>1
    <3> QED BY <2>1, <3>1, <3>2
  <2>6. \A i \in 1..Len(log') : Played(log[i])'
    BY <1>1, <2>5 DEF Files, Played, HasFile
  <2> QED BY <1>1, <1>2, <2>1, <2>2, <2>4, <2>6 DEF Files
<1>3. CASE stage' = "convert" /\ UNCHANGED <<disk, msg>>
  BY <1>1, <1>3 DEF Files, Played, HasFile
<1> QED BY <1>2, <1>3 DEF WriteFile

\* What is removed is this stream's.
LEMMA FilesDelete ==
    ASSUME Control, Files, DeleteFiles
    PROVE  Files'
<1>1. /\ stage = "idle" /\ stream = "joined" /\ stream' = "gone"
      /\ UNCHANGED <<m_playFile, m_Files, stage, msg, log>>
      /\ m_playFile \in Nat
  BY DEF DeleteFiles, Control
<1>2. CASE m_playFile > 0
  <2>1. disk' = [name \in Names |-> IF name \in m_Files THEN NoFile ELSE disk[name]]
    BY <1>2 DEF DeleteFiles
  <2>2. \A name \in Names : disk'[name].owner \in {"none", "other"}
    BY <1>1, <2>1 DEF Files, NoFile
  <2> QED BY <1>1, <2>1, <2>2 DEF Files
<1>3. CASE ~(m_playFile > 0)
  <2>1. disk' = disk
    BY <1>3 DEF DeleteFiles
  <2>2. \A name \in Names : name \notin m_Files
    BY <1>1, <1>3 DEF Files
  <2> QED BY <1>1, <2>1, <2>2 DEF Files
<1> QED BY <1>2, <1>3

\* Every step keeps the files.
LEMMA FilesStep ==
    ASSUME Control, Answers, Files, [MsgNext]_msgVars
    PROVE  Files'
<1>1. CASE UNCHANGED <<fileVars, stage, msg, log, stream>>
  BY <1>1 DEF fileVars, Files, Played, HasFile
<1>2. ASSUME NEW n \in Sizes, TakeBinary(n) \/ DecodeDelta(n)
      PROVE  Files'
  <2>1. /\ UNCHANGED <<m_playFile, m_Files, disk, stream, log>> /\ stage' \in {"create", "convert"}
        /\ msg' \in {Message("binary", Arriving(n)), Decoded(n)}
    BY <1>2 DEF TakeBinary, DecodeDelta, FirstStage, fileVars
  <2>2. msg'.events = {}
    BY <2>1, FirstMessages DEF Control
  <2> QED BY <2>1, <2>2 DEF Files, Played, HasFile
<1>3. ASSUME NEW n \in Nat, TakeOversized(n) \/ TooDeep \/ OtherText
      PROVE  Files'
  <2>1. PICK m \in {Message("oversized", Arriving(n)), Message("deep", <<>>), Reported(Message("other", <<>>))} :
            Done(m)
    BY <1>3 DEF TakeOversized, TooDeep, OtherText
  <2>2. m \in Msg /\ "play" \notin m.events /\ stage' = "idle"
    BY <2>1, ShortMessages DEF Control, Done
  <2>3. UNCHANGED <<fileVars, stream>> /\ stream = "running"
    BY <1>3 DEF TakeOversized, MayTake, TooDeep, OtherText, Control
  <2> QED BY <2>1, <2>2, <2>3, FilesLog DEF Done, Played
<1>4. CASE TakeText \/ (\E c \in Chars : ReadChar(c)) \/ Connection \/ Hangup \/ Disconnect
  <2>1. /\ UNCHANGED <<m_playFile, m_Files, disk, msg, log>>
        /\ stage' \in {stage, "scan"}
        /\ stream' = stream \/ (stream = "running" /\ stream' = "joined")
    BY <1>4 DEF TakeText, ReadChar, Connection, Hangup, Disconnect, fileVars
  <2> QED BY <2>1 DEF Files, Played, HasFile
<1>5. CASE NotifyPlay
  <2>1. /\ UNCHANGED <<m_playFile, m_Files, disk, log, stream>> /\ stage = "play" /\ stage' = "convert" /\ msg \in Msg
        /\ msg' = msg \/ msg' = [msg EXCEPT !.events = @ \cup {"play"}]
    BY <1>5 DEF NotifyPlay, fileVars, Control
  <2>2. msg'.file = msg.file /\ msg'.audio = msg.audio
    BY <2>1 DEF Msg
  <2>3. HasFile(msg)'
    BY <2>1, <2>2 DEF Files, HasFile
  <2> QED BY <2>1, <2>3 DEF Files, Played, HasFile
<1>6. CASE Convert
  <2>1. PICK samples \in {"none", "queued", "dropped"} : Done(Answer(samples))
    BY <1>6 DEF Convert, ConvertBinary, ConvertDelta, Pushed
  <2>2. stage = "convert" /\ UNCHANGED <<fileVars, stream>> /\ stream = "running" /\ Played(msg)
    BY <1>6 DEF Convert, ConvertBinary, ConvertDelta, Control, Files
  <2>3. /\ Answer(samples) \in Msg /\ ("play" \in Answer(samples).events => "play" \in msg.events)
        /\ Answer(samples).audio = msg.audio /\ Answer(samples).file = msg.file
    BY <2>2, AudioAnswered DEF Control, Answers, AudioStages
  <2>4. Played(Answer(samples))
    BY <2>2, <2>3 DEF Played, HasFile
  <2> QED BY <2>1, <2>2, <2>3, <2>4, FilesLog DEF Done
<1>7. Sizes \subseteq Nat /\ 0 \in Nat
  OBVIOUS
<1>8. \/ UNCHANGED <<fileVars, stage, msg, log, stream>>
      \/ \E n \in Sizes : TakeBinary(n) \/ DecodeDelta(n)
      \/ \E n \in Nat : TakeOversized(n) \/ TooDeep \/ OtherText
      \/ TakeText \/ (\E c \in Chars : ReadChar(c)) \/ Connection \/ Hangup \/ Disconnect
      \/ NotifyPlay \/ Convert \/ CreateFile \/ WriteFile \/ DeleteFiles
  BY <1>7 DEF MsgNext, Callback, Convert, msgVars
<1> QED BY <1>1, <1>2, <1>3, <1>4, <1>5, <1>6, <1>8, FilesCreate, FilesWrite, FilesDelete

\* The files are as described throughout.
LEMMA FilesInvariant == MsgSpec => []Files
<1>1. MsgInit => Files
  <2> SUFFICES ASSUME MsgInit PROVE Files
    OBVIOUS
  <2>1. m_Files = {} /\ log = <<>> /\ stage = "idle" /\ stream = "running"
    BY DEF MsgInit
  <2>2. DOMAIN disk = Names /\ \A name \in Names : disk[name] \in {NoFile, File("other", <<>>, TRUE)}
    BY DEF MsgInit
  <2>3. \A name \in Names : disk[name].owner \in {"none", "other"}
    BY <2>2 DEF NoFile, File
  <2> QED BY <2>1, <2>2, <2>3 DEF Files
<1> QED BY <1>1, ControlInvariant, AnswersInvariant, FilesStep, PTL DEF MsgSpec

\* When a stream is gone its files are gone, those too that could not be written.
THEOREM FilesAreRemoved == MsgSpec => []FilesRemoved
<1>1. Files => FilesRemoved
  BY DEF Files, FilesRemoved
<1> QED BY <1>1, FilesInvariant, PTL

\* A play event names a file with all the audio of its message, as long as the stream lives.
THEOREM PlayEventsNameTheirFile == MsgSpec => []PlayNamesFile
<1>1. Files => PlayNamesFile
  BY DEF Files, Played, HasFile, PlayNamesFile
<1> QED BY <1>1, FilesInvariant, PTL

\* Nobody else's file is touched, for any names that others have taken.
THEOREM OthersKeepTheirFiles == MsgSpec => OthersFilesKept
<1> DEFINE Kept == \A name \in Names : disk[name].owner = "other" => disk'[name] = disk[name]
<1>1. Control /\ Files /\ [MsgNext]_msgVars => [Kept]_msgVars
  <2> SUFFICES ASSUME Control, Files, MsgNext PROVE Kept
    OBVIOUS
  <2>1. CASE UNCHANGED disk
    BY <2>1
  <2>2. CASE CreateFile
    BY <2>2 DEF CreateFile, Exists, Files
  <2>3. CASE WriteFile
    <3>1. m_playFile - 1 \in Names /\ disk[m_playFile - 1].owner = "us"
      BY <2>3 DEF WriteFile, Control, Files
    <3> QED BY <2>3, <3>1 DEF WriteFile, Files
  <2>4. CASE DeleteFiles
    <3>1. \A name \in m_Files : disk[name].owner = "us"
      BY <2>4 DEF DeleteFiles, Files
    <3> QED BY <2>4, <3>1 DEF DeleteFiles
  <2>5. UNCHANGED disk \/ CreateFile \/ WriteFile \/ DeleteFiles
    BY DEF MsgNext, Callback, Convert, TakeBinary, TakeOversized, DecodeDelta, TakeText, ReadChar, TooDeep, OtherText,
           NotifyPlay, Convert, ConvertBinary, ConvertDelta, Connection, Hangup, Disconnect, fileVars
  <2> QED BY <2>1, <2>2, <2>3, <2>4, <2>5
<1> QED BY <1>1, ControlInvariant, FilesInvariant, PTL DEF MsgSpec, OthersFilesKept

\* The types, a carried byte only of this connection, and no callback left behind a join.
THEOREM MessagesTypeCorrect == MsgSpec => []MsgTypeOK
<1>1. \A m \in Msg : MessageOK(m)
  BY DEF Msg, Kinds, MessageOK
<1>2. Control /\ Answers /\ Files /\ TypeOK => MsgTypeOK
  <2> SUFFICES ASSUME Control, Answers, Files, TypeOK PROVE MsgTypeOK
    OBVIOUS
  <2>1. MessageOK(msg) /\ \A i \in 1..Len(log) : MessageOK(log[i])
    <3>1. \A i \in 1..Len(log) : log[i] \in Msg
      BY ElementOfSeq DEF Answers
    <3> QED BY <1>1, <3>1 DEF Control
  <2>2. /\ stage \in {"idle", "scan", "create", "write", "play", "convert"}
        /\ stage \in {"create", "write", "play", "convert"} <=> msg.kind \in {"binary", "delta"}
    BY DEF Control, AudioStages, NoMessage, Message
  <2>3. /\ m_disable_audiofiles \in BOOLEAN /\ session_up \in BOOLEAN /\ lost_odd \in BOOLEAN
        /\ m_playFile \in Nat /\ m_Files \subseteq Names
        /\ \A name \in Names : disk[name].owner \in {"none", "us", "other"}
        /\ stream \in {"running", "joined", "gone"} /\ (stream # "running" => stage = "idle")
    BY DEF Control, Answers, Files
  <2> QED BY <2>1, <2>2, <2>3 DEF MsgTypeOK
<1>3. MsgSpec => []TypeOK
  BY MessagesImplementRawAudio, TypeCorrect, PTL
<1> QED BY <1>2, <1>3, ControlInvariant, AnswersInvariant, FilesInvariant, PTL
=============================================================================
