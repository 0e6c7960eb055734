--------------------------- MODULE ProtocolProofs ---------------------------
(* What the checks of stream_protocol.cpp accept and what base64.cpp carries, for texts of *)
(* any length.                                                                             *)
EXTENDS StreamProtocol, Base64, TLAPS, SequenceTheorems, WellFoundedInduction

-----------------------------------------------------------------------------
(* Smallest and largest numbers, which take the place of inductions.        *)

\* A set of numbers has a smallest element.
LEMMA Smallest ==
    ASSUME NEW T, T \subseteq Nat, T # {}
    PROVE  Min(T) \in T /\ \A y \in T : Min(T) <= y
<1>1. \E x \in T : \A y \in T : ~ (<<y, x>> \in OpToRel(<, Nat))
  BY NatLessThanWellFounded, WFMin
<1>2. \E x \in T : \A y \in T : x <= y
  <2>1. PICK x \in T : \A y \in T : <<y, x>> \notin {ss \in Nat \X Nat : ss[1] < ss[2]}
    BY <1>1 DEF OpToRel
  <2>2. ASSUME NEW y \in T PROVE x <= y
    <3>1. x \in Nat /\ y \in Nat
      OBVIOUS
    <3>2. ~ (y < x)
      <4> SUFFICES ASSUME y < x PROVE <<y, x>> \in {ss \in Nat \X Nat : ss[1] < ss[2]}
        BY <2>1
      <4>1. <<y, x>> \in Nat \X Nat /\ <<y, x>>[1] = y /\ <<y, x>>[2] = x
        BY <3>1
      <4> QED BY <4>1
    <3> QED BY <3>1, <3>2
  <2> QED BY <2>2
<1> QED BY <1>2 DEF Min

\* A set of numbers up to a bound has a largest element.
LEMMA Largest ==
    ASSUME NEW n \in Nat, NEW T, T \subseteq 1..n, T # {}
    PROVE  Max(T) \in T /\ \A y \in T : y <= Max(T)
<1> DEFINE U == {n - y : y \in T}
<1>1. U \subseteq Nat /\ U # {}
  <2>1. ASSUME NEW y \in T PROVE n - y \in Nat
    <3>1. y \in 1..n
      OBVIOUS
    <3> QED BY <3>1
  <2> QED BY <2>1
<1>2. Min(U) \in U /\ \A z \in U : Min(U) <= z
  BY <1>1, Smallest
<1>3. PICK x \in T : Min(U) = n - x
  BY <1>2
<1>4. \A y \in T : y <= x
  <2> SUFFICES ASSUME NEW y \in T PROVE y <= x
    OBVIOUS
  <2>1. n - x <= n - y
    BY <1>2, <1>3
  <2> QED BY <2>1
<1>5. \E z \in T : \A y \in T : z >= y
  <2>1. x \in Nat /\ T \subseteq Nat
    OBVIOUS
  <2> QED BY <1>4, <2>1
<1>6. Max(T) \in T /\ \A y \in T : Max(T) >= y
  BY <1>5 DEF Max
<1> QED BY <1>6

-----------------------------------------------------------------------------
(* validate_ws_uri                                                          *)

\* Where a loop that reads up to some character ends.
LEMMA EndFound ==
    ASSUME NEW s \in Seq(STRING), NEW from \in 1..(Len(s) + 1), NEW stops
    PROVE  /\ EndOf(s, from, stops) \in from..(Len(s) + 1)
           /\ EndOf(s, from, stops) = Len(s) + 1 \/ s[EndOf(s, from, stops)] \in stops
           /\ \A k \in from..(EndOf(s, from, stops) - 1) : s[k] \notin stops
<1> DEFINE T == {i \in from..(Len(s) + 1) : i = Len(s) + 1 \/ s[i] \in stops}
<1>1. Len(s) \in Nat
  BY LenProperties
<1>2. T \subseteq Nat /\ T # {}
  <2>1. Len(s) + 1 \in T
    BY <1>1
  <2> QED BY <1>1, <2>1
<1>3. Min(T) \in T /\ \A y \in T : Min(T) <= y
  BY <1>2, Smallest
<1>4. EndOf(s, from, stops) = Min(T)
  BY DEF EndOf
<1>5. ASSUME NEW k \in from..(Min(T) - 1) PROVE s[k] \notin stops
  <2>1. Min(T) \in from..(Len(s) + 1)
    BY <1>3
  <2>2. k \in from..(Len(s) + 1) /\ k < Min(T)
    BY <1>1, <2>1
  <2>3. k \notin T
    BY <1>1, <1>3, <2>1, <2>2
  <2> QED BY <2>2, <2>3
<1> QED BY <1>3, <1>4, <1>5

\* There is only one such place.
LEMMA EndIs ==
    ASSUME NEW s \in Seq(STRING), NEW from \in 1..(Len(s) + 1), NEW stops,
           NEW end \in from..(Len(s) + 1), end = Len(s) + 1 \/ s[end] \in stops,
           \A k \in from..(end - 1) : s[k] \notin stops
    PROVE  EndOf(s, from, stops) = end
<1> DEFINE e == EndOf(s, from, stops)
<1>1. Len(s) \in Nat
  BY LenProperties
<1>2. /\ e \in from..(Len(s) + 1) /\ (e = Len(s) + 1 \/ s[e] \in stops)
      /\ \A k \in from..(e - 1) : s[k] \notin stops
  BY EndFound
<1> HIDE DEF e
<1>3. ~(e < end)
  <2> SUFFICES ASSUME e < end PROVE FALSE
    OBVIOUS
  <2>1. e \in from..(end - 1) /\ e # Len(s) + 1
    BY <1>1, <1>2
  <2> QED BY <1>2, <2>1
<1>4. ~(end < e)
  <2> SUFFICES ASSUME end < e PROVE FALSE
    OBVIOUS
  <2>1. end \in from..(e - 1) /\ end # Len(s) + 1
    BY <1>1, <1>2
  <2> QED BY <1>2, <2>1
<1>5. e = end
  BY <1>1, <1>2, <1>3, <1>4
<1> QED BY <1>5 DEF e

\* Parts of a text.
LEMMA PartOf ==
    ASSUME NEW s \in Seq(STRING), NEW m \in 1..(Len(s) + 1), NEW n \in (m - 1)..Len(s)
    PROVE  /\ SubSeq(s, m, n) \in Seq(STRING) /\ Len(SubSeq(s, m, n)) = n - m + 1
           /\ \A k \in 1..(n - m + 1) : SubSeq(s, m, n)[k] = s[m + k - 1]
<1>1. Len(s) \in Nat
  BY LenProperties
<1> QED BY <1>1, SubSeqProperties

\* All the characters of a part.
LEMMA PartAll ==
    ASSUME NEW s \in Seq(STRING), NEW m \in 1..(Len(s) + 1), NEW n \in (m - 1)..Len(s),
           NEW from \in 1..(n - m + 2), NEW end \in from..(n - m + 2), NEW allowed
    PROVE  All(SubSeq(s, m, n), from, end, allowed) <=> All(s, m + from - 1, m + end - 1, allowed)
<1> DEFINE part == SubSeq(s, m, n)
<1>1. Len(s) \in Nat
  BY LenProperties
<1>2. \A k \in 1..(n - m + 1) : part[k] = s[m + k - 1]
  BY PartOf
<1> HIDE DEF part
<1>3. ASSUME All(part, from, end, allowed) PROVE All(s, m + from - 1, m + end - 1, allowed)
  <2> SUFFICES ASSUME NEW k \in (m + from - 1)..(m + end - 1 - 1) PROVE s[k] \in allowed
    BY DEF All
  <2>1. k - m + 1 \in from..(end - 1) /\ k - m + 1 \in 1..(n - m + 1) /\ m + (k - m + 1) - 1 = k
    BY <1>1
  <2> QED BY <1>2, <1>3, <2>1 DEF All
<1>4. ASSUME All(s, m + from - 1, m + end - 1, allowed) PROVE All(part, from, end, allowed)
  <2> SUFFICES ASSUME NEW k \in from..(end - 1) PROVE part[k] \in allowed
    BY DEF All
  <2>1. m + k - 1 \in (m + from - 1)..(m + end - 1 - 1) /\ k \in 1..(n - m + 1)
    BY <1>1
  <2>2. part[k] = s[m + k - 1]
    BY <1>2, <2>1
  <2> QED BY <1>4, <2>1, <2>2 DEF All
<1> QED BY <1>3, <1>4 DEF part

\* The characters that end a host and those that it is made of, by its kind.
HostStops == {":", "/", "?"}
NameChars == Alphanumerics \cup {"-", "."}
AddressChars == HexDigits \cup {":", "."}
\* None of them is both.
LEMMA HostChars ==
    /\ NameChars \cap HostStops = {} /\ "[" \notin NameChars /\ "]" \notin AddressChars
    /\ Digits \cap {"/", "?"} = {}
BY DEF HostStops, NameChars, AddressChars, Alphanumerics, HexDigits, Digits, Digit

\* What HostEnd cuts off is a host.
LEMMA HostFound ==
    ASSUME NEW s \in Seq(STRING), HostEnd(s) # 0
    PROVE  HostEnd(s) \in 2..(Len(s) + 1) /\ IsHost(SubSeq(s, 1, HostEnd(s) - 1))
<1>1. Len(s) \in Nat
  BY LenProperties
<1>2. CASE s # <<>> /\ s[1] = "["
  <2> DEFINE end == EndOf(s, 2, {"]"})
  <2>1. Len(s) >= 1
    BY <1>1, <1>2, EmptySeq
  <2>2. end \in 2..(Len(s) + 1) /\ (end = Len(s) + 1 \/ s[end] = "]")
    <3>1. 2 \in 1..(Len(s) + 1)
      BY <1>1, <2>1
    <3> QED BY <3>1, EndFound
  <2>3. HostEnd(s) = IF end > 2 /\ end <= Len(s) /\ All(s, 2, end, AddressChars) THEN end + 1 ELSE 0
    BY <1>2 DEF HostEnd, AddressChars
  <2> HIDE DEF end
  <2>4. end > 2 /\ end <= Len(s) /\ All(s, 2, end, AddressChars) /\ HostEnd(s) = end + 1
    BY <2>3
  <2> DEFINE part == SubSeq(s, 1, end)
  <2>5. Len(part) = end /\ part[1] = "[" /\ part[end] = "]"
    <3>1. Len(part) = end - 1 + 1 /\ \A k \in 1..(end - 1 + 1) : part[k] = s[1 + k - 1]
      <4>1. 1 \in 1..(Len(s) + 1) /\ end \in (1 - 1)..Len(s)
        BY <1>1, <2>2, <2>4
      <4> QED BY <4>1, PartOf
    <3>2. 1 \in 1..(end - 1 + 1) /\ end \in 1..(end - 1 + 1) /\ end - 1 + 1 = end /\ 1 + 1 - 1 = 1 /\ 1 + end - 1 = end
      BY <1>1, <2>2, <2>4
    <3> QED BY <1>2, <2>2, <2>4, <3>1, <3>2, <1>1
  <2>6. All(part, 2, end, AddressChars)
    <3>1. /\ 1 \in 1..(Len(s) + 1) /\ end \in (1 - 1)..Len(s) /\ 2 \in 1..(end - 1 + 2)
          /\ end \in 2..(end - 1 + 2) /\ 1 + 2 - 1 = 2 /\ 1 + end - 1 = end
      BY <1>1, <2>2, <2>4
    <3>2. All(part, 2, end, AddressChars) <=> All(s, 1 + 2 - 1, 1 + end - 1, AddressChars)
      BY <3>1, PartAll
    <3> QED BY <2>4, <3>1, <3>2
  <2> HIDE DEF part
  <2>7. IsHost(part)
    BY <2>4, <2>5, <2>6 DEF IsHost, AddressChars
  <2>8. HostEnd(s) - 1 = end
    BY <1>1, <2>2, <2>4
  <2> QED BY <1>1, <2>2, <2>4, <2>7, <2>8 DEF part
<1>3. CASE ~(s # <<>> /\ s[1] = "[")
  <2> DEFINE end == EndOf(s, 1, HostStops)
  <2>1. end \in 1..(Len(s) + 1)
    <3>1. 1 \in 1..(Len(s) + 1)
      BY <1>1
    <3> QED BY <3>1, EndFound
  <2>2. HostEnd(s) = IF end > 1 /\ All(s, 1, end, NameChars) THEN end ELSE 0
    BY <1>3 DEF HostEnd, NameChars, HostStops
  <2> HIDE DEF end
  <2>3. end > 1 /\ All(s, 1, end, NameChars) /\ HostEnd(s) = end
    BY <2>2
  <2> DEFINE part == SubSeq(s, 1, end - 1)
  <2>4. /\ 1 \in 1..(Len(s) + 1) /\ end - 1 \in (1 - 1)..Len(s) /\ 1 \in 1..(end - 1 - 1 + 2)
        /\ end \in 1..(end - 1 - 1 + 2) /\ 1 + 1 - 1 = 1 /\ 1 + end - 1 = end
    BY <1>1, <2>1, <2>3
  <2>5. part \in Seq(STRING) /\ Len(part) = end - 1
    <3>1. Len(part) = end - 1 - 1 + 1
      BY <2>4, PartOf
    <3> QED BY <1>1, <2>1, <2>4, <3>1, PartOf
  <2>6. All(part, 1, end, NameChars)
    <3>1. All(part, 1, end, NameChars) <=> All(s, 1 + 1 - 1, 1 + end - 1, NameChars)
      BY <2>4, PartAll
    <3> QED BY <2>3, <2>4, <3>1
  <2> HIDE DEF part
  <2>7. Len(part) + 1 = end /\ part # <<>>
    <3>1. Len(part) # 0
      BY <1>1, <2>1, <2>3, <2>5
    <3> QED BY <1>1, <2>1, <2>5, <3>1, EmptySeq
  <2>8. IsHost(part)
    BY <2>6, <2>7 DEF IsHost, NameChars
  <2> QED BY <1>1, <2>1, <2>3, <2>8 DEF part
<1> QED BY <1>2, <1>3

\* A host is what HostEnd cuts off when no more of the text can belong to it.
LEMMA HostIs ==
    ASSUME NEW s \in Seq(STRING), NEW i \in 1..Len(s), IsHost(SubSeq(s, 1, i)),
           i = Len(s) \/ s[i + 1] \in HostStops
    PROVE  HostEnd(s) = i + 1
<1> DEFINE part == SubSeq(s, 1, i)
<1>1. Len(s) \in Nat
  BY LenProperties
<1>2. 1 \in 1..(Len(s) + 1) /\ i \in (1 - 1)..Len(s) /\ i - 1 + 1 = i /\ i - 1 + 2 = i + 1
  BY <1>1
<1>3. Len(part) = i /\ \A k \in 1..i : part[k] = s[k]
  <2>1. Len(part) = i - 1 + 1 /\ \A k \in 1..(i - 1 + 1) : part[k] = s[1 + k - 1]
    BY <1>2, PartOf
  <2>2. \A k \in 1..i : 1 + k - 1 = k
    BY <1>1
  <2> QED BY <1>2, <2>1, <2>2
<1>4. s # <<>>
  BY <1>1, EmptySeq
<1>5. CASE part # <<>> /\ All(part, 1, Len(part) + 1, NameChars)
  <2>1. \A k \in 1..i : s[k] \in NameChars
    <3> SUFFICES ASSUME NEW k \in 1..i PROVE s[k] \in NameChars
      OBVIOUS
    <3>1. k \in 1..(Len(part) + 1 - 1)
      BY <1>1, <1>3
    <3> QED BY <1>3, <1>5, <3>1 DEF All
  <2>2. s[1] # "["
    BY <1>1, <2>1, HostChars
  <2>3. EndOf(s, 1, HostStops) = i + 1
    <3>1. i + 1 \in 1..(Len(s) + 1) /\ (i + 1 = Len(s) + 1 \/ s[i + 1] \in HostStops) /\ i + 1 - 1 = i
      BY <1>1
    <3>2. \A k \in 1..(i + 1 - 1) : s[k] \notin HostStops
      BY <2>1, <3>1, HostChars
    <3> QED BY <1>2, <3>1, <3>2, EndIs
  <2>4. All(s, 1, i + 1, NameChars) /\ i + 1 > 1
    BY <1>1, <2>1 DEF All
  <2> QED BY <1>4, <2>2, <2>3, <2>4 DEF HostEnd, NameChars, HostStops
<1>6. CASE Len(part) > 2 /\ part[1] = "[" /\ part[Len(part)] = "]" /\ All(part, 2, Len(part), AddressChars)
  <2>1. i > 2 /\ s[1] = "[" /\ s[i] = "]"
    BY <1>1, <1>3, <1>6
  <2>2. \A k \in 2..(i - 1) : s[k] \in AddressChars
    <3> SUFFICES ASSUME NEW k \in 2..(i - 1) PROVE s[k] \in AddressChars
      OBVIOUS
    <3>1. k \in 1..i
      BY <1>1
    <3> QED BY <1>3, <1>6, <3>1 DEF All
  <2>3. EndOf(s, 2, {"]"}) = i
    <3>1. 2 \in 1..(Len(s) + 1) /\ i \in 2..(Len(s) + 1) /\ s[i] \in {"]"}
      BY <1>1, <2>1
    <3>2. \A k \in 2..(i - 1) : s[k] \notin {"]"}
      BY <2>2, HostChars
    <3> QED BY <3>1, <3>2, EndIs
  <2>4. All(s, 2, i, AddressChars) /\ i <= Len(s)
    BY <1>1, <2>2 DEF All
  <2> QED BY <1>4, <2>1, <2>3, <2>4 DEF HostEnd, AddressChars
<1>7. IsHost(part)
  OBVIOUS
<1> HIDE DEF part
<1> QED BY <1>5, <1>6, <1>7 DEF IsHost, NameChars, AddressChars

\* The port of the text from its colon to the end of the loop that reads it.
PortOf(s, colon, end) == SubSeq(s, colon + 1, end - 1)
\* The loop over the digits of a port.
LEMMA PortDigits ==
    ASSUME NEW s \in Seq(STRING), NEW colon \in 1..Len(s), NEW end \in (colon + 1)..(Len(s) + 1)
    PROVE  IsPort(PortOf(s, colon, end))
               <=> /\ end > colon + 1 /\ All(s, colon + 1, end, Digits)
                   /\ Port(PortOf(s, colon, end)) \in 1..MaxPort
<1> DEFINE part == PortOf(s, colon, end)
           m == colon + 1
           n == end - 1
<1>1. Len(s) \in Nat /\ colon \in Nat /\ end \in Nat
  BY LenProperties
<1>2. /\ m \in 1..(Len(s) + 1) /\ n \in (m - 1)..Len(s) /\ 1 \in 1..(n - m + 2)
      /\ end - colon \in 1..(n - m + 2) /\ m + 1 - 1 = m /\ m + (end - colon) - 1 = end /\ n - m + 1 = end - colon - 1
  BY <1>1
<1>3. part = SubSeq(s, m, n)
  BY DEF PortOf
<1> HIDE DEF part, m, n
<1>4. part \in Seq(STRING) /\ Len(part) = end - colon - 1
  BY <1>2, <1>3, PartOf
<1>5. All(part, 1, end - colon, Digits) <=> All(s, m, end, Digits)
  <2>1. All(part, 1, end - colon, Digits) <=> All(s, m + 1 - 1, m + (end - colon) - 1, Digits)
    BY <1>2, <1>3, PartAll
  <2> QED BY <1>2, <2>1
<1>6. Len(part) + 1 = end - colon /\ (part # <<>> <=> end > colon + 1)
  <2>1. part # <<>> <=> Len(part) # 0
    BY <1>4, EmptySeq
  <2> QED BY <1>1, <1>4, <2>1
<1>7. IsPort(part) <=> part # <<>> /\ All(part, 1, Len(part) + 1, Digits) /\ Port(part) \in 1..MaxPort
  BY Zenon DEF IsPort
<1>8. IsPort(part) <=> end > colon + 1 /\ All(s, m, end, Digits) /\ Port(part) \in 1..MaxPort
  BY <1>5, <1>6, <1>7
<1> QED BY <1>8 DEF part, m

\* What follows host and port.
LEMMA TailStarts ==
    ASSUME NEW s \in Seq(STRING), NEW j \in 1..Len(s)
    PROVE  IsTail(SubSeq(s, j + 1, Len(s))) <=> (j + 1 <= Len(s) => s[j + 1] \in {"/", "?"})
<1> DEFINE part == SubSeq(s, j + 1, Len(s))
           m == j + 1
           n == Len(s)
<1>1. n \in Nat /\ j \in 1..n
  BY LenProperties
<1>2. part = SubSeq(s, m, n)
  OBVIOUS
<1>3. m \in 1..(n + 1) /\ n \in (m - 1)..n /\ n - m + 1 = n - j /\ m + 1 - 1 = m
  BY <1>1
<1> HIDE DEF part, m
<1>4. part \in Seq(STRING) /\ Len(part) = n - m + 1 /\ \A k \in 1..(n - m + 1) : part[k] = s[m + k - 1]
  BY <1>2, <1>3, PartOf
<1> HIDE DEF n
<1>5. part = <<>> <=> n = j
  <2>1. part = <<>> <=> Len(part) = 0
    BY <1>4, EmptySeq
  <2> QED BY <1>1, <1>3, <1>4, <2>1
<1>6. ASSUME j < n PROVE part[1] = s[m]
  <2>1. 1 \in 1..(n - m + 1)
    BY <1>1, <1>3, <1>6
  <2>2. part[1] = s[m + 1 - 1]
    BY <1>4, <2>1
  <2> QED BY <1>3, <2>2
<1>7. IsTail(part) <=> (n = j \/ s[m] \in {"/", "?"})
  BY <1>1, <1>5, <1>6 DEF IsTail
<1>8. j + 1 <= n <=> n # j
  BY <1>1
<1> QED BY <1>7, <1>8 DEF part, m, n

\* The branches of the check of the authority.
LEMMA AuthorityCases ==
    ASSUME NEW s, NEW h, h = HostEnd(s), NEW e, e = EndOf(s, h + 1, {"/", "?"})
    PROVE  /\ h = 0 \/ h > Len(s) \/ s[h] # ":" => AuthorityEnd(s) = h
           /\ ~(h = 0 \/ h > Len(s) \/ s[h] # ":") =>
                  AuthorityEnd(s) = IF e > h + 1 /\ All(s, h + 1, e, Digits) /\ Port(PortOf(s, h, e)) \in 1..MaxPort
                                    THEN e ELSE 0
<1> DEFINE isport == Port(SubSeq(s, h + 1, e - 1)) \in 1..MaxPort
           isall == All(s, h + 1, e, Digits)
<1>1. AuthorityEnd(s) = IF h = 0 \/ h > Len(s) \/ s[h] # ":" THEN h
                        ELSE IF e > h + 1 /\ isall /\ isport THEN e ELSE 0
  BY Zenon DEF AuthorityEnd, AuthorityEndWithPort
<1> HIDE DEF isport, isall
<1>2. /\ h = 0 \/ h > Len(s) \/ s[h] # ":" => AuthorityEnd(s) = h
      /\ ~(h = 0 \/ h > Len(s) \/ s[h] # ":") => AuthorityEnd(s) = IF e > h + 1 /\ isall /\ isport THEN e ELSE 0
  BY <1>1
<1> QED BY <1>2, Zenon DEF isport, isall, PortOf

\* Where host and port end in a WebSocket URI, i and j.
Parts(s, i, j) ==
    /\ IsHost(SubSeq(s, 1, i)) /\ (j + 1 <= Len(s) => s[j + 1] \in {"/", "?"})
    /\ j = i \/ (s[i + 1] = ":" /\ IsPort(PortOf(s, i + 1, j + 1)))

\* An authority that is taken has these parts.
LEMMA AuthorityHasParts ==
    ASSUME NEW s \in Seq(STRING), AuthorityEnd(s) # 0,
           AuthorityEnd(s) <= Len(s) => s[AuthorityEnd(s)] \in {"/", "?"}
    PROVE  \E i \in 1..Len(s) : \E j \in i..Len(s) : Parts(s, i, j)
<1> DEFINE n == Len(s)
           h == HostEnd(s)
           end == AuthorityEnd(s)
           e == EndOf(s, h + 1, {"/", "?"})
<1>1. n \in Nat
  BY LenProperties
<1>2. /\ h = 0 \/ h > n \/ s[h] # ":" => end = h
      /\ ~(h = 0 \/ h > n \/ s[h] # ":") =>
             end = IF e > h + 1 /\ All(s, h + 1, e, Digits) /\ Port(PortOf(s, h, e)) \in 1..MaxPort THEN e ELSE 0
  BY AuthorityCases, Zenon
<1>3. end # 0 /\ (end <= n => s[end] \in {"/", "?"})
  OBVIOUS
<1>4. ASSUME h # 0 PROVE h \in 2..(n + 1) /\ IsHost(SubSeq(s, 1, h - 1))
  BY <1>4, HostFound
<1>5. ASSUME h + 1 \in 1..(n + 1) PROVE e \in (h + 1)..(n + 1)
  BY <1>5, EndFound
<1> HIDE DEF n, h, end, e
<1>6. h # 0
  BY <1>2, <1>3
<1>7. h \in 2..(n + 1)
  BY <1>4, <1>6
<1> DEFINE i == h - 1
<1>8. i \in 1..n /\ i \in i..n /\ i + 1 = h
  BY <1>1, <1>7
<1> HIDE DEF i
<1>9. CASE h > n \/ s[h] # ":"
  <2>1. end = h
    BY <1>2, <1>9
  <2>2. Parts(s, i, i)
    <3>1. IsHost(SubSeq(s, 1, i))
      BY <1>4, <1>6 DEF i
    <3> QED BY <1>3, <1>8, <2>1, <3>1 DEF Parts, n
  <2> QED BY <1>8, <2>2 DEF n
<1>10. CASE h <= n /\ s[h] = ":"
  <2>1. h + 1 \in 1..(n + 1) /\ h \in 1..n /\ ~(h > n)
    BY <1>1, <1>7, <1>10
  <2>2. e \in (h + 1)..(n + 1)
    BY <1>5, <2>1
  <2>3. e > h + 1 /\ All(s, h + 1, e, Digits) /\ Port(PortOf(s, h, e)) \in 1..MaxPort /\ end = e
    BY <1>2, <1>3, <1>6, <1>10, <2>1
  <2>4. IsPort(PortOf(s, h, e))
    BY <2>1, <2>2, <2>3, PortDigits DEF n
  <2> DEFINE j == e - 1
  <2>5. j \in i..n /\ j + 1 = e
    BY <1>1, <1>8, <2>1, <2>2
  <2> HIDE DEF j
  <2>6. Parts(s, i, j)
    <3>1. IsHost(SubSeq(s, 1, i))
      BY <1>4, <1>6 DEF i
    <3>2. e <= n => s[e] \in {"/", "?"}
      BY <1>3, <2>3
    <3> QED BY <1>8, <1>10, <2>4, <2>5, <3>1, <3>2 DEF Parts, n
  <2> QED BY <1>8, <2>5, <2>6 DEF n
<1> QED BY <1>1, <1>7, <1>9, <1>10

\* Parts make an authority that is taken.
LEMMA PartsMakeAuthority ==
    ASSUME NEW s \in Seq(STRING), NEW i \in 1..Len(s), NEW j \in i..Len(s), Parts(s, i, j)
    PROVE  AuthorityEnd(s) # 0 /\ (AuthorityEnd(s) <= Len(s) => s[AuthorityEnd(s)] \in {"/", "?"})
<1> DEFINE n == Len(s)
           h == i + 1
           end == AuthorityEnd(s)
           e == EndOf(s, h + 1, {"/", "?"})
           port == Port(PortOf(s, h, e)) \in 1..MaxPort
<1>1. n \in Nat /\ i \in 1..n /\ j \in i..n /\ h \in 2..(n + 1) /\ h # 0
  BY LenProperties
<1>2. /\ IsHost(SubSeq(s, 1, i)) /\ (j + 1 <= n => s[j + 1] \in {"/", "?"})
      /\ j = i \/ (s[h] = ":" /\ IsPort(PortOf(s, h, j + 1)))
  BY DEF Parts
<1>3. i = n \/ s[h] \in HostStops
  <2>1. CASE j = i
    <3>1. h <= n => s[h] \in {"/", "?"}
      BY <1>2, <2>1
    <3> QED BY <1>1, <3>1 DEF HostStops
  <2>2. CASE s[h] = ":"
    BY <2>2 DEF HostStops
  <2> QED BY <1>2, <2>1, <2>2
<1>4. HostEnd(s) = h
  BY <1>2, <1>3, HostIs
<1>5. /\ h > n \/ s[h] # ":" => end = h
      /\ ~(h > n \/ s[h] # ":") => end = IF e > h + 1 /\ All(s, h + 1, e, Digits) /\ port THEN e ELSE 0
  <2>1. h = HostEnd(s) /\ e = EndOf(s, h + 1, {"/", "?"})
    BY <1>4
  <2> HIDE DEF h, e, n, end
  <2>2. /\ h = 0 \/ h > Len(s) \/ s[h] # ":" => AuthorityEnd(s) = h
        /\ ~(h = 0 \/ h > Len(s) \/ s[h] # ":") =>
               AuthorityEnd(s) = IF e > h + 1 /\ All(s, h + 1, e, Digits) /\ port THEN e ELSE 0
    BY <2>1, AuthorityCases, Zenon
  <2> QED BY <1>1, <2>2, Zenon DEF n, end
<1>6. ASSUME h \in 1..n, IsPort(PortOf(s, h, j + 1)), j # i
      PROVE  h <= n /\ j + 1 > h + 1 /\ All(s, h + 1, j + 1, Digits) /\ e = j + 1 /\ Port(PortOf(s, h, j + 1)) \in 1..MaxPort
  <2>1. j + 1 \in (h + 1)..(n + 1) /\ h + 1 \in 1..(n + 1) /\ h <= n
    BY <1>1, <1>6
  <2>2. j + 1 > h + 1 /\ All(s, h + 1, j + 1, Digits) /\ Port(PortOf(s, h, j + 1)) \in 1..MaxPort
    BY <1>6, <2>1, PortDigits
  <2>3. e = j + 1
    <3>1. j + 1 = n + 1 \/ s[j + 1] \in {"/", "?"}
      BY <1>1, <1>2
    <3>2. \A k \in (h + 1)..(j + 1 - 1) : s[k] \notin {"/", "?"}
      <4> HIDE DEF h
      <4> QED BY <2>2, HostChars DEF All
    <3> DEFINE from == h + 1
               to == j + 1
    <3>3. /\ from \in 1..(Len(s) + 1) /\ to \in from..(Len(s) + 1) /\ (to = Len(s) + 1 \/ s[to] \in {"/", "?"})
          /\ \A k \in from..(to - 1) : s[k] \notin {"/", "?"}
      BY <2>1, <3>1, <3>2
    <3> HIDE DEF from, to
    <3>4. EndOf(s, from, {"/", "?"}) = to
      BY <3>3, EndIs
    <3> QED BY <3>4 DEF from, to
  <2> HIDE DEF h, e
  <2> QED BY <2>1, <2>2, <2>3
<1>7. j # i => h \in 1..n
  BY <1>1
<1>8. n = Len(s) /\ end = AuthorityEnd(s)
  OBVIOUS
<1>9. port <=> Port(PortOf(s, h, e)) \in 1..MaxPort
  OBVIOUS
<1> HIDE DEF n, h, end, e, port
<1>10. CASE j = i
  <2>1. h <= n => s[h] \in {"/", "?"}
    BY <1>2, <1>10 DEF h
  <2>2. end = h
    BY <1>1, <1>5, <2>1
  <2> QED BY <1>1, <1>8, <2>1, <2>2
<1>11. CASE j # i
  <2>1. /\ h <= n /\ j + 1 > h + 1 /\ All(s, h + 1, j + 1, Digits) /\ e = j + 1 /\ s[h] = ":"
        /\ Port(PortOf(s, h, j + 1)) \in 1..MaxPort
    BY <1>2, <1>6, <1>7, <1>11
  <2>2. port
    BY <1>9, <2>1
  <2>3. end = j + 1
    <3>1. ~(h > n \/ s[h] # ":") /\ e > h + 1 /\ All(s, h + 1, e, Digits)
      BY <1>1, <2>1
    <3>2. end = e
      BY <1>5, <2>2, <3>1
    <3> QED BY <2>1, <3>2
  <2>4. j + 1 # 0
    BY <1>1
  <2> QED BY <1>2, <1>8, <2>3, <2>4
<1> QED BY <1>10, <1>11

\* validate_ws_uri takes the WebSocket URIs that fit, and no others, whatever their length.
THEOREM UrisAreChecked ==
    ASSUME NEW uri, uri.rest \in Seq(STRING), NEW size \in Nat
    PROVE  ValidateWsUri(uri, size) <=> IsWsUri(uri, size)
<1> DEFINE s == uri.rest
           n == Len(s)
           end == AuthorityEnd(s)
           scheme == uri.scheme \in {"ws://", "wss://"}
           Ends == end # 0 /\ (end <= n => s[end] \in {"/", "?"})
           Found == \E i \in 1..n : \E j \in i..n : Parts(s, i, j)
<1>1. n \in Nat /\ s \in Seq(STRING)
  BY LenProperties
<1>2. ValidateWsUri(uri, size) <=> scheme /\ Ends /\ SchemeLength(uri.scheme) + n < size
  BY DEF ValidateWsUri
<1>3. IsWsUri(uri, size) <=> scheme /\ SchemeLength(uri.scheme) + n + 1 <= size /\ Found
  <2>1. ASSUME NEW i \in 1..n, NEW j \in i..n
        PROVE  Parts(s, i, j) <=> /\ IsHost(SubSeq(s, 1, i)) /\ IsTail(SubSeq(s, j + 1, n))
                                  /\ (j = i \/ (s[i + 1] = ":" /\ IsPort(SubSeq(s, i + 2, j))))
    <3>1. j \in 1..n /\ i + 1 + 1 = i + 2 /\ j + 1 - 1 = j
      BY <1>1
    <3>2. IsTail(SubSeq(s, j + 1, n)) <=> (j + 1 <= n => s[j + 1] \in {"/", "?"})
      BY <1>1, <3>1, TailStarts
    <3>3. PortOf(s, i + 1, j + 1) = SubSeq(s, i + 2, j)
      BY <3>1 DEF PortOf
    <3> HIDE DEF s
    <3> QED BY <3>2, <3>3, Zenon DEF Parts
  <2>2. IsWsUri(uri, size) <=>
            /\ scheme /\ SchemeLength(uri.scheme) + n + 1 <= size
            /\ \E i \in 1..n : \E j \in i..n :
                   /\ IsHost(SubSeq(s, 1, i)) /\ IsTail(SubSeq(s, j + 1, n))
                   /\ (j = i \/ (s[i + 1] = ":" /\ IsPort(SubSeq(s, i + 2, j))))
    BY Zenon DEF IsWsUri
  <2> HIDE DEF scheme, s, n
  <2> QED BY <2>1, <2>2, Zenon
<1>4. ASSUME scheme
      PROVE  SchemeLength(uri.scheme) + n < size <=> SchemeLength(uri.scheme) + n + 1 <= size
  <2>1. SchemeLength(uri.scheme) \in Nat
    BY <1>4 DEF SchemeLength
  <2> HIDE DEF n
  <2> QED BY <1>1, <2>1
<1>5. Ends <=> Found
  <2>1. Ends => Found
    BY <1>1, AuthorityHasParts
  <2>2. Found => Ends
    <3> SUFFICES ASSUME NEW i \in 1..n, NEW j \in i..n, Parts(s, i, j) PROVE Ends
      OBVIOUS
    <3> QED BY <1>1, PartsMakeAuthority
  <2> QED BY <2>1, <2>2
<1> HIDE DEF scheme, Ends, Found, s, n
<1> QED BY <1>2, <1>3, <1>4, <1>5

-----------------------------------------------------------------------------
(* is_valid_utf8                                                            *)

\* A walk ahead from each of N places, and which of them it leads to the end.
Ahead(N, Succ) == \A i \in 1..N : Succ[i] \subseteq (i + 1)..N
Arrives(N, End, Succ, f) == \A i \in 1..N : f[i] <=> (i \in End \/ \E j \in Succ[i] : f[j])

\* What begins with a backward step from the end is a predicate that each place shares
\* with the places it may lead to: it exists, as the least set that is closed under them.
LEMMA BackwardExists ==
    ASSUME NEW N \in Nat, NEW End, NEW Succ, Ahead(N, Succ)
    PROVE  \E f \in [1..N -> BOOLEAN] : Arrives(N, End, Succ, f)
<1> USE DEF Ahead, Arrives
<1> DEFINE Step(S) == {i \in 1..N : i \in End \/ \E j \in Succ[i] : j \in S}
           L == {i \in 1..N : \A S \in SUBSET (1..N) : Step(S) \subseteq S => i \in S}
           f == [i \in 1..N |-> i \in L]
<1>1. ASSUME NEW S \in SUBSET (1..N), Step(S) \subseteq S PROVE L \subseteq S
  BY <1>1
<1>2. Step(L) \subseteq L
  <2> SUFFICES ASSUME NEW i \in Step(L), NEW S \in SUBSET (1..N), Step(S) \subseteq S PROVE i \in S
    OBVIOUS
  <2>1. L \subseteq S
    BY <1>1
  <2>2. i \in Step(S)
    BY <2>1
  <2> QED BY <2>2
<1>3. L \subseteq Step(L)
  <2>1. Step(Step(L)) \subseteq Step(L)
    BY <1>2
  <2>2. Step(L) \in SUBSET (1..N)
    OBVIOUS
  <2> QED BY <1>1, <2>1, <2>2
<1>4. \A i \in 1..N : i \in L <=> (i \in End \/ \E j \in Succ[i] : j \in L)
  BY <1>2, <1>3
<1> HIDE DEF L
<1>5. f \in [1..N -> BOOLEAN]
  OBVIOUS
<1>6. ASSUME NEW i \in 1..N PROVE f[i] <=> (i \in End \/ \E j \in Succ[i] : f[j])
  <2>1. \A j \in Succ[i] : f[j] <=> j \in L
    <3> SUFFICES ASSUME NEW j \in Succ[i] PROVE f[j] <=> j \in L
      OBVIOUS
    <3>1. j \in (i + 1)..N
      OBVIOUS
    <3>2. j \in 1..N
      BY <3>1
    <3> QED BY <3>2
  <2>2. f[i] <=> i \in L
    OBVIOUS
  <2> HIDE DEF f
  <2> QED BY <1>4, <2>1, <2>2
<1> HIDE DEF f
<1> QED BY <1>5, <1>6

\* There is only one.
LEMMA BackwardUnique ==
    ASSUME NEW N \in Nat, NEW End, NEW Succ, Ahead(N, Succ),
           NEW f, Arrives(N, End, Succ, f), NEW g, Arrives(N, End, Succ, g)
    PROVE  \A i \in 1..N : f[i] <=> g[i]
<1> USE DEF Ahead, Arrives
<1> DEFINE T == {i \in 1..N : ~(f[i] <=> g[i])}
<1> SUFFICES ASSUME T # {} PROVE FALSE
  OBVIOUS
<1>1. T \subseteq 1..N
  OBVIOUS
<1> DEFINE k == Max(T)
<1>2. k \in T /\ \A y \in T : y <= k
  BY <1>1, Largest
<1> HIDE DEF k
<1>3. k \in 1..N
  BY <1>1, <1>2
<1>4. ASSUME NEW j \in Succ[k] PROVE f[j] <=> g[j]
  <2>1. j \in (k + 1)..N
    BY <1>3
  <2>2. j \in 1..N /\ ~(j <= k)
    BY <1>3, <2>1
  <2> QED BY <1>2, <2>2
<1>5. f[k] <=> g[k]
  BY <1>3, <1>4
<1> QED BY <1>2, <1>5

\* The lead bytes and second bytes of each length, as in the table of the standard.
Two(a, b) == a \in 194..223 /\ b \in Continuation
Three(a, b, c) ==
    /\ a \in 224..239 /\ b \in Continuation /\ c \in Continuation
    /\ (a = 224 => b >= 160) /\ (a = 237 => b <= 159)
Four(a, b, c, d) ==
    /\ a \in 240..244 /\ b \in Continuation /\ c \in Continuation /\ d \in Continuation
    /\ (a = 240 => b >= 144) /\ (a = 244 => b <= 143)

\* Numbers in groups of six bits.
Six == 0..63
Join2(x, y) == x * 64 + y
Join3(x, y, z) == x * 4096 + y * 64 + z
Join4(w, x, y, z) == w * 262144 + x * 4096 + y * 64 + z

\* What the bits of two, three and four bytes say, by their leading bytes.
LEMMA Groups2 ==
    ASSUME NEW x \in Nat, NEW y \in Six
    PROVE  Join2(x, y) \in Nat /\ Join2(x, y) \div 64 = x /\ Join2(x, y) % 64 = y
BY SMT DEF Six, Join2

\* Three bytes.
LEMMA Groups3 ==
    ASSUME NEW x \in Nat, NEW y \in Six, NEW z \in Six
    PROVE  LET n == Join3(x, y, z) IN n \in Nat /\ n \div 4096 = x /\ (n \div 64) % 64 = y /\ n % 64 = z
<1> DEFINE n == Join3(x, y, z)
<1>1. n = Join2(Join2(x, y), z) /\ n = x * 4096 + y * 64 + z
  BY SMT DEF Six, Join2, Join3
<1>2. Join2(x, y) \in Nat /\ Join2(x, y) % 64 = y
  BY Groups2, SMT
<1>3. n \div 4096 = x
  BY <1>1, SMT DEF Six
<1> HIDE DEF n
<1>4. n \in Nat /\ n \div 64 = Join2(x, y) /\ n % 64 = z
  <2> DEFINE m == Join2(x, y)
  <2>1. n = Join2(m, z) /\ m \in Nat
    BY <1>1, <1>2, SMT
  <2> HIDE DEF m
  <2>2. n \in Nat /\ n \div 64 = m /\ n % 64 = z
    BY <2>1, Groups2, SMT
  <2> QED BY <2>2, SMT DEF m
<1> QED BY <1>2, <1>3, <1>4, SMT DEF n

\* Four bytes.
LEMMA Groups4 ==
    ASSUME NEW w \in Nat, NEW x \in Six, NEW y \in Six, NEW z \in Six
    PROVE  LET n == Join4(w, x, y, z)
           IN  /\ n \in Nat /\ n \div 262144 = w /\ (n \div 4096) % 64 = x /\ (n \div 64) % 64 = y
               /\ n % 64 = z
<1> DEFINE n == Join4(w, x, y, z)
<1>1. n = Join3(Join2(w, x), y, z) /\ n = w * 262144 + x * 4096 + y * 64 + z
  BY SMT DEF Six, Join2, Join3, Join4
<1>2. Join2(w, x) \in Nat /\ Join2(w, x) % 64 = x
  BY Groups2, SMT
<1>3. n \div 262144 = w
  BY <1>1, SMT DEF Six
<1> HIDE DEF n
<1>4. n \in Nat /\ n \div 4096 = Join2(w, x) /\ (n \div 64) % 64 = y /\ n % 64 = z
  <2> DEFINE m == Join2(w, x)
  <2>1. n = Join3(m, y, z) /\ m \in Nat
    BY <1>1, <1>2, SMT
  <2> HIDE DEF m
  <2>2. n \in Nat /\ n \div 4096 = m /\ (n \div 64) % 64 = y /\ n % 64 = z
    BY <2>1, Groups3, SMT
  <2> QED BY <2>2, SMT DEF m
<1> QED BY <1>2, <1>3, <1>4, SMT DEF n

\* What the table lets through is the encoding of its number, a scalar value.
LEMMA OneDecodes ==
    ASSUME NEW a \in 1..127
    PROVE  IsScalar(Number(<<a>>)) /\ Encoding(Number(<<a>>)) = <<a>>
BY SMT DEF IsScalar, IsSurrogate, Number, Encoding

\* Two bytes and their code point.
LEMMA TwoDecodes ==
    ASSUME NEW a, NEW b, Two(a, b)
    PROVE  IsScalar(Number(<<a, b>>)) /\ Encoding(Number(<<a, b>>)) = <<a, b>>
<1> DEFINE n == (a - 192) * 64 + (b - 128)
<1>1. a \in 194..223 /\ b \in 128..191
  BY SMT DEF Two, Continuation
<1>2. a % 32 = a - 192 /\ b % 64 = b - 128
  BY <1>1, SMT
<1>3. Number(<<a, b>>) = n
  BY <1>2, SMT DEF Number
<1>4. n \div 64 = a - 192 /\ n % 64 = b - 128
  <2> DEFINE x == a - 192
             y == b - 128
  <2>1. n = Join2(x, y) /\ x \in Nat /\ y \in Six
    BY <1>1, SMT DEF Join2, Six
  <2> HIDE DEF n, x, y
  <2>2. n \div 64 = x /\ n % 64 = y
    BY <2>1, Groups2, SMT
  <2> QED BY <2>2, SMT DEF x, y
<1>5. n \in Nat /\ 128 <= n /\ n < 2048
  BY <1>1, SMT
<1> HIDE DEF n
<1>6. IsScalar(n)
  BY <1>5, SMT DEF IsScalar, IsSurrogate
<1>7. Encoding(n) = <<192 + n \div 64, 128 + (n % 64)>>
  BY <1>5, SMT DEF Encoding
<1>8. 192 + n \div 64 = a /\ 128 + (n % 64) = b
  BY <1>1, <1>4, SMT
<1> QED BY <1>3, <1>6, <1>7, <1>8, SMT

\* Three bytes and their code point.
LEMMA ThreeDecodes ==
    ASSUME NEW a, NEW b, NEW c, Three(a, b, c)
    PROVE  IsScalar(Number(<<a, b, c>>)) /\ Encoding(Number(<<a, b, c>>)) = <<a, b, c>>
<1> DEFINE n == (a - 224) * 4096 + (b - 128) * 64 + (c - 128)
<1>1. /\ a \in 224..239 /\ b \in 128..191 /\ c \in 128..191
      /\ (a = 224 => b >= 160) /\ (a = 237 => b <= 159)
  BY SMT DEF Three, Continuation
<1>2. a % 16 = a - 224 /\ b % 64 = b - 128 /\ c % 64 = c - 128
  BY <1>1, SMT
<1>3. Number(<<a, b, c>>) = n
  BY <1>2, SMT DEF Number
<1>4. n \div 4096 = a - 224 /\ (n \div 64) % 64 = b - 128 /\ n % 64 = c - 128
  <2> DEFINE x == a - 224
             y == b - 128
             z == c - 128
  <2>1. n = Join3(x, y, z) /\ x \in Nat /\ y \in Six /\ z \in Six
    BY <1>1, SMT DEF Join3, Six
  <2> HIDE DEF n, x, y, z
  <2>2. n \div 4096 = x /\ (n \div 64) % 64 = y /\ n % 64 = z
    BY <2>1, Groups3, SMT
  <2> QED BY <2>2, SMT DEF x, y, z
<1>5. n \in Nat /\ 2048 <= n /\ n < 65536 /\ (n < 55296 \/ 57344 <= n)
  BY <1>1, SMT
<1> HIDE DEF n
<1>6. IsScalar(n)
  BY <1>5, SMT DEF IsScalar, IsSurrogate
<1>7. Encoding(n) = <<224 + n \div 4096, 128 + ((n \div 64) % 64), 128 + (n % 64)>>
  BY <1>5, SMT DEF Encoding
<1>8. 224 + n \div 4096 = a /\ 128 + ((n \div 64) % 64) = b /\ 128 + (n % 64) = c
  BY <1>1, <1>4, SMT
<1> QED BY <1>3, <1>6, <1>7, <1>8, SMT

\* Four bytes and their code point.
LEMMA FourDecodes ==
    ASSUME NEW a, NEW b, NEW c, NEW d, Four(a, b, c, d)
    PROVE  IsScalar(Number(<<a, b, c, d>>)) /\ Encoding(Number(<<a, b, c, d>>)) = <<a, b, c, d>>
<1> DEFINE n == (a - 240) * 262144 + (b - 128) * 4096 + (c - 128) * 64 + (d - 128)
<1>1. /\ a \in 240..244 /\ b \in 128..191 /\ c \in 128..191 /\ d \in 128..191
      /\ (a = 240 => b >= 144) /\ (a = 244 => b <= 143)
  BY SMT DEF Four, Continuation
<1>2. a % 8 = a - 240 /\ b % 64 = b - 128 /\ c % 64 = c - 128 /\ d % 64 = d - 128
  BY <1>1, SMT
<1>3. Number(<<a, b, c, d>>) = n
  BY <1>2, SMT DEF Number
<1>4. n \div 262144 = a - 240 /\ (n \div 4096) % 64 = b - 128 /\ (n \div 64) % 64 = c - 128 /\ n % 64 = d - 128
  <2> DEFINE w == a - 240
             x == b - 128
             y == c - 128
             z == d - 128
  <2>1. n = Join4(w, x, y, z) /\ w \in Nat /\ x \in Six /\ y \in Six /\ z \in Six
    BY <1>1, SMT DEF Join4, Six
  <2> HIDE DEF n, w, x, y, z
  <2>2. n \div 262144 = w /\ (n \div 4096) % 64 = x /\ (n \div 64) % 64 = y /\ n % 64 = z
    BY <2>1, Groups4, SMT
  <2> QED BY <2>2, SMT DEF w, x, y, z
<1>5. n \in Nat /\ 65536 <= n /\ n <= 1114111
  BY <1>1, SMT
<1> HIDE DEF n
<1>6. IsScalar(n)
  BY <1>5, SMT DEF IsScalar, IsSurrogate
<1>7. Encoding(n) = <<240 + n \div 262144, 128 + ((n \div 4096) % 64), 128 + ((n \div 64) % 64), 128 + (n % 64)>>
  BY <1>5, SMT DEF Encoding
<1>8. /\ 240 + n \div 262144 = a /\ 128 + ((n \div 4096) % 64) = b
      /\ 128 + ((n \div 64) % 64) = c /\ 128 + (n % 64) = d
  BY <1>1, <1>4, SMT
<1> QED BY <1>3, <1>6, <1>7, <1>8, SMT

\* The encoding of a scalar value is let through.
LEMMA ScalarsEncode ==
    ASSUME NEW n, IsScalar(n)
    PROVE  \/ \E a \in 1..127 : Encoding(n) = <<a>>
           \/ \E a, b : Two(a, b) /\ Encoding(n) = <<a, b>>
           \/ \E a, b, c : Three(a, b, c) /\ Encoding(n) = <<a, b, c>>
           \/ \E a, b, c, d : Four(a, b, c, d) /\ Encoding(n) = <<a, b, c, d>>
<1> DEFINE z == n % 64
           y == (n \div 64) % 64
           x == (n \div 4096) % 64
<1>1. n \in Nat /\ n > 0 /\ n <= 1114111 /\ (n < 55296 \/ 57344 <= n)
  BY SMT DEF IsScalar, IsSurrogate
<1>2. n \in Nat /\ z \in 0..63 /\ y \in 0..63 /\ x \in 0..63
  BY <1>1, SMT
<1>3. CASE n < 128
  <2>1. Encoding(n) = <<n>> /\ n \in 1..127
    BY <1>1, <1>3, SMT DEF Encoding
  <2> QED BY <2>1, SMT
<1>4. CASE 128 <= n /\ n < 2048
  <2>1. Encoding(n) = <<192 + n \div 64, 128 + z>>
    BY <1>1, <1>4, SMT DEF Encoding
  <2>2. Two(192 + n \div 64, 128 + z)
    BY <1>2, <1>4, SMT DEF Two, Continuation
  <2> QED BY <2>1, <2>2, SMT
<1>5. CASE 2048 <= n /\ n < 65536
  <2>1. Encoding(n) = <<224 + n \div 4096, 128 + y, 128 + z>>
    BY <1>1, <1>5, SMT DEF Encoding
  <2>2. n = (n \div 4096) * 4096 + y * 64 + z /\ n \div 4096 \in 0..15
    BY <1>1, <1>5, SMT
  <2>3. Three(224 + n \div 4096, 128 + y, 128 + z)
    <3> DEFINE w == n \div 4096
    <3>1. n = w * 4096 + y * 64 + z /\ w \in 0..15
      BY <2>2
    <3> HIDE DEF w, y, z
    <3>2. (w = 0 => y >= 32) /\ (w = 13 => y <= 31)
      BY <1>1, <1>2, <1>5, <3>1, SMT
    <3>3. Three(224 + w, 128 + y, 128 + z)
      BY <1>2, <3>1, <3>2, SMT DEF Three, Continuation
    <3> QED BY <3>3 DEF w
  <2> QED BY <2>1, <2>3, SMT
<1>6. CASE 65536 <= n
  <2>1. Encoding(n) = <<240 + n \div 262144, 128 + x, 128 + y, 128 + z>>
    BY <1>1, <1>6, SMT DEF Encoding
  <2>2. n = (n \div 262144) * 262144 + x * 4096 + y * 64 + z /\ n \div 262144 \in 0..4
    <3>1. n = (n \div 4096) * 4096 + y * 64 + z
      BY <1>1, <1>6, SMT
    <3>2. n \div 4096 = (n \div 262144) * 64 + x
      BY <1>1, <1>6, SMT
    <3>3. n \div 262144 \in 0..4
      BY <1>1, <1>6, SMT
    <3> QED BY <1>2, <3>1, <3>2, <3>3, SMT
  <2>3. Four(240 + n \div 262144, 128 + x, 128 + y, 128 + z)
    <3> DEFINE w == n \div 262144
    <3>1. n = w * 262144 + x * 4096 + y * 64 + z /\ w \in 0..4
      BY <2>2
    <3> HIDE DEF w, x, y, z
    <3>2. (w = 0 => x >= 16) /\ (w = 4 => x <= 15)
      BY <1>1, <1>2, <1>6, <3>1, SMT
    <3>3. Four(240 + w, 128 + x, 128 + y, 128 + z)
      BY <1>2, <3>1, <3>2, SMT DEF Four, Continuation
    <3> QED BY <3>3 DEF w
  <2> QED BY <2>1, <2>3, SMT
<1>7. n < 128 \/ (128 <= n /\ n < 2048) \/ (2048 <= n /\ n < 65536) \/ 65536 <= n
  BY <1>1, SMT
<1> QED BY <1>3, <1>4, <1>5, <1>6, <1>7

\* The branches of the check of a character.
LEMMA CharacterTable ==
    ASSUME NEW memory, NEW i \in Nat, memory[i] \in 1..255
    PROVE  /\ CharacterLength(memory, i) \in 0..4
           /\ CharacterLength(memory, i) = 1 <=> memory[i] <= 127
           /\ CharacterLength(memory, i) = 2 <=> Two(memory[i], memory[i + 1])
           /\ CharacterLength(memory, i) = 3 <=> Three(memory[i], memory[i + 1], memory[i + 2])
           /\ CharacterLength(memory, i) = 4 <=> Four(memory[i], memory[i + 1], memory[i + 2], memory[i + 3])
<1> DEFINE a == memory[i]
           b == memory[i + 1]
           c == memory[i + 2]
           d == memory[i + 3]
           m == CharacterLength(memory, i)
           Table == /\ m \in 0..4 /\ (m = 1 <=> a <= 127) /\ (m = 2 <=> Two(a, b))
                    /\ (m = 3 <=> Three(a, b, c)) /\ (m = 4 <=> Four(a, b, c, d))
<1> SUFFICES Table
  BY Zenon
<1>1. m = CASE a <= 127 -> 1
            [] a \in 194..223 -> IF b \in Continuation THEN 2 ELSE 0
            [] a \in 224..239 ->
                   IF /\ b \in Continuation /\ c \in Continuation
                      /\ (a = 224 => b >= 160) /\ (a = 237 => b <= 159) THEN 3 ELSE 0
            [] a \in 240..244 ->
                   IF /\ b \in Continuation /\ c \in Continuation /\ d \in Continuation
                      /\ (a = 240 => b >= 144) /\ (a = 244 => b <= 143) THEN 4 ELSE 0
            [] OTHER -> 0
  BY Zenon DEF CharacterLength, CharacterLengthFrom
<1>2. a \in 1..255
  OBVIOUS
<1> HIDE DEF a, b, c, d, m
<1>3. CASE a <= 127
  BY <1>1, <1>2, <1>3, SMT DEF Two, Three, Four
<1>4. CASE a \in 194..223
  <2>1. m = IF b \in Continuation THEN 2 ELSE 0
    BY <1>1, <1>4, SMT
  <2> QED BY <1>4, <2>1, SMT DEF Two, Three, Four
<1>5. CASE a \in 224..239
  <2>1. m = IF Three(a, b, c) THEN 3 ELSE 0
    BY <1>1, <1>5, SMT DEF Three
  <2>2. ~Two(a, b) /\ ~Four(a, b, c, d) /\ ~(a <= 127)
    BY <1>5, SMT DEF Two, Four
  <2> QED BY <2>1, <2>2, SMT
<1>6. CASE a \in 240..244
  <2>1. m = IF Four(a, b, c, d) THEN 4 ELSE 0
    BY <1>1, <1>6, SMT DEF Four
  <2>2. ~Two(a, b) /\ ~Three(a, b, c) /\ ~(a <= 127)
    BY <1>6, SMT DEF Two, Three
  <2> QED BY <2>1, <2>2, SMT
<1>7. CASE ~(a <= 127 \/ a \in 194..223 \/ a \in 224..239 \/ a \in 240..244)
  <2>1. m = 0
    BY <1>1, <1>7, SMT
  <2>2. ~Two(a, b) /\ ~Three(a, b, c) /\ ~Four(a, b, c, d)
    BY <1>7, SMT DEF Two, Three, Four
  <2> QED BY <1>7, <2>1, <2>2, SMT
<1> QED BY <1>3, <1>4, <1>5, <1>6, <1>7

\* The bytes of a text and the 0 behind it; a byte of a multi-byte character is in the text.
LEMMA TextBytes ==
    ASSUME NEW text \in Seq(1..255), NEW memory, memory = Append(text, 0)
    PROVE  /\ Len(text) \in Nat /\ Len(memory) = Len(text) + 1 /\ memory[Len(text) + 1] = 0
           /\ \A k \in 1..Len(text) : memory[k] = text[k] /\ text[k] \in 1..255
           /\ \A k \in 1..(Len(text) + 1) : memory[k] \in Continuation => k <= Len(text)
<1>1. Len(text) \in Nat /\ text \in Seq(0..255) /\ \A k \in 1..Len(text) : text[k] \in 1..255
  <2>1. \A k \in 1..Len(text) : text[k] \in 1..255
    BY ElementOfSeq
  <2>2. text \in [1..Len(text) -> 1..255] /\ Len(text) \in Nat
    BY LenProperties
  <2>3. text \in [1..Len(text) -> 0..255]
    <3>1. 1..255 \subseteq 0..255
      OBVIOUS
    <3> HIDE DEF Continuation
    <3> QED BY <2>2, <3>1, Zenon
  <2> QED BY <2>1, <2>2, <2>3
<1>2. /\ Len(memory) = Len(text) + 1 /\ memory[Len(text) + 1] = 0
      /\ \A k \in 1..Len(text) : memory[k] = text[k]
  BY <1>1, AppendProperties
<1>3. ASSUME NEW k \in 1..(Len(text) + 1), memory[k] \in Continuation PROVE k <= Len(text)
  <2>1. k # Len(text) + 1
    BY <1>2, <1>3 DEF Continuation
  <2> QED BY <1>1, <2>1
<1> QED BY <1>1, <1>2, <1>3

\* A part of a text of up to four bytes.
LEMMA PartIs ==
    ASSUME NEW text \in Seq(1..255), NEW i \in 1..Len(text), NEW k \in 1..4, i + k <= Len(text) + 1
    PROVE  /\ SubSeq(text, i, i + k - 1) \in Seq(1..255) /\ Len(SubSeq(text, i, i + k - 1)) = k
           /\ \A j \in 1..k : SubSeq(text, i, i + k - 1)[j] = text[i + j - 1]
<1> DEFINE n == i + k - 1
<1>1. Len(text) \in Nat /\ i \in Int /\ n \in Int /\ n - i + 1 = k /\ i <= n /\ n <= Len(text)
  BY LenProperties
<1>2. \A j \in i..n : text[j] \in 1..255
  <2> SUFFICES ASSUME NEW j \in i..n PROVE text[j] \in 1..255
    OBVIOUS
  <2>1. j \in 1..Len(text)
    BY <1>1
  <2> QED BY <2>1, ElementOfSeq
<1> HIDE DEF n
<1>3. /\ SubSeq(text, i, n) \in Seq(1..255) /\ Len(SubSeq(text, i, n)) = n - i + 1
      /\ \A j \in 1..(n - i + 1) : SubSeq(text, i, n)[j] = text[i + j - 1]
  BY <1>1, <1>2, SubSeqProperties
<1> QED BY <1>1, <1>3 DEF n

\* The bytes of memory from i on, up to four.
IsPart(bytes, memory, i, k) ==
    /\ bytes \in Seq(1..255) /\ Len(bytes) = k /\ bytes[1] = memory[i]
    /\ k >= 2 => bytes[2] = memory[i + 1]
    /\ k >= 3 => bytes[3] = memory[i + 2]
    /\ k = 4 => bytes[4] = memory[i + 3]

\* A part of a text of up to four bytes, as the check reads it.
LEMMA PartInMemory ==
    ASSUME NEW text \in Seq(1..255), NEW memory, memory = Append(text, 0), NEW i \in 1..Len(text),
           NEW k \in 1..4, i + k <= Len(text) + 1
    PROVE  IsPart(SubSeq(text, i, i + k - 1), memory, i, k)
<1> DEFINE n == Len(text)
           bytes == SubSeq(text, i, i + k - 1)
<1>1. n \in Nat /\ i \in 1..n /\ i + k <= n + 1 /\ \A j \in 1..n : memory[j] = text[j]
  BY TextBytes
<1>2. bytes \in Seq(1..255) /\ Len(bytes) = k /\ \A j \in 1..k : bytes[j] = text[i + j - 1]
  BY PartIs
<1> HIDE DEF n, bytes
<1>3. ASSUME NEW j \in 1..k PROVE bytes[j] = memory[i + j - 1]
  <2>1. i + j - 1 \in 1..n
    BY <1>1
  <2> QED BY <1>1, <1>2, <2>1
<1>4. i + 1 - 1 = i /\ i + 2 - 1 = i + 1 /\ i + 3 - 1 = i + 2 /\ i + 4 - 1 = i + 3
  BY <1>1
<1>5. /\ 1 \in 1..k /\ (k >= 2 => 2 \in 1..k) /\ (k >= 3 => 3 \in 1..k) /\ (k = 4 => 4 \in 1..k)
  OBVIOUS
<1>6. /\ bytes[1] = memory[i] /\ (k >= 2 => bytes[2] = memory[i + 1])
      /\ (k >= 3 => bytes[3] = memory[i + 2]) /\ (k = 4 => bytes[4] = memory[i + 3])
  BY <1>3, <1>4, <1>5
<1> QED BY <1>2, <1>6 DEF bytes, IsPart

\* Continuation bytes are in the text.
LEMMA ContinuationInText ==
    ASSUME NEW text \in Seq(1..255), NEW memory, memory = Append(text, 0), NEW i \in 1..Len(text)
    PROVE  /\ memory[i + 1] \in Continuation => i + 2 <= Len(text) + 1
           /\ memory[i + 1] \in Continuation /\ memory[i + 2] \in Continuation => i + 3 <= Len(text) + 1
           /\ memory[i + 1] \in Continuation /\ memory[i + 2] \in Continuation
              /\ memory[i + 3] \in Continuation => i + 4 <= Len(text) + 1
<1> DEFINE n == Len(text)
<1>1. n \in Nat /\ i \in 1..n /\ \A j \in 1..(n + 1) : memory[j] \in Continuation => j <= n
  BY TextBytes
<1> HIDE DEF n
<1>2. memory[i + 1] \in Continuation => i + 1 <= n
  <2>1. i + 1 \in 1..(n + 1)
    BY <1>1
  <2> QED BY <1>1, <2>1
<1>3. i + 1 <= n /\ memory[i + 2] \in Continuation => i + 2 <= n
  <2>1. i + 1 <= n => i + 2 \in 1..(n + 1)
    BY <1>1
  <2> QED BY <1>1, <2>1
<1>4. i + 2 <= n /\ memory[i + 3] \in Continuation => i + 3 <= n
  <2>1. i + 2 <= n => i + 3 \in 1..(n + 1)
    BY <1>1
  <2> QED BY <1>1, <2>1
<1>5. /\ i + 1 <= n => i + 2 <= n + 1
      /\ i + 2 <= n => i + 3 <= n + 1
      /\ i + 3 <= n => i + 4 <= n + 1
  BY <1>1
<1>6. /\ memory[i + 1] \in Continuation => i + 2 <= n + 1
      /\ memory[i + 1] \in Continuation /\ memory[i + 2] \in Continuation => i + 3 <= n + 1
      /\ memory[i + 1] \in Continuation /\ memory[i + 2] \in Continuation
         /\ memory[i + 3] \in Continuation => i + 4 <= n + 1
  BY <1>2, <1>3, <1>4, <1>5
<1> QED BY <1>6 DEF n

\* Bytes of a text that encode a scalar value.
IsCharacter(text, i, k) ==
    LET bytes == SubSeq(text, i, i + k - 1) IN IsScalar(Number(bytes)) /\ Encoding(Number(bytes)) = bytes

\* What is taken for a character is one, and is in the text.
LEMMA TakenIsCharacter ==
    ASSUME NEW text \in Seq(1..255), NEW memory, memory = Append(text, 0), NEW i \in 1..Len(text),
           NEW m, m = CharacterLength(memory, i), m # 0
    PROVE  m \in 1..4 /\ i + m <= Len(text) + 1 /\ IsCharacter(text, i, m)
<1> DEFINE n == Len(text)
           a == memory[i]
           b == memory[i + 1]
           c == memory[i + 2]
           d == memory[i + 3]
           bytes == SubSeq(text, i, i + m - 1)
           Inside == m \in 1..4 /\ i + m <= n + 1
           Goal == Inside /\ IsCharacter(text, i, m)
<1>1. n \in Nat /\ i \in 1..n /\ i \in Nat /\ a \in 1..255
  <2>1. n \in Nat /\ memory[i] = text[i] /\ text[i] \in 1..255
    BY TextBytes
  <2> QED BY <2>1
<1>2. /\ m \in 0..4 /\ (m = 1 <=> a <= 127) /\ (m = 2 <=> Two(a, b)) /\ (m = 3 <=> Three(a, b, c))
      /\ (m = 4 <=> Four(a, b, c, d))
  BY <1>1, CharacterTable, Zenon
<1>3. /\ b \in Continuation => i + 2 <= n + 1
      /\ b \in Continuation /\ c \in Continuation => i + 3 <= n + 1
      /\ b \in Continuation /\ c \in Continuation /\ d \in Continuation => i + 4 <= n + 1
  BY ContinuationInText, Zenon
<1>4. ASSUME Inside
      PROVE  /\ bytes \in Seq(1..255) /\ Len(bytes) = m /\ bytes[1] = a
             /\ m >= 2 => bytes[2] = b
             /\ m >= 3 => bytes[3] = c
             /\ m = 4 => bytes[4] = d
  <2>1. IsPart(bytes, memory, i, m)
    BY <1>4, PartInMemory
  <2> QED BY <2>1 DEF IsPart
<1>5. ASSUME Inside, IsScalar(Number(bytes)), Encoding(Number(bytes)) = bytes PROVE Goal
  BY <1>5 DEF IsCharacter
<1> HIDE DEF n, a, b, c, d, bytes, Goal
<1> SUFFICES Goal
  BY DEF Goal, n
<1>6. CASE m = 1
  <2>1. Inside /\ a \in 1..127
    BY <1>1, <1>2, <1>6
  <2>2. bytes = <<a>>
    <3>1. Len(bytes) = 1 /\ bytes \in Seq(1..255) /\ bytes[1] = a
      BY <1>4, <1>6, <2>1
    <3> QED BY <3>1
  <2> QED BY <1>5, <2>1, <2>2, OneDecodes
<1>7. CASE m = 2
  <2>1. Two(a, b) /\ b \in Continuation
    BY <1>2, <1>7 DEF Two
  <2>2. Inside
    BY <1>3, <1>7, <2>1
  <2>3. bytes = <<a, b>>
    <3>1. Len(bytes) = 2 /\ bytes \in Seq(1..255) /\ bytes[1] = a /\ bytes[2] = b
      <4>1. /\ bytes \in Seq(1..255) /\ Len(bytes) = m /\ bytes[1] = a /\ (m >= 2 => bytes[2] = b)
            /\ (m >= 3 => bytes[3] = c) /\ (m = 4 => bytes[4] = d)
        BY <1>4, <2>2, Zenon
      <4> QED BY <1>7, <4>1
    <3> QED BY <3>1
  <2>4. IsScalar(Number(<<a, b>>)) /\ Encoding(Number(<<a, b>>)) = <<a, b>>
    BY <2>1, TwoDecodes
  <2> QED BY <1>5, <2>2, <2>3, <2>4
<1>8. CASE m = 3
  <2>1. Three(a, b, c) /\ b \in Continuation /\ c \in Continuation
    BY <1>2, <1>8 DEF Three
  <2>2. Inside
    BY <1>3, <1>8, <2>1
  <2>3. bytes = <<a, b, c>>
    <3>1. Len(bytes) = 3 /\ bytes \in Seq(1..255) /\ bytes[1] = a /\ bytes[2] = b /\ bytes[3] = c
      <4>1. /\ bytes \in Seq(1..255) /\ Len(bytes) = m /\ bytes[1] = a /\ (m >= 2 => bytes[2] = b)
            /\ (m >= 3 => bytes[3] = c) /\ (m = 4 => bytes[4] = d)
        BY <1>4, <2>2, Zenon
      <4> QED BY <1>8, <4>1
    <3> QED BY <3>1
  <2>4. IsScalar(Number(<<a, b, c>>)) /\ Encoding(Number(<<a, b, c>>)) = <<a, b, c>>
    BY <2>1, ThreeDecodes
  <2> QED BY <1>5, <2>2, <2>3, <2>4
<1>9. CASE m = 4
  <2>1. Four(a, b, c, d) /\ b \in Continuation /\ c \in Continuation /\ d \in Continuation
    BY <1>2, <1>9 DEF Four
  <2>2. Inside
    BY <1>3, <1>9, <2>1
  <2>3. bytes = <<a, b, c, d>>
    <3>1. Len(bytes) = 4 /\ bytes \in Seq(1..255) /\ bytes[1] = a /\ bytes[2] = b /\ bytes[3] = c /\ bytes[4] = d
      <4>1. /\ bytes \in Seq(1..255) /\ Len(bytes) = m /\ bytes[1] = a /\ (m >= 2 => bytes[2] = b)
            /\ (m >= 3 => bytes[3] = c) /\ (m = 4 => bytes[4] = d)
        BY <1>4, <2>2, Zenon
      <4> QED BY <1>9, <4>1
    <3> QED BY <3>1
  <2>4. IsScalar(Number(<<a, b, c, d>>)) /\ Encoding(Number(<<a, b, c, d>>)) = <<a, b, c, d>>
    BY <2>1, FourDecodes
  <2> QED BY <1>5, <2>2, <2>3, <2>4
<1> QED BY <1>2, <1>6, <1>7, <1>8, <1>9

\* A character of the text is taken, and no other length.
LEMMA CharacterIsTaken ==
    ASSUME NEW text \in Seq(1..255), NEW memory, memory = Append(text, 0), NEW i \in 1..Len(text),
           NEW k \in 1..4, i + k <= Len(text) + 1, IsCharacter(text, i, k)
    PROVE  CharacterLength(memory, i) = k
<1> DEFINE a == memory[i]
           b == memory[i + 1]
           c == memory[i + 2]
           d == memory[i + 3]
           m == CharacterLength(memory, i)
           bytes == SubSeq(text, i, i + k - 1)
           scalar == Number(bytes)
           Goal == m = k
<1>1. i \in Nat /\ a \in 1..255
  <2>1. Len(text) \in Nat /\ memory[i] = text[i] /\ text[i] \in 1..255
    BY TextBytes
  <2> QED BY <2>1
<1>2. /\ m \in 0..4 /\ (m = 1 <=> a <= 127) /\ (m = 2 <=> Two(a, b)) /\ (m = 3 <=> Three(a, b, c))
      /\ (m = 4 <=> Four(a, b, c, d))
  BY <1>1, CharacterTable, Zenon
<1>3. /\ bytes \in Seq(1..255) /\ Len(bytes) = k /\ bytes[1] = a
      /\ k >= 2 => bytes[2] = b
      /\ k >= 3 => bytes[3] = c
      /\ k = 4 => bytes[4] = d
  <2>1. IsPart(bytes, memory, i, k)
    BY PartInMemory
  <2> QED BY <2>1 DEF IsPart
<1>4. IsScalar(scalar) /\ Encoding(scalar) = bytes
  BY DEF IsCharacter
<1> HIDE DEF a, b, c, d, m, bytes, scalar, Goal
<1> SUFFICES Goal
  BY DEF Goal, m
<1>5. CASE \E x \in 1..127 : bytes = <<x>>
  <2>1. PICK x \in 1..127 : bytes = <<x>>
    BY <1>5
  <2>2. k = 1 /\ a = x
    BY <1>3, <2>1
  <2> QED BY <1>2, <2>2 DEF Goal
<1>6. CASE \E x, y : Two(x, y) /\ bytes = <<x, y>>
  <2>1. PICK x, y : Two(x, y) /\ bytes = <<x, y>>
    BY <1>6
  <2>2. k = 2
    BY <1>3, <2>1
  <2>3. a = x /\ b = y
    BY <1>3, <2>1, <2>2
  <2> QED BY <1>2, <2>1, <2>2, <2>3 DEF Goal
<1>7. CASE \E x, y, z : Three(x, y, z) /\ bytes = <<x, y, z>>
  <2>1. PICK x, y, z : Three(x, y, z) /\ bytes = <<x, y, z>>
    BY <1>7
  <2>2. k = 3
    BY <1>3, <2>1
  <2>3. a = x /\ b = y /\ c = z
    BY <1>3, <2>1, <2>2
  <2> QED BY <1>2, <2>1, <2>2, <2>3 DEF Goal
<1>8. CASE \E w, x, y, z : Four(w, x, y, z) /\ bytes = <<w, x, y, z>>
  <2>1. PICK w, x, y, z : Four(w, x, y, z) /\ bytes = <<w, x, y, z>>
    BY <1>8
  <2>2. k = 4
    BY <1>3, <2>1
  <2>3. a = w /\ b = x /\ c = y /\ d = z
    BY <1>3, <2>1, <2>2
  <2> QED BY <1>2, <2>1, <2>2, <2>3 DEF Goal
<1>9. \/ \E x \in 1..127 : bytes = <<x>>
      \/ \E x, y : Two(x, y) /\ bytes = <<x, y>>
      \/ \E x, y, z : Three(x, y, z) /\ bytes = <<x, y, z>>
      \/ \E w, x, y, z : Four(w, x, y, z) /\ bytes = <<w, x, y, z>>
  BY <1>4, ScalarsEncode
<1> QED BY <1>5, <1>6, <1>7, <1>8, <1>9

\* The places that a place leads to: the end of the character that begins there.
CharacterEnds(text) ==
    [i \in 1..(Len(text) + 1) |->
        IF i <= Len(text) /\ CharacterLength(Append(text, 0), i) # 0
        THEN {i + CharacterLength(Append(text, 0), i)} ELSE {}]

\* A character ends within the text.
LEMMA CharacterEndsAhead ==
    ASSUME NEW text \in Seq(1..255), NEW i \in 1..(Len(text) + 1)
    PROVE  CharacterEnds(text)[i] \subseteq (i + 1)..(Len(text) + 1)
<1> DEFINE m == CharacterLength(Append(text, 0), i)
<1>1. CharacterEnds(text)[i] = IF i <= Len(text) /\ m # 0 THEN {i + m} ELSE {}
  BY DEF CharacterEnds
<1>2. CASE i <= Len(text) /\ m # 0
  <2>1. Len(text) \in Nat
    BY LenProperties
  <2>2. i \in 1..Len(text)
    BY <1>2, <2>1
  <2>3. m \in 1..4 /\ i + m <= Len(text) + 1
    BY <1>2, <2>2, TakenIsCharacter, Zenon
  <2> HIDE DEF m
  <2>4. i + m \in (i + 1)..(Len(text) + 1)
    BY <2>1, <2>3
  <2> QED BY <1>1, <1>2, <2>4
<1> HIDE DEF m
<1> QED BY <1>1, <1>2

\* One step of the check, and one step of what it is to find.
LEMMA CheckStep ==
    ASSUME NEW text \in Seq(1..255), NEW memory, memory = Append(text, 0), NEW g,
           NEW i \in 1..(Len(text) + 1)
    PROVE  (memory[i] # 0 => CharacterLength(memory, i) # 0 /\ g[i + CharacterLength(memory, i)])
           <=> (i \in {Len(text) + 1} \/ \E j \in CharacterEnds(text)[i] : g[j])
<1> DEFINE n == Len(text)
           m == CharacterLength(memory, i)
           E == CharacterEnds(text)[i]
<1>1. E = IF i <= n /\ m # 0 THEN {i + m} ELSE {}
  BY DEF CharacterEnds
<1>2. /\ n \in Nat /\ memory[n + 1] = 0 /\ i \in 1..(n + 1)
      /\ \A k \in 1..n : memory[k] = text[k] /\ text[k] \in 1..255
  BY TextBytes, Zenon
<1> HIDE DEF n, E
<1>3. CASE i = n + 1
  <2>1. memory[i] = 0 /\ i \in {n + 1}
    BY <1>2, <1>3
  <2> QED BY <2>1 DEF n
<1>4. CASE i \in 1..n
  <2>1. memory[i] # 0 /\ i \notin {n + 1} /\ i <= n
    <3>1. memory[i] = text[i] /\ text[i] \in 1..255
      BY <1>2, <1>4, Zenon
    <3>2. i # n + 1 /\ i <= n
      BY <1>2, <1>4
    <3>3. \A x \in 1..255 : x # 0
      OBVIOUS
    <3> QED BY <3>1, <3>2, <3>3, Zenon
  <2>2. E = IF m # 0 THEN {i + m} ELSE {}
    BY <1>1, <2>1
  <2>3. m # 0 /\ g[i + m] <=> \E j \in E : g[j]
    BY <2>2, Zenon
  <2> QED BY <2>1, <2>3, Zenon DEF n, E
<1> QED BY <1>2, <1>3, <1>4

\* A text is UTF-8 from a place on if it is from the end of the character there.
LEMMA MeaningStep ==
    ASSUME NEW text \in Seq(1..255), NEW g, NEW i \in 1..(Len(text) + 1)
    PROVE  (i > Len(text) \/ \E k \in 1..4 : i + k <= Len(text) + 1 /\ g[i + k] /\ IsCharacter(text, i, k))
           <=> (i \in {Len(text) + 1} \/ \E j \in CharacterEnds(text)[i] : g[j])
<1> DEFINE n == Len(text)
           memory == Append(text, 0)
           m == CharacterLength(memory, i)
           E == CharacterEnds(text)[i]
           Inside == \E k \in 1..4 : i + k <= n + 1 /\ g[i + k] /\ IsCharacter(text, i, k)
<1>1. E = IF i <= n /\ m # 0 THEN {i + m} ELSE {}
  BY DEF CharacterEnds
<1>2. n \in Nat
  BY LenProperties
<1>3. CASE i = n + 1
  BY <1>2, <1>3
<1>4. CASE i \in 1..n
  <2>1. i <= n /\ ~(i > n) /\ i \notin {n + 1}
    BY <1>2, <1>4
  <2>2. ASSUME Inside PROVE \E j \in E : g[j]
    <3>1. PICK k \in 1..4 : i + k <= n + 1 /\ g[i + k] /\ IsCharacter(text, i, k)
      BY <2>2
    <3>2. m = k
      BY <1>4, <3>1, CharacterIsTaken, Zenon
    <3>3. m # 0
      BY <3>2
    <3>4. E = {i + k}
      BY <1>1, <2>1, <3>2, <3>3, Zenon
    <3> QED BY <3>1, <3>4, Zenon
  <2>3. ASSUME NEW j \in E, g[j] PROVE Inside
    <3>1. m # 0 /\ j = i + m
      BY <1>1, <2>1, <2>3, Zenon
    <3>2. m \in 1..4 /\ i + m <= n + 1 /\ IsCharacter(text, i, m)
      BY <1>4, <3>1, TakenIsCharacter, Zenon
    <3> QED BY <2>3, <3>1, <3>2, Zenon
  <2> QED BY <2>1, <2>2, <2>3, Zenon
<1> QED BY <1>2, <1>3, <1>4

\* is_valid_utf8 returns true for a text of any length if and only if it is UTF-8, and
\* never looks at a byte behind the 0 that ends it (stream_protocol.cpp).
THEOREM Utf8IsChecked ==
    ASSUME NEW text \in Seq(1..255)
    PROVE  IsValidUtf8(Append(text, 0)) <=> IsUtf8(text)
<1> DEFINE memory == Append(text, 0)
           N == Len(text) + 1
           Check(g) == g = [i \in 1..Len(memory) |->
                               memory[i] # 0 => CharacterLength(memory, i) # 0
                                                /\ g[i + CharacterLength(memory, i)]]
           Meaning(g) == g = [i \in 1..(Len(text) + 1) |->
                                 \/ i > Len(text)
                                 \/ \E n \in 1..4 :
                                        /\ i + n <= Len(text) + 1 /\ g[i + n]
                                        /\ LET bytes == SubSeq(text, i, i + n - 1)
                                           IN  IsScalar(Number(bytes)) /\ Encoding(Number(bytes)) = bytes]
           Recurs(g) == Arrives(N, {N}, CharacterEnds(text), g)
           valid == CHOOSE g : Check(g)
           from == CHOOSE g : Meaning(g)
<1>1. N \in Nat /\ Len(memory) = N /\ 1 \in 1..N
  <2>1. Len(text) \in Nat /\ Len(memory) = Len(text) + 1
    BY TextBytes
  <2> QED BY <2>1
<1>2. Ahead(N, CharacterEnds(text))
  BY CharacterEndsAhead DEF Ahead
<1>3. ASSUME NEW g PROVE Check(g) <=> g = [i \in 1..N |-> i \in {N} \/ \E j \in CharacterEnds(text)[i] : g[j]]
  <2>1. \A i \in 1..N : (memory[i] # 0 => CharacterLength(memory, i) # 0 /\ g[i + CharacterLength(memory, i)])
                        <=> (i \in {N} \/ \E j \in CharacterEnds(text)[i] : g[j])
    BY CheckStep, Zenon
  <2>2. [i \in 1..N |-> memory[i] # 0 => CharacterLength(memory, i) # 0 /\ g[i + CharacterLength(memory, i)]]
        = [i \in 1..N |-> i \in {N} \/ \E j \in CharacterEnds(text)[i] : g[j]]
    BY <2>1, Zenon
  <2> QED BY <1>1, <2>2, Zenon
<1>4. ASSUME NEW g PROVE Meaning(g) <=> g = [i \in 1..N |-> i \in {N} \/ \E j \in CharacterEnds(text)[i] : g[j]]
  <2>1. \A i \in 1..N : (i > Len(text)
                            \/ \E k \in 1..4 : i + k <= N /\ g[i + k] /\ IsCharacter(text, i, k))
                        <=> (i \in {N} \/ \E j \in CharacterEnds(text)[i] : g[j])
    BY MeaningStep, Zenon
  <2>2. [i \in 1..N |-> i > Len(text) \/ \E k \in 1..4 : i + k <= N /\ g[i + k] /\ IsCharacter(text, i, k)]
        = [i \in 1..N |-> i \in {N} \/ \E j \in CharacterEnds(text)[i] : g[j]]
    BY <2>1, Zenon
  <2> QED BY <2>2, Zenon DEF IsCharacter
<1>5. IsValidUtf8(memory) <=> valid[1]
  BY Zenon DEF IsValidUtf8
<1>6. IsUtf8(text) <=> from[1]
  BY Zenon DEF IsUtf8
<1> DEFINE Table(g) == g = [i \in 1..N |-> i \in {N} \/ \E j \in CharacterEnds(text)[i] : g[j]]
<1>7. PICK f \in [1..N -> BOOLEAN] : Recurs(f)
  BY <1>1, <1>2, BackwardExists, Zenon
<1>8. Table(f)
  <2> DEFINE h == [i \in 1..N |-> i \in {N} \/ \E j \in CharacterEnds(text)[i] : f[j]]
  <2>1. h \in [1..N -> BOOLEAN] /\ \A i \in 1..N : h[i] <=> (i \in {N} \/ \E j \in CharacterEnds(text)[i] : f[j])
    BY Zenon
  <2> HIDE DEF h
  <2>2. \A i \in 1..N : h[i] = f[i]
    BY <1>7, <2>1, Zenon DEF Arrives
  <2>3. h = f
    BY <2>1, <2>2
  <2> QED BY <2>3, Zenon DEF h
<1>9. Table(valid) /\ Table(from)
  <2>1. Check(valid) /\ Meaning(from)
    <3>1. Check(f) /\ Meaning(f)
      BY <1>3, <1>4, <1>8, Zenon
    <3> HIDE DEF Check, Meaning
    <3> QED BY <3>1, Zenon
  <2> QED BY <1>3, <1>4, <2>1, Zenon
<1>10. ASSUME NEW g, Table(g) PROVE Recurs(g)
  BY <1>10, Zenon DEF Arrives
<1>11. \A i \in 1..N : valid[i] <=> from[i]
  <2>1. Recurs(valid) /\ Recurs(from)
    <3> HIDE DEF valid, from, Table, Recurs
    <3> QED BY <1>9, <1>10, Zenon
  <2> HIDE DEF valid, from, N
  <2> QED BY <1>1, <1>2, <2>1, BackwardUnique
<1> HIDE DEF valid, from, N
<1> QED BY <1>1, <1>5, <1>6, <1>11, Zenon

-----------------------------------------------------------------------------
(* Base64                                                                   *)

\* The chunks of a text, and where each of them ends in it.
EndsOf(seqs, T) ==
    /\ T \in [0..Len(seqs) -> Nat] /\ T[0] = 0
    /\ \A k \in 1..Len(seqs) : T[k] = T[k - 1] + Len(seqs[k])
    /\ \A i, j \in 0..Len(seqs) : i <= j => T[i] <= T[j]

\* A text made of chunks has each chunk at its place.
IsFlat(seqs, T, S, r) ==
    /\ r \in Seq(S) /\ Len(r) = T[Len(seqs)]
    /\ \A k \in 1..Len(seqs) : \A j \in 1..Len(seqs[k]) : r[T[k - 1] + j] = seqs[k][j]

\* Such a text exists.
LEMMA FlatExists ==
    ASSUME NEW S, NEW seqs \in Seq(Seq(S)), Len(seqs) # 0, NEW T, EndsOf(seqs, T)
    PROVE  \E r : IsFlat(seqs, T, S, r)
<1> DEFINE K == Len(seqs)
           Rows(p) == {k \in 1..K : p <= T[k]}
           row(p) == Min(Rows(p))
           r == [p \in 1..T[K] |-> seqs[row(p)][p - T[row(p) - 1]]]
<1>1. K \in Nat /\ K >= 1 /\ \A k \in 1..K : seqs[k] \in Seq(S) /\ Len(seqs[k]) \in Nat
  <2>1. K \in Nat
    BY LenProperties
  <2>2. ASSUME NEW k \in 1..K PROVE seqs[k] \in Seq(S) /\ Len(seqs[k]) \in Nat
    BY ElementOfSeq, LenProperties
  <2> QED BY <2>1, <2>2
<1>2. /\ \A k \in 0..K : T[k] \in Nat
      /\ T[0] = 0
      /\ \A k \in 1..K : T[k] = T[k - 1] + Len(seqs[k])
      /\ \A i, j \in 0..K : i <= j => T[i] <= T[j]
  BY DEF EndsOf
<1> HIDE DEF K
<1>3. ASSUME NEW p \in 1..T[K]
      PROVE  row(p) \in 1..K /\ p <= T[row(p)] /\ T[row(p) - 1] < p
  <2> DEFINE k == row(p)
  <2>1. K \in Rows(p) /\ Rows(p) \subseteq Nat
    BY <1>1, <1>2
  <2>2. k \in Rows(p) /\ \A y \in Rows(p) : k <= y
    <3> HIDE DEF Rows
    <3> QED BY <2>1, Smallest
  <2> HIDE DEF k
  <2>3. k \in 1..K /\ p <= T[k]
    BY <2>2
  <2>4. T[k - 1] < p
    <3>1. CASE k = 1
      <4>1. k - 1 = 0
        BY <3>1
      <4> QED BY <1>2, <4>1
    <3>2. CASE k # 1
      <4>1. k - 1 \in 1..K /\ ~(k <= k - 1)
        BY <1>1, <2>3, <3>2
      <4>2. k - 1 \notin Rows(p)
        BY <2>2, <4>1
      <4>3. T[k - 1] \in Nat
        BY <1>1, <1>2, <4>1
      <4> QED BY <4>1, <4>2, <4>3
    <3> QED BY <3>1, <3>2
  <2> QED BY <2>3, <2>4 DEF k
<1>4. ASSUME NEW k \in 1..K, NEW j \in 1..Len(seqs[k])
      PROVE  T[k - 1] + j \in 1..T[K] /\ row(T[k - 1] + j) = k
  <2> DEFINE p == T[k - 1] + j
  <2>1. k \in 0..K /\ k - 1 \in 0..K /\ K \in 0..K /\ k <= K
    BY <1>1
  <2>2. T[k - 1] \in Nat /\ T[k] \in Nat /\ T[k] <= T[K] /\ T[k] = T[k - 1] + Len(seqs[k]) /\ T[K] \in Nat
    BY <1>2, <2>1
  <2>3. Len(seqs[k]) \in Nat
    BY <1>1
  <2>4. p \in 1..T[K] /\ p <= T[k] /\ p > T[k - 1]
    <3> DEFINE a == T[k - 1]
               b == T[k]
               t == T[K]
               l == Len(seqs[k])
    <3>1. a \in Nat /\ b = a + l /\ b <= t /\ t \in Nat /\ l \in Nat /\ j \in 1..l
      BY <2>2, <2>3
    <3> HIDE DEF a, b, t, l
    <3>2. a + j \in 1..t /\ a + j <= b /\ a + j > a
      BY ONLY <3>1, SMT
    <3> QED BY <3>2 DEF a, b, t
  <2> HIDE DEF p
  <2> DEFINE m == row(p)
  <2>5. m \in 1..K /\ p <= T[m] /\ T[m - 1] < p
    BY <1>3, <2>4
  <2> HIDE DEF m
  <2>6. ~(m <= k - 1)
    <3> SUFFICES ASSUME m <= k - 1 PROVE FALSE
      OBVIOUS
    <3>1. m \in 0..K /\ T[m] \in Nat
      BY <1>1, <1>2, <2>5
    <3>2. T[m] <= T[k - 1]
      BY <1>2, <2>1, <3>1
    <3> QED BY <2>2, <2>4, <2>5, <3>1, <3>2
  <2>7. ~(k <= m - 1)
    <3> SUFFICES ASSUME k <= m - 1 PROVE FALSE
      OBVIOUS
    <3>1. m - 1 \in 0..K
      BY <1>1, <2>5
    <3>2. T[k] <= T[m - 1] /\ T[m - 1] \in Nat
      BY <1>2, <2>1, <3>1
    <3> QED BY <2>2, <2>4, <2>5, <3>2
  <2>8. m = k
    BY <1>1, <2>5, <2>6, <2>7
  <2> QED BY <2>4, <2>8 DEF p, m
<1>5. r \in Seq(S) /\ Len(r) = T[K]
  <2>1. ASSUME NEW p \in 1..T[K] PROVE r[p] \in S
    <3> DEFINE k == row(p)
    <3>1. k \in 1..K /\ p <= T[k] /\ T[k - 1] < p
      BY <1>3
    <3>2. r[p] = seqs[k][p - T[k - 1]]
      OBVIOUS
    <3> HIDE DEF k, r
    <3>3. k - 1 \in 0..K /\ k \in 0..K
      BY <1>1, <3>1
    <3>4. T[k - 1] \in Nat /\ T[k] = T[k - 1] + Len(seqs[k]) /\ seqs[k] \in Seq(S) /\ Len(seqs[k]) \in Nat
      BY <1>1, <1>2, <3>1, <3>3
    <3>5. p - T[k - 1] \in 1..Len(seqs[k])
      BY <3>1, <3>4
    <3> QED BY <3>2, <3>4, <3>5, ElementOfSeq
  <2>2. r = [p \in 1..T[K] |-> r[p]] /\ T[K] \in Nat
    BY <1>1, <1>2
  <2> HIDE DEF r
  <2>3. r \in [1..T[K] -> S]
    BY <2>1, <2>2
  <2> DEFINE t == T[K]
  <2>4. r \in [1..t -> S] /\ t \in Nat
    BY <2>2, <2>3
  <2> HIDE DEF t
  <2>5. r \in Seq(S) /\ Len(r) = t
    BY <2>4
  <2> QED BY <2>5 DEF t
<1>6. ASSUME NEW k \in 1..K, NEW j \in 1..Len(seqs[k]) PROVE r[T[k - 1] + j] = seqs[k][j]
  <2> DEFINE p == T[k - 1] + j
  <2>1. p \in 1..T[K] /\ row(p) = k
    BY <1>4
  <2>2. r[p] = seqs[k][p - T[k - 1]]
    BY <2>1
  <2>3. p - T[k - 1] = j
    <3>1. k - 1 \in 0..K
      BY <1>1
    <3>2. T[k - 1] \in Nat
      BY <1>2, <3>1
    <3> QED BY <3>2
  <2> HIDE DEF r, p
  <2>4. r[p] = seqs[k][j]
    BY <2>2, <2>3
  <2> QED BY <2>4 DEF p
<1> HIDE DEF r
<1>7. IsFlat(seqs, T, S, r)
  BY <1>5, <1>6 DEF IsFlat, K
<1> QED BY <1>7

\* FlattenSeq gives it.
LEMMA FlatIs ==
    ASSUME NEW S, NEW seqs \in Seq(Seq(S)), Len(seqs) # 0, NEW T, EndsOf(seqs, T)
    PROVE  IsFlat(seqs, T, S, FlattenSeq(seqs))
<1> DEFINE K == Len(seqs)
           Recurs(f) == f = [i \in 1..Len(seqs) |-> IF i = 1 THEN seqs[i] ELSE f[i - 1] \o seqs[i]]
           flatten == CHOOSE f : Recurs(f)
<1>1. PICK r : IsFlat(seqs, T, S, r)
  BY FlatExists
<1>2. /\ r \in Seq(S) /\ Len(r) = T[K]
      /\ \A k \in 1..K : \A j \in 1..Len(seqs[k]) : r[T[k - 1] + j] = seqs[k][j]
  BY <1>1 DEF IsFlat
<1>3. K \in Nat /\ K >= 1 /\ \A k \in 1..K : seqs[k] \in Seq(S) /\ Len(seqs[k]) \in Nat
  <2>1. K \in Nat
    BY LenProperties
  <2>2. ASSUME NEW k \in 1..K PROVE seqs[k] \in Seq(S) /\ Len(seqs[k]) \in Nat
    BY ElementOfSeq, LenProperties
  <2> QED BY <2>1, <2>2
<1>4. /\ \A k \in 0..K : T[k] \in Nat
      /\ T[0] = 0
      /\ \A k \in 1..K : T[k] = T[k - 1] + Len(seqs[k])
      /\ \A i, j \in 0..K : i <= j => T[i] <= T[j]
  BY DEF EndsOf
<1>5. FlattenSeq(seqs) = flatten[K]
  BY Zenon DEF FlattenSeq
<1> DEFINE part == [k \in 0..K |-> SubSeq(r, 1, T[k])]
<1>6. ASSUME NEW k \in 0..K
      PROVE  /\ part[k] \in Seq(S) /\ Len(part[k]) = T[k] /\ T[k] \in Nat /\ T[k] <= Len(r)
             /\ \A i \in 1..T[k] : part[k][i] = r[i]
  <2>1. T[k] \in Nat /\ T[k] <= Len(r) /\ Len(r) \in Nat
    <3>1. K \in 0..K /\ k <= K
      BY <1>3
    <3> QED BY <1>2, <1>4, <3>1
  <2> DEFINE t == T[k]
  <2>2. t \in Nat /\ t <= Len(r) /\ part[k] = SubSeq(r, 1, t)
    BY <2>1
  <2> HIDE DEF t, part
  <2>3. \A i \in 1..t : r[i] \in S
    <3> SUFFICES ASSUME NEW i \in 1..t PROVE r[i] \in S
      OBVIOUS
    <3>1. i \in 1..Len(r)
      BY <2>1, <2>2
    <3> QED BY <1>2, <3>1, ElementOfSeq
  <2>4. /\ SubSeq(r, 1, t) \in Seq(S) /\ Len(SubSeq(r, 1, t)) = (IF 1 <= t THEN t - 1 + 1 ELSE 0)
        /\ \A i \in 1..(t - 1 + 1) : SubSeq(r, 1, t)[i] = r[1 + i - 1]
    BY <2>2, <2>3, SubSeqProperties
  <2>5. t - 1 + 1 = t /\ (IF 1 <= t THEN t - 1 + 1 ELSE 0) = t /\ \A i \in 1..t : 1 + i - 1 = i
    BY <2>2
  <2>6. part[k] \in Seq(S) /\ Len(part[k]) = t /\ \A i \in 1..t : part[k][i] = r[i]
    BY <2>2, <2>4, <2>5
  <2> QED BY <2>1, <2>6 DEF t
<1> HIDE DEF part
<1>7. part[1] = seqs[1]
  <2>1. 1 \in 0..K /\ 1 \in 1..K /\ 1 - 1 = 0
    BY <1>3
  <2>2. T[1] = Len(seqs[1]) /\ seqs[1] \in Seq(S)
    BY <1>3, <1>4, <2>1
  <2>3. ASSUME NEW j \in 1..Len(seqs[1]) PROVE part[1][j] = seqs[1][j]
    <3>1. r[T[0] + j] = seqs[1][j] /\ T[0] + j = j
      BY <1>2, <1>4, <2>1
    <3> QED BY <1>6, <2>1, <2>2, <3>1
  <2> QED BY <1>6, <2>1, <2>2, <2>3, SeqEqual
<1>8. ASSUME NEW k \in 2..K PROVE part[k] = part[k - 1] \o seqs[k]
  <2> DEFINE a == part[k - 1]
             b == seqs[k]
  <2>1. k \in 1..K /\ k \in 0..K /\ k - 1 \in 0..K
    BY <1>3
  <2>2. /\ a \in Seq(S) /\ Len(a) = T[k - 1] /\ Len(a) \in Nat /\ \A i \in 1..Len(a) : a[i] = r[i]
        /\ b \in Seq(S) /\ Len(b) \in Nat
        /\ part[k] \in Seq(S) /\ Len(part[k]) = T[k] /\ \A i \in 1..T[k] : part[k][i] = r[i]
        /\ T[k] = Len(a) + Len(b)
    BY <1>3, <1>4, <1>6, <2>1
  <2>3. \A j \in 1..Len(b) : r[Len(a) + j] = b[j]
    BY <1>2, <2>1, <2>2
  <2> HIDE DEF a, b
  <2>4. /\ a \o b \in Seq(S) /\ Len(a \o b) = Len(a) + Len(b)
        /\ \A i \in 1..(Len(a) + Len(b)) : (a \o b)[i] = IF i <= Len(a) THEN a[i] ELSE b[i - Len(a)]
    BY <2>2, ConcatProperties
  <2>5. ASSUME NEW i \in 1..T[k] PROVE part[k][i] = (a \o b)[i]
    <3>1. CASE i <= Len(a)
      <4>1. i \in 1..Len(a)
        BY <2>2, <3>1
      <4> QED BY <2>2, <2>4, <3>1, <4>1
    <3>2. CASE ~(i <= Len(a))
      <4>1. i - Len(a) \in 1..Len(b) /\ Len(a) + (i - Len(a)) = i
        BY <2>2, <3>2
      <4>2. r[i] = b[i - Len(a)]
        BY <2>3, <4>1
      <4> QED BY <2>2, <2>4, <3>2, <4>2
    <3> QED BY <3>1, <3>2
  <2> DEFINE x == part[k]
             y == a \o b
  <2>6. x \in Seq(S) /\ y \in Seq(S) /\ Len(x) = Len(y) /\ \A i \in 1..Len(x) : x[i] = y[i]
    BY <2>2, <2>4, <2>5
  <2> HIDE DEF x, y
  <2>7. x = y
    BY <2>6, SeqEqual
  <2> QED BY <2>7 DEF a, b, x, y
<1> DEFINE parts == [k \in 1..K |-> part[k]]
<1>9. Recurs(parts)
  <2>1. ASSUME NEW k \in 1..K PROVE parts[k] = IF k = 1 THEN seqs[k] ELSE parts[k - 1] \o seqs[k]
    <3>1. CASE k = 1
      BY <1>7, <3>1
    <3>2. CASE k # 1
      <4>1. k \in 2..K /\ k - 1 \in 1..K
        BY <1>3, <3>2
      <4> QED BY <1>8, <3>2, <4>1
    <3> QED BY <3>1, <3>2
  <2>2. parts = [k \in 1..K |-> parts[k]]
    OBVIOUS
  <2> HIDE DEF parts
  <2>3. [k \in 1..K |-> parts[k]] = [k \in 1..K |-> IF k = 1 THEN seqs[k] ELSE parts[k - 1] \o seqs[k]]
    BY <2>1, Zenon
  <2> QED BY <2>2, <2>3, Zenon
<1>10. Recurs(flatten)
  <2> HIDE DEF Recurs, parts
  <2> QED BY <1>9, Zenon
<1>11. \A k \in 1..K : flatten[k] = IF k = 1 THEN seqs[k] ELSE flatten[k - 1] \o seqs[k]
  <2> HIDE DEF flatten
  <2> QED BY <1>10, Zenon
<1> HIDE DEF flatten, parts
<1>12. \A k \in 1..K : flatten[k] = part[k]
  <2> DEFINE D == {k \in 1..K : flatten[k] # part[k]}
  <2> SUFFICES ASSUME D # {} PROVE FALSE
    OBVIOUS
  <2>1. D \subseteq Nat
    BY <1>3
  <2> DEFINE k == Min(D)
  <2>2. k \in D /\ \A y \in D : k <= y
    <3> HIDE DEF D
    <3> QED BY <2>1, Smallest
  <2> HIDE DEF k
  <2>3. k \in 1..K /\ flatten[k] # part[k]
    BY <2>2
  <2>4. CASE k = 1
    BY <1>7, <1>11, <2>3, <2>4
  <2>5. CASE k # 1
    <3>1. k \in 2..K /\ k - 1 \in 1..K /\ ~(k <= k - 1)
      BY <1>3, <2>3, <2>5
    <3>2. flatten[k - 1] = part[k - 1]
      BY <2>2, <3>1
    <3> QED BY <1>8, <1>11, <2>3, <2>5, <3>1, <3>2
  <2> QED BY <2>4, <2>5
<1>13. FlattenSeq(seqs) = r
  <2>1. K \in 1..K /\ K \in 0..K
    BY <1>3
  <2>2. part[K] \in Seq(S) /\ Len(part[K]) = Len(r) /\ \A i \in 1..Len(part[K]) : part[K][i] = r[i]
    BY <1>2, <1>6, <2>1
  <2>3. part[K] = r
    BY <1>2, <2>2, SeqEqual
  <2> QED BY <1>5, <1>12, <2>1, <2>3
<1> QED BY <1>1, <1>13

\* The bits of a number of six or of eight bits.
IsBit(b) == b \in {0, 1}
Six6(a, b, c, d, e, f) == 32 * a + 16 * b + 8 * c + 4 * d + 2 * e + f
Eight8(a, b, c, d, e, f, g, h) == 128 * a + 64 * b + 32 * c + 16 * d + 8 * e + 4 * f + 2 * g + h

\* A number below 64 is made of six bits.
LEMMA HasSixBits ==
    ASSUME NEW x \in Six
    PROVE  \E a, b, c, d, e, f \in {0, 1} : x = Six6(a, b, c, d, e, f)
<1> DEFINE a == x \div 32
           b == (x \div 16) % 2
           c == (x \div 8) % 2
           d == (x \div 4) % 2
           e == (x \div 2) % 2
           f == x % 2
<1>1. x \in 0..63
  BY DEF Six
<1>2. a \in {0, 1} /\ b \in {0, 1} /\ c \in {0, 1} /\ d \in {0, 1} /\ e \in {0, 1} /\ f \in {0, 1}
  BY <1>1, SMT
<1>3. x = Six6(a, b, c, d, e, f)
  <2>1. x = 2 * (x \div 2) + f
    BY <1>1, SMT
  <2>2. x \div 2 = 2 * (x \div 4) + e
    BY <1>1, SMT
  <2>3. x \div 4 = 2 * (x \div 8) + d
    BY <1>1, SMT
  <2>4. x \div 8 = 2 * (x \div 16) + c
    BY <1>1, SMT
  <2>5. x \div 16 = 2 * a + b
    BY <1>1, SMT
  <2> HIDE DEF a, b, c, d, e, f
  <2> QED BY <1>1, <1>2, <2>1, <2>2, <2>3, <2>4, <2>5, SMT DEF Six6
<1> HIDE DEF a, b, c, d, e, f
<1> QED BY <1>2, <1>3

\* The bits of a number made of six.
LEMMA SixBits ==
    ASSUME NEW a \in {0, 1}, NEW b \in {0, 1}, NEW c \in {0, 1}, NEW d \in {0, 1}, NEW e \in {0, 1},
           NEW f \in {0, 1}
    PROVE  LET x == Six6(a, b, c, d, e, f)
           IN  /\ Bit(x, 6, 1) = a /\ Bit(x, 6, 2) = b /\ Bit(x, 6, 3) = c /\ Bit(x, 6, 4) = d
               /\ Bit(x, 6, 5) = e /\ Bit(x, 6, 6) = f
<1> DEFINE x == Six6(a, b, c, d, e, f)
<1>1. /\ Weight[8 - 6 + 1] = 32 /\ Weight[8 - 6 + 2] = 16 /\ Weight[8 - 6 + 3] = 8 /\ Weight[8 - 6 + 4] = 4
      /\ Weight[8 - 6 + 5] = 2 /\ Weight[8 - 6 + 6] = 1
  BY SMT DEF Weight
<1>2. x = 32 * a + 16 * b + 8 * c + 4 * d + 2 * e + f
  BY DEF Six6
<1> HIDE DEF x
<1>3. /\ (x \div 32) % 2 = a /\ (x \div 16) % 2 = b /\ (x \div 8) % 2 = c /\ (x \div 4) % 2 = d
      /\ (x \div 2) % 2 = e /\ (x \div 1) % 2 = f
  BY <1>2, SMT
<1> QED BY <1>1, <1>3, SMT DEF Bit, x

\* The bits of a number made of eight.
LEMMA EightBits ==
    ASSUME NEW a \in {0, 1}, NEW b \in {0, 1}, NEW c \in {0, 1}, NEW d \in {0, 1}, NEW e \in {0, 1},
           NEW f \in {0, 1}, NEW g \in {0, 1}, NEW h \in {0, 1}
    PROVE  LET x == Eight8(a, b, c, d, e, f, g, h)
           IN  /\ Bit(x, 8, 1) = a /\ Bit(x, 8, 2) = b /\ Bit(x, 8, 3) = c /\ Bit(x, 8, 4) = d
               /\ Bit(x, 8, 5) = e /\ Bit(x, 8, 6) = f /\ Bit(x, 8, 7) = g /\ Bit(x, 8, 8) = h
<1> DEFINE x == Eight8(a, b, c, d, e, f, g, h)
<1>1. /\ Weight[8 - 8 + 1] = 128 /\ Weight[8 - 8 + 2] = 64 /\ Weight[8 - 8 + 3] = 32 /\ Weight[8 - 8 + 4] = 16
      /\ Weight[8 - 8 + 5] = 8 /\ Weight[8 - 8 + 6] = 4 /\ Weight[8 - 8 + 7] = 2 /\ Weight[8 - 8 + 8] = 1
  BY SMT DEF Weight
<1>2. x = 128 * a + 64 * b + 32 * c + 16 * d + 8 * e + 4 * f + 2 * g + h
  BY DEF Eight8
<1> HIDE DEF x
<1>3. /\ (x \div 128) % 2 = a /\ (x \div 64) % 2 = b /\ (x \div 32) % 2 = c /\ (x \div 16) % 2 = d
      /\ (x \div 8) % 2 = e /\ (x \div 4) % 2 = f /\ (x \div 2) % 2 = g /\ (x \div 1) % 2 = h
  BY <1>2, SMT
<1> QED BY <1>1, <1>3, SMT DEF Bit, x

\* A byte from two neighbouring characters: the low bits of one and the high bits of the other.
Joined(s, x, y) ==
    CASE s = 0 -> x * 4 + y \div 16
      [] s = 1 -> (x % 16) * 16 + y \div 4
      [] OTHER -> (x % 4) * 64 + y

\* The bits of a joined byte are those of its two characters.
LEMMA JoinedBits ==
    ASSUME NEW x \in Six, NEW y \in Six, NEW s \in 0..2, NEW t \in 0..7
    PROVE  Bit(Joined(s, x, y), 8, t + 1)
           = IF t < 6 - 2 * s THEN Bit(x, 6, 2 * s + t + 1) ELSE Bit(y, 6, t - (6 - 2 * s) + 1)
<1>1. PICK a \in {0, 1}, b \in {0, 1}, c \in {0, 1}, d \in {0, 1}, e \in {0, 1}, f \in {0, 1} :
          x = Six6(a, b, c, d, e, f)
  BY HasSixBits
<1>2. PICK p \in {0, 1}, q \in {0, 1}, r \in {0, 1}, u \in {0, 1}, v \in {0, 1}, w \in {0, 1} :
          y = Six6(p, q, r, u, v, w)
  BY HasSixBits
<1> DEFINE z == Joined(s, x, y)
<1>3. /\ Bit(x, 6, 1) = a /\ Bit(x, 6, 2) = b /\ Bit(x, 6, 3) = c /\ Bit(x, 6, 4) = d
      /\ Bit(x, 6, 5) = e /\ Bit(x, 6, 6) = f
  BY <1>1, SixBits
<1>4. /\ Bit(y, 6, 1) = p /\ Bit(y, 6, 2) = q /\ Bit(y, 6, 3) = r /\ Bit(y, 6, 4) = u
      /\ Bit(y, 6, 5) = v /\ Bit(y, 6, 6) = w
  BY <1>2, SixBits
<1>5. x = 32 * a + 16 * b + 8 * c + 4 * d + 2 * e + f /\ y = 32 * p + 16 * q + 8 * r + 4 * u + 2 * v + w
  BY <1>1, <1>2 DEF Six6
<1>6. t \in {0, 1, 2, 3, 4, 5, 6, 7}
  BY SMT
<1> DEFINE Goal == Bit(z, 8, t + 1)
                   = IF t < 6 - 2 * s THEN Bit(x, 6, 2 * s + t + 1) ELSE Bit(y, 6, t - (6 - 2 * s) + 1)
<1>7. CASE s = 0
  <2>1. z = Eight8(a, b, c, d, e, f, p, q)
    <3>1. z = x * 4 + y \div 16
      BY <1>7, SMT DEF Joined
    <3>2. y \div 16 = 2 * p + q
      BY <1>5, SMT
    <3> QED BY <1>5, <3>1, <3>2, SMT DEF Eight8
  <2>2. /\ Bit(z, 8, 1) = a /\ Bit(z, 8, 2) = b /\ Bit(z, 8, 3) = c /\ Bit(z, 8, 4) = d
        /\ Bit(z, 8, 5) = e /\ Bit(z, 8, 6) = f /\ Bit(z, 8, 7) = p /\ Bit(z, 8, 8) = q
    BY <2>1, EightBits
  <2> HIDE DEF z
  <2>3. Goal
    BY <1>3, <1>4, <1>6, <1>7, <2>2, SMT
  <2> QED BY <2>3 DEF z
<1>8. CASE s = 1
  <2>1. z = Eight8(c, d, e, f, p, q, r, u)
    <3>1. z = (x % 16) * 16 + y \div 4
      BY <1>8, SMT DEF Joined
    <3>2. y \div 4 = 8 * p + 4 * q + 2 * r + u /\ x % 16 = 8 * c + 4 * d + 2 * e + f
      BY <1>5, SMT
    <3> QED BY <3>1, <3>2, SMT DEF Eight8
  <2>2. /\ Bit(z, 8, 1) = c /\ Bit(z, 8, 2) = d /\ Bit(z, 8, 3) = e /\ Bit(z, 8, 4) = f
        /\ Bit(z, 8, 5) = p /\ Bit(z, 8, 6) = q /\ Bit(z, 8, 7) = r /\ Bit(z, 8, 8) = u
    BY <2>1, EightBits
  <2> HIDE DEF z
  <2>3. Goal
    BY <1>3, <1>4, <1>6, <1>8, <2>2, SMT
  <2> QED BY <2>3 DEF z
<1>9. CASE s = 2
  <2>1. z = Eight8(e, f, p, q, r, u, v, w)
    <3>1. z = (x % 4) * 64 + y
      BY <1>9, SMT DEF Joined
    <3>2. x % 4 = 2 * e + f
      BY <1>5, SMT
    <3> QED BY <1>5, <3>1, <3>2, SMT DEF Eight8
  <2>2. /\ Bit(z, 8, 1) = e /\ Bit(z, 8, 2) = f /\ Bit(z, 8, 3) = p /\ Bit(z, 8, 4) = q
        /\ Bit(z, 8, 5) = r /\ Bit(z, 8, 6) = u /\ Bit(z, 8, 7) = v /\ Bit(z, 8, 8) = w
    BY <2>1, EightBits
  <2> HIDE DEF z
  <2>3. Goal
    BY <1>3, <1>4, <1>6, <1>9, <2>2, SMT
  <2> QED BY <2>3 DEF z
<1>10. s = 0 \/ s = 1 \/ s = 2
  BY SMT
<1> QED BY <1>7, <1>8, <1>9, <1>10

\* Where a bit is in groups of eight and in groups of six.
LEMMA BitPlace ==
    ASSUME NEW i \in Nat \ {0}
    PROVE  \E k \in Nat, s \in 0..2, t \in 0..7 :
               /\ (i - 1) \div 8 + 1 = 3 * k + s + 1 /\ ((i - 1) % 8) + 1 = t + 1
               /\ (i - 1) \div 6 + 1 = 4 * k + s + (IF t < 6 - 2 * s THEN 1 ELSE 2)
               /\ ((i - 1) % 6) + 1 = IF t < 6 - 2 * s THEN 2 * s + t + 1 ELSE t - (6 - 2 * s) + 1
<1> DEFINE n == i - 1
           m == n \div 8
           k == m \div 3
           s == m % 3
           t == n % 8
<1>1. n \in Nat /\ m \in Nat /\ t \in 0..7 /\ n = 8 * m + t
  BY SMT
<1>2. k \in Nat /\ s \in 0..2 /\ m = 3 * k + s
  BY <1>1, SMT
<1> HIDE DEF n, m, k, s, t
<1>3. n = 24 * k + 8 * s + t
  BY <1>1, <1>2, SMT
<1>4. s = 0 \/ s = 1 \/ s = 2
  BY <1>2, SMT
<1>5. /\ n \div 8 = 3 * k + s /\ n % 8 = t
      /\ n \div 6 + 1 = 4 * k + s + (IF t < 6 - 2 * s THEN 1 ELSE 2)
      /\ (n % 6) + 1 = IF t < 6 - 2 * s THEN 2 * s + t + 1 ELSE t - (6 - 2 * s) + 1
  <2>1. CASE s = 0
    BY <1>1, <1>2, <1>3, <2>1, SMT
  <2>2. CASE s = 1
    BY <1>1, <1>2, <1>3, <2>2, SMT
  <2>3. CASE s = 2
    BY <1>1, <1>2, <1>3, <2>3, SMT
  <2> QED BY <1>4, <2>1, <2>2, <2>3
<1> QED BY <1>1, <1>2, <1>5, SMT DEF n

\* The groups have as many bits as they have.
LEMMA BitsOf ==
    ASSUME NEW groups, Len(groups) \in Nat, NEW width \in {6, 8}
    PROVE  /\ Len(Bits(groups, width)) = width * Len(groups)
           /\ \A i \in 1..(width * Len(groups)) :
                  Bits(groups, width)[i] = Bit(groups[(i - 1) \div width + 1], width, ((i - 1) % width) + 1)
<1> DEFINE n == width * Len(groups)
           e(i) == Bit(groups[(i - 1) \div width + 1], width, ((i - 1) % width) + 1)
           b == [i \in 1..n |-> e(i)]
           S == {e(i) : i \in 1..n}
<1>1. n \in Nat
  <2>1. width = 6 \/ width = 8
    OBVIOUS
  <2> QED BY <2>1
<1>2. b \in [1..n -> S] /\ \A i \in 1..n : b[i] = e(i)
  <2> HIDE DEF n, e
  <2> QED OBVIOUS
<1>3. Bits(groups, width) = b
  BY Zenon DEF Bits
<1> HIDE DEF b, n, S
<1>4. Len(b) = n
  BY <1>1, <1>2
<1> HIDE DEF e
<1> QED BY <1>2, <1>3, <1>4 DEF n, e

\* Characters carry the bytes that they were joined to, or that were split into them.
LEMMA CarriesJoined ==
    ASSUME NEW chars \in Seq(Six), NEW bytes \in Seq(Nat), Len(chars) = (8 * Len(bytes) + 5) \div 6,
           \A k \in Nat, s \in 0..2 :
               3 * k + s + 1 <= Len(bytes) =>
                   bytes[3 * k + s + 1] = Joined(s, chars[4 * k + s + 1], chars[4 * k + s + 2])
    PROVE  Carries(chars, bytes)
<1> DEFINE M == Len(bytes)
           N == Len(chars)
<1>1. M \in Nat /\ N \in Nat /\ N = (8 * M + 5) \div 6
  BY LenProperties
<1>2. /\ Len(Bits(chars, 6)) = 6 * N /\ Len(Bits(bytes, 8)) = 8 * M
      /\ \A i \in 1..(6 * N) : Bits(chars, 6)[i] = Bit(chars[(i - 1) \div 6 + 1], 6, ((i - 1) % 6) + 1)
      /\ \A i \in 1..(8 * M) : Bits(bytes, 8)[i] = Bit(bytes[(i - 1) \div 8 + 1], 8, ((i - 1) % 8) + 1)
  BY <1>1, BitsOf
<1>3. ASSUME NEW i \in 1..(8 * M) PROVE Bits(chars, 6)[i] = Bits(bytes, 8)[i]
  <2>1. i \in Nat \ {0} /\ i \in 1..(6 * N)
    <3>1. 8 * M <= 6 * N
      BY <1>1, SMT
    <3> QED BY <1>1, <3>1, SMT
  <2>2. PICK k \in Nat, s \in 0..2, t \in 0..7 :
            /\ (i - 1) \div 8 + 1 = 3 * k + s + 1 /\ ((i - 1) % 8) + 1 = t + 1
            /\ (i - 1) \div 6 + 1 = 4 * k + s + (IF t < 6 - 2 * s THEN 1 ELSE 2)
            /\ ((i - 1) % 6) + 1 = IF t < 6 - 2 * s THEN 2 * s + t + 1 ELSE t - (6 - 2 * s) + 1
    BY <2>1, BitPlace
  <2> DEFINE m == 3 * k + s + 1
             High == t < 6 - 2 * s
             x == chars[4 * k + s + 1]
             y == chars[4 * k + s + 2]
  <2>3. m <= M
    BY <1>1, <2>2, SMT
  <2>4. Bits(bytes, 8)[i] = Bit(bytes[m], 8, t + 1)
    BY <1>2, <2>2, Zenon
  <2>5. Bits(chars, 6)[i] = Bit(chars[(i - 1) \div 6 + 1], 6, ((i - 1) % 6) + 1)
    BY <1>2, <2>1, Zenon
  <2>6. 4 * k + s + 1 \in 1..N /\ 4 * k + s + 2 \in 1..N
    <3>1. s = 0 \/ s = 1 \/ s = 2
      BY <2>2, SMT
    <3>2. 4 * k + s + 2 <= N
      BY <1>1, <2>2, <2>3, <3>1, SMT
    <3> QED BY <1>1, <2>2, <3>2, SMT
  <2>7. x \in Six /\ y \in Six
    BY <2>6, ElementOfSeq
  <2>8. bytes[m] = Joined(s, x, y)
    BY <2>3
  <2>9. Bit(bytes[m], 8, t + 1)
        = IF High THEN Bit(x, 6, 2 * s + t + 1) ELSE Bit(y, 6, t - (6 - 2 * s) + 1)
    <3> HIDE DEF x, y
    <3>1. Bit(Joined(s, x, y), 8, t + 1)
          = IF t < 6 - 2 * s THEN Bit(x, 6, 2 * s + t + 1) ELSE Bit(y, 6, t - (6 - 2 * s) + 1)
      BY <2>2, <2>7, JoinedBits, Zenon
    <3> QED BY <2>8, <3>1, Zenon
  <2>10. CASE High
    <3>1. (i - 1) \div 6 + 1 = 4 * k + s + 1 /\ ((i - 1) % 6) + 1 = 2 * s + t + 1
      BY <2>2, <2>10, SMT
    <3>2. Bits(chars, 6)[i] = Bit(x, 6, 2 * s + t + 1)
      BY <2>5, <3>1, Zenon
    <3> QED BY <2>4, <2>9, <2>10, <3>2, Zenon
  <2>11. CASE ~High
    <3>1. (i - 1) \div 6 + 1 = 4 * k + s + 2 /\ ((i - 1) % 6) + 1 = t - (6 - 2 * s) + 1
      BY <2>2, <2>11, SMT
    <3>2. Bits(chars, 6)[i] = Bit(y, 6, t - (6 - 2 * s) + 1)
      BY <2>5, <3>1, Zenon
    <3> QED BY <2>4, <2>9, <2>11, <3>2, Zenon
  <2> QED BY <2>10, <2>11
<1> QED BY <1>1, <1>2, <1>3 DEF Carries

\* The part of a text before its padding.
LEMMA UnpaddedOf ==
    ASSUME NEW text \in Seq(Int)
    PROVE  /\ Unpadded(text) \in Seq(Int) /\ Len(Unpadded(text)) \in 0..Len(text)
           /\ \A i \in 1..Len(Unpadded(text)) : Unpadded(text)[i] = text[i] /\ ~IsPad(text[i])
           /\ Len(Unpadded(text)) < Len(text) => IsPad(text[Len(Unpadded(text)) + 1])
<1> DEFINE L == Len(text)
           T == {i \in 1..(L + 1) : ~IsData(text, i)}
           n == Min(T) - 1
<1>1. L \in Nat
  BY LenProperties
<1>2. \A i \in 1..(L + 1) : IsData(text, i) <=> i <= L /\ ~IsPad(text[i])
  BY DEF IsData
<1>3. Min(T) \in T /\ \A y \in T : Min(T) <= y
  <2>1. L + 1 \in 1..(L + 1) /\ ~(L + 1 <= L)
    BY <1>1
  <2>2. L + 1 \in T /\ T \subseteq Nat
    BY <1>1, <1>2, <2>1
  <2> HIDE DEF T
  <2> QED BY <2>2, Smallest
<1>4. Unpadded(text) = SubSeq(text, 1, n)
  BY Zenon DEF Unpadded
<1> HIDE DEF L, n
<1>5. n \in 0..L /\ n + 1 \in T /\ \A y \in T : n + 1 <= y
  <2>1. Min(T) \in 1..(L + 1)
    BY <1>3
  <2> DEFINE m == Min(T)
  <2>2. m \in 1..(L + 1) /\ n = m - 1
    BY <2>1 DEF n
  <2> HIDE DEF m
  <2>3. n \in 0..L /\ n + 1 = m
    BY <1>1, <2>2
  <2> QED BY <1>3, <2>3 DEF m
<1>6. \A i \in 1..n : ~IsPad(text[i])
  <2> SUFFICES ASSUME NEW i \in 1..n PROVE ~IsPad(text[i])
    OBVIOUS
  <2>1. i \in 1..(L + 1) /\ ~(n + 1 <= i)
    BY <1>1, <1>5
  <2>2. i \notin T
    BY <1>5, <2>1
  <2> QED BY <1>2, <2>1, <2>2
<1>7. n < L => IsPad(text[n + 1])
  <2>1. ~IsData(text, n + 1) /\ n + 1 \in 1..(L + 1)
    BY <1>5
  <2>2. n < L => n + 1 <= L
    BY <1>1, <1>5
  <2> QED BY <1>2, <2>1, <2>2
<1>8. SubSeq(text, 1, n) \in Seq(Int) /\ Len(SubSeq(text, 1, n)) = n /\ \A i \in 1..n : SubSeq(text, 1, n)[i] = text[i]
  <2>1. \A i \in 1..n : text[i] \in Int
    <3> SUFFICES ASSUME NEW i \in 1..n PROVE text[i] \in Int
      OBVIOUS
    <3>1. i \in 1..Len(text)
      BY <1>1, <1>5 DEF L
    <3> QED BY <3>1, ElementOfSeq
  <2>2. /\ SubSeq(text, 1, n) \in Seq(Int) /\ Len(SubSeq(text, 1, n)) = (IF 1 <= n THEN n - 1 + 1 ELSE 0)
        /\ \A i \in 1..(n - 1 + 1) : SubSeq(text, 1, n)[i] = text[1 + i - 1]
    BY <1>1, <1>5, <2>1, SubSeqProperties
  <2>3. n - 1 + 1 = n /\ (IF 1 <= n THEN n - 1 + 1 ELSE 0) = n /\ \A i \in 1..n : 1 + i - 1 = i
    BY <1>1, <1>5
  <2> QED BY <2>2, <2>3
<1> QED BY <1>4, <1>5, <1>6, <1>7, <1>8 DEF L

\* There is only one place where it can end.
LEMMA UnpaddedEnds ==
    ASSUME NEW text \in Seq(Int), NEW n \in 0..Len(text), \A i \in 1..n : ~IsPad(text[i]),
           n < Len(text) => IsPad(text[n + 1])
    PROVE  Len(Unpadded(text)) = n
<1> DEFINE m == Len(Unpadded(text))
           L == Len(text)
<1>1. L \in Nat /\ m \in 0..L /\ (\A i \in 1..m : ~IsPad(text[i])) /\ (m < L => IsPad(text[m + 1]))
  BY UnpaddedOf, LenProperties
<1>2. n \in 0..L /\ (n < L => IsPad(text[n + 1]))
  OBVIOUS
<1> HIDE DEF m, L
<1>3. ~(m < n)
  <2> SUFFICES ASSUME m < n PROVE FALSE
    OBVIOUS
  <2>1. m + 1 \in 1..n /\ m < L
    BY <1>1, <1>2
  <2> QED BY <1>1, <2>1
<1>4. ~(n < m)
  <2> SUFFICES ASSUME n < m PROVE FALSE
    OBVIOUS
  <2>1. n + 1 \in 1..m /\ n < L
    BY <1>1, <1>2
  <2> QED BY <1>1, <1>2, <2>1
<1>5. m = n
  BY <1>1, <1>2, <1>3, <1>4
<1> QED BY <1>5 DEF m

\* The alphabet, there and back; the standard one has no character of the other.
LEMMA Alphabet ==
    ASSUME NEW v \in Six
    PROVE  /\ Base64Chars(FALSE)[v] \in Int /\ PosOfChar(Base64Chars(FALSE)[v]) = v
           /\ ~IsPad(Base64Chars(FALSE)[v]) /\ Base64Chars(FALSE)[v] \notin {45, 46, 95}
<1> DEFINE c == Base64Chars(FALSE)[v]
<1>1. v \in 0..63
  BY DEF Six
<1>2. c = CASE v < 26 -> 65 + v
            [] v \in 26..51 -> 97 + v - 26
            [] v \in 52..61 -> 48 + v - 52
            [] v = 62 -> 43
            [] v = 63 -> 47
  BY <1>1, SMT DEF Base64Chars
<1> DEFINE Goal == c \in Int /\ PosOfChar(c) = v /\ ~IsPad(c) /\ c \notin {45, 46, 95}
<1> SUFFICES Goal
  OBVIOUS
<1> HIDE DEF c, Goal
<1>3. CASE v \in 0..25
  <2>1. c = 65 + v
    BY <1>2, <1>3, SMT
  <2>2. c \in 65..90
    BY <1>3, <2>1, SMT
  <2>3. PosOfChar(c) = c - 65
    BY <2>2, SMT DEF PosOfChar
  <2> QED BY <1>3, <2>1, <2>2, <2>3, SMT DEF IsPad, Goal
<1>4. CASE v \in 26..51
  <2>1. c = 97 + v - 26
    BY <1>2, <1>4, SMT
  <2>2. c \in 97..122
    BY <1>4, <2>1, SMT
  <2>3. PosOfChar(c) = c - 97 + 26
    BY <2>2, SMT DEF PosOfChar
  <2> QED BY <1>4, <2>1, <2>2, <2>3, SMT DEF IsPad, Goal
<1>5. CASE v \in 52..61
  <2>1. c = 48 + v - 52
    BY <1>2, <1>5, SMT
  <2>2. c \in 48..57
    BY <1>5, <2>1, SMT
  <2>3. PosOfChar(c) = c - 48 + 52
    BY <2>2, SMT DEF PosOfChar
  <2> QED BY <1>5, <2>1, <2>2, <2>3, SMT DEF IsPad, Goal
<1>6. CASE v = 62
  <2>1. c = 43
    BY <1>2, <1>6, SMT
  <2>2. PosOfChar(43) = 62
    BY SMT DEF PosOfChar
  <2> QED BY <1>6, <2>1, <2>2, SMT DEF IsPad, Goal
<1>7. CASE v = 63
  <2>1. c = 47
    BY <1>2, <1>7, SMT
  <2>2. PosOfChar(47) = 63
    BY SMT DEF PosOfChar
  <2> QED BY <1>7, <2>1, <2>2, SMT DEF IsPad, Goal
<1> QED BY <1>1, <1>3, <1>4, <1>5, <1>6, <1>7, SMT

\* A sequence over a set is one over a larger set.
LEMMA SeqWidens ==
    ASSUME NEW S, NEW R, S \subseteq R, NEW s \in Seq(S)
    PROVE  s \in Seq(R)
<1>1. Len(s) \in Nat /\ s \in [1..Len(s) -> S]
  BY LenProperties
<1>2. s \in [1..Len(s) -> R]
  BY <1>1
<1>3. s \in UNION {[1..n -> R] : n \in Nat}
  BY <1>1, <1>2
<1>4. \A t : t \in [1..Len(s) -> R] => t \in Seq(R)
  BY <1>1
<1> QED BY <1>2, <1>4

\* The six bits that make character j of chunk k: bytes past the end count as 0.
ByteAt(bytes, i) == IF i <= Len(bytes) THEN bytes[i] ELSE 0
Split(j, a, b, c) ==
    CASE j = 0 -> a \div 4
      [] j = 1 -> (a % 4) * 16 + (b \div 16)
      [] j = 2 -> (b % 16) * 4 + (c \div 64)
      [] OTHER -> c % 64
SplitAt(bytes, k, j) ==
    Split(j, ByteAt(bytes, 3 * k + 1), ByteAt(bytes, 3 * k + 2), ByteAt(bytes, 3 * k + 3))

\* A byte.
Octet == 0..255

SplitsBack(a, b, c) ==
    /\ Split(0, a, b, c) \in Six /\ Split(1, a, b, c) \in Six
    /\ Split(2, a, b, c) \in Six /\ Split(3, a, b, c) \in Six
    /\ Joined(0, Split(0, a, b, c), Split(1, a, b, c)) = a
    /\ Joined(1, Split(1, a, b, c), Split(2, a, b, c)) = b
    /\ Joined(2, Split(2, a, b, c), Split(3, a, b, c)) = c

\* Splitting three bytes and joining what they were split into gives them back.
LEMMA SplitJoined ==
    ASSUME NEW a \in Octet, NEW b \in Octet, NEW c \in Octet
    PROVE  SplitsBack(a, b, c)
<1>1. /\ Split(0, a, b, c) = a \div 4 /\ Split(1, a, b, c) = (a % 4) * 16 + (b \div 16)
      /\ Split(2, a, b, c) = (b % 16) * 4 + (c \div 64) /\ Split(3, a, b, c) = c % 64
  BY SMT DEF Split
<1> DEFINE u == Split(0, a, b, c)
           v == Split(1, a, b, c)
           w == Split(2, a, b, c)
           x == Split(3, a, b, c)
<1>2. a \in 0..255 /\ b \in 0..255 /\ c \in 0..255
      /\ u = a \div 4 /\ v = (a % 4) * 16 + (b \div 16) /\ w = (b % 16) * 4 + (c \div 64) /\ x = c % 64
  BY <1>1 DEF Octet
<1> HIDE DEF u, v, w, x
<1>3. u \in 0..63 /\ v \in 0..63 /\ w \in 0..63 /\ x \in 0..63
  BY <1>2, SMT
<1>4. u * 4 + v \div 16 = a
  BY <1>2, SMT
<1>5. (v % 16) * 16 + w \div 4 = b
  BY <1>2, SMT
<1>6. (w % 4) * 64 + x = c
  BY <1>2, SMT
<1>7. Joined(0, u, v) = u * 4 + v \div 16 /\ Joined(1, v, w) = (v % 16) * 16 + w \div 4
      /\ Joined(2, w, x) = (w % 4) * 64 + x
  BY SMT DEF Joined
<1> QED BY <1>3, <1>4, <1>5, <1>6, <1>7 DEF SplitsBack, Six, u, v, w, x

\* So the bytes of a text are those that its characters were split from.
LEMMA SplitAtJoined ==
    ASSUME NEW bytes \in Seq(Octet), NEW k \in Nat
    PROVE  /\ \A j \in 0..3 : SplitAt(bytes, k, j) \in Six
           /\ \A s \in 0..2 : 3 * k + s + 1 <= Len(bytes) =>
                  bytes[3 * k + s + 1] = Joined(s, SplitAt(bytes, k, s), SplitAt(bytes, k, s + 1))
<1> DEFINE a == ByteAt(bytes, 3 * k + 1)
           b == ByteAt(bytes, 3 * k + 2)
           c == ByteAt(bytes, 3 * k + 3)
<1>1. \A i \in Nat \ {0} : ByteAt(bytes, i) \in Octet
  <2> SUFFICES ASSUME NEW i \in Nat \ {0} PROVE ByteAt(bytes, i) \in Octet
    OBVIOUS
  <2>1. CASE i <= Len(bytes)
    <3>1. i \in 1..Len(bytes)
      BY <2>1, LenProperties
    <3> QED BY <2>1, <3>1, ElementOfSeq DEF ByteAt
  <2>2. CASE ~(i <= Len(bytes))
    BY <2>2 DEF ByteAt, Octet
  <2> QED BY <2>1, <2>2
<1>2. a \in Octet /\ b \in Octet /\ c \in Octet
  BY <1>1
<1>3. \A j : SplitAt(bytes, k, j) = Split(j, a, b, c)
  BY Zenon DEF SplitAt
<1>4. 3 * k + 1 <= Len(bytes) => bytes[3 * k + 1] = a
  BY DEF ByteAt
<1>5. 3 * k + 2 <= Len(bytes) => bytes[3 * k + 2] = b
  BY DEF ByteAt
<1>6. 3 * k + 3 <= Len(bytes) => bytes[3 * k + 3] = c
  BY DEF ByteAt
<1> HIDE DEF a, b, c
<1>7. /\ Split(0, a, b, c) \in Six /\ Split(1, a, b, c) \in Six
      /\ Split(2, a, b, c) \in Six /\ Split(3, a, b, c) \in Six
      /\ Joined(0, Split(0, a, b, c), Split(1, a, b, c)) = a
      /\ Joined(1, Split(1, a, b, c), Split(2, a, b, c)) = b
      /\ Joined(2, Split(2, a, b, c), Split(3, a, b, c)) = c
  <2>1. SplitsBack(a, b, c)
    BY <1>2, SplitJoined
  <2> QED BY <2>1, Zenon DEF SplitsBack
<1>8. ASSUME NEW j \in 0..3 PROVE SplitAt(bytes, k, j) \in Six
  <2>1. j = 0 \/ j = 1 \/ j = 2 \/ j = 3
    OBVIOUS
  <2> QED BY <1>3, <1>7, <2>1, Zenon
<1>9. ASSUME NEW s \in 0..2, 3 * k + s + 1 <= Len(bytes)
      PROVE  bytes[3 * k + s + 1] = Joined(s, SplitAt(bytes, k, s), SplitAt(bytes, k, s + 1))
  <2>1. CASE s = 0
    <3>1. 3 * k + s + 1 = 3 * k + 1 /\ s + 1 = 1
      BY <2>1
    <3> QED BY <1>3, <1>4, <1>7, <1>9, <2>1, <3>1, Zenon
  <2>2. CASE s = 1
    <3>1. 3 * k + s + 1 = 3 * k + 2 /\ s + 1 = 2
      BY <2>2
    <3> QED BY <1>3, <1>5, <1>7, <1>9, <2>2, <3>1, Zenon
  <2>3. CASE s = 2
    <3>1. 3 * k + s + 1 = 3 * k + 3 /\ s + 1 = 3
      BY <2>3
    <3> QED BY <1>3, <1>6, <1>7, <1>9, <2>3, <3>1, Zenon
  <2> QED BY <2>1, <2>2, <2>3
<1> QED BY <1>8, <1>9

\* How many characters the first bytes of a chunk take.
LEMMA CharsOfBytes ==
    ASSUME NEW M \in Nat, NEW k \in Nat, 3 * k + 1 <= M
    PROVE  /\ 4 * k + 2 <= (8 * M + 5) \div 6
           /\ 3 * k + 2 <= M <=> 4 * k + 3 <= (8 * M + 5) \div 6
           /\ 3 * k + 3 <= M <=> 4 * k + 4 <= (8 * M + 5) \div 6
<1>1. 4 * k + 2 <= (8 * M + 5) \div 6
  BY SMT
<1>2. 3 * k + 2 <= M <=> 4 * k + 3 <= (8 * M + 5) \div 6
  BY SMT
<1>3. 3 * k + 3 <= M <=> 4 * k + 4 <= (8 * M + 5) \div 6
  BY SMT
<1> QED BY <1>1, <1>2, <1>3

\* The characters of a chunk: those of its bits, and padding for the bytes it lacks.
CharOf(v) == Base64Chars(FALSE)[v]
ChunkOf(bytes, k, chunk) ==
    /\ chunk \in Seq(Int) /\ Len(chunk) = 4
    /\ \A j \in 0..3 : chunk[j + 1] = IF 4 * k + j + 1 <= (8 * Len(bytes) + 5) \div 6
                                      THEN CharOf(SplitAt(bytes, k, j))
                                      ELSE 61
\* What three bytes, or the last one or two, are encoded to.
LEMMA ChunkEncoded ==
    ASSUME NEW bytes \in Seq(Octet), NEW k \in Nat, 3 * k + 1 <= Len(bytes)
    PROVE  ChunkOf(bytes, k, EncodeChunk(bytes, 3 * k + 1, FALSE))
<1> DEFINE M == Len(bytes)
           N == (8 * M + 5) \div 6
           a == ByteAt(bytes, 3 * k + 1)
           b == ByteAt(bytes, 3 * k + 2)
           c == ByteAt(bytes, 3 * k + 3)
           chunk == EncodeChunk(bytes, 3 * k + 1, FALSE)
<1>1. M \in Nat /\ 3 * k + 1 <= M
  BY LenProperties
<1>2. 4 * k + 2 <= N /\ (3 * k + 2 <= M <=> 4 * k + 3 <= N) /\ (3 * k + 3 <= M <=> 4 * k + 4 <= N)
  BY <1>1, CharsOfBytes
<1>3. TrailingChar(FALSE) = 61
  BY DEF TrailingChar
<1>4. 3 * k + 1 + 1 = 3 * k + 2 /\ 3 * k + 1 + 2 = 3 * k + 3
  OBVIOUS
<1>5. chunk = <<CharOf(a \div 4),
                CharOf((a % 4) * 16 + (b \div 16)),
                IF 3 * k + 1 + 1 <= M THEN CharOf((b % 16) * 4 + (c \div 64)) ELSE TrailingChar(FALSE),
                IF 3 * k + 1 + 2 <= M THEN CharOf(c % 64) ELSE TrailingChar(FALSE)>>
  BY <1>4, Zenon DEF EncodeChunk, EncodeUpTo, CharOf, ByteAt
<1>6. /\ SplitAt(bytes, k, 0) = a \div 4 /\ SplitAt(bytes, k, 1) = (a % 4) * 16 + (b \div 16)
      /\ SplitAt(bytes, k, 2) = (b % 16) * 4 + (c \div 64) /\ SplitAt(bytes, k, 3) = c % 64
  <2> HIDE DEF a, b, c
  <2>1. \A j : SplitAt(bytes, k, j) = Split(j, a, b, c)
    BY Zenon DEF SplitAt, a, b, c
  <2> QED BY <2>1, SMT DEF Split
<1>7. \A j \in 0..3 : SplitAt(bytes, k, j) \in Six
  BY SplitAtJoined
<1> HIDE DEF a, b, c, chunk, N, M
<1> DEFINE p == CharOf(SplitAt(bytes, k, 0))
           q == CharOf(SplitAt(bytes, k, 1))
           r == IF 4 * k + 3 <= N THEN CharOf(SplitAt(bytes, k, 2)) ELSE 61
           s == IF 4 * k + 4 <= N THEN CharOf(SplitAt(bytes, k, 3)) ELSE 61
<1>8. chunk = <<p, q, r, s>>
  <2>1. chunk = <<p, q,
                  IF 3 * k + 1 + 1 <= M THEN CharOf(SplitAt(bytes, k, 2)) ELSE 61,
                  IF 3 * k + 1 + 2 <= M THEN CharOf(SplitAt(bytes, k, 3)) ELSE 61>>
    BY <1>3, <1>5, <1>6, Zenon
  <2>2. 3 * k + 1 + 1 <= M <=> 4 * k + 3 <= N
    BY <1>2, <1>4, Zenon
  <2>3. 3 * k + 1 + 2 <= M <=> 4 * k + 4 <= N
    BY <1>2, <1>4, Zenon
  <2> QED BY <2>1, <2>2, <2>3, Zenon
<1>9. p \in Int /\ q \in Int /\ r \in Int /\ s \in Int
  <2>1. \A j \in 0..3 : CharOf(SplitAt(bytes, k, j)) \in Int
    BY <1>7, Alphabet, Zenon DEF CharOf
  <2> QED BY <2>1, SMT
<1>10. \A j \in 0..3 : chunk[j + 1] = IF 4 * k + j + 1 <= N THEN CharOf(SplitAt(bytes, k, j)) ELSE 61
  <2> SUFFICES ASSUME NEW j \in 0..3
               PROVE  chunk[j + 1] = IF 4 * k + j + 1 <= N THEN CharOf(SplitAt(bytes, k, j)) ELSE 61
    OBVIOUS
  <2> HIDE DEF p, q, r, s
  <2>1. chunk[1] = p /\ chunk[2] = q /\ chunk[3] = r /\ chunk[4] = s
    BY <1>8, SMT
  <2>2. CASE j = 0
    <3>1. j + 1 = 1 /\ 4 * k + j + 1 <= N
      BY <1>1, <1>2, <2>2, SMT DEF N
    <3> QED BY <2>1, <2>2, <3>1, Zenon DEF p
  <2>3. CASE j = 1
    <3>1. j + 1 = 2 /\ 4 * k + j + 1 <= N
      BY <1>1, <1>2, <2>3, SMT DEF N
    <3> QED BY <2>1, <2>3, <3>1, Zenon DEF q
  <2>4. CASE j = 2
    <3>1. j + 1 = 3 /\ 4 * k + j + 1 = 4 * k + 3
      BY <2>4, SMT
    <3> QED BY <2>1, <2>4, <3>1, Zenon DEF r
  <2>5. CASE j = 3
    <3>1. j + 1 = 4 /\ 4 * k + j + 1 = 4 * k + 4
      BY <2>5, SMT
    <3> QED BY <2>1, <2>5, <3>1, Zenon DEF s
  <2> QED BY <2>2, <2>3, <2>4, <2>5
<1>11. chunk \in Seq(Int) /\ Len(chunk) = 4
  <2> HIDE DEF p, q, r, s
  <2> QED BY <1>8, <1>9
<1> QED BY <1>10, <1>11, Zenon DEF ChunkOf, N, M, chunk

\* The text of some bytes: character i is character j of chunk k, for i = 4k + j + 1.
LEMMA TextEncoded ==
    ASSUME NEW bytes \in Seq(Octet), bytes # <<>>
    PROVE  /\ Base64Encode(bytes, FALSE) \in Seq(Int)
           /\ Len(Base64Encode(bytes, FALSE)) = 4 * ((Len(bytes) + 2) \div 3)
           /\ \A k \in Nat, j \in 0..3 : 4 * k + j + 1 <= Len(Base64Encode(bytes, FALSE)) =>
                  Base64Encode(bytes, FALSE)[4 * k + j + 1] =
                      IF 4 * k + j + 1 <= (8 * Len(bytes) + 5) \div 6 THEN CharOf(SplitAt(bytes, k, j)) ELSE 61
<1> DEFINE M == Len(bytes)
           K == (M + 2) \div 3
           chunk(k) == EncodeChunk(bytes, 3 * k - 2, FALSE)
           seqs == [k \in 1..K |-> chunk(k)]
           T == [k \in 0..K |-> 4 * k]
           text == Base64Encode(bytes, FALSE)
<1>1. M \in Nat /\ M >= 1 /\ K \in Nat /\ K >= 1
  <2>1. M \in Nat /\ M # 0
    BY LenProperties, EmptySeq
  <2> HIDE DEF M
  <2> QED BY <2>1, SMT
<1>2. ASSUME NEW k \in 1..K PROVE ChunkOf(bytes, k - 1, chunk(k))
  <2>1. k - 1 \in Nat /\ 3 * (k - 1) + 1 <= M /\ 3 * (k - 1) + 1 = 3 * k - 2
    BY <1>1, SMT
  <2> QED BY <2>1, ChunkEncoded
<1>3. text = FlattenSeq(seqs)
  BY Zenon DEF Base64Encode
<1> HIDE DEF chunk, K, text
<1>4. /\ seqs \in Seq(Seq(Int)) /\ Len(seqs) = K
      /\ \A k \in 1..K : seqs[k] = chunk(k)
  <2>1. \A k \in 1..K : chunk(k) \in Seq(Int)
    BY <1>2, Zenon DEF ChunkOf
  <2> QED BY <1>1, <2>1
<1>5. EndsOf(seqs, T)
  <2>1. \A k \in 0..K : T[k] = 4 * k
    OBVIOUS
  <2>2. T \in [0..K -> Nat]
    BY <1>1
  <2> HIDE DEF T, seqs
  <2>3. T[0] = 0
    BY <1>1, <2>1
  <2>4. \A k \in 1..K : T[k] = T[k - 1] + Len(seqs[k])
    <3> SUFFICES ASSUME NEW k \in 1..K PROVE T[k] = T[k - 1] + Len(seqs[k])
      OBVIOUS
    <3>1. Len(seqs[k]) = 4
      BY <1>2, <1>4, Zenon DEF ChunkOf
    <3>2. T[k] = 4 * k /\ T[k - 1] = 4 * (k - 1)
      BY <1>1, <2>1
    <3> QED BY <1>1, <3>1, <3>2
  <2>5. \A i, j \in 0..K : i <= j => T[i] <= T[j]
    BY <1>1, <2>1
  <2> QED BY <1>4, <2>2, <2>3, <2>4, <2>5 DEF EndsOf
<1>6. T[K] = 4 * K /\ \A k \in 1..K : T[k - 1] = 4 * (k - 1)
  BY <1>1
<1> HIDE DEF T, seqs
<1>7. IsFlat(seqs, T, Int, text)
  <2>1. Len(seqs) # 0
    BY <1>1, <1>4
  <2> QED BY <1>3, <1>4, <1>5, <2>1, FlatIs
<1>8. /\ text \in Seq(Int) /\ Len(text) = 4 * K
      /\ \A k \in 1..K : \A j \in 1..Len(seqs[k]) : text[T[k - 1] + j] = seqs[k][j]
  BY <1>4, <1>6, <1>7 DEF IsFlat
<1>9. ASSUME NEW k \in Nat, NEW j \in 0..3, 4 * k + j + 1 <= Len(text)
      PROVE  text[4 * k + j + 1] =
                 IF 4 * k + j + 1 <= (8 * Len(bytes) + 5) \div 6 THEN CharOf(SplitAt(bytes, k, j)) ELSE 61
  <2> DEFINE m == k + 1
             i == j + 1
  <2>1. m \in 1..K /\ m - 1 = k /\ i \in 1..4
    <3>1. Len(text) = 4 * K
      BY <1>8
    <3>2. 4 * k + j + 1 <= 4 * K
      BY <1>9, <3>1
    <3>3. k < K
      BY <1>1, <3>2
    <3> QED BY <1>1, <3>3
  <2>2. ChunkOf(bytes, k, seqs[m])
    <3> HIDE DEF m
    <3>1. ChunkOf(bytes, m - 1, seqs[m])
      BY <1>2, <1>4, <2>1
    <3> QED BY <2>1, <3>1
  <2>3. /\ Len(seqs[m]) = 4
        /\ seqs[m][i] =
               IF 4 * k + j + 1 <= (8 * Len(bytes) + 5) \div 6 THEN CharOf(SplitAt(bytes, k, j)) ELSE 61
    BY <2>2, Zenon DEF ChunkOf
  <2>4. T[k] = 4 * k /\ T[k] + i = 4 * k + j + 1
    <3>1. T[k] = 4 * k
      BY <1>6, <2>1
    <3> QED BY <3>1
  <2> HIDE DEF m, i
  <2>5. text[T[k] + i] = seqs[m][i]
    <3>1. \A n \in 1..Len(seqs[m]) : text[T[m - 1] + n] = seqs[m][n]
      BY <1>8, <2>1, Zenon
    <3> QED BY <2>1, <2>3, <3>1, Zenon
  <2> QED BY <2>3, <2>4, <2>5, Zenon
<1> QED BY <1>8, <1>9 DEF text, K

\* A place in a text is one of the four of a chunk.
LEMMA PlaceInChunk ==
    ASSUME NEW i \in Nat \ {0}
    PROVE  \E k \in Nat, j \in 0..3 : i = 4 * k + j + 1
<1> DEFINE k == (i - 1) \div 4
           j == (i - 1) % 4
<1>1. k \in Nat /\ j \in 0..3
  BY SMT
<1>2. i = 4 * k + j + 1
  BY SMT
<1> QED BY <1>1, <1>2, Zenon

\* The values of a text are those of the characters before its padding.
LEMMA ValuesOf ==
    ASSUME NEW text \in Seq(Int), \A i \in 1..Len(Unpadded(text)) : PosOfChar(text[i]) \in Six
    PROVE  /\ Values(text) \in Seq(Six) /\ Len(Values(text)) = Len(Unpadded(text))
           /\ \A i \in 1..Len(Unpadded(text)) : Values(text)[i] = PosOfChar(text[i])
<1> DEFINE n == Len(Unpadded(text))
           v(i) == PosOfChar(Unpadded(text)[i])
<1>1. n \in Nat /\ \A i \in 1..n : Unpadded(text)[i] = text[i]
  BY UnpaddedOf, LenProperties
<1>2. \A i \in 1..n : v(i) = PosOfChar(text[i]) /\ v(i) \in Six
  BY <1>1
<1>3. Values(text) = [i \in 1..n |-> v(i)]
  BY Zenon DEF Values
<1> HIDE DEF v, n
<1> QED BY <1>1, <1>2, <1>3 DEF n

\* The Base64 text of some bytes is Base64, and carries them.
LEMMA EncodedIsBase64 ==
    ASSUME NEW bytes \in Seq(Octet), bytes # <<>>
    PROVE  /\ IsBase64(Base64Encode(bytes, FALSE)) /\ Len(Base64Encode(bytes, FALSE)) % 4 = 0
           /\ Carries(Values(Base64Encode(bytes, FALSE)), bytes)
           /\ \A i \in 1..Len(Base64Encode(bytes, FALSE)) : Base64Encode(bytes, FALSE)[i] \notin {45, 46, 95}
<1> DEFINE M == Len(bytes)
           K == (M + 2) \div 3
           N == (8 * M + 5) \div 6
           text == Base64Encode(bytes, FALSE)
           pad == 61
           Plain(c) == c \notin {45, 46, 95}
<1>1. bytes \in Seq(Octet)
  OBVIOUS
<1>2. M \in Nat /\ M >= 1
  <2>1. M \in Nat /\ M # 0
    BY LenProperties, EmptySeq
  <2> HIDE DEF M
  <2> QED BY <2>1, SMT
<1>3. /\ text \in Seq(Int) /\ Len(text) = 4 * K
      /\ \A k \in Nat, j \in 0..3 : 4 * k + j + 1 <= Len(text) =>
             text[4 * k + j + 1] = IF 4 * k + j + 1 <= N THEN CharOf(SplitAt(bytes, k, j)) ELSE pad
  BY <1>1, TextEncoded
<1>4. /\ K \in Nat /\ N \in Nat /\ N <= 4 * K /\ N % 4 # 1 /\ 4 * ((N + 3) \div 4) = 4 * K /\ (4 * K) % 4 = 0
      /\ N > 0
  <2>1. K \in Nat /\ N \in Nat /\ N > 0 /\ (4 * K) % 4 = 0
    BY <1>2, SMT
  <2>2. N <= 4 * K
    BY <1>2, SMT
  <2>3. N % 4 # 1
    BY <1>2, SMT
  <2>4. (N + 3) \div 4 = K
    BY <1>2, SMT
  <2> QED BY <2>1, <2>2, <2>3, <2>4
<1>5. \A k \in Nat, j \in 0..3 : SplitAt(bytes, k, j) \in Six
  BY <1>1, SplitAtJoined
<1>6. \A v \in Six : /\ PosOfChar(CharOf(v)) = v /\ ~IsPad(CharOf(v)) /\ Plain(CharOf(v))
  BY Alphabet, Zenon DEF CharOf
<1>7. IsPad(pad) /\ Plain(pad)
  BY DEF IsPad
<1> HIDE DEF text, K, N, M, pad, Plain
<1>8. ASSUME NEW i \in 1..Len(text)
      PROVE  /\ i <= N => PosOfChar(text[i]) \in Six /\ ~IsPad(text[i])
             /\ ~(i <= N) => IsPad(text[i])
             /\ Plain(text[i])
  <2>1. i \in Nat \ {0} /\ i <= Len(text)
    BY <1>3, <1>4
  <2>2. PICK k \in Nat, j \in 0..3 : i = 4 * k + j + 1
    BY <2>1, PlaceInChunk
  <2>3. text[i] = IF i <= N THEN CharOf(SplitAt(bytes, k, j)) ELSE pad
    <3>1. 4 * k + j + 1 <= Len(text)
      BY <2>1, <2>2
    <3>2. text[4 * k + j + 1] = IF 4 * k + j + 1 <= N THEN CharOf(SplitAt(bytes, k, j)) ELSE pad
      BY <1>3, <3>1, Zenon
    <3> QED BY <2>2, <3>2, Zenon
  <2>4. SplitAt(bytes, k, j) \in Six
    BY <1>5, <2>2, Zenon
  <2> QED BY <1>6, <1>7, <2>3, <2>4, Zenon
<1>9. Len(Unpadded(text)) = N
  <2>1. N \in 0..Len(text) /\ 1..N \subseteq 1..Len(text)
    BY <1>3, <1>4
  <2>2. \A i \in 1..N : ~IsPad(text[i])
    BY <1>4, <1>8, <2>1
  <2>3. N < Len(text) => IsPad(text[N + 1])
    <3> SUFFICES ASSUME N < Len(text) PROVE IsPad(text[N + 1])
      OBVIOUS
    <3>1. N + 1 \in 1..Len(text) /\ ~(N + 1 <= N)
      BY <1>3, <1>4
    <3> QED BY <1>8, <3>1
  <2> QED BY <1>3, <2>1, <2>2, <2>3, UnpaddedEnds
<1>10. /\ Values(text) \in Seq(Six) /\ Len(Values(text)) = N
       /\ \A i \in 1..N : Values(text)[i] = PosOfChar(text[i])
  <2>1. 1..N \subseteq 1..Len(text) /\ \A i \in 1..N : i <= N
    BY <1>3, <1>4
  <2>2. \A i \in 1..N : PosOfChar(text[i]) \in Six
    BY <1>8, <2>1
  <2> QED BY <1>3, <1>9, <2>2, ValuesOf
<1>11. IsBase64(text)
  <2>1. \A v \in Six : v # NotBase64
    BY DEF Six, NotBase64
  <2>2. \A i \in 1..Len(text) : IF i <= N THEN PosOfChar(text[i]) # NotBase64 ELSE IsPad(text[i])
    BY <1>8, <2>1
  <2> QED BY <1>3, <1>4, <1>9, <2>2 DEF IsBase64
<1>12. Carries(Values(text), bytes)
  <2>1. bytes \in Seq(Nat)
    <3>1. Octet \subseteq Nat
      BY DEF Octet
    <3> QED BY <3>1, SeqWidens
  <2>2. ASSUME NEW k \in Nat, NEW j \in 0..3, 4 * k + j + 1 <= N
        PROVE  Values(text)[4 * k + j + 1] = SplitAt(bytes, k, j)
    <3> DEFINE i == 4 * k + j + 1
    <3>1. i \in 1..N /\ i <= Len(text) /\ i <= N
      BY <1>3, <1>4, <2>2
    <3>2. text[i] = CharOf(SplitAt(bytes, k, j))
      BY <1>3, <3>1, Zenon
    <3> HIDE DEF i
    <3>3. Values(text)[i] = SplitAt(bytes, k, j)
      BY <1>5, <1>6, <1>10, <3>1, <3>2, Zenon
    <3> QED BY <3>3 DEF i
  <2>3. ASSUME NEW k \in Nat, NEW s \in 0..2, 3 * k + s + 1 <= Len(bytes)
        PROVE  bytes[3 * k + s + 1] = Joined(s, Values(text)[4 * k + s + 1], Values(text)[4 * k + s + 2])
    <3>1. 4 * k + s + 2 <= N /\ 4 * k + s + 1 <= N
      <4>1. s = 0 \/ s = 1 \/ s = 2
        OBVIOUS
      <4> QED BY <1>2, <2>3, <4>1, SMT DEF M, N
    <3>2. s \in 0..3 /\ s + 1 \in 0..3 /\ 4 * k + (s + 1) + 1 = 4 * k + s + 2
      OBVIOUS
    <3>3. Values(text)[4 * k + s + 1] = SplitAt(bytes, k, s)
      BY <2>2, <3>1, <3>2
    <3>4. Values(text)[4 * k + s + 2] = SplitAt(bytes, k, s + 1)
      <4>1. 4 * k + (s + 1) + 1 <= N
        BY <3>1, <3>2
      <4>2. Values(text)[4 * k + (s + 1) + 1] = SplitAt(bytes, k, s + 1)
        BY <2>2, <3>2, <4>1
      <4> QED BY <3>2, <4>2, Zenon
    <3>5. bytes[3 * k + s + 1] = Joined(s, SplitAt(bytes, k, s), SplitAt(bytes, k, s + 1))
      BY <1>1, <2>3, SplitAtJoined
    <3> QED BY <3>3, <3>4, <3>5, Zenon
  <2> QED BY <1>10, <2>1, <2>3, CarriesJoined, Zenon DEF N, M
<1> QED BY <1>3, <1>4, <1>8, <1>11, <1>12, Zenon DEF text, Plain

\* The Base64 text of a frame of audio is Base64, is full chunks, uses no character of
\* the other alphabet, and carries the bytes of the frame: whatever they are.
THEOREM AudioEncoded ==
    ASSUME NEW bytes \in Seq(0..255), bytes # <<>>
    PROVE  /\ IsBase64(Base64Encode(bytes, FALSE)) /\ Len(Base64Encode(bytes, FALSE)) % 4 = 0
           /\ Carries(Values(Base64Encode(bytes, FALSE)), bytes)
           /\ \A i \in 1..Len(Base64Encode(bytes, FALSE)) : Base64Encode(bytes, FALSE)[i] \notin {45, 46, 95}
<1>1. bytes \in Seq(Octet)
  BY DEF Octet
<1> QED BY <1>1, EncodedIsBase64

\* A character that is one of Base64 has a value of six bits.
LEMMA ValueIsSix ==
    ASSUME NEW c \in Int, PosOfChar(c) # NotBase64
    PROVE  PosOfChar(c) \in Six
<1>1. CASE c \in 65..90
  BY <1>1, SMT DEF PosOfChar, Six
<1>2. CASE c \in 97..122
  BY <1>2, SMT DEF PosOfChar, Six
<1>3. CASE c \in 48..57
  BY <1>3, SMT DEF PosOfChar, Six
<1>4. CASE c \in {43, 45}
  BY <1>4, SMT DEF PosOfChar, Six
<1>5. CASE c \in {47, 95}
  BY <1>5, SMT DEF PosOfChar, Six
<1>6. CASE c \notin 65..90 /\ c \notin 97..122 /\ c \notin 48..57 /\ c \notin {43, 45} /\ c \notin {47, 95}
  <2>1. PosOfChar(c) = NotBase64
    BY <1>6, Zenon DEF PosOfChar
  <2> QED BY <2>1
<1> QED BY <1>1, <1>2, <1>3, <1>4, <1>5, <1>6

\* The data of a text, its first N characters, and the bytes that chunk q of them gives.
HasData(text, N) ==
    /\ N \in Nat /\ \A i \in 1..N : PosOfChar(text[i]) \in Six
    /\ \A i \in Nat \ {0} : IsData(text, i) <=> i <= N
ByteOf(text, q, s) == Joined(s, PosOfChar(text[4 * q + s + 1]), PosOfChar(text[4 * q + s + 2]))
BytesOf(text, q, N, chunk) ==
    /\ chunk \in Seq(Nat)
    /\ Len(chunk) = IF 4 * q + 3 <= N THEN (IF 4 * q + 4 <= N THEN 3 ELSE 2) ELSE 1
    /\ \A s \in 0..2 : s + 1 <= Len(chunk) => chunk[s + 1] = ByteOf(text, q, s)

\* Joined characters are a number.
LEMMA JoinedIsNat ==
    ASSUME NEW x \in Six, NEW y \in Six, NEW s \in 0..2
    PROVE  Joined(s, x, y) \in Nat
<1>1. x \in 0..63 /\ y \in 0..63
  BY DEF Six
<1>2. CASE s = 0
  <2>1. Joined(s, x, y) = x * 4 + y \div 16
    BY <1>2, SMT DEF Joined
  <2> QED BY <1>1, <2>1, SMT
<1>3. CASE s = 1
  <2>1. Joined(s, x, y) = (x % 16) * 16 + y \div 4
    BY <1>3, SMT DEF Joined
  <2> QED BY <1>1, <2>1, SMT
<1>4. CASE s = 2
  <2>1. Joined(s, x, y) = (x % 4) * 64 + y
    BY <1>4, SMT DEF Joined
  <2> QED BY <1>1, <2>1, SMT
<1> QED BY <1>2, <1>3, <1>4

\* The characters of a chunk that are looked up are those before the padding.
LEMMA PlacesExamined ==
    ASSUME NEW text, NEW q \in Nat, NEW N, HasData(text, N), 4 * q + 2 <= N
    PROVE  /\ 4 * q + 3 \in Examined(text, 4 * q + 1) <=> 4 * q + 3 <= N
           /\ 4 * q + 4 \in Examined(text, 4 * q + 1) <=> 4 * q + 4 <= N
           /\ Examined(text, 4 * q + 1) \subseteq 1..N
<1>1. N \in Nat /\ \A i \in Nat \ {0} : IsData(text, i) <=> i <= N
  BY DEF HasData
<1> DEFINE p == 4 * q + 1
<1>2. /\ p \in Nat \ {0} /\ p + 1 \in Nat \ {0} /\ p + 2 \in Nat \ {0} /\ p + 3 \in Nat \ {0}
      /\ p + 1 <= N /\ p + 2 = 4 * q + 3 /\ p + 3 = 4 * q + 4
  BY <1>1
<1>3. (IsData(text, p + 2) <=> p + 2 <= N) /\ (IsData(text, p + 3) <=> p + 3 <= N)
  BY <1>1, <1>2
<1>4. Examined(text, p) = {p, p + 1} \cup (IF p + 2 <= N
                                           THEN {p + 2} \cup (IF p + 3 <= N THEN {p + 3} ELSE {})
                                           ELSE {})
  BY <1>3, Zenon DEF Examined
<1> HIDE DEF p
<1>5. p + 2 \in Examined(text, p) <=> p + 2 <= N
  BY <1>1, <1>2, <1>4
<1>6. p + 3 \in Examined(text, p) <=> p + 3 <= N
  BY <1>1, <1>2, <1>4
<1>7. Examined(text, p) \subseteq 1..N
  BY <1>1, <1>2, <1>4
<1> QED BY <1>2, <1>5, <1>6, <1>7, Zenon DEF p

\* The pieces of a chunk, one after the other.
LEMMA JoinedUp ==
    ASSUME NEW x \in Nat
    PROVE  /\ <<x>> \o <<>> \o <<>> = <<x>>
           /\ \A y \in Nat : <<x>> \o <<y>> \o <<>> = <<x, y>>
           /\ \A y \in Nat, z \in Nat : <<x>> \o <<y>> \o <<z>> = <<x, y, z>>
<1>1. <<x>> \in Seq(Nat) /\ <<x>> \o <<>> = <<x>>
  BY ConcatEmptySeq
<1>2. ASSUME NEW y \in Nat PROVE <<x, y>> \in Seq(Nat) /\ <<x>> \o <<y>> = <<x, y>> /\ <<x, y>> \o <<>> = <<x, y>>
  <2>1. <<x, y>> \in Seq(Nat)
    OBVIOUS
  <2>2. <<x>> \o <<y>> = <<x, y>>
    <3> DEFINE s == <<x>> \o <<y>>
               t == <<x, y>>
    <3>1. <<x>> \in Seq(Nat) /\ <<y>> \in Seq(Nat) /\ Len(<<x>>) = 1 /\ Len(<<y>>) = 1
      OBVIOUS
    <3>2. s \in Seq(Nat) /\ Len(s) = 2 /\ s[1] = x /\ s[2] = y
      BY <3>1, ConcatProperties
    <3>3. t \in Seq(Nat) /\ Len(t) = 2 /\ t[1] = x /\ t[2] = y
      OBVIOUS
    <3> HIDE DEF s, t
    <3>4. Len(s) = Len(t) /\ \A i \in 1..Len(s) : s[i] = t[i]
      BY <3>2, <3>3
    <3>5. s = t
      BY <3>2, <3>3, <3>4, SeqEqual, Zenon
    <3> QED BY <3>5 DEF s, t
  <2> QED BY <2>1, <2>2, ConcatEmptySeq
<1>3. ASSUME NEW y \in Nat, NEW z \in Nat PROVE <<x, y>> \o <<z>> = <<x, y, z>>
  <2> DEFINE s == <<x, y>> \o <<z>>
             t == <<x, y, z>>
  <2>1. <<x, y>> \in Seq(Nat) /\ <<z>> \in Seq(Nat) /\ Len(<<x, y>>) = 2 /\ Len(<<z>>) = 1
    OBVIOUS
  <2>2. s \in Seq(Nat) /\ Len(s) = 3 /\ s[1] = x /\ s[2] = y /\ s[3] = z
    BY <2>1, ConcatProperties
  <2>3. t \in Seq(Nat) /\ Len(t) = 3 /\ t[1] = x /\ t[2] = y /\ t[3] = z
    OBVIOUS
  <2> HIDE DEF s, t
  <2>4. Len(s) = Len(t) /\ \A i \in 1..Len(s) : s[i] = t[i]
    BY <2>2, <2>3
  <2>5. s = t
    BY <2>2, <2>3, <2>4, SeqEqual, Zenon
  <2> QED BY <2>5 DEF s, t
<1> QED BY <1>1, <1>2, <1>3, Zenon

\* What is decoded from a chunk.
LEMMA ChunkDecoded ==
    ASSUME NEW text, NEW q \in Nat, NEW N, HasData(text, N), 4 * q + 2 <= N
    PROVE  BytesOf(text, q, N, DecodeChunkOf(text, 4 * q + 1, Examined(text, 4 * q + 1)))
<1> DEFINE chunk == DecodeChunkOf(text, 4 * q + 1, Examined(text, 4 * q + 1))
           v(i) == PosOfChar(text[i])
           x == ByteOf(text, q, 0)
           y == ByteOf(text, q, 1)
           z == ByteOf(text, q, 2)
<1>1. N \in Nat /\ \A i \in 1..N : v(i) \in Six
  BY DEF HasData
<1>2. /\ 4 * q + 1 + 1 = 4 * q + 2 /\ 4 * q + 1 + 2 = 4 * q + 3 /\ 4 * q + 1 + 3 = 4 * q + 4
      /\ 4 * q + 0 + 1 = 4 * q + 1 /\ 4 * q + 0 + 2 = 4 * q + 2 /\ 4 * q + 2 + 1 = 4 * q + 3
      /\ 4 * q + 2 + 2 = 4 * q + 4
  OBVIOUS
<1>3. /\ 4 * q + 3 \in Examined(text, 4 * q + 1) <=> 4 * q + 3 <= N
      /\ 4 * q + 4 \in Examined(text, 4 * q + 1) <=> 4 * q + 4 <= N
  BY PlacesExamined
<1>4. /\ x = v(4 * q + 1) * 4 + v(4 * q + 2) \div 16
      /\ y = (v(4 * q + 2) % 16) * 16 + v(4 * q + 3) \div 4
      /\ z = (v(4 * q + 3) % 4) * 64 + v(4 * q + 4)
  <2>1. \A s \in 0..2 : ByteOf(text, q, s) = Joined(s, v(4 * q + s + 1), v(4 * q + s + 2))
    BY Zenon DEF ByteOf
  <2> HIDE DEF v, x, y, z
  <2>2. x = Joined(0, v(4 * q + 1), v(4 * q + 2))
    BY <1>2, <2>1, SMT DEF x
  <2>3. y = Joined(1, v(4 * q + 2), v(4 * q + 3))
    BY <1>2, <2>1, SMT DEF y
  <2>4. z = Joined(2, v(4 * q + 3), v(4 * q + 4))
    BY <1>2, <2>1, SMT DEF z
  <2>5. x = v(4 * q + 1) * 4 + v(4 * q + 2) \div 16
    BY <2>2, SMT DEF Joined
  <2>6. y = (v(4 * q + 2) % 16) * 16 + v(4 * q + 3) \div 4
    BY <2>3, SMT DEF Joined
  <2>7. z = (v(4 * q + 3) % 4) * 64 + v(4 * q + 4)
    BY <2>4, SMT DEF Joined
  <2> QED BY <2>5, <2>6, <2>7
<1>5. chunk = <<x>> \o (IF 4 * q + 3 <= N THEN <<y>> ELSE <<>>) \o (IF 4 * q + 4 <= N THEN <<z>> ELSE <<>>)
  <2> HIDE DEF x, y, z
  <2>1. chunk = <<v(4 * q + 1) * 4 + v(4 * q + 1 + 1) \div 16>>
                   \o (IF 4 * q + 1 + 2 \in Examined(text, 4 * q + 1)
                       THEN <<(v(4 * q + 1 + 1) % 16) * 16 + v(4 * q + 1 + 2) \div 4>> ELSE <<>>)
                   \o (IF 4 * q + 1 + 3 \in Examined(text, 4 * q + 1)
                       THEN <<(v(4 * q + 1 + 2) % 4) * 64 + v(4 * q + 1 + 3)>> ELSE <<>>)
    BY Zenon DEF DecodeChunkOf
  <2> HIDE DEF chunk, v
  <2>2. chunk = <<x>> \o (IF 4 * q + 3 \in Examined(text, 4 * q + 1) THEN <<y>> ELSE <<>>)
                      \o (IF 4 * q + 4 \in Examined(text, 4 * q + 1) THEN <<z>> ELSE <<>>)
    BY <1>2, <1>4, <2>1, Zenon
  <2> QED BY <1>3, <2>2, Zenon
<1>6. x \in Nat /\ (4 * q + 3 <= N => y \in Nat) /\ (4 * q + 4 <= N => z \in Nat)
  <2>1. ASSUME NEW s \in 0..2, 4 * q + s + 2 <= N PROVE ByteOf(text, q, s) \in Nat
    <3>1. 4 * q + s + 1 \in 1..N /\ 4 * q + s + 2 \in 1..N
      BY <1>1, <2>1
    <3>2. v(4 * q + s + 1) \in Six /\ v(4 * q + s + 2) \in Six
      BY <1>1, <3>1, Zenon
    <3> QED BY <3>2, JoinedIsNat DEF ByteOf
  <2>2. x \in Nat
    BY <2>1
  <2>3. 4 * q + 3 <= N => y \in Nat
    BY <1>1, <2>1
  <2>4. 4 * q + 4 <= N => z \in Nat
    BY <1>1, <2>1
  <2> QED BY <2>2, <2>3, <2>4
<1> HIDE DEF chunk, v, x, y, z
<1> DEFINE Third == 4 * q + 3 <= N
           Fourth == 4 * q + 4 <= N
<1>7. Fourth => Third
  BY <1>1
<1> HIDE DEF Third, Fourth
<1> DEFINE Goal == BytesOf(text, q, N, chunk)
<1>8. ASSUME NEW n \in 1..3, chunk \in Seq(Nat), Len(chunk) = n, chunk[1] = x, n >= 2 => chunk[2] = y,
             n >= 3 => chunk[3] = z, n = IF Third THEN (IF Fourth THEN 3 ELSE 2) ELSE 1
      PROVE  Goal
  <2>1. \A s \in 0..2 : s + 1 <= Len(chunk) => chunk[s + 1] = ByteOf(text, q, s)
    <3> SUFFICES ASSUME NEW s \in 0..2, s + 1 <= n PROVE chunk[s + 1] = ByteOf(text, q, s)
      BY <1>8
    <3>1. CASE s = 0
      BY <1>8, <3>1 DEF x
    <3>2. CASE s = 1
      BY <1>8, <3>2 DEF y
    <3>3. CASE s = 2
      BY <1>8, <3>3 DEF z
    <3> QED BY <3>1, <3>2, <3>3
  <2> QED BY <1>8, <2>1, Zenon DEF BytesOf, Third, Fourth, Goal
<1> HIDE DEF Goal
<1>9. ASSUME ~Third PROVE Goal
  <2>1. chunk = <<x>> \o <<>> \o <<>>
    BY <1>5, <1>7, <1>9, Zenon DEF Third, Fourth
  <2>2. chunk = <<x>> /\ <<x>> \in Seq(Nat)
    BY <1>6, <2>1, JoinedUp
  <2>3. chunk \in Seq(Nat) /\ Len(chunk) = 1 /\ chunk[1] = x
    BY <2>2
  <2> QED BY <1>8, <1>9, <2>3
<1>10. ASSUME Third, ~Fourth PROVE Goal
  <2>1. chunk = <<x>> \o <<y>> \o <<>>
    BY <1>5, <1>10, Zenon DEF Third, Fourth
  <2>2. chunk = <<x, y>> /\ <<x, y>> \in Seq(Nat)
    BY <1>6, <1>10, <2>1, JoinedUp DEF Third
  <2>3. chunk \in Seq(Nat) /\ Len(chunk) = 2 /\ chunk[1] = x /\ chunk[2] = y
    BY <2>2
  <2> QED BY <1>8, <1>10, <2>3
<1>11. ASSUME Third, Fourth PROVE Goal
  <2>1. chunk = <<x>> \o <<y>> \o <<z>>
    BY <1>5, <1>11, Zenon DEF Third, Fourth
  <2>2. chunk = <<x, y, z>> /\ <<x, y, z>> \in Seq(Nat)
    BY <1>6, <1>11, <2>1, JoinedUp DEF Third, Fourth
  <2>3. chunk \in Seq(Nat) /\ Len(chunk) = 3 /\ chunk[1] = x /\ chunk[2] = y /\ chunk[3] = z
    BY <2>2
  <2> QED BY <1>8, <1>11, <2>3
<1>12. Goal
  BY <1>7, <1>9, <1>10, <1>11
<1> QED BY <1>12 DEF Goal, chunk

\* The data of a Base64 text.
LEMMA DataOf ==
    ASSUME NEW text \in Seq(Int), IsBase64(text), text # <<>>
    PROVE  /\ HasData(text, Len(Unpadded(text))) /\ Len(Unpadded(text)) % 4 # 1 /\ Len(Unpadded(text)) >= 2
           /\ Len(Unpadded(text)) <= Len(text) /\ Chunks(text) = (Len(Unpadded(text)) + 3) \div 4
<1> DEFINE N == Len(Unpadded(text))
           L == Len(text)
<1>1. /\ N \in 0..L /\ (\A i \in 1..N : ~IsPad(text[i])) /\ L \in Nat /\ L # 0
  <2>1. L \in Nat /\ L # 0
    BY LenProperties, EmptySeq
  <2> QED BY <2>1, UnpaddedOf
<1>2. /\ \A i \in 1..L : IF i <= N THEN PosOfChar(text[i]) # NotBase64 ELSE IsPad(text[i])
      /\ N % 4 # 1 /\ L \in {N, 4 * ((N + 3) \div 4)}
  BY DEF IsBase64
<1>3. \A i \in Nat \ {0} : IsData(text, i) <=> i <= L /\ ~IsPad(text[i])
  BY DEF IsData
<1>4. Chunks(text) = (L + 3) \div 4
  BY DEF Chunks
<1>5. \A i \in 1..L : text[i] \in Int
  BY ElementOfSeq
<1> HIDE DEF N, L
<1>6. N >= 2 /\ N <= L /\ (L + 3) \div 4 = (N + 3) \div 4
  <2>1. N # 0 /\ N # 1
    BY <1>1, <1>2, SMT
  <2>2. (L + 3) \div 4 = (N + 3) \div 4
    BY <1>1, <1>2, SMT
  <2> QED BY <1>1, <2>1, <2>2
<1>7. \A i \in 1..N : PosOfChar(text[i]) \in Six
  <2> SUFFICES ASSUME NEW i \in 1..N PROVE PosOfChar(text[i]) \in Six
    OBVIOUS
  <2>1. i \in 1..L /\ i <= N
    BY <1>1
  <2> QED BY <1>2, <1>5, <2>1, ValueIsSix
<1>8. \A i \in Nat \ {0} : IsData(text, i) <=> i <= N
  <2> SUFFICES ASSUME NEW i \in Nat \ {0} PROVE IsData(text, i) <=> i <= N
    OBVIOUS
  <2>1. CASE i <= N
    <3>1. i \in 1..N /\ i <= L
      BY <1>1, <2>1
    <3> QED BY <1>1, <1>3, <2>1, <3>1
  <2>2. CASE ~(i <= N)
    <3>1. i <= L => i \in 1..L
      BY <1>1
    <3> QED BY <1>2, <1>3, <2>2, <3>1
  <2> QED BY <2>1, <2>2
<1> QED BY <1>1, <1>2, <1>4, <1>6, <1>7, <1>8 DEF HasData, N, L

\* Its bytes: byte s of chunk q, for the bytes whose six-bit groups are both there.
LEMMA TextBytesDecoded ==
    ASSUME NEW text \in Seq(Int), NEW N, HasData(text, N), N % 4 # 1, N >= 2, Chunks(text) = (N + 3) \div 4
    PROVE  /\ Base64Decode(text) \in Seq(Nat) /\ Len(Base64Decode(text)) = (3 * N) \div 4
           /\ \A q \in Nat, s \in 0..2 : 3 * q + s + 1 <= (3 * N) \div 4 =>
                  Base64Decode(text)[3 * q + s + 1] = ByteOf(text, q, s)
<1> DEFINE K == (N + 3) \div 4
           M == (3 * N) \div 4
           chunk(k) == DecodeChunkOf(text, 4 * k - 3, Examined(text, 4 * k - 3))
           seqs == [k \in 1..K |-> chunk(k)]
           T == [k \in 0..K |-> IF k < K THEN 3 * k ELSE M]
           bytes == Base64Decode(text)
<1>1. N \in Nat
  BY DEF HasData
<1>2. /\ K \in Nat /\ K >= 1 /\ M \in Nat /\ 4 * (K - 1) + 2 <= N /\ N <= 4 * K
      /\ M = 3 * (K - 1) + (IF 4 * (K - 1) + 3 <= N THEN (IF 4 * (K - 1) + 4 <= N THEN 3 ELSE 2) ELSE 1)
  <2>1. K \in Nat /\ K >= 1 /\ M \in Nat
    BY <1>1, SMT
  <2>2. 4 * (K - 1) + 2 <= N /\ N <= 4 * K
    BY <1>1, SMT
  <2> DEFINE e == N - 4 * (K - 1)
             P == K - 1
  <2>3. e \in 2..4 /\ N = 4 * P + e /\ P \in Nat /\ M = (3 * N) \div 4
    BY <1>1, <2>1, <2>2
  <2> HIDE DEF e, P, M
  <2>4. M = 3 * P + (IF 4 * P + 3 <= N THEN (IF 4 * P + 4 <= N THEN 3 ELSE 2) ELSE 1)
    <3>1. e = 2 \/ e = 3 \/ e = 4
      BY <2>3
    <3> QED BY <2>3, <3>1, SMT
  <2> QED BY <2>1, <2>2, <2>4 DEF P
<1>3. ASSUME NEW k \in 1..K PROVE BytesOf(text, k - 1, N, chunk(k))
  <2>1. k - 1 \in Nat /\ 4 * (k - 1) + 2 <= N /\ 4 * (k - 1) + 1 = 4 * k - 3
    BY <1>1, <1>2
  <2>2. BytesOf(text, k - 1, N, DecodeChunkOf(text, 4 * (k - 1) + 1, Examined(text, 4 * (k - 1) + 1)))
    BY <2>1, ChunkDecoded
  <2> QED BY <2>1, <2>2
<1>4. bytes = FlattenSeq(seqs)
  BY Zenon DEF Base64Decode
<1> HIDE DEF chunk, K, M, bytes
<1>5. /\ seqs \in Seq(Seq(Nat)) /\ Len(seqs) = K
      /\ \A k \in 1..K : seqs[k] = chunk(k)
  <2>1. \A k \in 1..K : chunk(k) \in Seq(Nat)
    BY <1>3, Zenon DEF BytesOf
  <2> QED BY <1>2, <2>1
<1>6. \A k \in 1..K : Len(seqs[k]) = IF k < K THEN 3 ELSE M - 3 * (K - 1)
  <2> SUFFICES ASSUME NEW k \in 1..K PROVE Len(seqs[k]) = IF k < K THEN 3 ELSE M - 3 * (K - 1)
    OBVIOUS
  <2>1. Len(chunk(k)) = IF 4 * (k - 1) + 3 <= N THEN (IF 4 * (k - 1) + 4 <= N THEN 3 ELSE 2) ELSE 1
    BY <1>3, Zenon DEF BytesOf
  <2>2. seqs[k] = chunk(k)
    BY <1>5
  <2>3. CASE k < K
    <3>1. 4 * (k - 1) + 3 <= N /\ 4 * (k - 1) + 4 <= N
      BY <1>1, <1>2, <2>3
    <3> QED BY <2>1, <2>2, <2>3, <3>1
  <2>4. CASE ~(k < K)
    <3>1. k = K
      BY <1>2, <2>4
    <3> QED BY <1>1, <1>2, <2>1, <2>2, <3>1
  <2> QED BY <2>3, <2>4
<1>7. \A k \in 0..K : T[k] = IF k < K THEN 3 * k ELSE M
  BY <1>2
<1>8. T \in [0..K -> Nat]
  BY <1>2
<1> HIDE DEF T, seqs
<1>9. 3 * (K - 1) <= M
  BY <1>1, <1>2
<1>10. EndsOf(seqs, T)
  <2>1. T[0] = 0
    BY <1>2, <1>7
  <2>2. \A k \in 1..K : T[k] = T[k - 1] + Len(seqs[k])
    <3> SUFFICES ASSUME NEW k \in 1..K PROVE T[k] = T[k - 1] + Len(seqs[k])
      OBVIOUS
    <3>1. k \in 0..K /\ k - 1 \in 0..K /\ k - 1 < K
      BY <1>2
    <3>2. T[k - 1] = 3 * (k - 1) /\ T[k] = IF k < K THEN 3 * k ELSE M
      BY <1>7, <3>1
    <3>3. Len(seqs[k]) = IF k < K THEN 3 ELSE M - 3 * (K - 1)
      BY <1>6
    <3>4. CASE k < K
      BY <3>1, <3>2, <3>3, <3>4
    <3>5. CASE ~(k < K)
      <4>1. k = K
        BY <1>2, <3>5
      <4> QED BY <1>2, <3>2, <3>3, <4>1
    <3> QED BY <3>4, <3>5
  <2>3. \A i, j \in 0..K : i <= j => T[i] <= T[j]
    BY <1>2, <1>7, <1>9
  <2> QED BY <1>5, <1>8, <2>1, <2>2, <2>3 DEF EndsOf
<1>11. IsFlat(seqs, T, Nat, bytes)
  <2>1. Len(seqs) # 0
    BY <1>2, <1>5
  <2> QED BY <1>4, <1>5, <1>10, <2>1, FlatIs
<1>12. /\ bytes \in Seq(Nat) /\ Len(bytes) = M
       /\ \A k \in 1..K : \A j \in 1..Len(seqs[k]) : bytes[T[k - 1] + j] = seqs[k][j]
  <2>1. T[K] = M
    BY <1>2, <1>7
  <2> QED BY <1>5, <1>11, <2>1 DEF IsFlat
<1>13. ASSUME NEW q \in Nat, NEW s \in 0..2, 3 * q + s + 1 <= M
       PROVE  bytes[3 * q + s + 1] = ByteOf(text, q, s)
  <2> DEFINE m == q + 1
             i == s + 1
  <2>1. m \in 1..K /\ m - 1 = q /\ i \in 1..3
    BY <1>1, <1>2, <1>13
  <2>2. BytesOf(text, q, N, seqs[m])
    <3> HIDE DEF m
    <3>1. BytesOf(text, m - 1, N, seqs[m])
      BY <1>3, <1>5, <2>1
    <3> QED BY <2>1, <3>1
  <2>3. i <= Len(seqs[m])
    <3>1. Len(seqs[m]) = IF m < K THEN 3 ELSE M - 3 * (K - 1)
      BY <1>6, <2>1
    <3> QED BY <1>1, <1>2, <1>13, <2>1, <3>1
  <2>4. seqs[m][i] = ByteOf(text, q, s)
    BY <2>2, <2>3, Zenon DEF BytesOf
  <2>5. T[q] + i = 3 * q + s + 1
    <3>1. T[q] = 3 * q
      BY <1>2, <1>7, <2>1
    <3> QED BY <3>1
  <2>6. Len(seqs[m]) \in Nat /\ i \in 1..Len(seqs[m])
    <3>1. seqs[m] \in Seq(Nat)
      BY <2>2, Zenon DEF BytesOf
    <3> HIDE DEF m
    <3>2. Len(seqs[m]) \in Nat
      BY <3>1, LenProperties
    <3> QED BY <2>1, <2>3, <3>2
  <2> HIDE DEF m, i
  <2>7. bytes[T[q] + i] = seqs[m][i]
    <3>1. bytes[T[m - 1] + i] = seqs[m][i]
      BY <1>12, <2>1, <2>6, Zenon
    <3> QED BY <2>1, <3>1, Zenon
  <2> QED BY <2>4, <2>5, <2>7, Zenon
<1> QED BY <1>12, <1>13 DEF bytes, M

\* A Base64 text never makes the decoder fail, and what it is decoded to are the bytes
\* that it carries: for every text, of any length, padded or not.
THEOREM TextDecoded ==
    ASSUME NEW text \in Seq(Int), IsBase64(text), text # <<>>
    PROVE  /\ ~DecodeFails(text) /\ Carries(Values(text), Base64Decode(text))
           /\ Base64Decode(text) \in Seq(Nat)
<1> DEFINE N == Len(Unpadded(text))
           M == (3 * N) \div 4
           bytes == Base64Decode(text)
           chars == Values(text)
<1>1. HasData(text, N) /\ N % 4 # 1 /\ N >= 2 /\ N <= Len(text) /\ Chunks(text) = (N + 3) \div 4
  BY DataOf
<1>2. N \in Nat /\ \A i \in 1..N : PosOfChar(text[i]) \in Six
  BY <1>1 DEF HasData
<1>3. chars \in Seq(Six) /\ Len(chars) = N /\ \A i \in 1..N : chars[i] = PosOfChar(text[i])
  BY <1>2, ValuesOf
<1> HIDE DEF N, M, bytes, chars
<1>4. Len(text) \in Nat
  BY LenProperties
<1>5. ~DecodeFails(text)
  <2> SUFFICES ASSUME NEW k \in 1..Chunks(text), NEW i \in Examined(text, 4 * k - 3)
               PROVE  ~(i > Len(text)) /\ PosOfChar(text[i]) # NotBase64
    BY Zenon DEF DecodeFails
  <2>1. k - 1 \in Nat /\ 4 * (k - 1) + 2 <= N /\ 4 * (k - 1) + 1 = 4 * k - 3
    BY <1>1, <1>2, SMT
  <2>2. i \in 1..N
    <3>1. Examined(text, 4 * (k - 1) + 1) \subseteq 1..N
      BY <1>1, <2>1, PlacesExamined
    <3> QED BY <2>1, <3>1
  <2>3. PosOfChar(text[i]) \in Six
    BY <1>2, <2>2
  <2>4. PosOfChar(text[i]) # NotBase64
    <3>1. \A v \in Six : v # NotBase64
      BY DEF Six, NotBase64
    <3> QED BY <2>3, <3>1
  <2>5. ~(i > Len(text))
    BY <1>1, <1>2, <1>4, <2>2
  <2> QED BY <2>4, <2>5
<1>6. /\ bytes \in Seq(Nat) /\ Len(bytes) = M
      /\ \A q \in Nat, s \in 0..2 : 3 * q + s + 1 <= M => bytes[3 * q + s + 1] = ByteOf(text, q, s)
  BY <1>1, TextBytesDecoded DEF bytes, M
<1>7. N = (8 * M + 5) \div 6
  <2> DEFINE P == N \div 4
             e == N % 4
  <2>1. N = 4 * P + e /\ P \in Nat /\ e \in {0, 2, 3}
    BY <1>1, <1>2, SMT
  <2> HIDE DEF P, e
  <2>2. CASE e = 0
    <3>1. M = 3 * P
      BY <2>1, <2>2, SMT DEF M
    <3> QED BY <2>1, <2>2, <3>1, SMT
  <2>3. CASE e = 2
    <3>1. M = 3 * P + 1
      BY <2>1, <2>3, SMT DEF M
    <3> QED BY <2>1, <2>3, <3>1, SMT
  <2>4. CASE e = 3
    <3>1. M = 3 * P + 2
      BY <2>1, <2>4, SMT DEF M
    <3> QED BY <2>1, <2>4, <3>1, SMT
  <2> QED BY <2>1, <2>2, <2>3, <2>4
<1>8. ASSUME NEW k \in Nat, NEW s \in 0..2, 3 * k + s + 1 <= Len(bytes)
      PROVE  bytes[3 * k + s + 1] = Joined(s, chars[4 * k + s + 1], chars[4 * k + s + 2])
  <2>1. 4 * k + s + 1 \in 1..N /\ 4 * k + s + 2 \in 1..N
    <3>1. s = 0 \/ s = 1 \/ s = 2
      OBVIOUS
    <3>2. M \in Nat
      BY <1>2, SMT DEF M
    <3>3. 4 * k + s + 2 <= N
      BY <1>6, <1>7, <1>8, <3>1, <3>2, SMT
    <3> QED BY <1>2, <3>3
  <2>2. bytes[3 * k + s + 1] = ByteOf(text, k, s)
    BY <1>6, <1>8
  <2>3. /\ chars[4 * k + s + 1] = PosOfChar(text[4 * k + s + 1])
        /\ chars[4 * k + s + 2] = PosOfChar(text[4 * k + s + 2])
    BY <1>3, <2>1
  <2> QED BY <2>2, <2>3, Zenon DEF ByteOf
<1>9. Carries(chars, bytes)
  BY <1>3, <1>6, <1>7, <1>8, CarriesJoined
<1> QED BY <1>5, <1>6, <1>9 DEF bytes, chars
=============================================================================
