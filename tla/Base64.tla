------------------------------- MODULE Base64 -------------------------------
(***************************************************************************)
(* base64_encode and base64_decode, on bytes and ASCII codes, and what     *)
(* Base64 is.                                                              *)
(***************************************************************************)
EXTENDS Integers, Sequences, SequencesExt

\* base64_chars: 0..63 to ASCII, and the trailing character.
Base64Chars(url) ==
    [n \in 0..63 |-> CASE n < 26 -> 65 + n
                       [] n \in 26..51 -> 97 + n - 26
                       [] n \in 52..61 -> 48 + n - 52
                       [] n = 62 -> IF url THEN 45 ELSE 43
                       [] n = 63 -> IF url THEN 95 ELSE 47]
TrailingChar(url) == IF url THEN 46 ELSE 61

NotBase64 == -1

PosOfChar(chr) ==
    CASE chr \in 65..90 -> chr - 65
      [] chr \in 97..122 -> chr - 97 + 26
      [] chr \in 48..57 -> chr - 48 + 52
      [] chr \in {43, 45} -> 62
      [] chr \in {47, 95} -> 63
      [] OTHER -> NotBase64

-----------------------------------------------------------------------------
\* The characters of the bytes at pos to pos + 2, of those up to last.
EncodeUpTo(bytes, pos, url, last) ==
    LET chars == Base64Chars(url)
        byte(i) == IF i <= last THEN bytes[i] ELSE 0
    IN  <<chars[byte(pos) \div 4],
          chars[(byte(pos) % 4) * 16 + (byte(pos + 1) \div 16)],
          IF pos + 1 <= last THEN chars[(byte(pos + 1) % 16) * 4 + (byte(pos + 2) \div 64)] ELSE TrailingChar(url),
          IF pos + 2 <= last THEN chars[byte(pos + 2) % 64] ELSE TrailingChar(url)>>

\* A faulty variant of the next operator: off by one at the end.
EncodeChunkShort(bytes, pos, url) == EncodeUpTo(bytes, pos, url, Len(bytes) - 1)
EncodeChunk(bytes, pos, url) == EncodeUpTo(bytes, pos, url, Len(bytes))

Base64Encode(bytes, url) ==
    FlattenSeq([k \in 1..(Len(bytes) + 2) \div 3 |-> EncodeChunk(bytes, 3 * k - 2, url)])

-----------------------------------------------------------------------------
IsPad(chr) == chr \in {46, 61}
IsData(text, i) == i <= Len(text) /\ ~IsPad(text[i])

\* The places of the chunk at pos whose character is looked up; at() fails on a second
\* one that is not there.
Examined(text, pos) ==
    {pos, pos + 1} \cup (IF IsData(text, pos + 2)
                         THEN {pos + 2} \cup (IF IsData(text, pos + 3) THEN {pos + 3} ELSE {})
                         ELSE {})

\* The bytes of the chunk at pos, of which the characters at places are looked up.
DecodeChunkOf(text, pos, places) ==
    LET p(i) == PosOfChar(text[i]) IN
    <<p(pos) * 4 + p(pos + 1) \div 16>>
        \o (IF pos + 2 \in places THEN <<(p(pos + 1) % 16) * 16 + p(pos + 2) \div 4>> ELSE <<>>)
        \o (IF pos + 3 \in places THEN <<(p(pos + 2) % 4) * 64 + p(pos + 3)>> ELSE <<>>)

Chunks(text) == (Len(text) + 3) \div 4

\* std::exception is thrown for a character that is none of Base64 or is missing.
DecodeFails(text) ==
    \E k \in 1..Chunks(text) : \E i \in Examined(text, 4 * k - 3) :
        i > Len(text) \/ PosOfChar(text[i]) = NotBase64

\* A faulty variant of the next operator: only a full chunk makes more than one byte.
Base64DecodeFullChunks(text) ==
    FlattenSeq([k \in 1..Chunks(text) |->
        DecodeChunkOf(text, 4 * k - 3,
                      IF 4 * k > Len(text) THEN {4 * k - 3, 4 * k - 2} ELSE Examined(text, 4 * k - 3))])
Base64Decode(text) ==
    FlattenSeq([k \in 1..Chunks(text) |-> DecodeChunkOf(text, 4 * k - 3, Examined(text, 4 * k - 3))])

-----------------------------------------------------------------------------
(* What Base64 is: the same bits in groups of six instead of eight. *)

\* The bits of n in a group of width.
Weight == <<128, 64, 32, 16, 8, 4, 2, 1>>
Bit(n, width, i) == (n \div Weight[8 - width + i]) % 2
Bits(groups, width) ==
    [i \in 1..(width * Len(groups)) |-> Bit(groups[(i - 1) \div width + 1], width, ((i - 1) % width) + 1)]

\* chars carry bytes, in as many groups as it takes; more bits follow only in the last group.
Carries(chars, bytes) ==
    LET six == Bits(chars, 6)
        eight == Bits(bytes, 8)
    IN  /\ Len(chars) = (8 * Len(bytes) + 5) \div 6
        /\ \A i \in 1..Len(eight) : six[i] = eight[i]

\* The text of the RFC: padding, if any, fills up the last chunk.
Unpadded(text) == SubSeq(text, 1, Min({i \in 1..(Len(text) + 1) : ~IsData(text, i)}) - 1)
IsBase64(text) ==
    LET n == Len(Unpadded(text)) IN
    /\ \A i \in 1..Len(text) : IF i <= n THEN PosOfChar(text[i]) # NotBase64 ELSE IsPad(text[i])
    /\ n % 4 # 1 /\ Len(text) \in {n, 4 * ((n + 3) \div 4)}
Values(text) == [i \in 1..Len(Unpadded(text)) |-> PosOfChar(Unpadded(text)[i])]
=============================================================================
