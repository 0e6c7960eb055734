--------------------------- MODULE StreamProtocol ---------------------------
(***************************************************************************)
(* The checks of stream_protocol.cpp on the arguments of API commands, and *)
(* what they are meant to accept.                                          *)
(*                                                                         *)
(* A URI is a scheme and the characters after it; a letter stands for all  *)
(* letters that the check treats alike.  A text is a sequence of bytes.    *)
(***************************************************************************)
EXTENDS Naturals, Sequences, FiniteSetsExt

Digit == [d \in {"0", "1", "3", "5", "6"} |-> CASE d = "0" -> 0 [] d = "1" -> 1 [] d = "3" -> 3 [] d = "5" -> 5
                                                [] d = "6" -> 6]
Digits == DOMAIN Digit
HexDigits == Digits \cup {"a"}
Alphanumerics == HexDigits \cup {"x"}

\* std::strlen of the scheme.
SchemeLength(scheme) == CASE scheme = "ws://" -> 5 [] scheme = "wss://" -> 6 [] OTHER -> 7

-----------------------------------------------------------------------------
(* validate_ws_uri.  A loop that reads up to some character ends at the first of them.*)

EndOf(s, from, stops) == Min({i \in from..(Len(s) + 1) : i = Len(s) + 1 \/ s[i] \in stops})

All(s, from, end, allowed) == \A i \in from..(end - 1) : s[i] \in allowed

\* Where the host ends, 0 if there is none.
HostEnd(s) ==
    IF s # <<>> /\ s[1] = "["
    THEN LET end == EndOf(s, 2, {"]"})
         IN  IF end > 2 /\ end <= Len(s) /\ All(s, 2, end, HexDigits \cup {":", "."}) THEN end + 1 ELSE 0
    ELSE LET end == EndOf(s, 1, {":", "/", "?"})
         IN  IF end > 1 /\ All(s, 1, end, Alphanumerics \cup {"-", "."}) THEN end ELSE 0

MaxPort == 65535

\* The number of digits; it stops growing beyond MaxPort, so a long holds it.
Port(digits) ==
    LET port[i \in 0..Len(digits)] ==
            IF i = 0 THEN 0
            ELSE IF port[i - 1] > MaxPort THEN port[i - 1]
            ELSE port[i - 1] * 10 + Digit[digits[i]]
    IN  port[Len(digits)]

\* Where host and port end, 0 if the port is none.  A faulty variant takes port 0.
AuthorityEndWithPort(s, host_end, lowest) ==
    IF host_end = 0 \/ host_end > Len(s) \/ s[host_end] # ":" THEN host_end
    ELSE LET end == EndOf(s, host_end + 1, {"/", "?"})
         IN  IF /\ end > host_end + 1
                /\ All(s, host_end + 1, end, Digits)
                /\ Port(SubSeq(s, host_end + 1, end - 1)) \in lowest..MaxPort
             THEN end ELSE 0
AuthorityEndAnyPort(s) == AuthorityEndWithPort(s, HostEnd(s), 0)
AuthorityEnd(s) == AuthorityEndWithPort(s, HostEnd(s), 1)

ValidateWsUri(uri, destination_size) ==
    LET end == AuthorityEnd(uri.rest) IN
    /\ uri.scheme \in {"ws://", "wss://"}
    /\ end # 0 /\ (end <= Len(uri.rest) => uri.rest[end] \in {"/", "?"})
    /\ SchemeLength(uri.scheme) + Len(uri.rest) < destination_size

\* ws[s]://host[:port][/path][?query] with a name or a bracketed address for host, a
\* port of 1 to MaxPort, and room for the terminator.
IsHost(s) ==
    \/ s # <<>> /\ All(s, 1, Len(s) + 1, Alphanumerics \cup {"-", "."})
    \/ Len(s) > 2 /\ s[1] = "[" /\ s[Len(s)] = "]" /\ All(s, 2, Len(s), HexDigits \cup {":", "."})
IsPort(s) == s # <<>> /\ All(s, 1, Len(s) + 1, Digits) /\ Port(s) \in 1..MaxPort
IsTail(s) == s = <<>> \/ s[1] \in {"/", "?"}

IsWsUri(uri, size) ==
    /\ uri.scheme \in {"ws://", "wss://"}
    /\ SchemeLength(uri.scheme) + Len(uri.rest) + 1 <= size
    /\ \E i \in 1..Len(uri.rest) : \E j \in i..Len(uri.rest) :
           /\ IsHost(SubSeq(uri.rest, 1, i)) /\ IsTail(SubSeq(uri.rest, j + 1, Len(uri.rest)))
           /\ (j = i \/ (uri.rest[i + 1] = ":" /\ IsPort(SubSeq(uri.rest, i + 2, j))))

-----------------------------------------------------------------------------
(* is_valid_utf8, on a text and the bytes of memory behind it. *)

Continuation == 128..191

\* The bytes of one character that begins at i, 0 if there is none.  A faulty variant
\* takes overlong characters of three bytes.
CharacterLengthFrom(memory, i, second_of_E0) ==
    LET lead == memory[i] IN
    CASE lead <= 127 -> 1
      [] lead \in 194..223 -> IF memory[i + 1] \in Continuation THEN 2 ELSE 0
      [] lead \in 224..239 ->
             IF /\ memory[i + 1] \in Continuation /\ memory[i + 2] \in Continuation
                /\ (lead = 224 => memory[i + 1] >= second_of_E0) /\ (lead = 237 => memory[i + 1] <= 159)
             THEN 3 ELSE 0
      [] lead \in 240..244 ->
             IF /\ memory[i + 1] \in Continuation /\ memory[i + 2] \in Continuation
                /\ memory[i + 3] \in Continuation
                /\ (lead = 240 => memory[i + 1] >= 144) /\ (lead = 244 => memory[i + 1] <= 143)
             THEN 4 ELSE 0
      [] OTHER -> 0
CharacterLengthOverlong(memory, i) == CharacterLengthFrom(memory, i, 128)
CharacterLength(memory, i) == CharacterLengthFrom(memory, i, 160)

IsValidUtf8(memory) ==
    LET valid[i \in 1..Len(memory)] ==
            memory[i] # 0 => CharacterLength(memory, i) # 0 /\ valid[i + CharacterLength(memory, i)]
    IN  valid[1]

\* What UTF-8 is: the encodings of the scalar values, one after the other.
Encoding(scalar) ==
    CASE scalar < 128   -> <<scalar>>
      [] 128 <= scalar /\ scalar < 2048 -> <<192 + scalar \div 64, 128 + (scalar % 64)>>
      [] 2048 <= scalar /\ scalar < 65536 ->
             <<224 + scalar \div 4096, 128 + ((scalar \div 64) % 64), 128 + (scalar % 64)>>
      [] OTHER -> <<240 + scalar \div 262144, 128 + ((scalar \div 4096) % 64), 128 + ((scalar \div 64) % 64),
                    128 + (scalar % 64)>>

IsSurrogate(n) == 55296 <= n /\ n < 57344
IsScalar(n) == n \in Nat \ {0} /\ n <= 1114111 /\ ~IsSurrogate(n)

\* The number in the low bits of bytes.
Number(bytes) ==
    CASE Len(bytes) = 1 -> bytes[1]
      [] Len(bytes) = 2 -> (bytes[1] % 32) * 64 + (bytes[2] % 64)
      [] Len(bytes) = 3 -> (bytes[1] % 16) * 4096 + (bytes[2] % 64) * 64 + (bytes[3] % 64)
      [] OTHER -> (bytes[1] % 8) * 262144 + (bytes[2] % 64) * 4096 + (bytes[3] % 64) * 64
                   + (bytes[4] % 64)

IsUtf8(text) ==
    LET from[i \in 1..(Len(text) + 1)] ==
            \/ i > Len(text)
            \/ \E n \in 1..4 :
                   /\ i + n <= Len(text) + 1 /\ from[i + n]
                   /\ LET bytes == SubSeq(text, i, i + n - 1)
                      IN  IsScalar(Number(bytes)) /\ Encoding(Number(bytes)) = bytes
    IN  from[1]
=============================================================================
