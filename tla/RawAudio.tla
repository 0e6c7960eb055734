------------------------------ MODULE RawAudio ------------------------------
(***************************************************************************)
(* How received audio becomes samples of 16 bits, on the WebSocket thread: *)
(* a message may end in the middle of a sample, and convertRawAudio keeps  *)
(* that byte for the next message of the connection.                       *)
(*                                                                         *)
(* A byte is its connection and its place in what the peer sent on it.     *)
(* Messages without audio of their own (a delta that cannot be decoded or  *)
(* finds no session, a binary frame outside raw mode) change nothing here. *)
(***************************************************************************)
EXTENDS Integers, Sequences

CONSTANTS
    RawAudioMode,   \* m_raw_audio_mode
    Sizes,          \* bytes of audio in a message
    MaxFrame,       \* MAX_WS_MESSAGE_BYTES: the largest binary frame
    MaxDelta,       \* the audio of the largest delta whose text is within that limit
    MaxBytes,       \* bound: bytes sent on a connection
    MaxConns        \* bound: connections in a behaviour

ASSUME RawAudioAssumption ==
    /\ RawAudioMode \in BOOLEAN
    /\ Sizes \subseteq Nat
    /\ MaxFrame \in Nat /\ MaxDelta \in 0..MaxFrame
    /\ MaxBytes \in Nat /\ MaxConns \in Nat

VARIABLES
    m_has_pending_raw_byte,
    m_pending_raw_byte,
    open,           \* the connection is up
    conn,           \* number of the current or last connection
    sent,           \* history: bytes the peer sent on it
    accepted,       \* history: the bytes convertRawAudio was given on it
    decoded         \* history: the samples convertRawAudio made on it

carryVars == <<m_has_pending_raw_byte, m_pending_raw_byte>>
vars == <<carryVars, open, conn, sent, accepted, decoded>>

Byte == [conn : Nat, at : Nat]

\* The n bytes that arrive now.
Arriving(n) == [i \in 1..n |-> [conn |-> conn, at |-> sent + i]]

Init ==
    /\ m_has_pending_raw_byte = FALSE
    /\ m_pending_raw_byte = [conn |-> 0, at |-> 0]
    /\ open = FALSE /\ conn = 0 /\ sent = 0
    /\ accepted = <<>> /\ decoded = <<>>

-----------------------------------------------------------------------------
\* The whole samples in data.
Pairs(data) == [i \in 1..Len(data) \div 2 |-> <<data[2 * i - 1], data[2 * i]>>]

\* The carried byte and the new ones; a faulty variant puts the byte last.
StitchedAfter(frame) ==
    IF m_has_pending_raw_byte THEN frame \o <<m_pending_raw_byte>> ELSE frame
Stitched(frame) ==
    IF m_has_pending_raw_byte THEN <<m_pending_raw_byte>> \o frame ELSE frame

\* convertRawAudio up to its resampler.  A resampler that is missing or fails drops
\* the samples, and does not touch the carried byte.
ConvertRawAudio(frame) ==
    LET data == Stitched(frame) IN
    /\ decoded' = decoded \o Pairs(data)
    /\ IF Len(data) % 2 = 0
       THEN /\ m_has_pending_raw_byte' = FALSE
            /\ UNCHANGED m_pending_raw_byte
       ELSE /\ m_has_pending_raw_byte' = TRUE
            /\ m_pending_raw_byte' = data[Len(data)]

\* A message with n bytes of audio comes in.
Receive(n) == open /\ sent + n <= MaxBytes /\ sent' = sent + n

Accept(n) ==
    /\ Receive(n)
    /\ accepted' = accepted \o Arriving(n)
    /\ ConvertRawAudio(Arriving(n))
    /\ UNCHANGED <<open, conn>>

BinaryFrame(n) == RawAudioMode /\ n <= MaxFrame /\ Accept(n)

\* The base64 of a delta is decoded to n bytes, and converted like a frame; an
\* empty delta is not converted.
AudioDelta(n) == n > 0 /\ n <= MaxDelta /\ Accept(n)

\* A delta or frame beyond MAX_WS_MESSAGE_BYTES is dropped before it is looked at.
Oversized(n) ==
    /\ n > MaxDelta
    /\ Receive(n)
    /\ UNCHANGED <<carryVars, open, conn, accepted, decoded>>

\* A faulty variant of Open leaves the carried byte.
OpenKeepsCarry ==
    /\ ~open /\ conn < MaxConns
    /\ open' = TRUE /\ conn' = conn + 1 /\ sent' = 0
    /\ accepted' = <<>> /\ decoded' = <<>>
    /\ UNCHANGED carryVars

Open ==
    /\ ~open /\ conn < MaxConns
    /\ m_has_pending_raw_byte' = FALSE
    /\ open' = TRUE /\ conn' = conn + 1 /\ sent' = 0
    /\ accepted' = <<>> /\ decoded' = <<>>
    /\ UNCHANGED m_pending_raw_byte

Close ==
    /\ open
    /\ open' = FALSE
    /\ UNCHANGED <<carryVars, conn, sent, accepted, decoded>>

Next ==
    \/ Open \/ Close
    \/ \E n \in Sizes : BinaryFrame(n) \/ AudioDelta(n) \/ Oversized(n)

Spec == Init /\ [][Next]_vars

-----------------------------------------------------------------------------
\* A carried byte is one of this connection.
TypeOK ==
    /\ m_has_pending_raw_byte \in BOOLEAN
    /\ m_pending_raw_byte \in Byte
    /\ m_has_pending_raw_byte => m_pending_raw_byte.conn = conn
    /\ open \in BOOLEAN /\ conn \in 0..MaxConns /\ sent \in 0..MaxBytes
    /\ accepted \in Seq([conn : {conn}, at : 1..sent])
    /\ decoded \in Seq(Byte \X Byte)

\* Decoding does not depend on how the stream is cut into messages: the samples
\* are those of the accepted bytes of this connection in one piece, no byte lost,
\* used twice or left from an earlier connection; at most the last one is waiting.
StreamDecoded ==
    /\ Len(decoded) = Len(accepted) \div 2
    /\ \A i \in 1..Len(decoded) : decoded[i] = <<accepted[2 * i - 1], accepted[2 * i]>>
=============================================================================
