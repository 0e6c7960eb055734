------------------------------ MODULE JsonText ------------------------------
(***************************************************************************)
(* Two readers of one text, a character at a time: json_depth_exceeded,    *)
(* which counts brackets, and the recursive parser that runs after it when *)
(* the count stays within the limit.  Only the characters that matter to   *)
(* either are told apart; the parser may give up at any of them.           *)
(***************************************************************************)
EXTENDS Naturals, Sequences

CONSTANT MaxDepth   \* MAX_JSON_DEPTH

ASSUME DepthAssumption == MaxDepth \in Nat

Opening == {"[", "{"}
Closing == {"]", "}"}
Chars == Opening \cup Closing \cup {"quote", "backslash", "other"}

\* Where a reader is with respect to string literals; skip: behind a backslash.
Outside == [in_string |-> FALSE, skip |-> FALSE]

-----------------------------------------------------------------------------
(* json_depth_exceeded *)

ScanStart == [literal |-> Outside, depth |-> 0]

Exceeded(scan) == scan.depth > MaxDepth

\* A faulty variant of the next operator: an escaped quote ends the string.
ScanLiteralUnescaped(literal, c) ==
    [in_string |-> IF c = "quote" THEN ~literal.in_string ELSE literal.in_string, skip |-> FALSE]

ScanLiteral(literal, c) ==
    [in_string |-> IF c = "quote" /\ ~literal.skip THEN ~literal.in_string ELSE literal.in_string,
     skip      |-> c = "backslash" /\ literal.in_string /\ ~literal.skip]

Scan(scan, c) ==
    [literal |-> ScanLiteral(scan.literal, c),
     depth   |-> IF scan.literal.in_string THEN scan.depth
                 ELSE IF c \in Opening THEN scan.depth + 1
                 ELSE IF c \in Closing /\ scan.depth > 0 THEN scan.depth - 1
                 ELSE scan.depth]

-----------------------------------------------------------------------------
(* cJSON_Parse: one recursive call for each bracket of stack. *)

ParseStart == [literal |-> Outside, stack |-> <<>>, result |-> "running"]

ParseLiteral(literal, c) ==
    [in_string |-> IF c = "quote" /\ ~literal.skip THEN ~literal.in_string ELSE literal.in_string,
     skip      |-> c = "backslash" /\ literal.in_string /\ ~literal.skip]

Top(stack) == stack[Len(stack)]
Pop(stack) == SubSeq(stack, 1, Len(stack) - 1)

\* A closing bracket must be that of the innermost call.
CanRead(parse, c) ==
    ~parse.literal.in_string /\ c \in Closing =>
        parse.stack # <<>> /\ <<Top(parse.stack), c>> \in {<<"[", "]">>, <<"{", "}">>}

ReadStack(parse, c) ==
    IF parse.literal.in_string THEN parse.stack
    ELSE IF c \in Opening THEN Append(parse.stack, c)
    ELSE IF c \in Closing THEN Pop(parse.stack)
    ELSE parse.stack

\* The end of the outermost array or object ends the parse.
Read(parse, c) ==
    [literal |-> ParseLiteral(parse.literal, c),
     stack   |-> ReadStack(parse, c),
     result  |-> IF parse.stack # <<>> /\ ReadStack(parse, c) = <<>> THEN "value" ELSE "running"]

\* What the parser may do with c: give up, or read on if c can continue a JSON text.
Parses(parse, c) ==
    IF parse.result # "running" THEN {parse}
    ELSE {[parse EXCEPT !.result = "error"]} \cup {p \in {Read(parse, c)} : CanRead(parse, c)}
=============================================================================
