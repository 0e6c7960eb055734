------------------------------- MODULE MCApi --------------------------------
(* Instances of Api for TLC. *)
EXTENDS Api

MCSubclasses == <<"json", "connect", "error", "disconnect", "play", "speech_start", "speech_stop">>

Words(A, n) == UNION {[1..k -> A] : k \in 0..n}

\* Characters that the URI check tells apart, in any order; and long ports and tails.
SomeUri == [scheme |-> "ws://", rest |-> <<"a">>]
MCUris ==
    {[scheme |-> "ws://", rest |-> rest] :
        rest \in Words({"a", "x", "1", ":", "/", "[", "]", "@"}, 4)
                 \cup {<<"x">> \o port \o tail :
                          port \in {<<":", "6", "5", "5", "3", "5">>, <<":", "6", "5", "5", "3", "6">>,
                                    <<":", "0", "0">>, <<":", "0", "1">>, <<":">>},
                          tail \in {<<>>, <<"?">>, <<"/">>, <<".">>}}
                 \cup {<<"x", "/", "x", "x", "x", "x", "x", "x">>, <<"x", "/", "x", "x", "x", "x", "x", "x", "x">>}}
    \cup {[scheme |-> scheme, rest |-> <<"a">> \o rest] :
             scheme \in {"wss://", "http://"}, rest \in Words({"x", ":", "1"}, 2)}

MCStartWords ==
    Words({"mono", "stereo", "8k", "16000", "12000", "56000", "MUTE_USER", "bogus"}, 1)
        \cup {<<mix>> \o rest : mix \in {"mono", "stereo", "bogus"},
                 rest \in Words({"8k", "16000", "12000", "48000", "56000", "0", "mute_user", "bogus"}, 3)}
        \cup {<<"mixed", "8k", "24k", "mute_user", "8k">>, <<"mixed", "24k", "16k", "8k", "MUTE_USER">>}

Start(uri, words, raw) == Command("start", 1 + Len(words), words, uri, <<>>, raw)
WithText(name, text) == Command(name, 1, <<>>, NoUri, text, FALSE)
Simple(name, words) == Command(name, Len(words), words, NoUri, <<>>, FALSE)

\* The bytes on both sides of each limit of UTF-8.
Utf8Texts ==
    Words({65, 128, 143, 144, 159, 160, 191, 193, 194, 224, 237, 239, 240, 244, 245}, 3)
        \cup {<<lead, second, 128, last>> :
                 lead \in {239, 240, 243, 244}, second \in {128, 143, 144, 191}, last \in {65, 128, 191, 194}}

\* Texts of bytes in both alphabets, with padding and without, and texts that are none.
Frames == [1..2 -> {0, 15, 63, 64, 128, 191, 255}] \cup [1..4 -> {3, 127, 251}] \cup [1..6 -> {63, 252}]
Base64Texts ==
    UNION {{Base64Encode(bytes, url), Unpadded(Base64Encode(bytes, url))} :
              bytes \in Frames \cup [1..1 -> {0, 63, 255}] \cup [1..3 -> {0, 63, 255}], url \in BOOLEAN}
    \cup Words({43, 61, 65, 122}, 5)

MCStartCommands ==
    {Start(uri, <<"mono">>, FALSE) : uri \in MCUris} \cup {Start(SomeUri, words, FALSE) : words \in MCStartWords}
        \cup {WithText("stop", text) : text \in Utf8Texts}
MCTextCommands == {WithText("send_json", text) : text \in Base64Texts}
MCCommands ==
    {Start(SomeUri, <<"mono">>, raw) : raw \in BOOLEAN}
        \cup {Simple(name, <<>>) : name \in {"stop", "pause", "resume", "mute", "unmute", "send_json", "status"}}
        \cup {Simple(name, <<target>>) : name \in {"mute", "unmute"}, target \in {"user", "openai", "all", "bogus"}}
        \cup {Simple("mute", <<"all", "user">>), Simple("pause", <<"all">>), Simple("stop", <<"all", "user">>)}

\* Names of headers without regard to case: two, three or none of them Authorization.
Item(name, value, string) == [name |-> name, value |-> value, string |-> string]
MCChannelVars ==
    LET Vars(size, beat, key, extra, raw, rate) ==
            [buffer_size |-> size, heart_beat |-> beat, key |-> key, extra |-> extra, raw |-> raw, read_rate |-> rate]
        Items == {Item("authorization", "a", TRUE), Item("authorization", "b", FALSE), Item("authorization", "c", TRUE),
                  Item("x", "a", TRUE), Item("x", "b", TRUE), Item("", "a", TRUE)}
    IN  {Vars({size}, {}, FALSE, {}, FALSE, rate) : size \in {0, 20, 30, 100, 1000, 1020}, rate \in {8000, 16000}}
        \cup {Vars({}, {beat}, FALSE, {}, TRUE, 8000) : beat \in {0, 1, 3600, 3601}}
        \cup {Vars({}, {}, key, {items}, FALSE, 8000) : key \in BOOLEAN, items \in Words(Items, 2)}
        \cup {Vars({}, {}, TRUE, extra, FALSE, 8000) :
                 extra \in {{}, {<<Item("authorization", "a", TRUE), Item("x", "a", TRUE), Item("authorization", "c", TRUE)>>}}}
=============================================================================
