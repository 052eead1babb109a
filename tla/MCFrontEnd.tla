------------------------------- MODULE MCFrontEnd -------------------------------
(* Sources with a hole: the lines around it, what it begins with and what  *)
(* may be written in it.                                                   *)
EXTENDS FrontEnd, TLC

NoFiles == [f \in {} |-> <<>>]
At(indent, words) == Line(indent, words)

Contract == At(0, <<"Contract", "C", ":">>)
Function == At(1, <<"def", "f", "(", "p", ":", "hex2", ")", ":">>)
Return   == At(2, <<"Return", "1">>)

(* One line, and its words.                                                *)
OfWords(head, indent, begins, words, tail, most) ==
    [files |-> NoFiles, head |-> head, starts |-> {<<At(indent, b)>> : b \in begins},
     lines |-> {}, words |-> words, tail |-> tail, most |-> most, calls |-> {}]
OneByOne(words) == {<<w>> : w \in words}
InFunction(begins, words, most) ==
    OfWords(<<Contract, Function>>, 2, begins, words, <<>>, most)
Signatures ==
    OfWords(<<Contract>>, 1,
        {<<"def", "f", "(", "a", ":", "hex2">>, <<"def", "f", "(", ")", "->", "{", "hex2">>,
         <<"def", "__init__", "(">>},
        {<<")">>, <<",">>, <<"a", ":", "hex2">>, <<"->", "hex2">>, <<"->", "{">>, <<"hex2">>,
         <<"}">>, <<":">>}, <<Return>>, 4)
Fields ==
    OfWords(<<Contract, At(1, <<"Struct", "L", ":">>)>>, 2,
        {<<"a", ":">>, <<"a", ":", "{", "a", ":">>},
        {<<"hex2">>, <<"x">>, <<"uint64">>, <<"[", "1", "]">>, <<"[", "]">>, <<",">>, <<"}">>,
         <<"f", ":">>}, <<>>, 4)

(* Lines.                                                                  *)
OfLines(head, lines, tail, most) ==
    [files |-> NoFiles, head |-> head, starts |-> {<<>>}, lines |-> lines, words |-> {},
     tail |-> tail, most |-> most, calls |-> {}]
Lines(columns, texts) == {At(i, words) : i \in columns, words \in texts}
Empty == {At(0, <<>>), At(0, <<"#">>)}

Blocks ==
    OfLines(<<Contract, Function>>,
        Lines({2, 3}, {<<"if", "a", ":">>, <<"else", ":">>}) \cup Lines({2, 3, 4}, {<<"a">>})
            \cup {At(3, <<"for", "a", "in", "p", ":">>), At(0, <<>>)},
        <<Return>>, 4)
Gaps ==
    OfLines(<<Contract, Function>>,
        Lines({1, 2, 3}, {<<"if", "a", ":">>, <<"a">>, <<"{", "a", "}", "=", "a">>}) \cup Empty,
        <<Return>>, 3)
Definitions ==
    {At(1, <<"def", "f", "(", ")", ":">>), At(1, <<"def", "main", "(", ")", ":">>),
     At(1, <<"Struct", "L", ":">>), At(2, <<"a", ":", "hex2">>), At(2, <<"Return", "a">>)}
OfMembers ==
    OfLines(<<Contract>>, Definitions \cup {At(0, <<>>), At(1, <<"global", "a", "=", "1">>),
                                            At(0, <<"Library", "L", ":">>)}, <<>>, 4)
OfLibraries ==
    OfLines(<<>>, Definitions \cup {At(0, <<"Library", "L", ":">>), At(0, <<"Contract", "C", ":">>)},
            <<Contract, Function, Return>>, 4)

(* Files.                                                                  *)
Import(target) == At(0, <<"import", target>>)
InLibrary(name) == <<At(0, <<"Library", name, ":">>), At(1, <<"def", "f", "(", ")", ":">>), Return>>
OfFiles(files) ==
    [files |-> files, head |-> <<>>, starts |-> {<<>>},
     lines |-> {Import("\"a\""), Import("\"b\""), Import("\"./b\""), Import("\"c\""),
                At(0, <<"import", "\"a\"", "#">>), At(0, <<"import">>)},
     words |-> {}, tail |-> <<Contract, Function, Return>>, most |-> 3, calls |-> {}]

(* Functions that are called.                                              *)
OfCalls(head, lines, tail, most, calls) ==
    [OfLines(<<Contract>> \o head, lines, tail, most) EXCEPT !.calls = calls]
WithNumbers(numbers) == {<<fromInt(v)>> : v \in numbers}
ReturnY == At(2, <<"Return", "y">>)
Constant ==
    OfCalls(<<Function, At(2, <<"x", ":", "number", "=", "3">>), At(2, <<"y", "=", "p">>)>>,
        Lines({2}, {<<"if", "p", ":">>, <<"if", "x", "==", "3", ":">>, <<"else", ":">>,
                    <<"for", "i", "in", "Range", "(", "2", ")", ":">>})
            \cup Lines({3}, {<<"y", "=", "y", "+", "x">>, <<"x", ":", "number", "=", "2">>})
            \cup Lines({2, 3}, {<<"x", "=", "p">>})
            \cup Lines({3}, {<<"Delete", "(", "x", ")">>}),
        <<At(2, <<"y", "=", "y", "+", "x">>), ReturnY>>, 4, WithNumbers({0, 2}))
Arrays ==
    OfCalls(<<Function, At(2, <<"a", ":", "number", "[", "2", "]", "=", "[", "3", ",", "1", "]">>),
              At(2, <<"i", ":", "number", "=", "1">>), At(2, <<"y", "=", "p">>)>>,
        Lines({2}, {<<"if", "p", ":">>, <<"for", "x", "in", "a", ":">>, <<"{", "i", ",", "y", "}", "=", "a">>})
            \cup Lines({2, 3}, {<<"a", "[", "0", "]", "=", "y">>})
            \cup Lines({3}, {<<"y", "=", "a", "[", "i", "]">>, <<"a", "[", "i", "]", "=", "2">>,
                             <<"i", "=", "0">>}),
        <<At(2, <<"y", "=", "y", "+", "a", "[", "i", "]">>), ReturnY>>, 4, WithNumbers({0, 2}))
Globals ==
    OfCalls(<<At(1, <<"global", "g", "=", "2">>), At(1, <<"def", "L", "(", "x", ":", "hex2", ")", ":">>),
              At(2, <<"Return", "x", "*", "g">>), Function, At(2, <<"y", "=", "p">>)>>,
        Lines({2}, {<<"if", "g", ":">>, <<"y", "=", "g", "/", "0">>, <<"for", "g", "in", "Range", "(", "2", ")", ":">>})
            \cup Lines({2, 3}, {<<"y", "=", "L", "(", "g", ")">>, <<"y", "=", "y", "-", "g">>,
                                <<"g", "=", "1">>, <<"y", "=", "L", "(", "y", ")", "/", "g">>,
                                <<"Return", "g">>}),
        <<ReturnY>>, 3, WithNumbers({0, 2}))

MCSources ==
    [operators |-> InFunction({<<"Return">>}, OneByOne({"a", "1", "+", "*", "==", "-", "("}), 5),
     accesses  |-> InFunction({<<"Return", "a">>, <<"Return", "[", "a">>, <<"a">>},
                       OneByOne({"a", "(", ")", "[", "]", ","}) \cup {<<".", "f">>, <<".", "f", "(">>}, 4),
     literals  |-> InFunction({<<"Return">>, <<"Return", "{">>},
                       OneByOne({"a", "0x01", "\"x\"", "\"", "}", ",", "2a"}), 3),
     statements |-> InFunction({<<"a">>, <<"{", "a">>, <<"{", "}">>, <<"for", "a">>},
                       OneByOne({"a", "=", "}", "1"}) \cup {<<",", "a">>, <<"[", "a", "]">>, <<".", "f">>}, 4),
     declarations |-> InFunction({<<"a", ":">>, <<"a", ":", "hex2">>, <<"a", ":", "{">>},
                       OneByOne({"uint64", "[", "]", "1", "=", "}"}) \cup {<<"x", ":", "hex2">>}, 4),
     blocks     |-> Blocks,
     gaps       |-> Gaps,
     members    |-> OfMembers,
     libraries  |-> OfLibraries,
     signatures |-> Signatures,
     fields     |-> Fields,
     constant   |-> Constant,
     arrays     |-> Arrays,
     globals    |-> Globals,
     diamond |-> OfFiles("a" :> (<<Import("\"b\"")>> \o InLibrary("A"))
                         @@ "b" :> (InLibrary("B") \o <<Import("\"root\"")>>)),
     cycle   |-> OfFiles("a" :> (InLibrary("A") \o <<Import("\"b\"")>>)
                         @@ "b" :> (<<Import("\"c\"")>> \o InLibrary("B"))
                         @@ "c" :> (<<Import("\"b\"")>> \o InLibrary("L")))]

MCNames   == {"C", "L", "A", "B", "f", "a", "p", "x", "main", "__init__", "import",
               "y", "i", "g", "Range", "Delete"}
MCNumbers == {"1", "2", "3", "0"}
MCHexes   == {"0x01"}
MCStrings == {"\"x\"", "\"a\"", "\"b\"", "\"./b\"", "\"c\"", "\"root\""}
MCAddresses == {}
MCBytesOf == "0x01" :> <<1>>
MCSized   == {"hex2"}
MCTargets == "\"a\"" :> "a" @@ "\"b\"" :> "b" @@ "\"./b\"" :> "b" @@ "\"c\"" :> "c"
             @@ "\"root\"" :> "root"
=============================================================================
