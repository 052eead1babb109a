-------------------------------- MODULE Grammar --------------------------------
(***************************************************************************)
(* What a source means, said without tokens and without a descent. A source*)
(* is written as lines of words; which block a line belongs to follows from*)
(* the last line above it that is indented less, and an expression is taken*)
(* apart at the operator that binds least. Wrong stands where there is     *)
(* nothing the words could mean.                                           *)
(***************************************************************************)
EXTENDS Parser

Line(indent, words) == [indent |-> indent, words |-> words]
Wrong == Leaf("wrong", "")

RECURSIVE IsRight(_)
IsRight(node) == node.kind # "wrong" /\ \A k \in DOMAIN node.parts : IsRight(node.parts[k])
-----------------------------------------------------------------------------
(* Lines on paper: a blank where two words would become one.               *)
Characters(word) == IF \E pair \in Pairs : word = pair[1] \o pair[2]
                    THEN CHOOSE pair \in Pairs : word = pair[1] \o pair[2] ELSE <<word>>
IsMark(word) == word \in Marks \cup {"!", "#"} \/ Len(Characters(word)) = 2
RunTogether(w, next) ==
    \/ ~IsMark(w) /\ ~IsMark(next)
    \/ <<Last(Characters(w)), Head(Characters(next))>> \in Pairs
Printed(line) ==
    [k \in 1..line.indent |-> " "] \o
    FlattenSeq([k \in DOMAIN line.words |->
        Characters(line.words[k]) \o
        (IF k < Len(line.words) /\ RunTogether(line.words[k], line.words[k + 1])
         THEN <<" ">> ELSE <<>>)])
-----------------------------------------------------------------------------
(* Expressions.                                                            *)
Openings == {"(", "[", "{"}
Closings == {")", "]", "}"}
Depth(ws, k) == Cardinality({j \in 1..k - 1 : ws[j] \in Openings})
                - Cardinality({j \in 1..k - 1 : ws[j] \in Closings})

IsRun(w)      == ~IsMark(w) /\ w \notin Strings \cup Addresses \cup {"\""}
IsTypeName(w) == IsRun(w) /\ w \notin Numbers \cup Hexes \cup Keywords
LiteralKind(w) ==
    CASE w \in Numbers -> "NUMBER" [] w \in Hexes -> "HEX"
      [] w \in Addresses -> "ADDRESS" [] w \in Strings \ Addresses -> "STRING"
      [] OTHER -> "none"
IsLiteral(w) == LiteralKind(w) # "none"

Binary(ws) == {k \in 2..Len(ws) :
                  /\ getOperatorPrecedence(ws[k]) > 0 /\ Depth(ws, k) = 0
                  /\ (ws[k - 1] \in Names \cup Closings \/ IsLiteral(ws[k - 1]))}
Loosest(ws, ks) == CHOOSE k \in ks : \A j \in ks :
    LET pk == getOperatorPrecedence(ws[k])
        pj == getOperatorPrecedence(ws[j])
    IN  pk < pj \/ (pk = pj /\ j <= k)

Ascending(ks, n) == SelectSeq([k \in 1..n |-> k], LAMBDA k : k \in ks)

(* The words between the marks of a kind that are in no bracket.           *)
Between(ws, mark) ==
    LET marks == Ascending({k \in DOMAIN ws : ws[k] = mark /\ Depth(ws, k) = 0}, Len(ws))
        at    == <<0>> \o marks \o <<Len(ws) + 1>>
    IN  IF ws = <<>> THEN <<>>
        ELSE [n \in 1..Len(at) - 1 |-> SubSeq(ws, at[n] + 1, at[n + 1] - 1)]
WithoutLastComma(ws) == IF Len(ws) > 1 /\ Last(ws) = "," THEN Front(ws) ELSE ws

(* Where the bracket opens that the last word closes.                      *)
Opens(ws) ==
    LET before == {k \in 1..Len(ws) - 1 :
                      ws[k] \in Openings /\ Depth(ws, k) = Depth(ws, Len(ws)) - 1}
    IN  IF before = {} THEN 0 ELSE CHOOSE k \in before : \A j \in before : j <= k
Matched(ws, opening, closing) ==
    /\ Len(ws) > 1 /\ Last(ws) = closing /\ Opens(ws) > 0 /\ ws[Opens(ws)] = opening
Inside(ws) == SubSeq(ws, Opens(ws) + 1, Len(ws) - 1)
Before(ws, n) == SubSeq(ws, 1, Opens(ws) - n)

RECURSIVE ExpressionOf(_)
ExpressionsOf(ws) ==
    LET parts == Between(ws, ",") IN [k \in DOMAIN parts |-> ExpressionOf(parts[k])]

(* What an access can be an access to.                                     *)
Accessed(ws) ==
    IF Len(ws) = 1 /\ IsLiteral(ws[1]) THEN Wrong ELSE ExpressionOf(ws)

ExpressionOf(ws) ==
    CASE ws = <<>> -> Wrong
      [] ws # <<>> /\ Binary(ws) # {} ->
             LET k == Loosest(ws, Binary(ws))
             IN  Node("op", ws[k], <<ExpressionOf(SubSeq(ws, 1, k - 1)),
                                     ExpressionOf(SubSeq(ws, k + 1, Len(ws)))>>)
      [] ws # <<>> /\ Binary(ws) = {} /\ ws[1] = "-" ->
             Node("op", "-", <<ExpressionOf(Tail(ws))>>)
      [] Len(ws) = 1 /\ ws[1] \in Names -> Leaf("name", ws[1])
      [] Len(ws) = 1 /\ IsLiteral(ws[1]) -> Leaf(LiteralKind(ws[1]), ws[1])
      [] Len(ws) > 2 /\ Last(ws) \in Names /\ ws[Len(ws) - 1] = "." /\ Binary(ws) = {} /\ ws[1] # "-" ->
             Node("field", Last(ws), <<Accessed(SubSeq(ws, 1, Len(ws) - 2))>>)
      [] Matched(ws, "(", ")") /\ Binary(ws) = {} /\ ws[1] # "-" ->
             LET m == Opens(ws)
             IN  CASE m = 1 -> ExpressionOf(Inside(ws))
                   [] m = 2 /\ ws[1] \in Names -> Node("call", ws[1], ExpressionsOf(Inside(ws)))
                   [] m > 3 /\ ws[m - 1] \in Names /\ ws[m - 2] = "." ->
                          Node("method", ws[m - 1],
                               <<Accessed(Before(ws, 3))>> \o ExpressionsOf(Inside(ws)))
                   [] OTHER -> Wrong
      [] Matched(ws, "[", "]") /\ Binary(ws) = {} /\ ws[1] # "-" ->
             IF Opens(ws) = 1 THEN Node("array", "", ExpressionsOf(WithoutLastComma(Inside(ws))))
             ELSE Node("index", "", <<Accessed(Before(ws, 1)), ExpressionOf(Inside(ws))>>)
      [] Matched(ws, "{", "}") /\ Opens(ws) = 1 -> Node("brace", "", ExpressionsOf(Inside(ws)))
      [] OTHER -> Wrong
-----------------------------------------------------------------------------
(* Types and simple statements.                                            *)
SizeOf(w) == IF w \in Numbers THEN Leaf("NUMBER", w) ELSE Wrong
TypeOf(ws) ==
    CASE Len(ws) = 1 /\ IsTypeName(ws[1]) -> TypeNode(ws[1], <<>>)
      [] Len(ws) = 3 /\ IsTypeName(ws[1]) /\ Tail(ws) = <<"[", "]">> -> TypeNode(ws[1], <<Absent>>)
      [] Len(ws) = 4 /\ IsTypeName(ws[1]) /\ ws[2] = "[" /\ ws[4] = "]" ->
             TypeNode(ws[1], <<SizeOf(ws[3])>>)
      [] OTHER -> Wrong

IsBinding(ws) == Len(ws) > 2 /\ ws[1] \in Names /\ ws[2] = ":"
From(ws, k) == SubSeq(ws, k, Len(ws))

CompoundSize(w) == IF Len(w) = 1 THEN w[1] \in SizedTypes ELSE w[1] = "uint64"
RECURSIVE FieldsOf(_)
FieldsOf(ws) ==
    LET length == IF Len(ws) > 3 /\ ws[4] = "[" THEN 6 ELSE 3
        type   == SubSeq(ws, 3, length)
        rest   == From(ws, length + 1)
    IN  IF ws = <<>> THEN <<>>
        ELSE IF ~IsBinding(ws) \/ Len(ws) < length THEN <<Wrong>>
        ELSE <<Node("binding", ws[1], <<IF CompoundSize(type) THEN TypeOf(type) ELSE Wrong>>)>>
             \o FieldsOf(IF rest # <<>> /\ Head(rest) = "," THEN Tail(rest) ELSE rest)
CompoundOf(ws) ==
    IF Matched(ws, "{", "}") /\ Opens(ws) = 1 THEN Node("compound", "", FieldsOf(Inside(ws)))
    ELSE Wrong

(* Up to the sign of assignment, and behind it.                            *)
Equals(ws) == {k \in DOMAIN ws : ws[k] = "=" /\ Depth(ws, k) = 0}
LeftOf(ws) == IF Equals(ws) = {} THEN ws
              ELSE SubSeq(ws, 1, (CHOOSE k \in Equals(ws) : \A j \in Equals(ws) : k <= j) - 1)
RightOf(ws) == From(ws, Len(LeftOf(ws)) + 2)
ValueOf(ws) == IF Equals(ws) = {} THEN Absent ELSE ExpressionOf(RightOf(ws))

ArrayValue(value) == IF value.kind \in {"absent", "array"} THEN value ELSE Wrong
Declaration(name, type, value) ==
    CASE type = <<>> -> Wrong
      [] type # <<>> /\ type[1] = "{" -> Node("declare", name, <<CompoundOf(type), value>>)
      [] Len(type) = 1 -> Node("declare", name, <<TypeOf(type), value>>)
      [] Len(type) > 1 /\ type[1] = "uint64" ->
             Node("declare", name, <<IF Len(type) = 4 THEN TypeOf(type) ELSE Wrong, value>>)
      [] Len(type) > 1 /\ IsTypeName(type[1]) /\ Matched(type, "[", "]") /\ Opens(type) = 2 ->
             Node("arraydecl", name,
                  <<TypeNode(type[1], <<IF Len(type) = 3 THEN Absent ELSE ExpressionOf(Inside(type))>>),
                    ArrayValue(value)>>)
      [] OTHER -> Wrong
DeclarationOf(ws) == Declaration(ws[1], From(LeftOf(ws), 3), ValueOf(ws))

TargetOf(ws) ==
    IF Len(ws) = 1 \/ (Len(ws) > 1 /\ ws[2] \in {".", "["})
    THEN IF ws[1] \in Names THEN ExpressionOf(ws) ELSE Wrong
    ELSE Wrong

Targeted(words) == IF Len(words) = 1 /\ words[1] \in Names THEN Leaf("name", words[1]) ELSE Wrong
DestructureOf(ws) ==
    LET left  == LeftOf(ws)
        names == Between(Inside(left), ",")
    IN  IF Equals(ws) # {} /\ Matched(left, "{", "}") /\ Opens(left) = 1
        THEN Node("destructure", "", Append([k \in DOMAIN names |-> Targeted(names[k])], ValueOf(ws)))
        ELSE Wrong

SimpleOf(ws) ==
    CASE ws[1] \in {"Return", "return"} -> Node(ws[1], "", <<ExpressionOf(Tail(ws))>>)
      [] ws[1] = "{" -> DestructureOf(ws)
      [] IsBinding(ws) -> DeclarationOf(ws)
      [] OTHER -> IF Equals(ws) = {} THEN Node("do", "", <<ExpressionOf(ws)>>)
                  ELSE Node("assign", "", <<TargetOf(LeftOf(ws)), ValueOf(ws)>>)
-----------------------------------------------------------------------------
(* Lines. The children of a line are those whose last line above that is   *)
(* indented less it is; they must be in one column.                        *)
WordsOf(line) ==
    LET ends == {k \in DOMAIN line.words : line.words[k] = "#"}
    IN  IF ends = {} THEN line.words
        ELSE SubSeq(line.words, 1, (CHOOSE k \in ends : \A j \in ends : k <= j) - 1)
Written(lines) == {k \in DOMAIN lines : WordsOf(lines[k]) # <<>>}
Column(lines, k) == IF k = 1 THEN 0 ELSE lines[k].indent
Parent(lines, k) ==
    LET above == {j \in Written(lines) : j < k /\ Column(lines, j) < Column(lines, k)}
    IN  IF above = {} THEN 0 ELSE CHOOSE j \in above : \A i \in above : i <= j
Children(lines, k) == Ascending({j \in Written(lines) : Parent(lines, j) = k}, Len(lines))
WellLaid(lines) ==
    /\ \A j, k \in Written(lines) :
           Parent(lines, j) = Parent(lines, k) => Column(lines, j) = Column(lines, k)
    /\ \A k \in Written(lines) : Parent(lines, k) = 0 => Column(lines, k) = 0

IsHead(ws, word) == ws[1] = word /\ Last(ws) = ":"
Subject(ws) == SubSeq(ws, 2, Len(ws) - 1)

RECURSIVE StatementsOf(_, _)
BlockOf(lines, k) ==
    LET children == Children(lines, k)
    IN  IF children = <<>> THEN Wrong ELSE Node("block", "", StatementsOf(lines, children))
Anonymous(lines, k) == IF Children(lines, k) = <<>> THEN <<>> ELSE <<BlockOf(lines, k)>>

Otherwise(lines, ks) ==
    IF Len(ks) > 1 /\ WordsOf(lines[ks[2]]) = <<"else", ":">> THEN <<BlockOf(lines, ks[2])>> ELSE <<>>
LoopOf(ws, body) ==
    IF Len(ws) > 4 /\ ws[2] \in Names /\ ws[3] = "in"
    THEN Node("for", ws[2], <<ExpressionOf(SubSeq(ws, 4, Len(ws) - 1)), body>>) ELSE Wrong
StatementsFrom(lines, ks, ws, else) ==
    CASE IsHead(ws, "if") ->
             <<Node("if", "", <<ExpressionOf(Subject(ws)), BlockOf(lines, ks[1]),
                                IF else = <<>> THEN Absent ELSE else[1]>>)>>
             \o StatementsOf(lines, From(ks, 2 + Len(else)))
      [] IsHead(ws, "for") ->
             <<LoopOf(ws, BlockOf(lines, ks[1]))>> \o StatementsOf(lines, Tail(ks))
      [] OTHER -> <<SimpleOf(ws)>> \o Anonymous(lines, ks[1]) \o StatementsOf(lines, Tail(ks))
StatementsOf(lines, ks) ==
    IF ks = <<>> THEN <<>>
    ELSE StatementsFrom(lines, ks, WordsOf(lines[ks[1]]), Otherwise(lines, ks))
-----------------------------------------------------------------------------
(* Declarations.                                                           *)
BindingOf(ws) == IF IsBinding(ws) THEN Node("binding", ws[1], <<TypeOf(From(ws, 3))>>) ELSE Wrong
BindingsOf(ws) ==
    LET parts == Between(WithoutLastComma(ws), ",") IN [k \in DOMAIN parts |-> BindingOf(parts[k])]
TypesOf(ws) ==
    LET parts == Between(ws, ",") IN NodeList([k \in DOMAIN parts |-> TypeOf(parts[k])])
ReturnsOf(ws) ==
    CASE ws = <<>> -> Absent
      [] ws # <<>> /\ ws[1] = "->" /\ Matched(Tail(ws), "{", "}") /\ Opens(Tail(ws)) = 1 ->
             TypesOf(Inside(Tail(ws)))
      [] ws # <<>> /\ ws[1] = "->" /\ ~Matched(Tail(ws), "{", "}") -> TypeOf(Tail(ws))
      [] OTHER -> Wrong

FunctionOfLine(ws, body) ==
    LET closing == {k \in DOMAIN ws : ws[k] = ")" /\ Depth(ws, k) = 1}
        end     == CHOOSE k \in closing : \A j \in closing : k <= j
        returns == SubSeq(ws, end + 1, Len(ws) - 1)
    IN  IF Len(ws) > 4 /\ ws[2] \in Names /\ ws[3] = "(" /\ closing # {}
           /\ (ws[2] = "__init__" => returns = <<>>)
        THEN Node("function", ws[2],
                  <<NodeList(BindingsOf(SubSeq(ws, 4, end - 1))), ReturnsOf(returns), body>>)
        ELSE Wrong

StructField(ws, type) ==
    IF ~IsBinding(ws) \/ (Len(type) = 3 /\ type[1] # "{") THEN Wrong
    ELSE Node("binding", ws[1], <<IF type[1] = "{" THEN CompoundOf(type) ELSE TypeOf(type)>>)
StructFieldOf(lines, k) ==
    IF Children(lines, k) # <<>> THEN Wrong
    ELSE StructField(WordsOf(lines[k]), From(WordsOf(lines[k]), 3))
StructOf(lines, ws, ks) ==
    IF Len(ws) = 3 /\ ws[2] \in Names /\ ks # <<>>
    THEN Node("struct", ws[2], [n \in DOMAIN ks |-> StructFieldOf(lines, ks[n])]) ELSE Wrong

GlobalOf(ws, ks) ==
    IF Len(ws) = 4 /\ ws[2] \in Names /\ ws[3] = "=" /\ IsLiteral(ws[4]) /\ ks = <<>>
    THEN Node("global", ws[2], <<Leaf(LiteralKind(ws[4]), ws[4])>>) ELSE Wrong

MemberOf(lines, k, ws) ==
    CASE IsHead(ws, "def")    -> FunctionOfLine(ws, BlockOf(lines, k))
      [] IsHead(ws, "Struct") -> StructOf(lines, ws, Children(lines, k))
      [] ws[1] = "global"     -> GlobalOf(ws, Children(lines, k))
      [] OTHER -> Wrong
Members(lines, ks) == [n \in DOMAIN ks |-> MemberOf(lines, ks[n], WordsOf(lines[ks[n]]))]
MembersOf(lines, k) == Members(lines, Children(lines, k))

LibraryOf(ws, members) ==
    IF /\ IsHead(ws, "Library") /\ Len(ws) = 3 /\ ws[2] \in Names /\ members # <<>>
       /\ \A n \in DOMAIN members : /\ members[n].kind # "global"
                                    /\ members[n].name \notin {"main", "__init__"}
    THEN Node("library", ws[2], members) ELSE Wrong

(* The constants of a contract come first.                                 *)
ContractWith(ws, libraries, members, constants) ==
    IF /\ IsHead(ws, "Contract") /\ Len(ws) = 3 /\ ws[2] \in Names /\ members # <<>>
       /\ \A n \in DOMAIN members : members[n].kind = "global" <=> n <= constants
    THEN Node("contract", ws[2], <<NodeList(libraries), NodeList(SubSeq(members, 1, constants)),
                                   NodeList(From(members, constants + 1))>>)
    ELSE Wrong
Constants(members) == Cardinality({n \in DOMAIN members : members[n].kind = "global"})

(* All the lines in no block: libraries, and a contract at the end.        *)
Units(units) ==
    IF units = <<>> THEN Wrong
    ELSE ContractWith(Last(units).words,
             [k \in 1..Len(units) - 1 |-> LibraryOf(units[k].words, units[k].members)],
             Last(units).members, Constants(Last(units).members))
Unit(lines, k) == [words |-> WordsOf(lines[k]), members |-> MembersOf(lines, k)]
UnitsOf(lines, ks) == Units([n \in DOMAIN ks |-> Unit(lines, ks[n])])

Meaning(lines) == IF WellLaid(lines) THEN UnitsOf(lines, Children(lines, 0)) ELSE Wrong
=============================================================================
