-------------------------------- MODULE Parser --------------------------------
(***************************************************************************)
(* The recursive descent of src/src/parser/parser.cpp, from tokens to the  *)
(* tree. Every operator takes the tokens and the place of the next one, and*)
(* gives a node and the place behind it, which is 0 once an error was      *)
(* thrown or reported: either way the front end gives up. A node has a     *)
(* kind, a name or the text of a literal, and its parts in their order.    *)
(***************************************************************************)
EXTENDS SourceText

CONSTANT SizedTypes  \* the names of types hex<N>

Node(kind, name, parts) == [kind |-> kind, name |-> name, parts |-> parts]
Leaf(kind, name)        == Node(kind, name, <<>>)
Absent                  == Leaf("absent", "")
NodeList(nodes)         == Node("list", "", nodes)

Result(node, at) == [node |-> node, at |-> at]
Error            == Result(Absent, 0)

Literals == {"NUMBER", "HEX", "STRING", "ADDRESS"}

check(ts, at, type)   == at # 0 /\ ts[at].type = type
consume(ts, at, type) == IF check(ts, at, type) THEN at + 1 ELSE 0

RECURSIVE pastNewlines(_, _)
pastNewlines(ts, at) == IF check(ts, at, "NEWLINE") THEN pastNewlines(ts, at + 1) ELSE at

(* Add a part to the list that is being read; move on.                     *)
With(list, node, at) == Result(NodeList(Append(list.node.parts, node)), at)
NoParts(at)          == Result(NodeList(<<>>), at)
-----------------------------------------------------------------------------
getOperatorPrecedence(type) ==
    CASE type \in {"==", "!="} -> 1
      [] type \in {"<", ">", "<=", ">="} -> 2
      [] type \in {"+", "-"} -> 3
      [] type \in {"*", "/"} -> 4
      [] OTHER -> 0

RECURSIVE parseBinaryExpression(_, _, _), parsePostfixExpression(_, _), parseList(_, _)

parseExpression(ts, at) == parseBinaryExpression(ts, at, 1)

(* A list of expressions: one, and one more after every comma.             *)
NextOfList(ts, list, e) ==
    IF check(ts, e.at, ",") THEN parseList(ts, With(list, e.node, e.at + 1))
    ELSE With(list, e.node, e.at)
parseList(ts, list) ==
    IF list.at = 0 THEN list ELSE NextOfList(ts, list, parseExpression(ts, list.at))

Closed(ts, list, type) == Result(list.node, consume(ts, list.at, type))

parseArgumentList(ts, at, closing) ==
    Closed(ts, IF check(ts, at, closing) THEN NoParts(at) ELSE parseList(ts, NoParts(at)), closing)

(* In an array literal the last comma may be followed by nothing.          *)
RECURSIVE parseElements(_, _)
NextElement(ts, list, e) ==
    IF check(ts, e.at, ",") THEN parseElements(ts, With(list, e.node, e.at + 1))
    ELSE With(list, e.node, e.at)
parseElements(ts, list) ==
    IF list.at = 0 \/ check(ts, list.at, "]") THEN list
    ELSE NextElement(ts, list, parseExpression(ts, list.at))

parseArrayLiteral(ts, at) ==
    Closed(ts, parseElements(ts, NoParts(consume(ts, at, "["))), "]")

Renamed(r, kind, name) == Result(Node(kind, name, r.node.parts), r.at)

parsePrimary(ts, at) ==
    CASE at = 0 -> Error
      [] ts[at].type \in Literals -> Result(Leaf(ts[at].type, ts[at].value), at + 1)
      [] ts[at].type = "IDENTIFIER" /\ ts[at + 1].type = "(" ->
             parsePostfixExpression(ts,
                 Renamed(parseArgumentList(ts, at + 2, ")"), "call", ts[at].value))
      [] ts[at].type = "IDENTIFIER" /\ ts[at + 1].type # "(" ->
             parsePostfixExpression(ts, Result(Leaf("name", ts[at].value), at + 1))
      [] ts[at].type = "(" ->
             parsePostfixExpression(ts, Closed(ts, parseExpression(ts, at + 1), ")"))
      [] ts[at].type = "[" ->
             parsePostfixExpression(ts, Renamed(parseArrayLiteral(ts, at), "array", ""))
      [] ts[at].type = "{" ->
             parsePostfixExpression(ts,
                 Renamed(parseArgumentList(ts, at + 1, "}"), "brace", ""))
      [] OTHER -> Error

Method(base, name, arguments) ==
    Result(Node("method", name, <<base.node>> \o arguments.node.parts), arguments.at)
Indexed(base, index) == Result(Node("index", "", <<base.node, index.node>>), index.at)

parsePostfixExpression(ts, base) ==
    CASE check(ts, base.at, ".") /\ ts[base.at + 1].type # "IDENTIFIER" -> Error
      [] check(ts, base.at, ".") /\ check(ts, base.at + 1, "IDENTIFIER") ->
             parsePostfixExpression(ts,
                 IF check(ts, base.at + 2, "(")
                 THEN Method(base, ts[base.at + 1].value,
                             parseArgumentList(ts, base.at + 3, ")"))
                 ELSE Result(Node("field", ts[base.at + 1].value, <<base.node>>), base.at + 2))
      [] check(ts, base.at, "[") ->
             parsePostfixExpression(ts,
                 Indexed(base, Closed(ts, parseExpression(ts, base.at + 1), "]")))
      [] OTHER -> base

RECURSIVE parseUnaryExpression(_, _)
parseUnaryExpression(ts, at) ==
    IF check(ts, at, "-")
    THEN LET operand == parseUnaryExpression(ts, at + 1)
         IN  Result(Node("op", "-", <<operand.node>>), operand.at)
    ELSE parsePrimary(ts, at)

(* Precedence climbing: the operators of one level group to the left.      *)
RECURSIVE Climb(_, _, _)
Operation(ts, left, right) ==
    Result(Node("op", ts[left.at].value, <<left.node, right.node>>), right.at)

MutNextPrecedence(type) == getOperatorPrecedence(type)
NextPrecedence(type) == getOperatorPrecedence(type) + 1

Climb(ts, left, least) ==
    IF left.at = 0 \/ (left.at # 0 /\ getOperatorPrecedence(ts[left.at].type) < least) THEN left
    ELSE Climb(ts, Operation(ts, left,
                       parseBinaryExpression(ts, left.at + 1, NextPrecedence(ts[left.at].type))),
               least)

parseBinaryExpression(ts, at, least) == Climb(ts, parseUnaryExpression(ts, at), least)
-----------------------------------------------------------------------------
(* Types. Only the size in brackets is kept apart from the name.           *)
TypeNode(name, size) == Node("type", name, size)
Sized(ts, at, name) ==
    Result(TypeNode(name, <<Leaf("NUMBER", ts[at].value)>>),
           consume(ts, consume(ts, at, "NUMBER"), "]"))

parseTypeName(ts, at) ==
    CASE ~check(ts, at, "TYPE") -> Error
      [] check(ts, at, "TYPE") /\ ~check(ts, at + 1, "[") ->
             Result(TypeNode(ts[at].value, <<>>), at + 1)
      [] check(ts, at, "TYPE") /\ check(ts, at + 1, "[") ->
             IF check(ts, at + 2, "NUMBER") THEN Sized(ts, at + 2, ts[at].value)
             ELSE Result(TypeNode(ts[at].value, <<Absent>>), consume(ts, at + 2, "]"))

(* name: type                                                              *)
Bound(name, type) == Result(Node("binding", name, <<type.node>>), type.at)
parseBinding(ts, at) ==
    IF check(ts, at, "IDENTIFIER") /\ check(ts, at + 1, ":")
    THEN Bound(ts[at].value, parseTypeName(ts, at + 2)) ELSE Error

RECURSIVE parseParameterList(_, _)
NextParameter(ts, list, p) ==
    IF check(ts, p.at, ",") THEN parseParameterList(ts, With(list, p.node, p.at + 1))
    ELSE With(list, p.node, IF check(ts, p.at, ")") THEN p.at ELSE 0)
parseParameterList(ts, list) ==
    IF list.at = 0 \/ check(ts, list.at, ")") THEN list
    ELSE NextParameter(ts, list, parseBinding(ts, list.at))

RECURSIVE parseBraceTypeList(_, _)
NextType(ts, list, type) ==
    IF check(ts, type.at, ",") THEN parseBraceTypeList(ts, With(list, type.node, type.at + 1))
    ELSE With(list, type.node, type.at)
parseBraceTypeList(ts, list) ==
    IF list.at = 0 THEN list ELSE NextType(ts, list, parseTypeName(ts, list.at))

parseReturnType(ts, at) ==
    IF check(ts, at, "{")
    THEN Closed(ts, IF check(ts, at + 1, "}") THEN NoParts(at + 1)
                    ELSE parseBraceTypeList(ts, NoParts(at + 1)), "}")
    ELSE parseTypeName(ts, at)

(* The fields of a compound type: hex<N> or uint64[N]; the commas between  *)
(* them may be left out.                                                   *)
parseCompoundField(ts, at) ==
    CASE ~(check(ts, at, "IDENTIFIER") /\ check(ts, at + 1, ":") /\ check(ts, at + 2, "TYPE")) -> Error
      [] ts[at + 2].value \in SizedTypes ->
             Bound(ts[at].value, Result(TypeNode(ts[at + 2].value, <<>>), at + 3))
      [] ts[at + 2].value = "uint64" /\ check(ts, at + 3, "[") ->
             Bound(ts[at].value, Sized(ts, at + 4, "uint64"))
      [] OTHER -> Error

RECURSIVE CompoundFields(_, _)
NextField(ts, list, f) ==
    CompoundFields(ts, With(list, f.node, IF check(ts, f.at, ",") THEN f.at + 1 ELSE f.at))
CompoundFields(ts, list) ==
    IF list.at = 0 \/ check(ts, list.at, "}") THEN list
    ELSE NextField(ts, list, parseCompoundField(ts, list.at))

parseCompoundFieldList(ts, at) ==
    Renamed(Closed(ts, CompoundFields(ts, NoParts(consume(ts, at, "{"))), "}"), "compound", "")
-----------------------------------------------------------------------------
(* Statements. Only some of them take the end of their line with them.     *)
LineEnd(ts, r) == Result(r.node, consume(ts, r.at, "NEWLINE"))

Only(kind, name, r) == Result(Node(kind, name, <<r.node>>), r.at)

Assigned(target, value) == Result(Node("assign", "", <<target.node, value.node>>), value.at)

RECURSIVE parseStatement(_, _), Statements(_, _), AnonymousStatements(_, _)

NextStatement(ts, list, s) == Statements(ts, With(list, s.node, s.at))
Statements(ts, list) ==
    IF list.at = 0 \/ check(ts, pastNewlines(ts, list.at), "DEDENT")
    THEN Result(list.node, pastNewlines(ts, list.at))
    ELSE NextStatement(ts, list, parseStatement(ts, pastNewlines(ts, list.at)))

parseBlock(ts, at) ==
    Renamed(Closed(ts, Statements(ts, NoParts(consume(ts, pastNewlines(ts, consume(ts, at, "NEWLINE")),
                                                      "INDENT"))), "DEDENT"), "block", "")

(* A block nobody announced. Its end is looked for before an end of line is*)
(* skipped.                                                                *)
NextAnonymous(ts, list, s) == AnonymousStatements(ts, With(list, s.node, s.at))
AnonymousStatements(ts, list) ==
    IF list.at = 0 \/ check(ts, list.at, "DEDENT") THEN list
    ELSE NextAnonymous(ts, list, parseStatement(ts, list.at))

Headed(kind, name, head, body) == Result(Node(kind, name, <<head.node, body.node>>), body.at)

IfElse(ts, condition, then) ==
    IF check(ts, then.at, "else")
    THEN LET else == parseBlock(ts, consume(ts, then.at + 1, ":"))
         IN  Result(Node("if", "", <<condition.node, then.node, else.node>>), else.at)
    ELSE Result(Node("if", "", <<condition.node, then.node, Absent>>), then.at)
parseIf(ts, condition) ==
    IfElse(ts, condition, parseBlock(ts, consume(ts, condition.at, ":")))

ForLoop(ts, target, iterable) ==
    Headed("for", target, iterable, parseBlock(ts, consume(ts, iterable.at, ":")))
parseForStatement(ts, at) ==
    IF check(ts, at, "IDENTIFIER") /\ check(ts, at + 1, "in")
    THEN ForLoop(ts, ts[at].value, parseExpression(ts, at + 2)) ELSE Error

(* name: type = value, with an array in brackets of its own.               *)
Initialised(ts, kind, name, type) ==
    IF check(ts, type.at, "=")
    THEN LET value == parseExpression(ts, type.at + 1)
         IN  Result(Node(kind, name, <<type.node, value.node>>), value.at)
    ELSE Result(Node(kind, name, <<type.node, Absent>>), type.at)

ArrayInitialised(ts, name, type) ==
    IF check(ts, type.at, "=")
    THEN LET value == Renamed(parseArrayLiteral(ts, type.at + 1), "array", "")
         IN  Result(Node("arraydecl", name, <<type.node, value.node>>), value.at)
    ELSE Result(Node("arraydecl", name, <<type.node, Absent>>), type.at)

ArrayType(ts, at, name) ==
    IF check(ts, at, "]") THEN Result(TypeNode(name, <<Absent>>), at + 1)
    ELSE Closed(ts, Only("type", name, parseExpression(ts, at)), "]")

parseDeclaration(ts, at, name) ==
    CASE check(ts, at, "{") -> Initialised(ts, "declare", name, parseCompoundFieldList(ts, at))
      [] check(ts, at, "TYPE") /\ ~check(ts, at + 1, "[") ->
             Initialised(ts, "declare", name, Result(TypeNode(ts[at].value, <<>>), at + 1))
      [] check(ts, at, "TYPE") /\ check(ts, at + 1, "[") ->
             IF ts[at].value = "uint64"
             THEN Initialised(ts, "declare", name, Sized(ts, at + 2, "uint64"))
             ELSE ArrayInitialised(ts, name, ArrayType(ts, at + 2, ts[at].value))
      [] OTHER -> Error

(* A line that begins with a name: the descent goes back to it once it has *)
(* seen that no declaration follows.                                       *)
parseAssignment(ts, target) ==
    IF check(ts, target.at, "=") THEN Assigned(target, parseExpression(ts, target.at + 1))
    ELSE Only("do", "", target)
Simple(ts, at) ==
    LineEnd(ts,
        CASE check(ts, at, "IDENTIFIER") /\ check(ts, at + 1, ":") ->
                 parseDeclaration(ts, at + 2, ts[at].value)
          [] check(ts, at, "IDENTIFIER") /\ check(ts, at + 1, "=") ->
                 parseAssignment(ts, Result(Leaf("name", ts[at].value), at + 1))
          [] check(ts, at, "IDENTIFIER") /\ ts[at + 1].type \in {".", "["} ->
                 parseAssignment(ts, parseExpression(ts, at))
          [] OTHER -> Only("do", "", parseExpression(ts, at)))

RECURSIVE DestructureTargets(_, _)
DestructureTargets(ts, list) ==
    IF ~check(ts, list.at, "IDENTIFIER") THEN Error
    ELSE IF check(ts, list.at + 1, ",")
    THEN DestructureTargets(ts, With(list, Leaf("name", ts[list.at].value), list.at + 2))
    ELSE With(list, Leaf("name", ts[list.at].value), list.at + 1)
Destructured(targets, value) ==
    Result(Node("destructure", "", Append(targets.node.parts, value.node)), value.at)
parseDestructureAssignment(ts, at) ==
    LET targets == Closed(ts, IF check(ts, at + 1, "}") THEN NoParts(at + 1)
                              ELSE DestructureTargets(ts, NoParts(at + 1)), "}")
    IN  Destructured(targets, parseExpression(ts, consume(ts, targets.at, "=")))

parseStatement(ts, at) ==
    CASE at = 0 \/ check(ts, at, "EOF") -> Error
      [] check(ts, at, "if")      -> parseIf(ts, parseExpression(ts, at + 1))
      [] check(ts, at, "Return")  -> Only("Return", "", parseExpression(ts, at + 1))
      [] check(ts, at, "return")  -> Only("return", "", parseExpression(ts, at + 1))
      [] check(ts, at, "{")       -> parseDestructureAssignment(ts, at)
      [] check(ts, at, "for")     -> parseForStatement(ts, at + 1)
      [] check(ts, at, "INDENT")  ->
             Renamed(Closed(ts, AnonymousStatements(ts, NoParts(at + 1)), "DEDENT"), "block", "")
      [] check(ts, at, "NEWLINE") -> parseStatement(ts, at + 1)
      [] OTHER -> Simple(ts, at)
-----------------------------------------------------------------------------
(* Declarations.                                                           *)
FunctionOf(ts, name, parameters, returns) ==
    LET block == parseBlock(ts, consume(ts, returns.at, ":"))
    IN  Result(Node("function", name, <<parameters.node, returns.node, block.node>>), block.at)
Signature(ts, name, parameters) ==
    FunctionOf(ts, name, parameters,
        IF check(ts, parameters.at, "->") /\ name # "__init__"
        THEN parseReturnType(ts, parameters.at + 1) ELSE Result(Absent, parameters.at))
parseFunction(ts, at) ==
    IF check(ts, at + 1, "IDENTIFIER")
    THEN Signature(ts, ts[at + 1].value,
             Closed(ts, parseParameterList(ts, NoParts(consume(ts, at + 2, "("))), ")"))
    ELSE Error

parseStructFieldType(ts, at) ==
    CASE check(ts, at, "{") -> parseCompoundFieldList(ts, at)
      [] check(ts, at, "TYPE") /\ ~check(ts, at + 1, "[") ->
             Result(TypeNode(ts[at].value, <<>>), at + 1)
      [] check(ts, at, "TYPE") /\ check(ts, at + 1, "[") -> Sized(ts, at + 2, ts[at].value)
      [] OTHER -> Error

(* Between the head of a struct and its fields no line may be empty.       *)
RECURSIVE StructFields(_, _)
NextStructField(ts, list, f) == StructFields(ts, With(list, f.node, consume(ts, f.at, "NEWLINE")))
StructFields(ts, list) ==
    LET at == pastNewlines(ts, list.at)
    IN  IF at = 0 \/ check(ts, at, "DEDENT") THEN Result(list.node, at)
        ELSE IF check(ts, at, "IDENTIFIER") /\ check(ts, at + 1, ":")
        THEN NextStructField(ts, list, Bound(ts[at].value, parseStructFieldType(ts, at + 2)))
        ELSE Error
parseStruct(ts, at) ==
    IF check(ts, at + 1, "IDENTIFIER") /\ check(ts, at + 2, ":") /\ check(ts, at + 3, "NEWLINE")
    THEN Renamed(Closed(ts, StructFields(ts, NoParts(consume(ts, at + 4, "INDENT"))), "DEDENT"),
                 "struct", ts[at + 1].value)
    ELSE Error

parseGlobalConst(ts, at) ==
    IF check(ts, at + 1, "IDENTIFIER") /\ check(ts, at + 2, "=") /\ ts[at + 3].type \in Literals
    THEN LineEnd(ts, Result(Node("global", ts[at + 1].value,
                                 <<Leaf(ts[at + 3].type, ts[at + 3].value)>>), at + 4))
    ELSE Error

(* A library has no constructor, no main and no constants.                 *)
RECURSIVE LibraryMembers(_, _), ContractMembers(_, _, _), Libraries(_, _)
NextLibraryMember(ts, list, member) == LibraryMembers(ts, With(list, member.node, member.at))
LibraryMembers(ts, list) ==
    LET at == pastNewlines(ts, list.at)
    IN  CASE at = 0 \/ check(ts, at, "DEDENT") -> Result(list.node, at)
          [] check(ts, at, "def") /\ ts[at + 1].value \notin {"__init__", "main"} ->
                 NextLibraryMember(ts, list, parseFunction(ts, at))
          [] check(ts, at, "Struct") -> NextLibraryMember(ts, list, parseStruct(ts, at))
          [] OTHER -> Error
RECURSIVE DottedName(_, _)
DottedName(ts, at) ==
    IF check(ts, at, ".") THEN DottedName(ts, consume(ts, at + 1, "IDENTIFIER")) ELSE at
IndentedBody(ts, at) ==
    NoParts(consume(ts, pastNewlines(ts, consume(ts, at, ":")), "INDENT"))
parseLibrary(ts, at) ==
    Renamed(Closed(ts, LibraryMembers(ts,
                IndentedBody(ts, DottedName(ts, consume(ts, at + 1, "IDENTIFIER")))), "DEDENT"),
            "library", ts[at + 1].value)

(* The constants of a contract stand before its other members. The list    *)
(* holds both.                                                             *)
NextMember(ts, list, member, isDeclaration) ==
    ContractMembers(ts, With(list, member.node, member.at), isDeclaration)
ContractMembers(ts, list, sawMember) ==
    LET at == pastNewlines(ts, list.at)
    IN  CASE at = 0 \/ check(ts, at, "DEDENT") -> Result(list.node, at)
          [] check(ts, at, "global") /\ ~sawMember ->
                 NextMember(ts, list, parseGlobalConst(ts, at), FALSE)
          [] check(ts, at, "def")    -> NextMember(ts, list, parseFunction(ts, at), TRUE)
          [] check(ts, at, "Struct") -> NextMember(ts, list, parseStruct(ts, at), TRUE)
          [] OTHER -> Error

ContractOf(ts, libraries, name, members) ==
    LET end     == pastNewlines(ts, members.at)
        globals == SelectSeq(members.node.parts, LAMBDA m : m.kind = "global")
        others  == SelectSeq(members.node.parts, LAMBDA m : m.kind # "global")
    IN  IF check(ts, end, "EOF")
        THEN Result(Node("contract", name, <<libraries, NodeList(globals), NodeList(others)>>), end)
        ELSE Error

NextLibrary(ts, list, library) ==
    Libraries(ts, With(list, library.node, pastNewlines(ts, library.at)))
Libraries(ts, list) ==
    IF check(ts, list.at, "Library") THEN NextLibrary(ts, list, parseLibrary(ts, list.at))
    ELSE list

ContractAfter(ts, libraries) ==
    IF check(ts, libraries.at, "Contract") /\ check(ts, libraries.at + 1, "IDENTIFIER")
    THEN ContractOf(ts, libraries.node, ts[libraries.at + 1].value,
             Closed(ts, ContractMembers(ts, IndentedBody(ts, libraries.at + 2), FALSE), "DEDENT"))
    ELSE Error

parseContract(ts) == ContractAfter(ts, Libraries(ts, NoParts(pastNewlines(ts, 1))))
=============================================================================
