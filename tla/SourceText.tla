------------------------------ MODULE SourceText ------------------------------
(***************************************************************************)
(* From the text of a contract to its tokens: src/src/lexer/               *)
(* import_resolver.cpp puts the imported files in place of the lines that  *)
(* import them, src/src/lexer/lexer.cpp scans the result. A line is a      *)
(* sequence of pieces: a run of letters and digits, one character of       *)
(* punctuation, a blank, "#", or a string with its quotes. A quotation mark*)
(* by itself is one that no other one follows.                             *)
(***************************************************************************)
EXTENDS Integers, Sequences, SequencesExt, FiniteSets

CONSTANTS
    Names,        \* the runs that are identifiers
    Numbers,      \* the runs of digits
    Hexes,        \* the runs with 0x in front
    Strings,      \* the strings
    Addresses,    \* the strings that are addresses
    Targets       \* the file that the target of an import is resolved to

Keywords == {"def", "Struct", "Contract", "Library", "global", "if", "else",
             "Return", "return", "for", "in"}
Marks    == {"(", ")", "[", "]", "{", "}", "+", "-", "*", "/", ":", ".", ",", "=", "<", ">"}
Pairs    == {<<"=", "=">>, <<"!", "=">>, <<"<", "=">>, <<">", "=">>, <<"-", ">">>}

ASSUME NamesAssumption ==
    Cardinality(Names \cup Numbers \cup Hexes \cup Keywords)
        = Cardinality(Names) + Cardinality(Numbers) + Cardinality(Hexes)
          + Cardinality(Keywords)

IndentOf(line) ==
    LET others == {k \in DOMAIN line : line[k] # " "}
    IN  IF others = {} THEN Len(line)
        ELSE (CHOOSE k \in others : \A j \in others : k <= j) - 1
isEmptyOrComment(line) == IndentOf(line) = Len(line) \/ line[IndentOf(line) + 1] = "#"
-----------------------------------------------------------------------------
(* ImportResolver. A file is taken once; one that is still being taken in  *)
(* must not be imported. The file that is compiled counts as taken, but is *)
(* not on the stack.                                                       *)
ImportTarget(line) ==
    LET words == SelectSeq(line, LAMBDA piece : piece # " ")
    IN  IF Len(words) = 2 /\ words[1] = "import" THEN words[2] ELSE ""
isImport(line) == ImportTarget(line) # ""

Generated == <<"#">>  \* begin import, end import

RECURSIVE processSourceLines(_, _, _)

MutResolveFile(files, file, s) ==
    IF file \in Range(s.stack) THEN [s EXCEPT !.ok = FALSE]
    ELSE LET r == processSourceLines(files, files[file],
                      [s EXCEPT !.included = @ \cup {file}, !.stack = Append(@, file)])
         IN  [r EXCEPT !.stack = s.stack]
resolveFile(files, file, s) ==
    IF file \in Range(s.stack) THEN [s EXCEPT !.ok = FALSE]
    ELSE IF file \in s.included THEN s
    ELSE LET r == processSourceLines(files, files[file],
                      [s EXCEPT !.included = @ \cup {file}, !.stack = Append(@, file)])
         IN  [r EXCEPT !.stack = s.stack]

Imported(files, target, s) ==
    IF target \notin DOMAIN Targets \/ Targets[target] \notin DOMAIN files
    THEN [s EXCEPT !.ok = FALSE]
    ELSE LET r == resolveFile(files, Targets[target], [s EXCEPT !.lines = Append(@, Generated)])
         IN  [r EXCEPT !.lines = Append(@, Generated)]

processSourceLines(files, lines, s) ==
    IF ~s.ok \/ lines = <<>> THEN s
    ELSE processSourceLines(files, Tail(lines),
             IF isImport(Head(lines)) THEN Imported(files, ImportTarget(Head(lines)), s)
             ELSE [s EXCEPT !.lines = Append(@, Head(lines))])

resolveWithMap(files, root) ==
    processSourceLines(files, files[root],
        [lines |-> <<>>, included |-> {root}, stack |-> <<>>, ok |-> TRUE])
-----------------------------------------------------------------------------
(* Lexer. An error is reported and scanning goes on; all that matters of it*)
(* is that the front end gives up in the end.                              *)
Token(type, value) == [type |-> type, value |-> value]

addToken(s, type, value) == [s EXCEPT !.tokens = Append(@, Token(type, value))]
Reported(s)              == [s EXCEPT !.ok = FALSE]

LastType(s) == IF s.tokens = <<>> THEN "EOF" ELSE Last(s.tokens).type

(* The type list of a function that returns several values.                *)
isInBraceTypeContext(tokens) ==
    LET ends  == {k \in DOMAIN tokens : tokens[k].type \in {"{", "}", "NEWLINE", ":"}}
        brace == CHOOSE k \in ends : \A j \in ends : j <= k
    IN  /\ ends # {} /\ brace > 1
        /\ tokens[brace].type = "{" /\ tokens[brace - 1].type = "->"
        /\ \A k \in brace..Len(tokens) : tokens[k].type # "Return"

isTypeContext(s) ==
    \/ LastType(s) \in {":", "->"}
    \/ LastType(s) \in {"{", ","} /\ isInBraceTypeContext(s.tokens)

readAlphaNumeric(s, run) ==
    CASE run \in Numbers  -> addToken(s, "NUMBER", run)
      [] run \in Hexes    -> addToken(s, "HEX", run)
      [] run \in Keywords -> addToken(s, run, run)
      [] OTHER -> IF isTypeContext(s) THEN addToken(s, "TYPE", run)
                  ELSE IF run \in Names THEN addToken(s, "IDENTIFIER", run)
                  ELSE Reported(s)

readString(s, piece) ==
    CASE piece \in Addresses -> addToken(s, "ADDRESS", piece)
      [] piece \in Strings \ Addresses -> addToken(s, "STRING", piece)
      [] OTHER -> Reported(s)

(* scanToken: the longest mark that can be read is.                        *)
RECURSIVE scanTokens(_, _, _)
scanTokens(s, line, at) ==
    IF ~s.ok \/ at > Len(line) \/ (at <= Len(line) /\ line[at] = "#") THEN s
    ELSE IF at < Len(line) /\ <<line[at], line[at + 1]>> \in Pairs
    THEN scanTokens(addToken(s, line[at] \o line[at + 1], line[at] \o line[at + 1]), line, at + 2)
    ELSE scanTokens(
             CASE line[at] = " " -> s
               [] line[at] \in Marks -> addToken(s, line[at], line[at])
               [] line[at] = "!" -> Reported(s)
               [] line[at] \in Strings \cup Addresses \cup {"\""} -> readString(s, line[at])
               [] OTHER -> readAlphaNumeric(s, line[at]),
             line, at + 1)

(* handleIndentation: the levels that the line leaves, and an error if its *)
(* own is none of those that are left.                                     *)
MutHandleIndentation(s, new) ==
    LET kept == SelectSeq(s.indents, LAMBDA level : level <= new)
        left == Len(s.indents) - Len(kept)
        t    == [s EXCEPT !.indents = kept,
                          !.tokens = @ \o [k \in 1..left |-> Token("DEDENT", "")]]
        level == IF kept = <<>> THEN 0 ELSE Last(kept)
    IN  CASE left = 0 /\ new > level ->
                 addToken([s EXCEPT !.indents = Append(@, new)], "INDENT", "")
          [] OTHER -> t
handleIndentation(s, new) ==
    LET kept == SelectSeq(s.indents, LAMBDA level : level <= new)
        left == Len(s.indents) - Len(kept)
        t    == [s EXCEPT !.indents = kept,
                          !.tokens = @ \o [k \in 1..left |-> Token("DEDENT", "")]]
        level == IF kept = <<>> THEN 0 ELSE Last(kept)
    IN  CASE left = 0 /\ new > level ->
                 addToken([s EXCEPT !.indents = Append(@, new)], "INDENT", "")
          [] left > 0 /\ new # level -> Reported(t)
          [] OTHER -> t

scanLine(s, line, isFirst) ==
    addToken(scanTokens(IF isFirst \/ isEmptyOrComment(line) THEN s
                        ELSE handleIndentation(s, IndentOf(line)), line, 1),
             "NEWLINE", "")

RECURSIVE scanLines(_, _, _)
scanLines(s, lines, at) ==
    IF ~s.ok \/ at > Len(lines) THEN s
    ELSE scanLines(scanLine(s, lines[at], at = 1), lines, at + 1)

(* Every line ends in a line break, since the import resolver wrote it.    *)
tokenize(lines) ==
    LET s == scanLines([tokens |-> <<>>, indents |-> <<>>, ok |-> TRUE], lines, 1)
    IN  [tokens |-> s.tokens \o [k \in 1..Len(s.indents) |-> Token("DEDENT", "")]
                        \o <<Token("EOF", "")>>,
         ok |-> s.ok]
=============================================================================
