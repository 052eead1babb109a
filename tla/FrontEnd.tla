-------------------------------- MODULE FrontEnd --------------------------------
(***************************************************************************)
(* src/src/compiler/frontend_pipeline.cpp: a source is written, imports are*)
(* resolved, and the passes make tokens and a tree of it, in which the     *)
(* libraries and the global constants are put in their places and what can *)
(* be computed is. The author starts from some lines and adds at most so   *)
(* many lines and words to them. What the tree is to mean is read off the  *)
(* lines by Grammar, what a function is to give off the tree by the        *)
(* interpreter.                                                            *)
(***************************************************************************)
EXTENDS Grammar, ConstantFolder, ASTInterpreter

CONSTANTS
    Sources,   \* by name: [files, head, starts, lines, words, tail, most,
               \*   calls]: what the last function is called with, if at all
    Excluded   \* disagreements that are left out, see Differs

VARIABLES
    source,    \* the name of what is being written
    written,   \* the lines of the author
    room,      \* what he may still add
    phase,     \* how far the pipeline has come
    text,      \* the lines with the imported ones
    tokens,
    tree,
    parsed     \* the tree as the parser made it, of a source that is called

vars == <<source, written, room, phase, text, tokens, tree, parsed>>

Root == "root"

(* The files as the author means them, and as they lie on the disk.        *)
Files ==
    [f \in DOMAIN Sources[source].files \cup {Root} |->
        IF f = Root THEN Sources[source].head \o written \o Sources[source].tail
        ELSE Sources[source].files[f]]
OnDisk(files) == [f \in DOMAIN files |-> [k \in DOMAIN files[f] |-> Printed(files[f][k])]]

Init ==
    /\ source \in DOMAIN Sources
    /\ written \in Sources[source].starts /\ room = Sources[source].most
    /\ phase = "writing"
    /\ text = <<>> /\ tokens = <<>> /\ tree = Absent /\ parsed = Absent
-----------------------------------------------------------------------------
WriteLine(line) ==
    /\ phase = "writing" /\ room > 0
    /\ written' = Append(written, line) /\ room' = room - 1
    /\ UNCHANGED <<source, phase, text, tokens, tree, parsed>>

(* Words at the end of the last line.                                      *)
WriteWords(words) ==
    /\ phase = "writing" /\ room > 0
    /\ written' = Append(Front(written), [Last(written) EXCEPT !.words = @ \o words])
    /\ room' = room - 1
    /\ UNCHANGED <<source, phase, text, tokens, tree, parsed>>

Expand(expanded) ==
    /\ phase' = IF expanded.ok THEN "expanded" ELSE "refused"
    /\ text' = IF expanded.ok THEN expanded.lines ELSE <<>>
ResolveImports ==
    /\ phase = "writing"
    /\ Expand(resolveWithMap(OnDisk(Files), Root))
    /\ UNCHANGED <<source, written, room, tokens, tree, parsed>>

Tokenized(scanned) ==
    /\ phase' = IF scanned.ok THEN "scanned" ELSE "refused"
    /\ tokens' = IF scanned.ok THEN scanned.tokens ELSE <<>>
LexerPass ==
    /\ phase = "expanded"
    /\ Tokenized(tokenize(text))
    /\ text' = <<>>
    /\ UNCHANGED <<source, written, room, tree, parsed>>

Parsed(contract) ==
    /\ phase' = IF contract.at # 0 THEN "parsed" ELSE "refused"
    /\ tree' = IF contract.at # 0 THEN contract.node ELSE Absent
    /\ parsed' = IF Sources[source].calls # {} THEN tree' ELSE Absent
ParserPass ==
    /\ phase = "scanned"
    /\ Parsed(parseContract(tokens))
    /\ tokens' = <<>>
    /\ UNCHANGED <<source, written, room, text>>

(* The passes behind the parser, for the sources that are called.          *)
Resolves(result) ==
    /\ phase' = IF result.ok THEN "resolved" ELSE "ambiguous"
    /\ tree' = IF result.ok THEN result.tree ELSE Absent
ResolveGlobals ==
    /\ phase = "parsed" /\ Sources[source].calls # {}
    /\ Resolves(resolve(mergeIntoContract(tree)))
    /\ UNCHANGED <<source, written, room, text, tokens, parsed>>

Folds(result) ==
    /\ phase' = IF result.ok THEN "folded" ELSE "uncomputable"
    /\ tree' = IF result.ok THEN result.tree ELSE Absent
FoldConstants ==
    /\ phase = "resolved"
    /\ Folds(fold(tree))
    /\ UNCHANGED <<source, written, room, text, tokens, parsed>>

Next ==
    \/ \E line \in Sources[source].lines : WriteLine(line)
    \/ \E words \in Sources[source].words : WriteWords(words)
    \/ ResolveImports
    \/ LexerPass
    \/ ParserPass
    \/ ResolveGlobals
    \/ FoldConstants

Spec == Init /\ [][Next]_vars
-----------------------------------------------------------------------------
(* The files read out: every line where the import stands that brings it,  *)
(* a file that is imported more than once where the first of them stands.  *)
ImportOf(line) ==
    IF Len(WordsOf(line)) = 2 /\ line.words[1] = "import" THEN line.words[2] ELSE ""
Readable(files, file) ==
    \A k \in DOMAIN files[file] :
        LET target == ImportOf(files[file][k])
        IN  target # "" => target \in DOMAIN Targets /\ Targets[target] \in DOMAIN files
ImportedBy(files, file) ==
    {Targets[ImportOf(files[file][k])] :
        k \in {j \in DOMAIN files[file] : ImportOf(files[file][j]) # ""}} \ {Root}

RECURSIVE ReachedIn(_, _, _)
ReachedIn(files, from, n) ==
    IF n = 0 \/ \E file \in from : ~Readable(files, file) THEN from
    ELSE ReachedIn(files, from \cup UNION {ImportedBy(files, file) : file \in from}, n - 1)
Reached(files, from) == ReachedIn(files, from, Cardinality(DOMAIN files))

Resolvable(files) ==
    /\ \A file \in Reached(files, {Root}) : Readable(files, file)
    /\ \A file \in Reached(files, {Root}) \ {Root} :
           file \notin Reached(files, ImportedBy(files, file))

RECURSIVE Unfolded(_, _)
Unfolded(files, file) ==
    FlattenSeq([k \in DOMAIN files[file] |->
        IF ImportOf(files[file][k]) = "" THEN <<<<file, k>>>>
        ELSE <<<<file, k>>>> \o
             (IF Targets[ImportOf(files[file][k])] = Root THEN <<>>
              ELSE Unfolded(files, Targets[ImportOf(files[file][k])]))])
FirstOnly(places) ==
    LET first == {k \in DOMAIN places : \A j \in 1..k - 1 : places[j] # places[k]}
        order == Ascending(first, Len(places))
    IN  [n \in DOMAIN order |-> places[order[n]]]

(* An import itself is an empty line to the rest.                          *)
LineAt(files, place) ==
    LET line == files[place[1]][place[2]]
    IN  IF ImportOf(line) = "" THEN line ELSE Line(0, <<>>)
Reading(files) ==
    LET places == FirstOnly(Unfolded(files, Root))
    IN  [n \in DOMAIN places |-> LineAt(files, places[n])]

(* Where the code is known to refuse or take what the grammar does not.    *)
(* "importComment": a comment behind an import makes it one no longer.     *)
(* "structGap": an empty line below the head of a struct. "anonymousEnd":  *)
(* a block without a head that an empty line follows, or that ends in a    *)
(* statement that leaves its line end. "noLineEnd": such a statement with  *)
(* another one behind it in its line.                                      *)
Endless(ws) == ws # <<>> /\ ws[1] \in {"Return", "return", "{"}
IsAnonymous(lines, k) ==
    /\ Children(lines, k) # <<>>
    /\ Last(WordsOf(lines[k])) # ":"
LastBelow(lines, k) == Children(lines, k)[Len(Children(lines, k))]
RefusedAnyway(lines) ==
    \/ /\ "structGap" \in Excluded
       /\ \E k \in Written(lines) : /\ k < Len(lines) /\ k + 1 \notin Written(lines)
                                    /\ IsHead(WordsOf(lines[k]), "Struct")
    \/ /\ "anonymousEnd" \in Excluded
       /\ \E k \in Written(lines) :
              /\ IsAnonymous(lines, k)
              /\ \/ LastBelow(lines, k) + 1 \in DOMAIN lines \ Written(lines)
                 \/ Endless(WordsOf(lines[LastBelow(lines, k)]))
RunsOn(ws) ==
    /\ Endless(ws) /\ ~IsRight(SimpleOf(ws))
    /\ \E n \in 2..Len(ws) - 1 : IsRight(SimpleOf(SubSeq(ws, 1, n)))
TakenAnyway(lines) ==
    "noLineEnd" \in Excluded /\ \E k \in Written(lines) : RunsOn(WordsOf(lines[k]))
Uncommented(files) ==
    "importComment" \in Excluded =>
        \A f \in DOMAIN files : \A k \in DOMAIN files[f] :
            ImportOf(files[f][k]) # "" => Len(files[f][k].words) = 2

ParsedOrRefused(lines, meaning) ==
    \/ phase = "parsed" /\ (tree = meaning \/ TakenAnyway(lines))
    \/ phase = "refused" /\ (~IsRight(meaning) \/ RefusedAnyway(lines))
ReadAsWritten(lines) == ParsedOrRefused(lines, Meaning(lines))

(* A source is accepted exactly if it means something, and its tree is what*)
(* it means: every file once, a file that imports itself never, every line *)
(* in the block its indentation says, every operator with the operands its *)
(* precedence gives it.                                                    *)
ParsedAsWritten ==
    phase \in {"parsed", "refused"} /\ Uncommented(Files) =>
        IF Resolvable(Files) THEN ReadAsWritten(Reading(Files)) ELSE phase = "refused"
-----------------------------------------------------------------------------
(* What the last function of a contract gives, its globals being variables *)
(* of everybody.                                                           *)
GlobalsOf(contract) ==
    [x \in NamesOfConstants(contract) |->
        Available(evalLiteral(Started(EmptyScope, <<>>), ConstantNamed(contract, x)).value)]
Calling(functions, args, globals) == run(functions, Last(functions).name, args, globals)
SameOutcomes(original, folded, globals) ==
    \/ original = folded /\ DOMAIN globals = {}
    \/ \A args \in Sources[source].calls :
           Calling(original, args, globals) = Calling(folded, args, EmptyScope)

RECURSIVE Operates(_)
Operates(node) == node.kind = "op" \/ \E k \in DOMAIN node.parts : Operates(node.parts[k])

(* How often a name is given a meaning.                                    *)
GivenBy(node) ==
    CASE node.kind \in {"function", "struct", "global", "binding", "for", "declare", "arraydecl"} ->
             {node.name}
      [] node.kind = "assign"      -> NamesIn(node.parts[1])
      [] node.kind = "destructure" -> UNION {NamesIn(node.parts[k]) : k \in 1..Len(node.parts) - 1}
      [] OTHER -> {}
RECURSIVE TimesBound(_, _)
TimesBound(x, node) ==
    (IF x \in GivenBy(node) THEN 1 ELSE 0)
    + Total([k \in DOMAIN node.parts |-> TimesBound(x, node.parts[k])])

(* What a folded contract gives is what its author's gives; a name the      *)
(* resolver will not tell apart is bound more than once, and only an        *)
(* operator is uncomputable.                                                *)
FoldedAsWritten ==
    CASE phase = "folded" ->
             SameOutcomes(Functions(mergeIntoContract(parsed)), Functions(tree), GlobalsOf(parsed))
      [] phase = "ambiguous" -> \E x \in NamesOfConstants(parsed) : TimesBound(x, parsed) > 1
      [] phase = "uncomputable" -> Operates(parsed)
      [] OTHER -> TRUE
=============================================================================
