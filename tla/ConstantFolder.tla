---------------------------- MODULE ConstantFolder ----------------------------
(***************************************************************************)
(* The passes over the tree of a contract before its code is generated:    *)
(* src/src/compiler/library_merger.cpp moves the members of the libraries  *)
(* into the contract, global_constant_resolver.cpp puts the literals of    *)
(* the global constants where they are used, constant_folder.cpp computes  *)
(* what is known and leaves out what cannot be reached or read.            *)
(***************************************************************************)
EXTENDS Parser, ScriptNumbers

IsLiteralNode(e) == e.kind \in Literals
MembersIn(contract)   == contract.parts[3].parts
ConstantsIn(contract) == contract.parts[2].parts
IsFunction(m)       == m.kind = "function"
Functions(contract) == SelectSeq(MembersIn(contract), IsFunction)

(* Every part of a node, each by an operator of its own.                   *)
WithParts(node, parts) == [node EXCEPT !.parts = parts]

mergeIntoContract(contract) ==
    LET ofLibraries == [k \in DOMAIN contract.parts[1].parts |-> contract.parts[1].parts[k].parts]
    IN  WithParts(contract,
            <<NodeList(<<>>), contract.parts[2],
              NodeList(FlattenSeq(ofLibraries) \o MembersIn(contract))>>)

literalAsInt(e) ==
    IF e.kind = "NUMBER" /\ e.name \in DOMAIN stoll THEN stoll[e.name] ELSE NoNumber
NumberLiteral(v) == Leaf("NUMBER", ToString(v))
-----------------------------------------------------------------------------
(* GlobalConstantResolver. The first of several constants of a name counts,*)
(* and any error leaves the tree as it was.                                *)
RECURSIVE assignmentRootIdentifier(_)
assignmentRootIdentifier(e) ==
    CASE e.kind = "name" -> {e.name}
      [] e.kind \in {"field", "index"} -> assignmentRootIdentifier(e.parts[1])
      [] OTHER -> {}

RECURSIVE BoundBy(_)
BoundBy(s) ==
    CASE s.kind = "block" -> UNION {BoundBy(s.parts[k]) : k \in DOMAIN s.parts}
      [] s.kind = "if"    -> BoundBy(s.parts[2]) \cup BoundBy(s.parts[3])
      [] s.kind = "for"   -> {s.name} \cup BoundBy(s.parts[2])
      [] s.kind \in {"declare", "arraydecl"} -> {s.name}
      [] s.kind = "assign" -> assignmentRootIdentifier(s.parts[1])
      [] s.kind = "destructure" -> {s.parts[k].name : k \in 1..Len(s.parts) - 1}
      [] OTHER -> {}
BoundInFunction(f) ==
    {f.parts[1].parts[k].name : k \in DOMAIN f.parts[1].parts} \cup BoundBy(f.parts[3])

validateInitializer(e) == e.kind = "NUMBER" => literalAsInt(e) # NoNumber

MutConflicts(contract, names) ==
    \/ \E k \in DOMAIN MembersIn(contract) : MembersIn(contract)[k].name \in names
    \/ \E k \in DOMAIN Functions(contract) :
           {Functions(contract)[k].parts[1].parts[j].name :
               j \in DOMAIN Functions(contract)[k].parts[1].parts} \cap names # {}
Conflicts(contract, names) ==
    \/ \E k \in DOMAIN MembersIn(contract) : MembersIn(contract)[k].name \in names
    \/ \E k \in DOMAIN Functions(contract) :
           BoundInFunction(Functions(contract)[k]) \cap names # {}
Misdeclared(constants) ==
    \/ \E j, k \in DOMAIN constants : j # k /\ constants[j].name = constants[k].name
    \/ \E k \in DOMAIN constants : ~validateInitializer(constants[k].parts[1])

(* The literals of the constants, by name.                                 *)
NamesOfConstants(contract) == {ConstantsIn(contract)[k].name : k \in DOMAIN ConstantsIn(contract)}
ConstantNamed(contract, name) ==
    ConstantsIn(contract)[CHOOSE k \in DOMAIN ConstantsIn(contract) :
                            ConstantsIn(contract)[k].name = name].parts[1]
LiteralsOf(contract) == [x \in NamesOfConstants(contract) |-> ConstantNamed(contract, x)]

RECURSIVE rewriteExpression(_, _), rewriteAssignmentTarget(_, _), rewriteStatement(_, _)
rewriteExpression(literals, e) ==
    IF e.kind = "name" THEN IF e.name \in DOMAIN literals THEN literals[e.name] ELSE e
    ELSE WithParts(e, [k \in DOMAIN e.parts |-> rewriteExpression(literals, e.parts[k])])

(* A target is a place: only what is computed on the way to it is a value. *)
rewriteAssignmentTarget(literals, e) ==
    CASE e.kind = "field" -> WithParts(e, <<rewriteAssignmentTarget(literals, e.parts[1])>>)
      [] e.kind = "index" -> WithParts(e, <<rewriteAssignmentTarget(literals, e.parts[1]),
                                            rewriteExpression(literals, e.parts[2])>>)
      [] OTHER -> e

rewriteStatement(literals, s) ==
    WithParts(s,
        CASE s.kind = "block" ->
                 [k \in DOMAIN s.parts |-> rewriteStatement(literals, s.parts[k])]
          [] s.kind = "if" ->
                 <<rewriteExpression(literals, s.parts[1]),
                   rewriteStatement(literals, s.parts[2]), rewriteStatement(literals, s.parts[3])>>
          [] s.kind = "for" ->
                 <<rewriteExpression(literals, s.parts[1]), rewriteStatement(literals, s.parts[2])>>
          [] s.kind = "assign" ->
                 <<rewriteAssignmentTarget(literals, s.parts[1]),
                   rewriteExpression(literals, s.parts[2])>>
          [] s.kind = "destructure" ->
                 Append(Front(s.parts), rewriteExpression(literals, Last(s.parts)))
          [] OTHER -> [k \in DOMAIN s.parts |-> rewriteExpression(literals, s.parts[k])])

(* What is done to the body of every function, to the contract.            *)
WithMembers(contract, members) ==
    WithParts(contract, <<contract.parts[1], contract.parts[2], NodeList(members)>>)
rewriteFunction(literals, m) ==
    IF IsFunction(m)
    THEN WithParts(m, <<m.parts[1], m.parts[2], rewriteStatement(literals, m.parts[3])>>)
    ELSE m
rewriteFunctions(contract, literals) ==
    WithMembers(contract,
        [k \in DOMAIN MembersIn(contract) |-> rewriteFunction(literals, MembersIn(contract)[k])])

resolve(contract) ==
    IF Misdeclared(ConstantsIn(contract)) \/ Conflicts(contract, NamesOfConstants(contract))
    THEN [ok |-> FALSE, tree |-> contract]
    ELSE [ok |-> TRUE, tree |-> rewriteFunctions(contract, LiteralsOf(contract))]
-----------------------------------------------------------------------------
(* StaticIntegerEvaluator, with no name known.                             *)
Known(v) == [kind |-> "Known", value |-> v]
Unknown  == [kind |-> "Unknown", value |-> 0]
Fails    == [kind |-> "Error", value |-> 0]
KnownUnless(v) == IF v = NoNumber THEN Fails ELSE Known(v)

Negation(r) ==
    IF r.kind = "Known" THEN KnownUnless(checkedSubtract(0, r.value)) ELSE r
Calculated(op, r, t) ==
    CASE "Error" \in {r.kind, t.kind} -> Fails
      [] r.kind = "Known" /\ t.kind = "Known" -> KnownUnless(evaluateOperator(op, r.value, t.value))
      [] OTHER -> Unknown

RECURSIVE evaluate(_)
evaluate(e) ==
    CASE e.kind = "NUMBER" -> KnownUnless(literalAsInt(e))
      [] e.kind = "op" /\ Len(e.parts) = 1 -> Negation(evaluate(e.parts[1]))
      [] e.kind = "op" /\ Len(e.parts) = 2 ->
             Calculated(e.name, evaluate(e.parts[1]), evaluate(e.parts[2]))
      [] e.kind = "method" /\ e.name = "Clone" /\ Len(e.parts) = 1 -> evaluate(e.parts[1])
      [] OTHER -> Unknown
-----------------------------------------------------------------------------
(* ConstantFolder. What is known while a function is folded: the literal,  *)
(* or the array of literals, of a name; the names declared in the blocks   *)
(* that are open; and whether an error was reported. A result adds the     *)
(* folded node, or nodes.                                                  *)
Folded(f, node) == [f |-> f, node |-> node]
Nodes(f)        == [f |-> f, nodes |-> <<>>]
And(r, one)     == [f |-> one.f, nodes |-> Append(r.nodes, one.node)]

invalidateNames(f, names) ==
    [f EXCEPT !.known = [x \in DOMAIN f.known \ names |-> f.known[x]]]
recordConstant(f, x, node) == [f EXCEPT !.known = (x :> node) @@ f.known]
recordDeclaration(f, x)    == [f EXCEPT !.declared[Len(f.declared)] = @ \cup {x}]

isNameVisible(names, f, x) ==
    x \in names.parameters \/ \E k \in DOMAIN f.declared : x \in f.declared[k]

(* What was known of the names of a block before it is known again.        *)
restoreDeclaredNames(f, entry, names) ==
    [f EXCEPT !.known =
        [x \in (DOMAIN f.known \ names) \cup (DOMAIN entry.known \cap names) |->
            IF x \in names THEN entry.known[x] ELSE f.known[x]]]
EnterScope(f) == [f EXCEPT !.declared = Append(@, {})]
LeaveScope(f, entry) ==
    restoreDeclaredNames([f EXCEPT !.declared = Front(@)], entry, Last(f.declared))

(* Where two branches meet.                                                *)
MutMergeEnvironments(then, else) ==
    [else EXCEPT !.known =
        [x \in {y \in DOMAIN then.known : y \notin DOMAIN else.known
                                          \/ then.known[y] = else.known[y]} |-> then.known[x]]]
mergeEnvironments(then, else) ==
    [else EXCEPT !.known =
        [x \in {y \in DOMAIN then.known \cap DOMAIN else.known :
                    then.known[y] = else.known[y]} |-> then.known[x]]]

isIdentitySensitiveCall(name) == name \in {"Delete", "Keep", "Move", "SetAlt", "SetMain"}

(* How each part of an expression is used: as a value, as a place, or as a *)
(* variable that must keep its name.                                       *)
ContextsOf(e, context) ==
    LET ofBase == IF context = "RValue" THEN "RValue" ELSE "Identity"
    IN  [k \in DOMAIN e.parts |->
            CASE e.kind = "op" -> context
              [] e.kind = "call" ->
                     IF isIdentitySensitiveCall(e.name) THEN "Identity" ELSE context
              [] e.kind = "method" -> IF k = 1 THEN "Identity" ELSE "RValue"
              [] e.kind \in {"field", "index"} -> IF k = 1 THEN ofBase ELSE "RValue"
              [] OTHER -> "RValue"]

tryFoldOp(f, e, result) ==
    CASE result.kind = "Error"   -> Folded([f EXCEPT !.ok = FALSE], e)
      [] result.kind = "Known"   -> Folded(f, NumberLiteral(result.value))
      [] result.kind = "Unknown" -> Folded(f, e)

KnownArray(f, base) == base.kind = "name" /\ base.name \in DOMAIN f.known
                       /\ f.known[base.name].kind = "array"
KnownElement(f, e) ==
    /\ KnownArray(f, e.parts[1])
    /\ literalAsInt(e.parts[2]) \in Signed
    /\ literalAsInt(e.parts[2]) + 1 \in DOMAIN f.known[e.parts[1].name].parts
ElementOf(f, e) == f.known[e.parts[1].name].parts[literalAsInt(e.parts[2]) + 1]

RootsOf(parts) == UNION {assignmentRootIdentifier(parts[k]) : k \in DOMAIN parts}

(* An expression whose parts are folded.                                   *)
Rewritten(f, e, context) ==
    CASE e.kind = "op" /\ context = "RValue" /\ (\A k \in DOMAIN e.parts : IsLiteralNode(e.parts[k])) ->
             tryFoldOp(f, e, evaluate(e))
      [] e.kind = "call" /\ isIdentitySensitiveCall(e.name) ->
             Folded(invalidateNames(f, RootsOf(e.parts)), e)
      [] e.kind = "method" -> Folded(invalidateNames(f, RootsOf(<<e.parts[1]>>)), e)
      [] e.kind = "index" /\ context = "RValue" /\ KnownElement(f, e) ->
             Folded(f, ElementOf(f, e))
      [] e.kind = "name" /\ context = "RValue" /\ e.name \in DOMAIN f.known ->
             Folded(f, IF IsLiteralNode(f.known[e.name]) THEN f.known[e.name] ELSE e)
      [] OTHER -> Folded(f, e)

RECURSIVE foldExpr(_, _, _), FoldRest(_, _, _)
FoldRest(r, parts, contexts) ==
    IF Len(r.nodes) = Len(parts) THEN r
    ELSE FoldRest(And(r, foldExpr(r.f, parts[Len(r.nodes) + 1], contexts[Len(r.nodes) + 1])),
                  parts, contexts)
FoldParts(f, parts, contexts) == FoldRest(Nodes(f), parts, contexts)
WithFoldedParts(r, e, context) == Rewritten(r.f, WithParts(e, r.nodes), context)
foldExpr(f, e, context) ==
    WithFoldedParts(FoldParts(f, e.parts, ContextsOf(e, context)), e, context)
-----------------------------------------------------------------------------
(* How often a name is written in a function, where a loop counts more than*)
(* once, and the names that are read.                                      *)
RECURSIVE assignCount(_, _), NamesIn(_), ReadBy(_)
Total(numbers) == FoldLeft(LAMBDA n, k : n + k, 0, numbers)
Times(x, names) == Len(SelectSeq(names, LAMBDA y : y = x))
InLoop(n) == IF n > 0 THEN n + 1 ELSE 0
assignCount(x, s) ==
    CASE s.kind = "block" -> Total([k \in DOMAIN s.parts |-> assignCount(x, s.parts[k])])
      [] s.kind = "if"    -> assignCount(x, s.parts[2]) + assignCount(x, s.parts[3])
      [] s.kind = "for"   -> 2 * Times(x, <<s.name>>) + InLoop(assignCount(x, s.parts[2]))
      [] s.kind \in {"declare", "arraydecl"} -> Times(x, <<s.name>>)
      [] s.kind = "assign" -> IF x \in assignmentRootIdentifier(s.parts[1]) THEN 1 ELSE 0
      [] s.kind = "destructure" ->
             Times(x, [k \in 1..Len(s.parts) - 1 |-> s.parts[k].name])
      [] OTHER -> 0

NamesIn(e) ==
    (IF e.kind = "name" THEN {e.name} ELSE {}) \cup UNION {NamesIn(e.parts[k]) : k \in DOMAIN e.parts}

(* Of a target only the last index is read.                                *)
ReadBy(s) ==
    CASE s.kind = "block" -> UNION {ReadBy(s.parts[k]) : k \in DOMAIN s.parts}
      [] s.kind = "if"    -> NamesIn(s.parts[1]) \cup ReadBy(s.parts[2]) \cup ReadBy(s.parts[3])
      [] s.kind = "for"   -> NamesIn(s.parts[1]) \cup ReadBy(s.parts[2])
      [] s.kind = "assign" ->
             NamesIn(s.parts[2])
                 \cup (IF s.parts[1].kind = "index" THEN NamesIn(s.parts[1].parts[2]) ELSE {})
      [] s.kind = "destructure" -> NamesIn(Last(s.parts))
      [] OTHER -> UNION {NamesIn(s.parts[k]) : k \in DOMAIN s.parts}

AssignedOnce(names, x) == assignCount(x, names.body) = 1
-----------------------------------------------------------------------------
(* Statements. What is left out becomes Absent, and its block drops it.    *)
RECURSIVE foldStmt(_, _, _), foldStmts(_, _, _)

FoldedBlock(r, entry, block) ==
    Folded(LeaveScope(r.f, entry),
           WithParts(block, SelectSeq(r.nodes, LAMBDA s : s # Absent)))
foldStmts(names, r, statements) ==
    IF Len(r.nodes) = Len(statements) THEN r
    ELSE foldStmts(names, And(r, foldStmt(names, r.f, statements[Len(r.nodes) + 1])), statements)
foldBlock(names, f, block) ==
    FoldedBlock(foldStmts(names, Nodes(EnterScope(f)), block.parts), f, block)

(* A condition that is a number takes its branch; otherwise both begin with*)
(* what is known before.                                                   *)
Joined(condition, then, else) ==
    Folded(mergeEnvironments(then.f, else.f),
           Node("if", "", <<condition, then.node, else.node>>))
Branched(names, entry, condition, then, s) ==
    Joined(condition, then,
           foldStmt(names, [entry EXCEPT !.ok = then.f.ok], s.parts[3]))
foldIf(names, condition, s) ==
    IF literalAsInt(condition.node) \in Signed
    THEN foldStmt(names, condition.f,
                  IF literalAsInt(condition.node) # 0 THEN s.parts[2] ELSE s.parts[3])
    ELSE Branched(names, condition.f, condition.node,
                  foldStmt(names, condition.f, s.parts[2]), s)

(* Range(stop), Range(start, stop), Range(start, stop, step).              *)
Bounds(values) ==
    CASE Len(values) = 1 -> <<0, values[1], 1>>
      [] Len(values) = 2 -> <<values[1], values[2], 1>>
      [] Len(values) = 3 -> values
IsEmptyPlan(bounds) == bounds[3] # 0 /\ build(bounds[1], bounds[2], bounds[3]) = 0
IsEmptyRange(e) ==
    LET results == [k \in DOMAIN e.parts |-> evaluate(e.parts[k])]
    IN  /\ e.kind = "call" /\ e.name = "Range" /\ Len(e.parts) \in 1..3
        /\ \A k \in DOMAIN results : results[k].kind = "Known"
        /\ IsEmptyPlan(Bounds([k \in DOMAIN results |-> results[k].value]))

(* The target is a variable of the loop unless there is one of its name    *)
(* already; either way every round writes it.                              *)
EnterLoop(names, f, x) ==
    LET inner == EnterScope(f)
    IN  invalidateNames(IF isNameVisible(names, f, x) THEN inner ELSE recordDeclaration(inner, x),
                        {x})
LeftLoop(entry, iterable, body, x) ==
    Folded(LeaveScope(body.f, entry), Node("for", x, <<iterable, body.node>>))
foldFor(names, iterable, s) ==
    IF IsEmptyRange(iterable.node) THEN Folded(iterable.f, Absent)
    ELSE LeftLoop(iterable.f, iterable.node,
                  foldBlock(names, EnterLoop(names, iterable.f, s.name), s.parts[2]), s.name)

(* A variable that is declared and neither written again nor read is left  *)
(* out; one that is not written again is known if its value is.            *)
IsDead(names, x, value) ==
    /\ AssignedOnce(names, x) /\ x \notin names.read
    /\ (value = Absent \/ IsLiteralNode(value))
MutIsConstant(names, x, value) == IsLiteralNode(value)
IsConstant(names, x, value) == AssignedOnce(names, x) /\ IsLiteralNode(value)
Declared(f, x) == invalidateNames(recordDeclaration(f, x), {x})
foldVarDecl(names, value, s) ==
    CASE IsDead(names, s.name, value.node) -> Folded(value.f, Absent)
      [] OTHER ->
             Folded(IF IsConstant(names, s.name, value.node)
                    THEN recordConstant(Declared(value.f, s.name), s.name, value.node)
                    ELSE Declared(value.f, s.name),
                    WithParts(s, <<s.parts[1], value.node>>))

(* The type of an array holds its size, the elements are folded as they    *)
(* stand in the literal.                                                   *)
IsConstantArray(names, x, array) ==
    /\ AssignedOnce(names, x) /\ array # Absent
    /\ \A k \in DOMAIN array.parts : IsLiteralNode(array.parts[k])
foldArrayDecl(names, r, s) ==
    Folded(IF IsConstantArray(names, s.name, r.nodes[2])
           THEN recordConstant(Declared(r.f, s.name), s.name, r.nodes[2])
           ELSE Declared(r.f, s.name),
           WithParts(s, r.nodes))

Stored(r, s) ==
    Folded(invalidateNames(r.f, assignmentRootIdentifier(r.nodes[1])), WithParts(s, r.nodes))
Destructuring(r, s) ==
    Folded(invalidateNames(r.f, {s.parts[k].name : k \in 1..Len(s.parts) - 1}),
           WithParts(s, Append(Front(s.parts), r.node)))
WithFoldedPart(r, s) == Folded(r.f, WithParts(s, <<r.node>>))

foldStmt(names, f, s) ==
    CASE s = Absent          -> Folded(f, Absent)
      [] s.kind = "block"    -> foldBlock(names, f, s)
      [] s.kind = "if"       -> foldIf(names, foldExpr(f, s.parts[1], "RValue"), s)
      [] s.kind = "for"      -> foldFor(names, foldExpr(f, s.parts[1], "RValue"), s)
      [] s.kind = "assign"   -> Stored(FoldParts(f, s.parts, <<"LValue", "RValue">>), s)
      [] s.kind \in {"do", "Return"} -> WithFoldedPart(foldExpr(f, s.parts[1], "RValue"), s)
      [] s.kind = "return"   -> WithFoldedPart(foldExpr(f, s.parts[1], "Identity"), s)
      [] s.kind = "declare"  -> foldVarDecl(names, foldExpr(f, s.parts[2], "RValue"), s)
      [] s.kind = "arraydecl" -> foldArrayDecl(names, FoldParts(f, s.parts, <<"RValue", "RValue">>), s)
      [] s.kind = "destructure" -> Destructuring(foldExpr(f, Last(s.parts), "RValue"), s)

NamesOf(m) ==
    [parameters |-> {m.parts[1].parts[k].name : k \in DOMAIN m.parts[1].parts},
     body |-> m.parts[3], read |-> ReadBy(m.parts[3])]
NothingKnown == [known |-> <<>>, declared |-> <<>>, ok |-> TRUE]
FoldedFunction(r, m) ==
    [ok |-> r.f.ok, node |-> WithParts(m, <<m.parts[1], m.parts[2], r.node>>)]
foldFunction(m) ==
    IF IsFunction(m) THEN FoldedFunction(foldBlock(NamesOf(m), NothingKnown, m.parts[3]), m)
    ELSE [ok |-> TRUE, node |-> m]

FoldedMembers(contract, members) ==
    [ok |-> \A k \in DOMAIN members : members[k].ok,
     tree |-> WithMembers(contract, [k \in DOMAIN members |-> members[k].node])]
fold(contract) ==
    FoldedMembers(contract,
        [k \in DOMAIN MembersIn(contract) |-> foldFunction(MembersIn(contract)[k])])
=============================================================================
