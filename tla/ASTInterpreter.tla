---------------------------- MODULE ASTInterpreter ----------------------------
(***************************************************************************)
(* What a contract means: src/src/interpreter/ast_interpreter.cpp on the   *)
(* tree the parser made, src/src/interpreter/environment.cpp for its       *)
(* variables. A state holds the scopes, the global one first and the       *)
(* current one last; the value of the last expression, or the values of a  *)
(* list of them; and whether a Return was reached or an error thrown. Left *)
(* out: strings, addresses, structs, signatures and the builtin objects.   *)
(***************************************************************************)
EXTENDS Parser, RuntimeValues

CONSTANT BytesOf  \* the bytes of a hex literal, by its text

Throw(s)     == [s EXCEPT !.ok = FALSE]
Gives(s, v)  == [s EXCEPT !.value = v]
Unless(s, failed, t) == IF failed THEN Throw(s) ELSE t

(* What a builtin function or operator returned.                           *)
Finishes(s, r) ==
    Unless(s, ~r.ok, Gives(s, IF r.ok /\ r.values # <<>> THEN r.values[1] ELSE voidValue))
-----------------------------------------------------------------------------
(* Environment.                                                            *)
Available(v) == [value |-> v, ownership |-> "Available"]
EmptyScope   == [x \in {} |-> Available(voidValue)]
createChild(s)  == [s EXCEPT !.scopes = Append(@, EmptyScope)]
BackTo(s, depth) == [s EXCEPT !.scopes = SubSeq(@, 1, depth)]

(* tryResolve: the innermost scope that has the name.                      *)
ScopesWith(s, x) == {k \in DOMAIN s.scopes : x \in DOMAIN s.scopes[k]}
contains(s, x)   == ScopesWith(s, x) # {}
ScopeOf(s, x)    == CHOOSE k \in ScopesWith(s, x) : \A j \in ScopesWith(s, x) : j <= k
SlotOf(s, x)     == s.scopes[ScopeOf(s, x)][x]
isUsable(s, x)   == contains(s, x) /\ SlotOf(s, x).ownership = "Available"

define(s, scope, x, v) ==
    IF x \in DOMAIN s.scopes[scope] THEN Throw(s)
    ELSE [s EXCEPT !.scopes[scope] = (x :> Available(v)) @@ @]
assign(s, x, v) ==
    IF isUsable(s, x) THEN [s EXCEPT !.scopes[ScopeOf(s, x)][x] = Available(v)] ELSE Throw(s)
resolveName(s, x) == IF isUsable(s, x) THEN Gives(s, SlotOf(s, x).value) ELSE Throw(s)
Mark(s, x, ownership) == [s EXCEPT !.scopes[ScopeOf(s, x)][x].ownership = ownership]

assignIdentifier(s, x, v) ==
    IF contains(s, x) THEN assign(s, x, v) ELSE define(s, Len(s.scopes), x, v)
-----------------------------------------------------------------------------
(* evalStackTransferCall. SetAlt copies a variable into the global scope,  *)
(* SetMain takes it from there.                                            *)
SetAlt(s, x) ==
    IF ~isUsable(s, x) THEN Throw(s)
    ELSE IF x \in DOMAIN s.scopes[1]
    THEN Unless(s, s.scopes[1][x].ownership # "Available",
                Gives([s EXCEPT !.scopes[1][x].value = SlotOf(s, x).value], SlotOf(s, x).value))
    ELSE Gives(define(s, 1, x, SlotOf(s, x).value), SlotOf(s, x).value)
SetMain(s, x) ==
    IF x \notin DOMAIN s.scopes[1] THEN resolveName(s, x)
    ELSE IF s.scopes[1][x].ownership # "Available" THEN Throw(s)
    ELSE Gives(IF x \in DOMAIN s.scopes[Len(s.scopes)] THEN assign(s, x, s.scopes[1][x].value)
               ELSE define(s, Len(s.scopes), x, s.scopes[1][x].value),
               s.scopes[1][x].value)

TransferCalls == {"Delete", "Keep", "Move", "SetAlt", "SetMain"}
Transfer(name, s, x) ==
    CASE name = "Delete"  -> IF contains(s, x) THEN Gives(Mark(s, x, "Deleted"), voidValue)
                             ELSE Throw(s)
      [] name = "Keep"    -> resolveName(s, x)
      [] name = "Move"    -> IF isUsable(s, x)
                             THEN Gives(Mark(s, x, "Consumed"), SlotOf(s, x).value)
                             ELSE Throw(s)
      [] name = "SetAlt"  -> SetAlt(s, x)
      [] name = "SetMain" -> SetMain(s, x)
-----------------------------------------------------------------------------
(* Operators. Scalars are equal if their bytes are, arrays if their        *)
(* elements are.                                                           *)
RECURSIVE sameValue(_, _), bytesOfValue(_)
sameValue(x, y) ==
    IF x.type = "Array" /\ y.type = "Array"
    THEN Len(x.items) = Len(y.items)
         /\ \A k \in DOMAIN x.items : sameValue(x.items[k], y.items[k])
    ELSE "Array" \notin {x.type, y.type} /\ toScriptBytes(x) = toScriptBytes(y)

(* toScriptBytes: an array is its elements one behind the other.           *)
bytesOfValue(x) ==
    IF x.type = "Array"
    THEN FlattenSeq([k \in DOMAIN x.items |-> bytesOfValue(x.items[k])])
    ELSE toScriptBytes(x)

numberOf(x) == IF x.type = "Array" THEN NoNumber ELSE toScriptNum(x)
holds(x)    == IF x.type = "Array" THEN x.items # <<>> ELSE truthy(x)

Operated(s, op, x, y) ==
    CASE op \in {"==", "!="} -> Gives(s, fromBool(sameValue(x, y) = (op = "==")))
      [] OTHER -> IF "Array" \in {x.type, y.type} THEN Throw(s) ELSE Finishes(s, evalOp(op, x, y))
BinaryOp(s, op) == IF s.ok THEN Operated(s, op, s.list[1], s.list[2]) ELSE s
UnaryMinus(s) ==
    IF ~s.ok \/ numberOf(s.value) = NoNumber THEN Throw(s)
    ELSE Gives(s, fromInt(ToWord(-numberOf(s.value))))

Element(s, base, index) ==
    CASE index = NoNumber -> Throw(s)
      [] base.type = "Array" /\ index + 1 \in DOMAIN base.items -> Gives(s, base.items[index + 1])
      [] base.type = "Bytes" /\ index + 1 \in DOMAIN base.bytes ->
             Gives(s, fromInt(base.bytes[index + 1]))
      [] OTHER -> Throw(s)

(* The values of Range, which are counted in machine integers.             *)
kMaxRangeItems == 2 * SignBit  \* stands for a million
RECURSIVE CountedFrom(_, _, _, _)
CountedFrom(values, value, stop, step) ==
    IF Len(values) > kMaxRangeItems \/ ~Progresses(value, stop, step) THEN values
    ELSE CountedFrom(Append(values, fromInt(value)), ToWord(value + step), stop, step)
RangeBounds(n) ==
    CASE Len(n) = 1 -> <<0, n[1], 1>> [] Len(n) = 2 -> <<n[1], n[2], 1>> [] OTHER -> n
RangeItems(s, bounds) ==
    IF NoNumber \in Range(bounds) \/ bounds[3] = 0 THEN Throw(s)
    ELSE LET values == CountedFrom(<<>>, bounds[1], bounds[2], bounds[3])
         IN  Unless(s, Len(values) > kMaxRangeItems, Gives(s, fromArray(values)))
evalRange(s) ==
    IF ~s.ok \/ Len(s.list) \notin 1..3 THEN Throw(s)
    ELSE RangeItems(s, RangeBounds([k \in DOMAIN s.list |-> numberOf(s.list[k])]))

(* BuiltinRuntime: expectArgCount, then the function.                      *)
Arity(name) ==
    CASE name = "Slice" -> 3
      [] name \in {"Inc", "Dec", "Neg", "Abs", "BinToNum", "ZeroNotEqual", "Verify", "Not", "Size"} -> 1
      [] OTHER -> 2
isBuiltinFunction(name) ==
    name \in NumericFunctions \cup {"Equal", "EqualVerify", "Verify", "Not", "Cat", "Size", "Slice"}
Builtin(s, name) ==
    IF ~s.ok \/ Len(s.list) # Arity(name) \/ (\E k \in DOMAIN s.list : s.list[k].type = "Array")
    THEN Throw(s)
    ELSE Finishes(s, callFunction(name, s.list))
IndexAccess(s) == IF s.ok THEN Element(s, s.list[1], numberOf(s.list[2])) ELSE s

FieldAccess(s, field) ==
    CASE ~s.ok -> s
      [] field \notin {"Size", "size", "Length", "length"} -> Throw(s)
      [] s.value.type = "Array" -> Gives(s, fromInt(Len(s.value.items)))
      [] s.value.type = "Bytes" -> Gives(s, fromInt(Len(s.value.bytes)))
      [] OTHER -> Throw(s)

defaultValueForType(type) ==
    IF type \in SizedTypes \cup {"hex"} THEN fromBytes(<<>>) ELSE fromInt(0)
firstOrAggregateReturn(values) ==
    CASE values = <<>>    -> voidValue
      [] Len(values) = 1  -> values[1]
      [] Len(values) > 1  -> fromArray(values)
-----------------------------------------------------------------------------
(* Expressions. The functions of the contract are by their names.          *)
RECURSIVE evalExpr(_, _, _), evalRest(_, _, _), execStmt(_, _, _), execStmts(_, _, _)

(* Several expressions, one after the other.                               *)
Collected(list, s) == [s EXCEPT !.list = Append(list, s.value)]
evalRest(c, es, s) ==
    IF es = <<>> \/ ~s.ok THEN s
    ELSE evalRest(c, Tail(es), Collected(s.list, evalExpr(c, Head(es), s)))
evalAll(c, es, s) == evalRest(c, es, [s EXCEPT !.list = <<>>])

evalLiteral(s, e) ==
    CASE e.kind = "HEX" -> Gives(s, fromBytes(BytesOf[e.name]))
      [] e.kind = "NUMBER" /\ e.name \in DOMAIN stoll -> Gives(s, fromInt(stoll[e.name]))
      [] OTHER -> Throw(s)
evalArray(s) == Gives(s, fromArray(s.list))

evalStackTransferCall(c, e, s) ==
    CASE Len(e.parts) # 1 -> Throw(s)
      [] Len(e.parts) = 1 /\ e.parts[1].kind = "name" -> Transfer(e.name, s, e.parts[1].name)
      [] Len(e.parts) = 1 /\ e.parts[1].kind # "name" ->
             LET t == evalExpr(c, e.parts[1], s)
             IN  IF e.name = "Delete" THEN Gives(t, voidValue) ELSE t

(* ASTInterpreter::callFunction: the scope of the called function lies on  *)
(* those of its caller, whose variables it sees.                           *)
BindParameter(parameters, args, s, k) ==
    define(s, Len(s.scopes), parameters[k].name,
           IF k <= Len(args) THEN args[k] ELSE defaultValueForType(parameters[k].parts[1].name))
EnterFunction(parameters, args, s) ==
    FoldLeftDomain(LAMBDA t, k : IF t.ok THEN BindParameter(parameters, args, t, k) ELSE t,
                   createChild(s), parameters)
Left(s, depth) ==
    [BackTo(s, depth) EXCEPT
        !.flow = "Normal",
        !.values = IF s.flow = "Return" THEN s.values ELSE <<>>,
        !.value = IF s.flow = "Return" THEN firstOrAggregateReturn(s.values) ELSE voidValue]
execStmts(c, statements, s) ==
    IF statements = <<>> \/ ~s.ok \/ s.flow = "Return" THEN s
    ELSE execStmts(c, Tail(statements), execStmt(c, Head(statements), s))
callFunctionNode(c, f, s) ==
    IF ~s.ok \/ Len(s.list) > Len(f.parts[1].parts) THEN Throw(s)
    ELSE Left(execStmts(c, f.parts[3].parts, EnterFunction(f.parts[1].parts, s.list, s)),
              Len(s.scopes))

evalCall(c, e, s) ==
    CASE e.name = "Range"        -> evalRange(evalAll(c, e.parts, s))
      [] e.name \in TransferCalls -> evalStackTransferCall(c, e, s)
      [] isBuiltinFunction(e.name) -> Builtin(evalAll(c, e.parts, s), e.name)
      [] e.name \in DOMAIN c      -> callFunctionNode(c, c[e.name], evalAll(c, e.parts, s))
      [] OTHER                    -> Throw(s)

evalMethodCall(c, e, s) ==
    CASE e.name \in {"Clone", "Push"} -> IF Len(e.parts) = 1 THEN evalExpr(c, e.parts[1], s)
                                         ELSE Throw(s)
      [] isBuiltinFunction(e.name)  -> Builtin(evalAll(c, e.parts, s), e.name)
      [] OTHER                      -> Throw(s)

evalExpr(c, e, s) ==
    CASE ~s.ok -> s
      [] s.ok /\ e.kind \in {"NUMBER", "HEX", "STRING", "ADDRESS"} -> evalLiteral(s, e)
      [] s.ok /\ e.kind = "name"   -> resolveName(s, e.name)
      [] s.ok /\ e.kind = "op"     -> IF Len(e.parts) = 1 THEN UnaryMinus(evalExpr(c, e.parts[1], s))
                                      ELSE BinaryOp(evalAll(c, e.parts, s), e.name)
      [] s.ok /\ e.kind \in {"array", "brace"} -> evalArray(evalAll(c, e.parts, s))
      [] s.ok /\ e.kind = "call"   -> evalCall(c, e, s)
      [] s.ok /\ e.kind = "method" -> evalMethodCall(c, e, s)
      [] s.ok /\ e.kind = "field"  -> FieldAccess(evalExpr(c, e.parts[1], s), e.name)
      [] s.ok /\ e.kind = "index"  -> IndexAccess(evalAll(c, e.parts, s))
-----------------------------------------------------------------------------
(* Statements. An assignment computes its value first, then the way to its *)
(* place; storing does not make a name usable again.                       *)
RECURSIVE PlaceOf(_), HasPlace(_, _), Replaced(_, _, _)
PlaceOf(e) == IF e.kind = "index" THEN Append(PlaceOf(e.parts[1]), e.parts[2]) ELSE <<e>>
HasPlace(v, way) ==
    way = <<>> \/ /\ v.type = "Array" /\ Head(way) # NoNumber
                  /\ Head(way) + 1 \in DOMAIN v.items
                  /\ HasPlace(v.items[Head(way) + 1], Tail(way))
Replaced(v, way, new) ==
    IF way = <<>> THEN new
    ELSE [v EXCEPT !.items[Head(way) + 1] = Replaced(@, Tail(way), new)]

Store(s, x, way, v) ==
    IF HasPlace(SlotOf(s, x).value, way)
    THEN [s EXCEPT !.scopes[ScopeOf(s, x)][x].value = Replaced(@, way, v)] ELSE Throw(s)
StoreAt(s, x, v) ==
    IF s.ok THEN Store(s, x, [k \in DOMAIN s.list |-> numberOf(s.list[k])], v) ELSE s
resolveAssignable(c, place, s) ==
    IF place[1].kind # "name" \/ (place[1].kind = "name" /\ ~isUsable(s, place[1].name)) THEN Throw(s)
    ELSE StoreAt(evalAll(c, Tail(place), s), place[1].name, s.value)
execAssign(c, target, s) ==
    CASE ~s.ok -> s
      [] s.ok /\ target.kind = "name" -> assignIdentifier(s, target.name, s.value)
      [] s.ok /\ target.kind # "name" -> resolveAssignable(c, PlaceOf(target), s)

execBlock(c, block, s) == BackTo(execStmts(c, block.parts, createChild(s)), Len(s.scopes))

execIf(c, x, s) ==
    CASE ~s.ok -> s
      [] s.ok /\ holds(s.value) -> execBlock(c, x.parts[2], s)
      [] s.ok /\ ~holds(s.value) -> IF x.parts[3] # Absent THEN execStmt(c, x.parts[3], s) ELSE s

(* The target is a variable that exists already, else one of the loop; a   *)
(* loop over a Range leaves it to the block the loop stands in.            *)
IsStaticRange(e) == e.kind = "call" /\ e.name = "Range"
BindTarget(x, s, v) ==
    CASE contains(s, x.name) -> assign(s, x.name, v)
      [] OTHER -> define(s, IF IsStaticRange(x.parts[1]) THEN Len(s.scopes) - 1 ELSE Len(s.scopes),
                         x.name, v)
RECURSIVE Rounds(_, _, _, _)
Rounds(c, x, s, values) ==
    IF values = <<>> \/ ~s.ok \/ s.flow = "Return" THEN s
    ELSE Rounds(c, x, execBlock(c, x.parts[2], BindTarget(x, s, Head(values))), Tail(values))
execFor(c, x, s) ==
    IF ~s.ok \/ s.value.type # "Array" THEN Throw(s)
    ELSE BackTo(Rounds(c, x, createChild(s), s.value.items), Len(s.scopes))

defineHere(s, x) == IF s.ok THEN define(s, Len(s.scopes), x, s.value) ELSE s
execVarDecl(c, x, s) ==
    defineHere(CASE x.parts[2] # Absent -> evalExpr(c, x.parts[2], s)
                 [] x.parts[2] = Absent -> Gives(s, defaultValueForType(x.parts[1].name)),
               x.name)
Defaults(type, s) ==
    IF ~s.ok \/ numberOf(s.value) = NoNumber \/ (numberOf(s.value) # NoNumber /\ numberOf(s.value) < 0)
    THEN Throw(s)
    ELSE Gives(s, fromArray([k \in 1..numberOf(s.value) |-> defaultValueForType(type)]))
ArraySize(c, type, s) ==
    IF type.parts[1] = Absent THEN Gives(s, fromInt(0)) ELSE evalExpr(c, type.parts[1], s)
execArrayDecl(c, x, s) ==
    defineHere(IF x.parts[2] # Absent THEN evalExpr(c, x.parts[2], s)
               ELSE Defaults(x.parts[1].name, ArraySize(c, x.parts[1], s)),
               x.name)

Returned(s, values) == [s EXCEPT !.flow = IF s.ok THEN "Return" ELSE @, !.values = values]
OnlyNames(es) == \A k \in DOMAIN es : es[k].kind = "name"
ReturnAll(s)  == Returned(s, s.list)
execReturn(c, x, e, s) ==
    CASE x.kind = "return" /\ ~OnlyNames(IF e.kind = "brace" THEN e.parts ELSE <<e>>) -> Throw(s)
      [] OTHER -> ReturnAll(evalAll(c, IF e.kind = "brace" THEN e.parts ELSE <<e>>, s))

Values(v) == IF v.type = "Array" THEN v.items ELSE <<v>>
AssignAll(targets, s, values) ==
    FoldLeftDomain(LAMBDA t, k : IF t.ok THEN assignIdentifier(t, targets[k].name, values[k]) ELSE t,
                   s, targets)
execDestructureAssign(targets, s) ==
    IF ~s.ok \/ Len(Values(s.value)) # Len(targets) THEN Throw(s)
    ELSE AssignAll(targets, s, Values(s.value))

execStmt(c, x, s) ==
    CASE x.kind = "block"     -> execBlock(c, x, s)
      [] x.kind = "if"        -> execIf(c, x, evalExpr(c, x.parts[1], s))
      [] x.kind = "for"       -> execFor(c, x, evalExpr(c, x.parts[1], s))
      [] x.kind = "assign"    -> execAssign(c, x.parts[1], evalExpr(c, x.parts[2], s))
      [] x.kind = "declare"   -> execVarDecl(c, x, s)
      [] x.kind = "arraydecl" -> execArrayDecl(c, x, s)
      [] x.kind = "do"        -> evalExpr(c, x.parts[1], s)
      [] x.kind \in {"Return", "return"} -> execReturn(c, x, x.parts[1], s)
      [] x.kind = "destructure" -> execDestructureAssign(Front(x.parts), evalExpr(c, Last(x.parts), s))
-----------------------------------------------------------------------------
(* run: what a function of a contract gives for some arguments, the bytes  *)
(* of every value or an error. The last function of a name is the one.     *)
registerContract(functions) ==
    [x \in {functions[k].name : k \in DOMAIN functions} |->
        Last(SelectSeq(functions, LAMBDA f : f.name = x))]
Started(globals, args) ==
    [scopes |-> <<globals>>, ok |-> TRUE, value |-> voidValue, list |-> args,
     flow |-> "Normal", values |-> <<>>]
OutcomeOf(s) ==
    IF s.ok THEN [ok |-> TRUE, values |-> [k \in DOMAIN s.values |-> bytesOfValue(s.values[k])]]
    ELSE [ok |-> FALSE, values |-> <<>>]
run(functions, name, args, globals) ==
    OutcomeOf(callFunctionNode(registerContract(functions), registerContract(functions)[name],
                           Started(globals, args)))
=============================================================================
