----------------------------- MODULE Assignments -----------------------------
(***************************************************************************)
(* Expressions and assignments: what the AST interpreter makes of them,    *)
(* src/src/interpreter/, which is the meaning the compiled code is compared*)
(* with; and what the code generation does to the symbolic stacks and emits*)
(* for them, src/src/compiler/ast_to_bytecode_visitor.cpp.                 *)
(***************************************************************************)
EXTENDS StaticIntegers, SymbolTable

(* An environment of the interpreter is a sequence of scopes, the innermost*)
(* first and the global one last; a scope maps names to values. A runtime  *)
(* error ends a run: no environment is left.                               *)
CONSTANT Deleted      \* OwnershipState::Deleted

Failed   == <<>>
NewScope == [x \in Variables |-> Nothing]

createChild(env) == IF env = Failed THEN Failed ELSE <<NewScope>> \o env
leaveScope(env)  == IF env = Failed THEN Failed ELSE Tail(env)

(* tryResolve: the scopes that hold the name, and the innermost of them.   *)
Holders(env, x) == {k \in DOMAIN env : env[k][x] # Nothing}
Innermost(env, x) == CHOOSE k \in Holders(env, x) : \A j \in Holders(env, x) : k <= j

IsDefined(env, x) == Holders(env, x) # {}
Lookup(env, x) ==
    IF IsDefined(env, x) THEN env[Innermost(env, x)][x] ELSE Nothing
requireUsable(env, x) == Lookup(env, x) \notin {Nothing, Deleted}

EvalExpr(env, e) ==
    LET of == [k \in DOMAIN e.names |-> Lookup(env, e.names[k])]
    IN  CASE e.op \in {"literal", "Push"} -> e.value
          [] e.op \in {"name", "Clone"} -> of[1]
          [] isOperator(e) -> Compare(e.op, of[1], of[2])
Evaluates(env, e) ==
    env # Failed /\ \A k \in DOMAIN e.names : requireUsable(env, e.names[k])

assignIdentifier(env, x, v) ==
    CASE ~IsDefined(env, x) -> [env EXCEPT ![1][x] = v]
      [] IsDefined(env, x) /\ requireUsable(env, x) -> [env EXCEPT ![Innermost(env, x)][x] = v]
      [] OTHER -> Failed

execAssign(env, x, e) ==
    IF Evaluates(env, e) THEN assignIdentifier(env, x, EvalExpr(env, e)) ELSE Failed
-----------------------------------------------------------------------------
(* SetAlt copies a variable into the global scope, where another function  *)
(* finds it; SetMain takes it from there into the innermost scope.         *)
evalSetAlt(env, x) ==
    IF env # Failed /\ requireUsable(env, x) /\ env[Len(env)][x] # Deleted
    THEN [env EXCEPT ![Len(env)][x] = Lookup(env, x)] ELSE Failed

evalSetMain(env, x) ==
    CASE env = Failed -> Failed
      [] env # Failed /\ env[Len(env)][x] # Nothing ->
             IF Deleted \in {env[Len(env)][x], env[1][x]} THEN Failed
             ELSE [env EXCEPT ![1][x] = env[Len(env)][x]]
      [] OTHER -> IF requireUsable(env, x) THEN env ELSE Failed

evalDelete(env, x) ==
    IF IsDefined(env, x) THEN [env EXCEPT ![Innermost(env, x)][x] = Deleted] ELSE Failed

(* SetMain in an inner block makes a variable of that block.               *)
MakesLocal(env, x) ==
    Len(env) > 2 /\ env[1][x] = Nothing /\ env[Len(env)][x] # Nothing
-----------------------------------------------------------------------------
(* Expressions. A variable that is read is its slot's name, or what the    *)
(* fixed area has of it, or just its name.                                 *)
visitIdentifier(t, y) ==
    IF ~IsOn(t.main, y) /\ t.fixed[y] # Nothing THEN t.fixed[y] ELSE y

IsName(d) == d \in Variables
HasSlot(t, d) == IsName(d) /\ IsOn(t.main, d)

StaticFacts(t) ==
    [x \in Variables |->
        IF IsOn(t.main, x) \/ IsOn(t.alt, x) \/ t.fixed[x] \notin Values
        THEN Nothing ELSE t.fixed[x]]
evaluateCompileTimeInteger(t, e) == evaluateExpression(e, StaticFacts(t))

(* One operand is brought to the top. One that is found in the fixed area  *)
(* under another name gets a symbolic slot, and nothing is emitted.        *)
OperandFound(t, y) ==
    LET d == visitIdentifier(t, y)
    IN  IsName(d) => IsOn(t.main, d) \/ t.fixed[d] # Nothing
Operand(t, y) ==
    LET d == visitIdentifier(t, y)
    IN  CASE ~IsName(d)    -> push(emit(t, <<Push(d)>>), Placeholder)
          [] HasSlot(t, d) -> rollToTop(t, Pos(t.main, d))
          [] OTHER -> push(t, d)

isCommutativeOp(op) == op \in {"==", "!="}

(* Two operands that have slots need not both be moved.                    *)
MutShortcut(t, op, y, z) ==
    IF IsOn(t.main, y) /\ IsOn(t.main, z) /\ {Pos(t.main, y), Pos(t.main, z)} = {0, 1}
    THEN "in place" ELSE "none"
Shortcut(t, op, y, z) ==
    IF ~(IsOn(t.main, y) /\ IsOn(t.main, z)) THEN "none"
    ELSE LET l == Pos(t.main, y)
             r == Pos(t.main, z)
         IN  CASE l = 1 /\ r = 0 -> "in place"
               [] l = 0 /\ r = 1 -> IF isCommutativeOp(op) THEN "in place" ELSE "swap"
               [] l > 1 /\ r = 0 /\ isCommutativeOp(op) -> "left"
               [] l = 0 /\ r > 1 /\ isCommutativeOp(op) -> "right"
               [] OTHER -> "none"
Operands(t, op, y, z) ==
    LET shortcut == Shortcut(t, op, y, z)
    IN  CASE shortcut = "in place" -> t
          [] shortcut = "swap"  -> rollToTop(t, 1)
          [] shortcut = "left"  -> rollToTop(t, Pos(t.main, y))
          [] shortcut = "right" -> rollToTop(t, Pos(t.main, z))
          [] OTHER -> Operand(Operand(t, y), z)

operatorCode(op) ==
    CASE op = "==" -> Opcode("EQUAL")
      [] op = "!=" -> Opcode("EQUAL") \o Opcode("NOT")
      [] op = "<"  -> Opcode("LESSTHAN")

CanVisitOperator(t, op, y, z) ==
    Shortcut(t, op, y, z) = "none" => OperandFound(t, y) /\ OperandFound(Operand(t, y), z)
visitOperator(t, op, y, z, code) == emit(pop(pop(Operands(t, op, y, z))), code)

(* An expression the machine computes: its value is on top of the machine's*)
(* stack, and the compiler has taken its slot off again.                   *)
IsRuntime(t, e) ==
    e.op \in {"Push", "Clone"}
    \/ (isOperator(e) /\ evaluateCompileTimeInteger(t, e) = Nothing)
CanCompute(t, e) ==
    CASE e.op = "Clone" -> IsOn(t.main, e.names[1])
      [] isOperator(e)  -> CanVisitOperator(t, e.op, e.names[1], e.names[2])
      [] OTHER -> TRUE
Computed(t, e) ==
    CASE e.op = "Push"  -> emit(t, <<Push(e.value)>>)
      [] e.op = "Clone" -> emit(t, emitPick(Pos(t.main, e.names[1])))
      [] OTHER -> visitOperator(t, e.op, e.names[1], e.names[2], operatorCode(e.op))

(* What any other expression stands for: a value or a name.                *)
Descriptor(t, e) ==
    IF e.op = "name" THEN visitIdentifier(t, e.names[1])
    ELSE evaluateCompileTimeInteger(t, e)
-----------------------------------------------------------------------------
(* Assignments.                                                            *)
Implicit(t, x) == IF symbolExists(t, x) THEN t ELSE defineSymbol(t, x)

emitCopyAssignment(source, target) ==
    CASE target < source ->
             Repeated("TOALTSTACK", target) \o Opcode("DROP")
                 \o emitPick(source - target - 1) \o Repeated("FROMALTSTACK", target)
      [] source = 0 /\ target = 1 -> Opcode("NIP") \o Opcode("DUP")
      [] OTHER ->
             emitPick(source)
                 \o [k \in 1..2 * target |-> Instruction(IF k % 2 = 1 THEN "SWAP" ELSE "TOALTSTACK")]
                 \o Opcode("TOALTSTACK") \o Opcode("DROP")
                 \o Repeated("FROMALTSTACK", target + 1)

AssignResult(t, x) ==
    LET plain == removeFixed(t, x)
    IN  IF IsOn(t.main, x)
        THEN LET d == Pos(t.main, x) IN roll(emit(plain, emitDiscard(d + 1)), d)
        ELSE push(plain, x)

AssignSlot(t, x, y) ==
    LET plain == removeFixed(t, x)
    IN  IF IsOn(t.main, x)
        THEN emit(plain, emitCopyAssignment(Pos(t.main, y), Pos(t.main, x)))
        ELSE renameAtPosition(plain, Pos(t.main, y), x)

AssignFixed(t, x, d) ==
    setFixed(IF IsOn(t.main, x) THEN DeleteFromMain(t, Pos(t.main, x)) ELSE t, x, d)

Assigned(t, x, e) ==
    IF IsRuntime(t, e) THEN AssignResult(Implicit(Computed(t, e), x), x)
    ELSE LET d == Descriptor(t, e)
             known == Implicit(t, x)
         IN  IF HasSlot(t, d) THEN AssignSlot(known, x, d) ELSE AssignFixed(known, x, d)

MakesAlias(t, e) ==
    ~IsRuntime(t, e) /\ IsName(Descriptor(t, e)) /\ ~HasSlot(t, Descriptor(t, e))
SelfAssignment(t, x, e) ==
    ~IsRuntime(t, e) /\ Descriptor(t, e) = x /\ IsOn(t.main, x)
=============================================================================
