---------------------------- MODULE CodeGeneration ----------------------------
(***************************************************************************)
(* The compilation of a function's body, statement by statement: the       *)
(* ownership analysis accepts a statement, the code generation of          *)
(* src/src/compiler/ast_to_bytecode_visitor.cpp keeps its symbolic stacks  *)
(* and emits instructions, and the machine executes them at once on the    *)
(* path its conditions select, while the AST interpreter takes the same    *)
(* program as it is written. The programs are those that can be written    *)
(* with the statements below; a program is a sequence of steps, and where  *)
(* the compiler gives up with an error there is no step.                   *)
(***************************************************************************)
EXTENDS Assignments, RangePlan

CONSTANTS
    Parameters,      \* the variables that are parameters of the function
    Operators,       \* of expressions and conditions
    Excluded,        \* idioms the programs do without, see below
    MaxStatements, MaxDepth

ASSUME ParametersAssumption == Parameters \subseteq Variables /\ IsFiniteSet(Parameters)
ASSUME OperatorsAssumption == Operators \subseteq {"==", "!=", "<"}
ASSUME BoundsAssumption == MaxStatements \in Nat /\ MaxDepth \in Nat

(* "alias": a variable is assigned that has no slot and no known value;    *)
(* "lostCondition": such a variable is a condition; "altLocal": a variable *)
(* of a block is on the alt stack when the block ends; "localCopy": SetMain*)
(* in a block, of a variable that is not the block's; "rebound": a variable*)
(* is assigned that has its slot on the alt stack, be it as the target of  *)
(* a loop in a branch.                                                     *)
Idioms == {"alias", "lostCondition", "altLocal", "localCopy", "rebound"}
ASSUME ExcludedAssumption == Excluded \subseteq Idioms

Allowed(idiom, used) == used => idiom \notin Excluded

(* The arguments of Range in the loops: twice upwards, twice downwards, and*)
(* up to a variable whose value is known.                                  *)
Ranges ==
    {<<Literal(2)>>, <<Literal(1), Literal(-1), Literal(-1)>>}
        \cup {<<Name(y)>> : y \in Variables}

O == INSTANCE Ownership

VARIABLES
    table,       \* the current SymbolTable
    frames,      \* the statements being compiled that have a body, innermost first
    falls,       \* whether the current branch still reaches its end
    own,         \* what the ownership analysis knows
    vm,          \* the two stacks of the machine
    conditions,  \* its m_conditionStack, innermost first
    env,         \* the environment of the AST interpreter
    result,      \* what Return gave, in the machine and in the interpreter
    loop,        \* the text of the loop that is unrolled
    budget       \* statements left; a loop that runs counts as two

vars == <<table, frames, falls, own, vm, conditions, env, result, loop, budget>>

Moves == {"MAIN", "ALT", "UNKNOWN"}
Stays == [l \in Moves |-> l]
NoMoves == [x \in Variables |-> Stays]
-----------------------------------------------------------------------------
(* Who takes part in a statement. A branch the analysis did not select is  *)
(* not analysed.                                                           *)
Skipping  == frames # <<>> /\ frames[1].kind = "skipped"
Executing == /\ result.vm = Nothing /\ ~Skipping
             /\ \A k \in DOMAIN conditions : conditions[k]
Interpreting == /\ env # Failed /\ result.env = Nothing
                /\ \A k \in DOMAIN frames : frames[k].chosen = (frames[k].branch = "then")
Analysed     == \A k \in DOMAIN frames : frames[k].analysed \in {"both", frames[k].branch}

Ready == falls /\ result.vm = Nothing /\ ~Skipping

(* A loop's body is chosen statement by statement in its first iteration,  *)
(* and the later ones repeat it.                                           *)
NoLoop == [iteration |-> "none", text |-> <<>>, rest |-> <<>>]
Statement(does, x, e) == [does |-> does, name |-> x, with |-> e]
Reads(s) ==
    CASE loop.iteration = "none"  -> UNCHANGED loop
      [] loop.iteration = "first" -> loop' = [loop EXCEPT !.text = Append(@, s)]
      [] loop.iteration = "later" -> /\ loop.rest # <<>> /\ Head(loop.rest) = s
                                     /\ loop' = [loop EXCEPT !.rest = Tail(@)]
Takes(s) ==
    /\ Reads(s)
    /\ IF loop.iteration = "later" THEN UNCHANGED budget
       ELSE budget > 0 /\ budget' = budget - 1
Closing(word) == Statement(word, Nothing, Nothing)
Closes(word) == Reads(Closing(word)) /\ UNCHANGED budget

Execution(t) == vm' = IF Executing THEN ExecuteAll(vm, t.code) ELSE vm
Generate(t) == Compiles(t) /\ table' = [t EXCEPT !.code = <<>>]
Interpret(next) == env' = IF Interpreting THEN next ELSE env
Analyse(accepted, next) ==
    (Analysed => accepted) /\ own' = IF Analysed THEN next ELSE own

(* What the enclosing if statement has to know of the statements in it:    *)
(* collectAssignedStorageNames and storageAfterStatement.                  *)
Noted(fs, names, moves) ==
    IF fs = <<>> THEN fs
    ELSE [fs EXCEPT ![1].names = @ \cup names,
                    ![1].moves = [x \in Variables |-> [l \in Moves |-> moves[x][@[x][l]]]]]
Note(names, moves) == frames' = Noted(frames, names, moves)
(* storageAfterStatement of the whole if statement.                        *)
MovesOfIf(then, else) ==
    [x \in Variables |->
        [l \in Moves |-> IF then[x][l] = else[x][l] THEN then[x][l] ELSE "UNKNOWN"]]
-----------------------------------------------------------------------------
(* Conditions. The slot of a variable is consumed by the conditional       *)
(* opcode; for a variable that has neither slot nor value nothing is       *)
(* emitted, and the opcode takes whatever is on top of the stack.          *)
LosesCondition(t, c) ==
    c.op = "name" /\ LET d == visitIdentifier(t, c.names[1])
                     IN  IsName(d) /\ ~IsOn(t.main, c.names[1])

useNotIf(c) == c.op = "!="
Condition(t, c) ==
    CASE isOperator(c) ->
             visitOperator(t, c.op, c.names[1], c.names[2],
                           operatorCode(IF useNotIf(c) THEN "==" ELSE c.op))
      [] ~isOperator(c) /\ IsOn(t.main, c.names[1]) ->
             pop(rollToTop(t, Pos(t.main, c.names[1])))
      [] OTHER ->
             LET d == visitIdentifier(t, c.names[1])
             IN  IF IsName(d) THEN t ELSE emit(t, <<Push(d)>>)

(* What the join of two branches has to agree on.                          *)
AppendUnique(s, x) == IF IsOn(s, x) THEN s ELSE Append(s, x)
Unique(s) == FoldLeft(AppendUnique, <<>>, s)

collectIfMergeSymbols(names, entry) ==
    SelectSeq(Unique(entry.scope \o Reverse(entry.main) \o Reverse(entry.alt)),
              LAMBDA x : x \in names)

desiredAltStack(entry, symbols, then, else) ==
    {x \in Variables :
        LET initial == IF IsOn(entry.alt, x) THEN "ALT" ELSE "MAIN"
        IN  IF IsOn(symbols, x) /\ then[x][initial] = else[x][initial]
               /\ then[x][initial] # "UNKNOWN"
            THEN then[x][initial] = "ALT" ELSE initial = "ALT"}

materializeBranchSymbol(t, x, keepOnAlt) ==
    LET placed(s) == IF keepOnAlt THEN MoveToAlt(s) ELSE s
    IN  CASE IsOn(t.main, x) -> placed(rollToTop(t, Pos(t.main, x)))
          [] ~IsOn(t.main, x) /\ t.fixed[x] # Nothing -> placed(Materialized(t, x))
          [] ~IsOn(t.main, x) /\ t.fixed[x] = Nothing /\ IsOn(t.alt, x) /\ ~keepOnAlt ->
                 SetMain(t, x)
          [] OTHER -> t

materializeBranchSymbols(t, symbols, alt) ==
    FoldLeft(LAMBDA s, x : materializeBranchSymbol(s, x, x \in alt), t, symbols)

HasUniqueNames(t) == IsInjective(t.main \o t.alt)
SameLayout(s, t) == s.main = t.main /\ s.alt = t.alt

(* validateBranchMerge, for two branches that reach the join.              *)
MutCanMerge(entry, then, else, symbols) == HasUniqueNames(then) /\ HasUniqueNames(else)
CanMerge(entry, then, else, symbols) ==
    /\ HasUniqueNames(then) /\ HasUniqueNames(else)
    /\ SameLayout(then, else)
    /\ \A x \in Variables : entry.fixed[x] # Nothing /\ ~IsOn(symbols, x) =>
           then.fixed[x] # Nothing /\ then.fixed[x] = else.fixed[x]

buildMergedBranchState(entry, continuing, symbols) ==
    [entry EXCEPT
        !.main = continuing.main, !.alt = continuing.alt,
        !.fixed = [x \in Variables |->
            IF IsOn(symbols, x) \/ IsOn(continuing.main, x) THEN Nothing ELSE @[x]],
        !.newSymbol = [x \in Variables |->
            IF IsOn(symbols, x) /\ IsOn(continuing.main, x) /\ @[x] = 0 THEN 1 ELSE @[x]]]

(* compareControlFlowStates, for an if without an else.                    *)
IsImplicitJoin(entry, then) ==
    /\ SameLayout(entry, then)
    /\ \A k \in DOMAIN entry.scope :
           /\ symbolExists(then, entry.scope[k])
           /\ then.fixed[entry.scope[k]] = entry.fixed[entry.scope[k]]
-----------------------------------------------------------------------------
Expressions ==
    {Literal(v) : v \in Values} \cup {Pushed(v) : v \in Values}
    \cup {Name(y) : y \in Variables} \cup {Clone(y) : y \in Variables}
    \cup {Operator(o[1], o[2][1], o[2][2]) :
              o \in Operators \X {p \in Variables \X Variables : p[1] # p[2]}}
Conditions == {e \in Expressions : e.op = "name" \/ isOperator(e)}

Assign(x, e) ==
    /\ Ready /\ Takes(Statement("assign", x, e))
    /\ IsRuntime(table, e) => CanCompute(table, e)
    /\ ~SelfAssignment(table, x, e)
    /\ Allowed("alias", MakesAlias(table, e))
    /\ Allowed("rebound", IsOn(table.alt, x))
    /\ \E t \in {Assigned(table, x, e)} : Generate(t) /\ Execution(t)
    /\ Analyse(O!CanAssign(own, x, e), O!AnalyzeAssign(own, x, e))
    /\ Interpret(execAssign(env, x, e))
    /\ Note({x}, NoMoves)
    /\ UNCHANGED <<falls, conditions, result>>

DoSetAlt(x) ==
    /\ Ready /\ Takes(Statement("SetAlt", x, Nothing))
    /\ IsOn(table.main, x) \/ table.fixed[x] # Nothing
    /\ \E t \in {SetAlt(table, x)} : Generate(t) /\ Execution(t)
    /\ Analyse(O!CanSetAlt(own, x), O!AnalyzeSetAlt(own, x))
    /\ Interpret(evalSetAlt(env, x))
    /\ Note({x}, [NoMoves EXCEPT ![x] = [l \in Moves |-> "ALT"]])
    /\ UNCHANGED <<falls, conditions, result>>

DoSetMain(x) ==
    /\ Ready /\ Takes(Statement("SetMain", x, Nothing))
    /\ IsOn(table.alt, visitIdentifier(table, x))
    /\ Allowed("localCopy", MakesLocal(env, x))
    /\ \E t \in {SetMain(table, visitIdentifier(table, x))} : Generate(t) /\ Execution(t)
    /\ Analyse(TRUE, O!AnalyzeSetMain(own, x))
    /\ Interpret(evalSetMain(env, x))
    /\ Note({x}, [NoMoves EXCEPT ![x] = [l \in Moves |-> "MAIN"]])
    /\ UNCHANGED <<falls, conditions, result>>

DoDelete(x) ==
    /\ Ready /\ Takes(Statement("Delete", x, Nothing))
    /\ IsOn(table.main, x) \/ IsOn(table.alt, x) \/ table.fixed[x] # Nothing
    /\ \E t \in {Delete(table, x)} : Generate(t) /\ Execution(t)
    /\ Analyse(O!CanDelete(own, x), O!AnalyzeDelete(own, x))
    /\ Interpret(evalDelete(env, x))
    /\ UNCHANGED <<frames, falls, conditions, result>>
-----------------------------------------------------------------------------
(* An if statement. The machine takes its condition off the stack, the     *)
(* interpreter evaluates it, and both go on with the branch it selects.    *)
Enter(kind, branch, c, entry) ==
    LET chosen == Interpreting /\ Evaluates(env, c) /\ EvalExpr(env, c) # 0
        fact == O!evaluateIntegerConstant(own, c)
    IN  /\ frames' = <<[kind |-> kind, branch |-> branch, entry |-> entry, then |-> entry,
                        thenFalls |-> TRUE, names |-> {},
                        moves |-> NoMoves, thenMoves |-> NoMoves,
                        chosen |-> chosen, ownThen |-> own,
                        analysed |-> CASE fact = Nothing -> "both"
                                       [] fact = 0 -> "else" [] OTHER -> "then",
                        ownEntry |-> IF Analysed THEN O!analyzeConditionalExpression(own, c)
                                     ELSE own]>> \o frames
        /\ table' = enterScope(entry)
        /\ Analyse(O!CanAnalyzeCondition(own, c), O!analyzeConditionalExpression(own, c))
        /\ Interpret(IF ~Evaluates(env, c) THEN Failed
                     ELSE IF chosen = (branch = "then") THEN createChild(env) ELSE env)
        /\ UNCHANGED <<falls, result>>

(* In a loop an if statement has none in it: EndOf finds its end.          *)
CanEnter ==
    /\ Ready /\ Len(frames) < MaxDepth
    /\ loop.iteration # "none" => frames[1].kind = "for"

If(c) ==
    /\ CanEnter /\ Takes(Statement("if", Nothing, c))
    /\ evaluateCompileTimeInteger(table, c) = Nothing
    /\ isOperator(c) => CanVisitOperator(table, c.op, c.names[1], c.names[2])
    /\ Allowed("lostCondition", LosesCondition(table, c))
    /\ \E t \in {Condition(table, c)} :
          /\ Compiles(t) /\ Enter("runtime", "then", c, [t EXCEPT !.code = <<>>])
          /\ \E m \in {ExecuteAll(vm, t.code)} :
                /\ vm' = IF Executing THEN Execute(m, Instruction("DROP")) ELSE vm
                /\ conditions' = <<Executing /\ m.main # <<>> /\ (m.main[1] # 0) # useNotIf(c)>>
                                     \o conditions

(* A condition that is known needs no code; its branch is selected here.   *)
StaticIf(c) ==
    /\ CanEnter /\ Takes(Statement("if", Nothing, c))
    /\ evaluateCompileTimeInteger(table, c) \notin {Nothing, 0}
    /\ Enter("static", "then", c, table)
    /\ UNCHANGED <<vm, conditions>>

(* In a loop a condition that does not hold may do so in another iteration.*)
(* In the first one the branch is only read.                               *)
IsFalse(c) ==
    /\ evaluateCompileTimeInteger(table, c) = 0
    /\ Analysed => O!evaluateIntegerConstant(own, c) = 0

SkippedIf(c) ==
    /\ CanEnter /\ loop.iteration = "first" /\ frames[1].values # <<>>
    /\ IsFalse(c) /\ Takes(Statement("if", Nothing, c))
    /\ frames' = <<[kind |-> "skipped", branch |-> "then", names |-> {}, moves |-> NoMoves,
                    chosen |-> Interpreting /\ Evaluates(env, c) /\ EvalExpr(env, c) # 0,
                    analysed |-> "else"]>> \o frames
    /\ Analyse(O!CanAnalyzeCondition(own, c), O!analyzeConditionalExpression(own, c))
    /\ Interpret(IF Evaluates(env, c) THEN env ELSE Failed)
    /\ UNCHANGED <<table, falls, vm, conditions, result>>

Skip(does, x, e) ==
    /\ Skipping /\ Takes(Statement(does, x, e))
    /\ Note(IF does = "Delete" THEN {} ELSE {x},
            CASE does = "SetAlt"  -> [NoMoves EXCEPT ![x] = [l \in Moves |-> "ALT"]]
              [] does = "SetMain" -> [NoMoves EXCEPT ![x] = [l \in Moves |-> "MAIN"]]
              [] OTHER -> NoMoves)
    /\ UNCHANGED <<table, falls, own, vm, conditions, env, result>>

EndSkippedIf ==
    /\ Skipping /\ Closes("end")
    /\ frames' = Noted(Tail(frames), frames[1].names, MovesOfIf(frames[1].moves, NoMoves))
    /\ UNCHANGED <<table, falls, own, vm, conditions, env, result>>

(* In a later one the branch that is not selected is passed over.          *)
After(text, words) ==
    Below(text, SelectInSeq(text, LAMBDA s : s.does \in words))
LastPassed(text, words) == text[SelectInSeq(text, LAMBDA s : s.does \in words)].does

FalseIf(c) ==
    /\ CanEnter /\ loop.iteration = "later" /\ loop.rest # <<>>
    /\ Head(loop.rest) = Statement("if", Nothing, c)
    /\ IsFalse(c)
    /\ loop' = [loop EXCEPT !.rest = After(@, {"else", "end"})]
    /\ IF LastPassed(loop.rest, {"else", "end"}) = "else"
       THEN Enter("static", "else", c, table)
       ELSE /\ Analyse(O!CanAnalyzeCondition(own, c), O!analyzeConditionalExpression(own, c))
            /\ Interpret(IF Evaluates(env, c) THEN env ELSE Failed)
            /\ UNCHANGED <<table, frames, falls, result>>
    /\ UNCHANGED <<vm, conditions, budget>>

(* The end of a branch: its block is cleaned up.                           *)
CleanedBranch == IF falls THEN CleanBlock(table) ELSE table
EndBranch     == [CleanedBranch EXCEPT !.code = <<>>]
EndBranchCode == CleanedBranch.code
CanEndBranch ==
    /\ frames # <<>>
    /\ Allowed("altLocal", falls /\ AltLocals(table) # {})

(* The scope of a branch is left, and that of the other one entered.       *)
InterpretsRest ==
    /\ env # Failed /\ result.env = Nothing
    /\ \A k \in 2..Len(frames) : frames[k].chosen = (frames[k].branch = "then")

Else ==
    /\ CanEndBranch /\ result.vm = Nothing /\ Closes("else")
    /\ frames[1].kind = "runtime" /\ frames[1].branch = "then"
    /\ frames' = [frames EXCEPT ![1].branch = "else", ![1].then = EndBranch,
                      ![1].thenFalls = falls, ![1].ownThen = own,
                      ![1].moves = NoMoves, ![1].thenMoves = frames[1].moves]
    /\ table' = enterScope(frames[1].entry)
    /\ falls' = TRUE
    /\ own' = frames[1].ownEntry
    /\ vm' = IF Executing THEN ExecuteAll(vm, EndBranchCode) ELSE vm
    /\ conditions' = [conditions EXCEPT ![1] = ~@ /\ \A k \in 2..Len(conditions) : conditions[k]]
    /\ env' = CASE Interpreting -> leaveScope(env)
                [] InterpretsRest /\ ~Interpreting -> createChild(env)
                [] OTHER -> env
    /\ UNCHANGED result

(* The analysis joins what it knows of the branches it has seen.           *)
AnalysedRest == \A k \in 2..Len(frames) : frames[k].analysed \in {"both", frames[k].branch}
JoinedOwnership(f, then, thenFalls, else, elseFalls) ==
    CASE f.analysed = "then" -> O!CommitSelected(f.ownEntry, then)
      [] f.analysed = "else" -> O!CommitSelected(f.ownEntry, else)
      [] f.analysed = "both" /\ thenFalls /\ elseFalls -> O!mergeBranchStates(then, else, f.ownEntry)
      [] f.analysed = "both" /\ thenFalls /\ ~elseFalls -> then
      [] f.analysed = "both" /\ ~thenFalls /\ elseFalls -> else
      [] OTHER -> f.ownEntry

LeaveIf(then, thenFalls, else, elseFalls, thenMoves, elseMoves) ==
    /\ frames' = Noted(Tail(frames), frames[1].names, MovesOfIf(thenMoves, elseMoves))
    /\ own' = IF AnalysedRest
              THEN JoinedOwnership(frames[1], then, thenFalls, else, elseFalls) ELSE own
    /\ Interpret(leaveScope(env))
    /\ UNCHANGED result

(* The statements of the branch that was selected stay as they are.        *)
EndStaticIf ==
    /\ CanEndBranch /\ result.vm = Nothing
    /\ frames[1].kind = "static"
    /\ IF loop.iteration # "later" THEN Closes("end")
       ELSE /\ loop.rest # <<>> /\ Head(loop.rest).does \in {"else", "end"}
            /\ loop' = [loop EXCEPT !.rest = After(@, {"end"})]
            /\ UNCHANGED budget
    /\ table' = EndBranch
    /\ vm' = IF Executing THEN ExecuteAll(vm, EndBranchCode) ELSE vm
    /\ IF frames[1].branch = "then"
       THEN LeaveIf(own, TRUE, frames[1].ownEntry, TRUE, frames[1].moves, NoMoves)
       ELSE LeaveIf(frames[1].ownEntry, TRUE, own, TRUE, NoMoves, frames[1].moves)
    /\ UNCHANGED <<falls, conditions>>

EndIfWithoutElse ==
    /\ CanEndBranch /\ result.vm = Nothing /\ Closes("end")
    /\ frames[1].kind = "runtime" /\ frames[1].branch = "then"
    /\ falls => IsImplicitJoin(frames[1].entry, EndBranch)
    /\ table' = frames[1].entry
    /\ falls' = TRUE
    /\ vm' = IF Executing THEN ExecuteAll(vm, EndBranchCode) ELSE vm
    /\ conditions' = Tail(conditions)
    /\ LeaveIf(own, falls, frames[1].ownEntry, TRUE, frames[1].moves, NoMoves)

(* The code that brings the variables of both branches to where the join   *)
(* takes them to be. That of the first branch is emitted before the second *)
(* branch is; the compiler has read that one ahead. The machine is past the*)
(* first branch by now, but has done nothing since.                        *)
ThenTaken ==
    result.vm = Nothing /\ ~conditions[1] /\ \A k \in 2..Len(conditions) : conditions[k]

EndIf ==
    /\ CanEndBranch /\ result.vm = Nothing /\ Closes("end")
    /\ frames[1].kind = "runtime" /\ frames[1].branch = "else"
    /\ \E f \in {frames[1]} : \E symbols \in {collectIfMergeSymbols(f.names, f.entry)} :
       \E alt \in {desiredAltStack(f.entry, symbols, f.thenMoves, f.moves)} :
       \E then \in {IF f.thenFalls THEN materializeBranchSymbols(f.then, symbols, alt) ELSE f.then} :
       \E else \in {IF falls THEN materializeBranchSymbols(EndBranch, symbols, alt) ELSE EndBranch} :
          /\ Compiles(then) /\ Compiles(else)
          /\ f.thenFalls /\ falls => CanMerge(f.entry, then, else, symbols)
          /\ table' = IF f.thenFalls THEN buildMergedBranchState(f.entry, then, symbols)
                      ELSE IF falls THEN buildMergedBranchState(f.entry, else, symbols)
                      ELSE f.entry
          /\ vm' = CASE Executing -> ExecuteAll(vm, EndBranchCode \o else.code)
                     [] ThenTaken /\ ~Executing -> ExecuteAll(vm, then.code)
                     [] OTHER -> vm
    /\ falls' = (frames[1].thenFalls \/ falls)
    /\ conditions' = Tail(conditions)
    /\ LeaveIf(frames[1].ownThen, frames[1].thenFalls, own, falls,
               frames[1].thenMoves, frames[1].moves)

(* A loop is unrolled. Its target is known in every iteration, and keeps   *)
(* its last value; what the body declares is gone at its end.              *)
rangeBounds(v) ==
    CASE Len(v) = 1 -> <<0, v[1], 1>> [] Len(v) = 2 -> <<v[1], v[2], 1>> [] Len(v) = 3 -> v
ValuesOf(v) == RangeValues(rangeBounds(v)[1], rangeBounds(v)[2], rangeBounds(v)[3])
MovesOfFor(body) ==
    [x \in Variables |-> [l \in Moves |-> IF body[x][l] = l THEN l ELSE "UNKNOWN"]]

bindStaticLoopTarget(t, x, v) ==
    LET defined == IF symbolExists(t, x) THEN t ELSE defineSymbol(t, x)
        onMain  == IF IsOn(t.alt, x) THEN SetMain(defined, x) ELSE defined
        unslotted == IF ~IsOn(onMain.main, x) THEN onMain
                     ELSE pop(emit(rollToTop(onMain, Pos(onMain.main, x)), Opcode("DROP")))
    IN  setFixed(unslotted, x, v)

(* The target is assigned where the interpreter finds it, and is otherwise *)
(* a variable of the block the loop is in.                                 *)
InterpretTarget(e, x, v) ==
    CASE e = Failed -> Failed
      [] e # Failed /\ IsDefined(e, x) -> assignIdentifier(e, x, v)
      [] OTHER -> [e EXCEPT ![2][x] = v]

removeBodyLocals(t, entry) ==
    LET locals == {x \in Variables : symbolExists(t, x) /\ ~symbolExists(entry, x)}
        kept == FoldSet(LAMBDA x, s : removeSymbol(removeFixed(s, x), x), t, locals)
    IN  [kept EXCEPT !.declared = {x \in entry.declared : symbolExists(kept, x)},
                     !.newSymbol = [x \in Variables |-> IF x \in locals THEN 0 ELSE @[x]]]

(* What the arguments of Range are known to be, by the code generation and *)
(* by the analysis, and in the interpreter.                                *)
KnownBounds(arguments) ==
    [k \in DOMAIN arguments |-> evaluateCompileTimeInteger(table, arguments[k])]
AreKnown(arguments) ==
    \A k \in DOMAIN arguments :
        /\ KnownBounds(arguments)[k] # Nothing
        /\ Analysed => O!evaluateIntegerConstant(own, arguments[k]) = KnownBounds(arguments)[k]
InBranch == \E k \in DOMAIN frames : frames[k].kind = "runtime"
InLoop(next, arguments) ==
    IF \A k \in DOMAIN arguments : Evaluates(env, arguments[k]) THEN next ELSE Failed

EmptyFor(x, arguments) ==
    /\ Ready /\ loop.iteration = "none" /\ Takes(Statement("for", x, Nothing))
    /\ AreKnown(arguments) /\ ValuesOf(KnownBounds(arguments)) = <<>>
    /\ Note({x}, NoMoves)
    /\ Interpret(InLoop(env, arguments))
    /\ UNCHANGED <<table, falls, own, vm, conditions, result>>

For(x, arguments) ==
    /\ Ready /\ loop.iteration = "none" /\ Len(frames) < MaxDepth /\ budget > 1
    /\ AreKnown(arguments)
    /\ Allowed("rebound", InBranch /\ IsOn(table.alt, x))
    /\ \E values \in {ValuesOf(KnownBounds(arguments))} :
          /\ values # <<>>
          /\ \E t \in {bindStaticLoopTarget(enterScope(table), x, values[1])} :
                /\ Generate(enterScope(t)) /\ Execution(t)
                /\ Analyse(TRUE, O!BindTarget(own, x, values[1]))
                /\ frames' = <<[kind |-> "for", branch |-> "then", chosen |-> TRUE,
                                analysed |-> "both", target |-> x, values |-> Tail(values),
                                entry |-> table, iteration |-> [t EXCEPT !.code = <<>>],
                                ownEntry |-> own', names |-> {x},
                                moves |-> NoMoves, thenMoves |-> NoMoves]>> \o frames
          /\ Interpret(InLoop(createChild(InterpretTarget(createChild(env), x, values[1])),
                              arguments))
    /\ loop' = [NoLoop EXCEPT !.iteration = "first"]
    /\ budget' = budget - 2
    /\ UNCHANGED <<falls, conditions, result>>

CanEndBody ==
    /\ CanEndBranch /\ result.vm = Nothing
    /\ frames[1].kind = "for" /\ loop.rest = <<>>
CleanedBody == removeBodyLocals(CleanedBranch, frames[1].iteration)
MovesOfBody == IF loop.iteration = "first" THEN frames[1].moves ELSE frames[1].thenMoves

NextIteration ==
    /\ CanEndBody /\ falls /\ frames[1].values # <<>>
    /\ \E x \in {frames[1].target}, v \in {frames[1].values[1]} :
          /\ Allowed("rebound", InBranch /\ IsOn(table.alt, x))
          /\ \E t \in {bindStaticLoopTarget(CleanedBody, x, v)} :
                /\ Generate(enterScope(t)) /\ Execution(t)
                /\ frames' = [frames EXCEPT ![1].iteration = [t EXCEPT !.code = <<>>],
                                  ![1].values = Tail(@), ![1].thenMoves = MovesOfBody]
          /\ Analyse(TRUE, O!BindTarget(O!CommitSelected(frames[1].ownEntry, own), x, v))
          /\ Interpret(createChild(InterpretTarget(leaveScope(env), x, v)))
    /\ loop' = [loop EXCEPT !.iteration = "later", !.rest = loop.text]
    /\ UNCHANGED <<falls, conditions, result, budget>>

EndFor ==
    /\ CanEndBody /\ (falls => frames[1].values = <<>>)
    /\ \E t \in {CleanedBody}, parent \in {frames[1].entry} :
          /\ Generate([t EXCEPT
                 !.declared = parent.declared,
                 !.newSymbol = [x \in Variables |->
                     IF parent.newSymbol[x] > 0 THEN parent.newSymbol[x]
                     ELSE IF @[x] > 0 THEN 1 ELSE 0]])
          /\ Execution(t)
    /\ frames' = Noted(Tail(frames), frames[1].names, MovesOfFor(MovesOfBody))
    /\ Analyse(TRUE, O!CommitSelected(frames[1].ownEntry, own))
    /\ Interpret(leaveScope(leaveScope(env)))
    /\ loop' = NoLoop
    /\ UNCHANGED <<falls, conditions, result, budget>>

(* Return ends the program. Where the analysis has selected a branch it    *)
(* would not go on after it; such programs are left out.                   *)
Return(x) ==
    /\ Ready /\ Takes(Statement("Return", x, Nothing))
    /\ \A k \in DOMAIN frames :
           /\ frames[k].analysed = "both"
           /\ frames[k].kind = "runtime" \/ (frames[k].kind = "for" /\ k = Len(frames))
    /\ IsOn(table.main, x) \/ table.fixed[x] # Nothing
    /\ \E t \in {IF IsOn(table.main, x) THEN rollToTop(table, Pos(table.main, x))
                  ELSE emit(table, FixedCode(table.fixed[x]))} :
          /\ Generate(t) /\ Execution(t)
    /\ O!CanUse(own, x) /\ own' = O!useVariable(own, x)
    /\ result' = [vm |-> IF Executing THEN vm'.main[1] ELSE result.vm,
                  env |-> IF Interpreting /\ requireUsable(env, x) THEN Lookup(env, x)
                          ELSE result.env]
    /\ env' = IF Interpreting /\ ~requireUsable(env, x) THEN Failed ELSE env
    /\ falls' = FALSE
    /\ UNCHANGED <<frames, conditions>>
-----------------------------------------------------------------------------
ParametersInOrder == SetToSeq(Parameters)

Init ==
    \E arguments \in [Parameters -> Values] :
        LET stack == Reverse(ParametersInOrder) IN
        /\ table = [EmptyTable EXCEPT !.main = stack, !.scope = ParametersInOrder]
        /\ frames = <<>> /\ falls = TRUE
        /\ own = [x \in Variables |-> IF x \in Parameters THEN O!Parameter ELSE O!Undeclared]
        /\ vm = [main |-> [k \in DOMAIN stack |-> arguments[stack[k]]], alt |-> <<>>, ok |-> TRUE]
        /\ conditions = <<>>
        /\ env = <<[x \in Variables |-> IF x \in Parameters THEN arguments[x] ELSE Nothing],
                   NewScope>>
        /\ result = [vm |-> Nothing, env |-> Nothing]
        /\ loop = NoLoop
        /\ budget = MaxStatements

Next ==
    \/ \E x \in Variables : \/ \E e \in Expressions : Assign(x, e)
                            \/ DoSetAlt(x) \/ DoSetMain(x) \/ DoDelete(x) \/ Return(x)
                            \/ \E e \in Expressions : Skip("assign", x, e)
                            \/ \E does \in {"SetAlt", "SetMain", "Delete"} : Skip(does, x, Nothing)
                            \/ \E r \in Ranges : EmptyFor(x, r) \/ For(x, r)
    \/ \E c \in Conditions : If(c) \/ StaticIf(c) \/ SkippedIf(c) \/ FalseIf(c)
    \/ Else \/ EndIf \/ EndIfWithoutElse \/ EndStaticIf \/ EndSkippedIf
    \/ NextIteration \/ EndFor

Spec == Init /\ [][Next]_vars
-----------------------------------------------------------------------------
TypeOK ==
    /\ \A s \in {table.main, table.alt} : \A k \in DOMAIN s : s[k] \in Variables
    /\ table.fixed \in [Variables -> Values \cup Variables \cup {Nothing}]
    /\ table.code = <<>>
    /\ \A x \in Variables :
           own[x] \in [state : {"undeclared", "DECLARED", "USED", "CONSUMED"},
                       storage : {"UNBOUND", "FIXED", "MAIN", "ALT"},
                       source : {"STACK", "CONST"}, fact : Values \cup {Nothing}]
    /\ Len(conditions) = Len(SelectSeq(frames, LAMBDA f : f.kind = "runtime"))
    /\ budget \in 0..MaxStatements

(* The compiler's symbolic stacks are the machine's, slot for slot, on the *)
(* path that is executed, and no opcode finds too little on a stack.       *)
MirrorIsExact ==
    /\ TypeOK
    /\ vm.ok
    /\ Executing => Len(table.main) = Len(vm.main) /\ Len(table.alt) = Len(vm.alt)

(* What the compiled program has in a variable.                            *)
CompiledValue(x) ==
    CASE IsOn(table.main, x) -> vm.main[Pos(table.main, x) + 1]
      [] ~IsOn(table.main, x) /\ IsName(table.fixed[x]) /\ IsOn(table.main, table.fixed[x]) ->
             vm.main[Pos(table.main, table.fixed[x]) + 1]
      [] ~IsOn(table.main, x) /\ table.fixed[x] \in Values -> table.fixed[x]
      [] OTHER -> Nothing

(* The compiled program does what the program says: it takes the same      *)
(* branches, returns the same value, and has the same value in every       *)
(* variable that the program may still read.                               *)
CompiledAsInterpreted ==
    /\ env # Failed /\ Nothing \notin {result.vm, result.env} => result.vm = result.env
    /\ env # Failed /\ {result.vm, result.env} = {Nothing} =>
           /\ Executing <=> Interpreting
           /\ Executing => \A x \in Variables :
                  /\ O!CanUse(own, x) /\ CompiledValue(x) # Nothing /\ requireUsable(env, x) =>
                         CompiledValue(x) = Lookup(env, x)
                  /\ IsOn(table.alt, x) /\ env[Len(env)][x] \in Values =>
                         vm.alt[Pos(table.alt, x) + 1] = env[Len(env)][x]

(* What the analysis knows of a variable the program may read is what the  *)
(* variable has at run time, wherever the code generation keeps it: of the *)
(* branches that are generated, none is executed that was not analysed.    *)
FactsAreTrue ==
    Analysed /\ Executing => \A x \in Variables :
        own[x].fact # Nothing /\ O!CanUse(own, x) =>
            CompiledValue(x) \in {Nothing, own[x].fact}
=============================================================================
