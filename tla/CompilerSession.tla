---------------------------- MODULE CompilerSession ----------------------------
(***************************************************************************)
(* The compiler's shell, src/src/compiler_repl/. A session keeps the       *)
(* statements of the cells it has accepted and the stacks they have left.  *)
(* To execute a cell it compiles the whole session twice, without the cell *)
(* and with it, and runs what the second script has in place of the first  *)
(* one's return value on the stacks of the session. The script of the      *)
(* session itself is never run.                                            *)
(***************************************************************************)
EXTENDS Assignments, PeepholeRules, TLAPS

CONSTANTS
    Cells,           \* what is typed, see below
    Excluded,        \* idioms the sessions do without, see below
    MaxRounds,       \* kMaxRounds
    MaxStatements,   \* of a session
    MaxCells         \* that are typed

ASSUME SessionAssumption == {MaxRounds, MaxStatements, MaxCells} \subseteq Nat

(* "alias": a variable is assigned that has no slot and no known value;    *)
(* "rebound": one is assigned that has its slot on the alt stack;          *)
(* "folded": with the new cell the peephole pass rewrites the code of the  *)
(* cells before it, which has been executed as it was.                     *)
Idioms == {"alias", "rebound", "folded"}
ASSUME ExcludedAssumption == Excluded \subseteq Idioms

Allowed(idiom, used) == used => idiom \notin Excluded

O == INSTANCE Ownership

VARIABLES
    statements,   \* m_statements
    machine,      \* m_mainStack and m_altStack
    last,         \* m_lastCompile: its code, and the range that was executed
    initial,      \* m_lastInitialMainStack and m_lastInitialAltStack, if any
    answer,       \* the last cell that was executed, and what it printed
    nextInputIndex

session == <<statements, machine, last, initial, answer>>
vars == <<session, nextInputIndex>>

Stacks(main, alt) == [main |-> main, alt |-> alt]
NoStacks == Stacks(<<>>, <<>>)
-----------------------------------------------------------------------------
(* Statements, and cells: a cell is some statements or an expression. An   *)
(* expression is compiled as the Return of the session's function.         *)
Statement(op, x, e) == [op |-> op, target |-> x, value |-> e]

Assigns(x, e) == Statement("assign", x, e)
Verifies(e)   == Statement("Verify", Nothing, e)
Returns(e)    == Statement("Return", Nothing, e)

StatementCell(body) == [kind |-> "Statement", body |-> body]
ExpressionCell(e)   == [kind |-> "Expression", body |-> <<Returns(e)>>]

renderSessionSource(before, cell) ==
    before \o cell.body
        \o (IF cell.kind = "Statement" THEN <<Returns(Literal(0))>> ELSE <<>>)
-----------------------------------------------------------------------------
(* The compilation of such a function, which has no parameters: analysis,  *)
(* code generation, peephole pass. Behind a Return nothing is compiled.    *)
Beginning ==
    [table |-> EmptyTable, own |-> [x \in Variables |-> O!Undeclared],
     ok |-> TRUE, returned |-> FALSE, idioms |-> {}]

(* An argument of Verify or Return is brought to the top.                  *)
CanTake(t, e) ==
    IF IsRuntime(t, e) THEN CanCompute(t, e)
    ELSE IsName(Descriptor(t, e)) => HasSlot(t, Descriptor(t, e))
Taken(t, e) ==
    IF IsRuntime(t, e) THEN Computed(t, e)
    ELSE LET d == Descriptor(t, e)
         IN  IF HasSlot(t, d) THEN pop(rollToTop(t, Pos(t.main, d)))
             ELSE emit(t, FixedCode(d))

CanCompile(c, op, x, e) ==
    LET known == IsOn(c.table.main, x) \/ c.table.fixed[x] # Nothing
    IN  CASE op = "assign"  -> /\ O!CanAssign(c.own, x, e)
                               /\ IsRuntime(c.table, e) => CanCompute(c.table, e)
                               /\ ~SelfAssignment(c.table, x, e)
          [] op = "SetAlt"  -> O!CanSetAlt(c.own, x) /\ known
          [] op = "SetMain" -> IsOn(c.table.alt, visitIdentifier(c.table, x))
          [] op = "Delete"  -> O!CanDelete(c.own, x) /\ (known \/ IsOn(c.table.alt, x))
          [] op \in {"Verify", "Return"} -> O!CanAnalyze(c.own, e) /\ CanTake(c.table, e)

Generated(t, op, x, e) ==
    CASE op = "assign"  -> Assigned(t, x, e)
      [] op = "SetAlt"  -> SetAlt(t, x)
      [] op = "SetMain" -> SetMain(t, visitIdentifier(t, x))
      [] op = "Delete"  -> Delete(t, x)
      [] op = "Verify"  -> emit(Taken(t, e), Opcode("VERIFY"))
      [] op = "Return"  -> emit(Taken(t, e), Opcode("RETURN"))

Analysed(own, op, x, e) ==
    CASE op = "assign"  -> O!AnalyzeAssign(own, x, e)
      [] op = "SetAlt"  -> O!AnalyzeSetAlt(own, x)
      [] op = "SetMain" -> O!AnalyzeSetMain(own, x)
      [] op = "Delete"  -> O!AnalyzeDelete(own, x)
      [] op \in {"Verify", "Return"} -> O!analyzeExpression(own, e)

Used(t, op, x, e) ==
    {i \in Idioms : op = "assign" /\ \/ i = "alias" /\ MakesAlias(t, e)
                                     \/ i = "rebound" /\ IsOn(t.alt, x)}

CompileStatement(c, s) ==
    CASE c.returned \/ ~c.ok -> c
      [] ~c.returned /\ c.ok /\ CanCompile(c, s.op, s.target, s.value) ->
             [table    |-> Generated(c.table, s.op, s.target, s.value),
              own      |-> Analysed(c.own, s.op, s.target, s.value),
              ok       |-> TRUE,
              returned |-> s.op = "Return",
              idioms   |-> c.idioms \cup Used(c.table, s.op, s.target, s.value)]
      [] OTHER -> [c EXCEPT !.ok = FALSE]

(* runOnePass of the peephole pass, on code without branches and with debug*)
(* information.                                                            *)
Instructions(rewrite) == [k \in DOMAIN rewrite |-> rewrite[k].instr]

Window(s, end, r, pc) ==
    LET triples == TriplesAt(s, end, pc)
        pairs   == PairsAt(s, end, pc, r.out, FALSE)
        Emit(rewrite, n) == [out |-> r.out \o Instructions(rewrite), next |-> pc + n]
    IN  CASE pc # r.next -> r
          [] pc = r.next /\ triples # {} -> Emit(CHOOSE x \in triples : TRUE, 3)
          [] pc = r.next /\ triples = {} /\ DuplicatesAt(s, end, pc) ->
                 Emit(Kept(s[pc]) \o Second("DUP"), 2)
          [] pc = r.next /\ triples = {} /\ ~DuplicatesAt(s, end, pc) /\ pairs # {} ->
                 Emit(CHOOSE x \in pairs : TRUE, 2)
          [] OTHER -> Emit(Kept(s[pc]), 1)

runOnePass(s) ==
    LET end == optimizablePrefixLength(s, 0)
    IN  FoldLeftDomain(LAMBDA r, pc : Window(s, end, r, pc),
                       [out |-> <<>>, next |-> 1], SubSeq(s, 1, end)).out

Optimized(s) ==
    LET Round(r, k) ==
            IF ~r.changed THEN r
            ELSE LET now == runOnePass(r.code)
                 IN  [code |-> now, changed |-> now # r.code]
    IN  FoldLeft(Round, [code |-> s, changed |-> TRUE],
                 [k \in 1..MaxRounds |-> k]).code

compileSource(program) ==
    LET c == FoldLeft(CompileStatement, Beginning, program)
        ok == c.ok /\ Compiles(c.table)
    IN  [ok |-> ok, code |-> IF ok THEN Optimized(c.table.code) ELSE <<>>,
         idioms |-> c.idioms]

(* What %compile gives for the session.                                    *)
compileSession(before) ==
    compileSource(renderSessionSource(before, StatementCell(<<>>)))
-----------------------------------------------------------------------------
(* The range of a cell in its code, first and last instruction.            *)
findLastReturnPC(code) ==
    CHOOSE pc \in DOMAIN code :
        code[pc].op = "RETURN" /\ \A later \in pc+1..Len(code) : code[later].op # "RETURN"

(* Mutant: the zero that is returned is taken for a part of the cells.     *)
MutFindFinalReturnValueStart(code) == findLastReturnPC(code)

(* Where a script's return value begins, if it is the zero of Return 0.    *)
findFinalReturnValueStart(code) ==
    LET return == findLastReturnPC(code)
    IN  IF return > 1 /\ code[return - 1] = Push(0) THEN return - 1 ELSE return

findBytecodeRangeFromBaseline(baseline, current, kind) ==
    [first |-> findFinalReturnValueStart(baseline),
     last  |-> IF kind = "Statement" THEN findFinalReturnValueStart(current) - 1
               ELSE findLastReturnPC(current)]

NoRange == [first |-> 1, last |-> 0]
HasRange(range) == range.first <= range.last

(* The machine runs a range of a script on given stacks.                   *)
RunOn(stacks, code, range) ==
    FoldLeftDomain(LAMBDA m, k : Step(m, k, code[range.first + k - 1]),
                   [Start(stacks.main) EXCEPT !.alt = stacks.alt],
                   SubSeq(code, range.first, range.last))

Printed(m) == IF m.main = <<>> THEN Nothing ELSE m.main[1]

(* runCellRange: without a range there is nothing to run, and a statement  *)
(* leaves the stacks as they are; an expression always has one.            *)
StacksAfter(kind, m) == IF kind = "Statement" THEN Stacks(m.main, m.alt) ELSE machine

(* Mutant: the debugger gets the stacks that the cell has left.            *)
MutLastInitial(m) == Stacks(m.main, m.alt)
LastInitial(m) == machine

Accept(cell, code, range, m) ==
    /\ statements' = IF cell.kind = "Statement" THEN statements \o cell.body ELSE statements
    /\ machine' = StacksAfter(cell.kind, m)
    /\ last' = [code |-> code, range |-> IF HasRange(range) THEN range ELSE NoRange]
    /\ initial' = {LastInitial(m)}
    /\ answer' = [cell |-> cell, printed |-> Printed(m)]

Avoids(idioms) == \A i \in Idioms : Allowed(i, i \in idioms)

(* The code of the cells before is not where the code with the new one has *)
(* it.                                                                     *)
IsFolded(cell) ==
    ~IsPrefix(compileSource(statements).code, compileSource(statements \o cell.body).code)

(* A cell that does not compile, or whose code throws, changes nothing.    *)
ExecuteCell(cell) ==
    /\ nextInputIndex <= MaxCells
    /\ cell.kind = "Statement" => Len(statements) + Len(cell.body) <= MaxStatements
    /\ nextInputIndex' = nextInputIndex + 1
    /\ \E baseline \in {compileSession(statements)} :
       \E current \in {compileSource(renderSessionSource(statements, cell))} :
          IF ~(baseline.ok /\ current.ok) THEN UNCHANGED session
          ELSE /\ Avoids(current.idioms)
               /\ Allowed("folded", IsFolded(cell))
               /\ \E range \in {findBytecodeRangeFromBaseline(baseline.code, current.code,
                                                             cell.kind)} :
                  \E m \in {RunOn(machine, current.code, range)} :
                     IF m.ok /\ (cell.kind = "Expression" => HasRange(range))
                     THEN Accept(cell, current.code, range, m)
                     ELSE UNCHANGED session

(* A cell with an import or a function is compiled, and not executed.      *)
ExecuteMember ==
    /\ nextInputIndex <= MaxCells
    /\ nextInputIndex' = nextInputIndex + 1
    /\ \E current \in {compileSession(statements)} :
          last' = [code |-> current.code, range |-> NoRange]
    /\ initial' = {}
    /\ UNCHANGED <<statements, machine, answer>>

NoCell == [cell |-> StatementCell(<<>>), printed |-> Nothing]

Init ==
    /\ statements = <<>>
    /\ machine = NoStacks
    /\ last = [code |-> <<>>, range |-> NoRange]
    /\ initial = {}
    /\ answer = NoCell
    /\ nextInputIndex = 1

(* %reset: the index of the next cell is 1, and then advanced.             *)
reset ==
    /\ statements' = <<>>
    /\ machine' = NoStacks
    /\ last' = [code |-> <<>>, range |-> NoRange]
    /\ initial' = {}
    /\ answer' = NoCell
    /\ nextInputIndex' = 2

Next ==
    \/ \E cell \in Cells : ExecuteCell(cell)
    \/ ExecuteMember
    \/ reset

Spec == Init /\ [][Next]_vars
-----------------------------------------------------------------------------
(* What the statements of a session mean, one after the other, in the AST  *)
(* interpreter: a Verify that fails and a Return end the program.          *)
Meaning(program) ==
    LET Interpret(m, s) ==
            CASE m.env = Failed \/ ~m.verified \/ m.result # Nothing -> m
              [] s.op = "assign"  -> [m EXCEPT !.env = execAssign(@, s.target, s.value)]
              [] s.op = "SetAlt"  -> [m EXCEPT !.env = evalSetAlt(@, s.target)]
              [] s.op = "SetMain" -> [m EXCEPT !.env = evalSetMain(@, s.target)]
              [] s.op = "Delete"  -> [m EXCEPT !.env = evalDelete(@, s.target)]
              [] ~Evaluates(m.env, s.value) -> [m EXCEPT !.env = Failed]
              [] s.op = "Verify"  -> [m EXCEPT !.verified = EvalExpr(m.env, s.value) # 0]
              [] s.op = "Return"  -> [m EXCEPT !.result = EvalExpr(m.env, s.value)]
    IN  FoldLeft(Interpret,
                 [env |-> <<NewScope, NewScope>>, verified |-> TRUE, result |-> Nothing],
                 program)

TypeOK ==
    /\ nextInputIndex \in 1..MaxCells + 1 \cup {2}
    /\ Len(statements) <= MaxStatements
    /\ \A s \in {machine.main, machine.alt} : \A k \in DOMAIN s : s[k] \in Values
    /\ HasRange(last.range) =>
           /\ initial # {}
           /\ {last.range.first, last.range.last} \subseteq DOMAIN last.code
    /\ Cardinality(initial) <= 1
    /\ answer.printed \in Values \cup {Nothing}

(* The script that %compile gives for a session, run from its beginning,   *)
(* succeeds and leaves the stacks that the cells have left one by one, but *)
(* for the zero it returns.                                                *)
ScriptLeavesTheStacks ==
    LET m == Run(compileSession(statements).code, <<>>)
    IN  /\ m.ok
        /\ m.alt = machine.alt
        /\ m.main \in {machine.main, <<0>> \o machine.main}

(* What a session accepts is true, and what it prints for an expression is *)
(* what the expression means after the session's statements; after a Return*)
(* it is what was returned.                                                *)
AnswersAreTrue ==
    LET cell == answer.cell
        m    == Meaning(IF cell.kind = "Expression" THEN statements \o cell.body
                        ELSE statements)
    IN  m.env # Failed =>
            /\ m.verified
            /\ cell.kind = "Expression" => answer.printed = m.result

(* Cells compiled and executed one by one are one program, executed once.  *)
SessionIsItsScript == TypeOK /\ ScriptLeavesTheStacks /\ AnswersAreTrue

(* The debugger, started after a cell, repeats that cell: from the stacks  *)
(* it is given it comes to the stacks of the session and the value printed.*)
DebugRepeatsTheCell ==
    \A stacks \in initial :
        HasRange(last.range) =>
            LET m == RunOn(stacks, last.code, last.range)
            IN  /\ m.ok
                /\ answer.printed = Printed(m)
                /\ answer.cell.kind = "Statement" => machine = Stacks(m.main, m.alt)
-----------------------------------------------------------------------------
(* Whatever cells are typed, in whatever order, with cells that are refused*)
(* or throw, members and resets between them: the debugger is given the    *)
(* stacks the last cell began with and that cell's range of its code.      *)
THEOREM DebugCorrect == Spec => []DebugRepeatsTheCell
<1>1. Init => DebugRepeatsTheCell
  BY DEF Init, DebugRepeatsTheCell
<1>2. ASSUME DebugRepeatsTheCell, [Next]_vars PROVE DebugRepeatsTheCell'
  <2>1. CASE UNCHANGED session
    BY <1>2, <2>1 DEF DebugRepeatsTheCell, session
  <2>2. CASE initial' = {}
    BY <2>2 DEF DebugRepeatsTheCell
  <2>3. ASSUME NEW cell \in Cells, NEW code, NEW range, NEW m,
               m = RunOn(machine, code, range), m.ok, Accept(cell, code, range, m)
        PROVE  DebugRepeatsTheCell'
    <3>1. CASE HasRange(range)
      <4>1. /\ last'.code = code /\ last'.range = range /\ initial' = {machine}
            /\ answer'.cell = cell /\ answer'.printed = Printed(m)
            /\ cell.kind = "Statement" => machine' = Stacks(m.main, m.alt)
        BY <2>3, <3>1 DEF Accept, StacksAfter, LastInitial
      <4>2. RunOn(machine, last'.code, last'.range) = m
        BY <2>3, <4>1
      <4> QED BY <2>3, <4>1, <4>2 DEF DebugRepeatsTheCell
    <3>2. CASE ~HasRange(range)
      <4>1. last'.range = NoRange
        BY <2>3, <3>2 DEF Accept
      <4>2. ~HasRange(NoRange)
        BY DEF HasRange, NoRange
      <4> QED BY <4>1, <4>2 DEF DebugRepeatsTheCell
    <3> QED BY <3>1, <3>2
  <2>4. ASSUME NEW cell \in Cells, ExecuteCell(cell) PROVE DebugRepeatsTheCell'
    <3> DEFINE current == compileSource(renderSessionSource(statements, cell))
               baseline == compileSession(statements)
               range == findBytecodeRangeFromBaseline(baseline.code, current.code, cell.kind)
               m == RunOn(machine, current.code, range)
    <3>1. \/ UNCHANGED session
          \/ m.ok /\ Accept(cell, current.code, range, m)
      BY <2>4 DEF ExecuteCell
    <3> HIDE DEF current, range
    <3> QED BY <2>1, <2>3, <3>1
  <2>5. CASE ExecuteMember \/ reset
    BY <2>2, <2>5 DEF ExecuteMember, reset
  <2>6. CASE UNCHANGED vars
    BY <2>1, <2>6 DEF vars, session
  <2> QED BY <1>2, <2>4, <2>5, <2>6 DEF Next
<1> QED BY <1>1, <1>2, PTL DEF Spec
=============================================================================
