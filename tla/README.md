# TLA+ specifications of AtomicProof

AtomicProof compiles contracts to the script of a UTXO chain, runs them on a
simulator of its virtual machine, and debugs them from a command line, a REPL
and VS Code. This directory holds TLA+ specifications of the parts of it whose
correctness is hard to test, the TLC configurations that check them on small
instances, and proofs, checked by TLAPS, that some of their properties hold for
every instance.

Contents: [the system](#the-system), [the modules](#the-modules),
[what the runs check](#what-the-runs-check), [fairness](#fairness),
[the proofs](#the-proofs), [what was found](#what-was-found),
[what is not modelled](#what-is-not-modelled), [plan](#plan),
[running the checks](#running-the-checks).

Paths below are relative to the repository's root.

## The system

```
 source text --> front end --> analyses --> code generation --> optimisation
                                                 |                   |
                                          debug information      script (bytes)
                                                 |                   |
              AST interpreter              +-----+-------------------+----+
                                           |            debug VM          |
                                           |  stacks, frames, breakpoints |
                                           +---^-----------^----------^---+
                                               |           |          |
                                     command line      live debug    compiler
                                       debugger          server        REPL
                                                           ^
                                               pipes       |   NDJSON
                                                   VS Code extension
```

### Components

| component | code | state | operations | what makes it correct |
|---|---|---|---|---|
| Live debug server | `src/debugger/protocol` | session state and four more atomics, a mutex and condition variable for the pause response, the VM, the breakpoint records | one handler per request of the NDJSON protocol; an execution thread per `continue` | responses and events in an order a client can follow; one owner of the VM at a time; `terminated` once; no thread waits for ever |
| Debug VM | `src/debugger/vm/bvm_simulator` | program counter, call frames, branch trace, stacks, skip and request flags | `run`, `stepIn`, `stepOver`, `stepOut`, `reset`, `pause`, opcodes | frames follow the source; the commands stop where their documentation says; debugging does not change what is executed |
| VM stacks and step trace | `src/debugger/vm/stack_*` | main and alt stack, trace of steps | push, pop, pick, roll; record, export | the trace describes the stacks |
| Transaction data loader | `src/debugger/vm/transaction_data_loader` | none | parse a JSON file | conversion |
| Breakpoints | `src/debugger/breakpoint` | table of breakpoints, index by program counter | add, remove, enable, disable, resolve, `shouldBreakAtPC` | the index agrees with the table; a stop exactly where one was asked for |
| Debug information | `src/debugger/info` | tables built by the compiler | lookups; rewriting when instructions move | one answer per position; an instruction keeps its origin through the optimiser |
| Inspectors | `src/debugger/inspector` | none | read a paused VM | formatting of what is there |
| Command line debugger | `src/debugger/interface`, `src/debugger/core` | the session, the selected function | the debugger commands | commands act on the right state of the VM |
| VS Code extension | `tools/vscode_stack_visualizer/extension.js` | child process, pending promises, timers, deferred events, execution state | DAP requests, protocol lines, timers, process events | one response per request, events in order, no server left behind |
| Stack visualizer page | `tools/vscode_stack_visualizer/stack_visualizer` | page | rendering | - |
| Compiler REPL | `src/compiler_repl` | accepted cells, the machine's stacks, snapshots for the debugger | submit a cell, `%reset`, `%debug`, other magic commands | cells executed one by one come to what the whole script does |
| Interpreter shell | `src/repl` | lines of a block | collect lines, interpret | the block handed on is the one typed |
| Front end | `src/lexer`, `src/parser`, `src/ast`, `src/source` | token stream | lex, parse, resolve imports | the tree is the text's |
| Pass manager | `src/pass`, `src/include` | pass queue and shared context | run passes in order | a pass sees what it needs; a failed pass ends the run |
| Semantic and ownership analysis | `src/compiler` (analyses) | state, storage and known value of each variable; graphs of value versions | visit the tree; live-out sets; kill points | what it accepts can be compiled; a value is given up at its last use on every path |
| Constant evaluation | `src/compiler` (folding, ranges) | none | fold expressions, expand ranges | folded value = run-time value |
| Code generation | `src/compiler/ast_to_bytecode_*`, `src/bytecode` | symbolic stacks, scopes, symbol table, output | one visit method per node | the symbolic stacks are the VM's stacks at every instruction; the script does what the program says |
| Bytecode optimisation | `src/bytecode` (planner, if-tail, peephole) | none | rewrite instructions | same effect, no more bytes, no rule left that applies |
| AST interpreter | `src/interpreter` | environments, slots | evaluate a tree | agrees with the script |
| Diagnostics and logging | `src/error`, `src/log` | message lists | append | - |
| Configuration, crypto, helpers | `src/config`, `src/crypto`, `src/util`, `main.cpp` | none | I/O, hashing | - |

### Interactions

- **Extension and server** exchange lines over two pipes. The extension starts
  the server, asks, waits with a timer per request, and may kill it; the server
  answers in the order of the requests but writes events from two threads.
- **Server and VM**: the reader thread steps the VM itself and inspects it when
  it is stopped; `continue` gives the VM to an execution thread. They share the
  session state and two request flags (atomics) and nothing else by design.
- **VM and breakpoints**: before every instruction `run` asks
  `shouldBreakAtPC`; the step commands ask it after every instruction.
- **VM and debug information**: private functions are expanded in line by the
  compiler; what looks like a call is a range of positions in a table, and the
  VM rebuilds the call stack from these ranges.
- **Clients and breakpoints**: the command line debugger edits single
  breakpoints, the server replaces those of one source file at a time.
- **Analysis and code generation** visit the same tree one after the other. Each
  keeps its own table of variables and its own constants, and each decides by
  its own constants which branches exist and how often a loop runs.
- **Planner of lifetimes and code generation**: the planner says after which
  statement a value is dead; code generation drops it there if it may.
- **Code generation, optimiser and debug information**: the optimiser moves
  instructions, and the table that says where each came from moves with them.
- **REPL, compiler and VM**: every cell recompiles the session as one script, and
  the VM continues from where the previous script stood.

### Where it is hard

*Concurrency.* Two threads in the server; the JavaScript event loop in the
extension, whose handlers interleave at every `await`; and between the two a
pipe and a process that may die. *Failure.* The child crashes, hangs, refuses to
start, answers after the timer; an item of a request is malformed midway; a REPL
cell throws after it has changed the stacks. *Ordering.* A stop event against the
response of the pause that caused it, a `terminated` event against the close of
the process, events deferred behind a response. *Long sequences.* Step depth,
skip flags and stale frames survive from one command to a later one; names left
behind in a symbolic stack make every later depth wrong; peephole rules feed each
other. *Derived state.* The pc index, the frames, the extension's copy of the
session state, the compiler's picture of the stack and the debug information are
each rebuilt from something else. `PROJECT.json` lists every such hazard with the
line where it bites.


## The modules

*Debugger*

| module | models | code |
|---|---|---|
| `LiveDebugProtocol` | what a client of the server may rely on (abstract) | - |
| `LiveDebugSession` | both threads of the server | `live_debug_server.cpp`, `run` of `bvm_simulator.cpp` |
| `LiveDebugSession_proofs` | theorems about it | - |
| `BVMScript` | a script without a debugger (abstract) | - |
| `BVMSimulator`, `MCBVMSimulator` | control flow, frames, run and step loops of the VM; small programs | `bvm_simulator.cpp`, `debug_info*.cpp` |
| `BVMSimulator_proofs` | theorems about it | - |
| `BreakpointManager`, `MCBreakpointManager` | table, index, the two clients; a small debug information | `breakpoint*.cpp`, `cli_debugger.cpp`, `handleSetBreakpoints` |
| `BreakpointManager_proofs` | theorems about it | - |
| `LiveDebugAdapter` | the extension's adapter, the pipes, the process, a reduced server | `extension.js`, `live_debug_server.cpp` |
| `LiveDebugAdapter_proofs`, `LiveDebugAdapterAgreement_proofs` | theorems about it | - |

*Compiler*

| module | models | code |
|---|---|---|
| `SourceText` | a source as lines of words with an indentation, imports, tokens | `import_resolver.cpp`, `lexer.cpp` |
| `Parser` | the recursive descent parser, as functions on tokens | `parser.cpp` |
| `Grammar` | what the lines mean, without a parser (reference) | - |
| `ConstantFolder` | libraries and global constants put in their places, the constant folder over a whole contract | `library_merger.cpp`, `global_constant_resolver.cpp`, `constant_folder.cpp` |
| `ASTInterpreter` | the AST interpreter over a whole contract | `ast_interpreter.cpp`, `environment.cpp` |
| `FrontEnd`, `MCFrontEnd` | the pipeline over sources that are written word by word | `frontend_pipeline.cpp` |
| `ScriptNumbers` | script numbers as bytes, and the opcodes that compute with them | `stack_state.cpp`, `bvm_simulator.cpp`, `static_integer_evaluator.cpp` |
| `RuntimeValues` | the AST interpreter's values and builtin functions | `runtime_value.cpp`, `builtin_runtime.cpp` |
| `ScriptExpressions`, `ScriptExpressions_proofs` | expressions folded, compiled and executed, next to the interpreter's; loops unrolled over a range; theorems | `ast_to_bytecode_visitor.cpp`, `bytecode_builtin_function.h` |
| `StackOpcodes` | the VM's stack opcodes as operators | `bvm_simulator.cpp`, `stack_state.cpp` |
| `StackPlanner` | the compiler's search for short stack sequences | `stack_permutation_planner.cpp` |
| `ArgumentLayout` | how code generation uses it, mirror and machine side by side | `ast_to_bytecode_visitor.cpp` |
| `StaticIntegers` | integer operators over known constants | `static_integer_evaluator.cpp` |
| `RangePlan` | the values of a loop's range in machine integers | `range_plan.cpp` |
| `SymbolTable` | the symbolic stacks, what is emitted when they change, SetAlt, SetMain, Delete, the end of a block | `symtab.cpp`, `scope.cpp`, `bytecode_builtin_function.h`, `ast_to_bytecode_visitor.cpp` |
| `Ownership` | what the analysis knows of a variable, and which statements it accepts | `pre_analysis_visitor.cpp` |
| `Assignments` | expressions and assignments, compiled; the interpreter's scopes | `ast_to_bytecode_visitor.cpp`, `environment.cpp`, `ast_interpreter.cpp` |
| `CodeGeneration` | a function's body, compiled, executed and interpreted statement by statement | the three above, `range_plan.cpp` |
| `ScriptMachine` | opcodes over values, scripts with branches | `bvm_simulator.cpp` |
| `PeepholeRules` | the rewrite rules | `bytecode_peephole_pass.h` |
| `BytecodePeephole`, `MCBytecodePeephole` | the rounds, the common tails of branches, the roll-back, the origins of instructions; the scripts | `bytecode_peephole_pass.h`, `structured_if_tail_optimizer.cpp`, `debug_info.cpp` |
| `ScriptCodec` | pushes and opcodes as text and as bytes, the padding of labels | `script_codec.h`, `script_decoder.cpp` |
| `BytecodeArtifact` | the legacy text and the typed artifact, and how both are rewritten together | `bytecode_ir.h`, `bytecode_generator.cpp`, `legacy_bytecode_adapter.h`, `bytecode_artifact_rewriter.h` |
| `ScriptLayout`, `MCScriptLayout` | the way of a script from the last emission to the deployed bytes | `bytecode_finalize_pass.h`, `export_results_pass.h`, `bytecode_materializer.cpp` |
| `ValueLifetime` | graphs of value versions: live-out sets, kills, validation | `value_lifetime_analysis.cpp` |
| `LifetimePlanner` | the planner that builds them from a function, the analysis round by round, and the function's runs | `ast_lifetime_planner.cpp` |
| `LifetimePlanner_proofs` | theorems about it | - |
| `CompilerSession`, `MCCompilerSession` | the cells of the compiler's shell | `cell_compiler.cpp`, `session_state.*`, `magic_commands.cpp` |

`PROJECT.json` maps every definition to its lines. An operator whose name begins
with `Mut` stands in front of the definition it is a broken version of (a
dropped guard, a missing reset, an off-by-one); nothing refers to it, and
substituting it must break the property `PROJECT.json` names: a property that
survives every such change would say nothing about the code.

### LiveDebugSession

Variables are the members of `LiveDebugSession` (`sessionState`,
`pendingContinue`, `disconnectRequested`, `terminatedEventSent`,
`pauseResponsePending`) and those of the VM it looks at (`vmState`, `vmPC`,
`pauseRequested`, `terminateRequested`, `lastEvent`), the two program counters
`rpc` and `epc`, the reader's unwritten lines `outbox`, and the lines written,
`out`. `seq`, `run`, `pauseSeq`, `stopCause` and `late` are auxiliary: no guard
reads them except the bound `MaxRequests`.

One action is what lies between two accesses to state the other thread can see.
A handler therefore is several actions: `pause` is `Accept` (the `isRunning`
test), `PauseMarkPending` (the mark, under the mutex), `PauseRequest` (the VM's
flag and the response), `EmitNext`, `acknowledgeRequest`, `AcknowledgeNotify`.
The execution thread's `waitForPauseResponse` is split into the evaluation of the
predicate, the wait that releases the mutex, and waking up, spurious wake-ups
included; a notification reaches the thread only if it already sleeps. The
destructor, start-up failure, malformed lines and the end of input are actions
too. The VM is reduced to how far it is: an instruction may end the program,
fail or go on. Inspections (`variables`, `evaluate`, `snapshot`, `stackTrace`,
`initialize`) only read and are one step.

### BVMSimulator

A program is a sequence of `plain`, `if`, `else`, `endif`, `return`
instructions, a source position for each, and the expansions of private
functions in the order the compiler entered them. `RangeOf` builds from these
what the debug information keeps: one range per *name*. `executeInstruction` is a
function from a machine record to the set of machines it may become (an
instruction may throw, a condition may be either value), in the order of the
code: function entry, opcode, increment, function exit. `StepIteration` is one
round of a step loop, `RunPasses`, `RunBreaks` and `RunExecutes` one of `run`.
Every command may follow every other, `reset` and the breakpoint commands
included.

### BreakpointManager

`breakpoints` is `m_breakpoints` (a function on the live ids), `pcToBreakpoints`
the index, `sourceIds` the server's `m_sourceBreakpointIds`. A process has one
client, chosen in `Init`. `setBreakpoints` is four actions because an item may
throw between two others: `Begin` removes, `HandleItem` adds one line,
`ItemThrows` leaves, `Finish` records the ids. `shouldBreakAtPC` is asked with
any position, any branch state and any active lines the debug information allows.
`disabled` and `revived` are no state of the code: they record what the user has
disabled, and which of those breakpoints a later `break` has switched on again, for
`StopsWhereAsked` to ask what the user wants and not what the flag says. The
condition of a conditional breakpoint is kept and never evaluated
(`breakpoint.cpp:61`, a TODO), so `LineStops` treats it as its line.

### LiveDebugAdapter

`adapter` holds the fields of the adapter object, `handlers` one record per DAP
request with the `await` it stands at. A callback runs to its end and takes the
microtasks with it before the next callback: `Continue` is enabled before any
other adapter action. A method of the adapter is a function from one state of the
adapter (`State`) to the next (`Becomes`). Timers, write errors, spawn errors and the close of the
process are actions that may come whenever node may deliver them. The server is
that of `LiveDebugSession` reduced to its session state and its lines; it keeps
the reduced server's two freedoms that matter here, a stop event from another
thread and either order of that event and a pause response.

### StackOpcodes, StackPlanner and ArgumentLayout

These three model one decision of the compiler end to end. A stack is a sequence
with its top first; `Execute` is what the VM does with an opcode.

`StackPlanner` is the search: `records` is the table (cost, predecessor, step),
`queue` the priority queue, and `SkipStale`, `ReachGoal`, `Relax` and `Exhaust`
are the ways one iteration of the loop can go. A `move` request builds the table
of a window of slots, a `copy` request looks for a replacement of one slot by a
copy of another. Both searches of the code are instances of it: they differ in
their steps (`StepsFrom`), their limit and their goal. The queue breaks ties by
the rank or the key of a state; the model by `CHOOSE`, and no property depends on
it. Caching (`call_once` per window and per pair of depths) makes the result of a
search a constant, so that one search per behaviour is all there is to see.

`ArgumentLayout` then compiles one statement with the result. A call chooses the
order of its arguments (`ChosenOrder`), then follows a plan, finds everything in
place, or runs the loop of `adjustStackToMatch` argument by argument; a copy
assignment emits a plan or the old sequence. `scope` is the compiler's picture of
the stack, `vm` the machine after the opcodes emitted so far. The two are changed
by different code, and that they agree is the property. `promised` and
`pairMoved` are auxiliary. Arguments may be constants (`Script`), missing or given
twice.

### SourceText, Parser, Grammar, ConstantFolder, ASTInterpreter and FrontEnd

A behaviour of `FrontEnd` is a source that its author writes, and then the passes:
imports, tokens, tree, libraries and global constants, folding. What the tree is to
be is read off the lines by `Grammar`, which describes the language and does not
parse. What a contract is to give is computed by `ASTInterpreter` on the tree its
author meant; the tree that leaves the folder is run with the same arguments. Words
are members of a small set, with their kind: how characters make a word is
abstracted, indentation and line ends are not. The interpreter has every statement
and expression over numbers, byte strings and arrays.

### ScriptNumbers, RuntimeValues and ScriptExpressions

An expression is built operand by operand, the operators last. An operand is three
things: the bytes on the machine's stack, the interpreter's value and the literal
the compiler still knows it to be. `FoldOperator` is the folder, `EmitOperator` and
`Call` are code generation with the machine behind it. The base of a byte, the bytes
of a word and the sign bit are constants. `Differs` names the five disagreements of
machine and interpreter that the run leaves out, see
[what was found](#what-was-found). A program may instead be a loop over a range.

### ScriptCodec, BytecodeArtifact and ScriptLayout

A program is a list of pushes, stack opcodes and fields of the state. It is emitted
as legacy text, converted to the typed artifact, optimised, laid out (the state
behind the code, both aligned), written to the result file, laid out a second time
and deployed with a payload in the place of every field. `BytecodeArtifact` rewrites
text, artifact and the origins of the debug information in step, and that they stay
in step is what is checked. Replacing the result file may fail. The deployment of
legacy scripts and the node that executes a script are external.

### SymbolTable, Assignments, Ownership and CodeGeneration

The compiler's view of a function's body is put next to two things it must agree
with: the machine that executes what it emits, and the AST interpreter that runs
the program as written. A behaviour of `CodeGeneration` is a program, written one
statement at a time; each statement is accepted or not by the analysis
(`Ownership`), compiled (`SymbolTable`, `Assignments`), executed at once on the
machine's stacks, and interpreted (`Assignments`). Where the compiler gives up
with an error there is no step.

`table` is `SymbolTable`: the two symbolic stacks, the fixed area (constants, and
names, that have no slot), the scope's entries, the counted `m_newSymbol` and
`m_declaredSymbols`, and the code emitted by the current statement. `own` is the
flat variable map of the analysis and its integer constants. `frames` are the
statements with a body that are open: an `if` at run time, an `if` whose branch
was selected at compile time, a loop. An `if` stores the entry state, the state
its first branch ended in, what the look-ahead over the branches
(`collectAssignedStorageNames`, `storageAfterStatement`) finds, and what the
analysis had; `EndIf` brings both branches into one layout
(`materializeBranchSymbols`), validates the merge and executes the code that was
emitted for the branch taken. The body of a loop is chosen statement by statement
in the first iteration and the same text is compiled again for the later ones
(`loop`); a statement that the known constants exclude is read but not compiled.

Abstracted: types and symbol metadata (the compiler rejects more programs than
the model does); `--asa`, the option that gives a function its plain stack
layout, is assumed; copies use the old sequence (`ArgumentLayout` shows that a
plan does the same); values are 0 and 1; `2DROP` is two `DROP`s. Programs avoid
the five idioms of `Idioms` (an alias to a variable without slot, a condition
without slot, a block variable left on the alt stack, SetMain in a block, a new
value for a name that is on the alt stack): in each of them compiled and
interpreted program differ, see [what was found](#what-was-found). Not among the
programs: structs, arrays, private functions, `return`, a loop in a loop, an `if`
in an `if` in a loop, `Return` in a branch selected at compile time. The limits of
loop expansion are not modelled.

### RangePlan

`build` and `valueAt` in machine integers: `ordered` turns the sign bit so that
unsigned subtraction gives the distance of two signed numbers. `SignBit` stands
for 2^63. An overflow the code tests for gives `"ValueOverflow"`. `For` in
`CodeGeneration` and the loops of `ScriptExpressions` take their values from here.

### ScriptMachine, PeepholeRules and BytecodePeephole

A script is a sequence of instructions with `IF`, `NOTIF`, `ELSE`, `ENDIF` and
`RETURN` among them; `ScriptMachine` executes it on integers, the string `00`
(`PaddedZero`, which is false but not the number 0) and strings that are no
number. `PeepholeRules` holds the windows, one operator per rule. `BytecodePeephole`
takes a script through the pass: the windows up to a fixed point, the common tails
of branches, the windows again, up to sixteen rounds, and the roll-back to the
original if nothing is left. With debug information each instruction has origins,
and rewriting must keep the branches' identity; `origins` is what the debugger
looks at. The legacy push encoding is assumed, signature checks and the other
opcodes are not in the alphabet; the artifact's own validation of a rewrite is
assumed to succeed; the structured pass runs once.

### ValueLifetime and LifetimePlanner

`ValueLifetime` is the data flow analysis over a graph whose statements define,
use and give up versions of values: its checks, the dominators, the live and the
reaching values, and the statements and edges where an atom is killed. Its loops
are given as one round each; a round visits the blocks in their order and is a
recursive function over them. `LifetimePlanner` builds a graph for a function,
statement by statement, as the planner does (scopes, versions, values joined after a
conditional, values that escape at joins and in loops), repeats the rounds until
nothing changes, and then runs the function along any path of the graph, where
`present` loses what the analysis kills and `slots` what code generation drops. The planner takes any tree, as its
unit tests do: shadowing and assignments without a declaration are among the
functions although the analysis rejects them later. A value has one atom
(aggregates, atom relations and merges have no caller); the kind of an access and
`Relocate` (treated as a borrow) are abstracted, and so are the contexts of inlined
calls and iterations; destructuring and arrays are not enumerated. The drops code
generation makes by a plan are modelled by their guards (outside branches, one
version); the lookup of the slot by name and the choice of the smaller script
(`ast_to_bytecode_converter.h:143`) are not.

### CompilerSession

A cell is one statement, an assignment with a `Verify` of its target, an
expression, a member or an import, or `%reset`. The session keeps the accepted
cells; each submission compiles all of them as one function, looks for the end of
the part already executed, and executes the rest on the kept stacks. The
compiler's part is that of `SymbolTable` and `Assignments`, and the whole script
goes through `BytecodePeephole`'s rules. A throw in the middle of a cell keeps
what it did to the machine. `%debug` repeats the last cell from the stacks kept
for it. A rejected cell only advances the index; texts, outputs, contract cells
and the trailing state instruction are abstracted. Two idioms of code generation
are excluded, and `"folded"`: a rewrite that crosses the border of two cells.

## What the runs check

| run | bounds | distinct states | shows |
|---|---|---|---|
| `live_session` | 3 requests, programs of 2 instructions | 134 000 | safety of both threads; implements `LiveDebugProtocol`; requests answered, runs end in an event, disconnect terminates |
| `vm` | every placement of at most two private expansions in four shapes of five instructions, a breakpoint in two of the programs | 291 000 | frames, step commands, breakpoints, implements `BVMScript`, every command returns |
| `breakpoint_manager` | 2 sources, 3 lines, 3 positions, 2 functions, 3 breakpoints, requests of 2 items | 704 000 | index, records and table agree; the VM stops where the user asked |
| `live_adapter` | 3 requests after the launch | 80 000 | one response each, order of events, states agree, nothing waits for ever, no server is left |
| `argument_layout` | windows of up to 6 slots, copies between the first 4, 7 slots on the stack, calls of up to 3 arguments | 6 500 | plans do what they should and are the cheapest; the compiler's mirror agrees with the machine |
| `code_generation` | 3 variables, 4 statements, depth 2, loops of two iterations | 725 000 | symbolic stacks, compiled against interpreted program, the analysis' constants |
| `script_expressions` | 3 operands, 2 operators or calls; literals of 4 bits, words of 2 bytes in base 4, nine byte strings | 282 000 | compiled against interpreted expression, exact folding, the values of a range |
| `script_layout` | 3 statements up to `Return`, 2 pushes behind it, two fields, payloads of four sizes | 427 000 | text, artifact and debug information in step; the deployed script does what was written |
| `front_end` | 16 families of sources; literals of 4 bits | 425 000 | parser against grammar, folded against written contract |
| `bytecode_peephole` | all lines of up to 3 instructions of 23 kinds, 4 of 9, 5 of 6; branches; 7 entry stacks | 582 000 | same effect, true origins, no rule left that applies |
| `compiler_session` | 4 cells, 3 statements each session | 95 000 | cells one by one come to what the script does; `%debug` repeats the cell |
| `value_lifetime` | 4 statements, depth 2 | 1 178 000 | graphs follow the function; nothing live killed, nothing dead kept |

The properties, by the question they answer:

- *Who owns the VM?* `VMHasOneUser`: nobody moves it, and no inspection looks at
  it, while another thread runs it. The inspection commands take no lock; only the
  session state keeps them away. `FlagsHaveAnOwner` says the same of the flags.
- *Is what is written in order?* `TerminatedIsFinal`,
  `PauseStopFollowsItsResponse`, `ImplementsProtocol`; for the extension
  `ClientHearsOnce`, `EventsFollowResponses`.
- *Can something be stuck?* `NobodyWaitsForEver`, `CommandsReturn`, `BothSidesEnd`.
- *Does derived state agree with what it derives from?* `FramesMatchSource`,
  `TablesAgree`, `StatesAgree`, `StopsWhereAsked`, `MirrorIsExact`,
  `OriginsAreTrue`, `GraphsAreSound`.
- *Do commands stop where they should?* `StepsStopWhereAsked`, `NoBreakpointMissed`.
- *Does the compiled program do what was written?* `CompiledAsInterpreted`,
  `OptimizedAsWritten`, `SessionIsItsScript`, `DebugRepeatsTheCell`,
  `EmittedMovesAreExact` (executed on `StackOpcodes`, not on the planner's own idea
  of a step), `ExpressionsAgree`, `RangesAreExact`, `FoldingIsExact`,
  `FoldedAsWritten`, `DeployedAsWritten`, `FactsAreTrue` (a constant the analysis
  knows is the value the interpreter has).
- *Is the program the one that was written?* `ParsedAsWritten`: accepted exactly if
  the grammar gives it a meaning, and read as that.
- *Do the forms of a script agree?* `RepresentationsAgree`, `FinalizedOnce`.
- *Is it the best?* `PlansAreBest` is a certificate: it takes every recorded state,
  every step the *machine* has, whether or not the search tries it, and demands
  that the result is recorded at no higher cost. Since every recorded cost is that
  of a real plan, no sequence undercuts one. It covers the filters of
  `copyNeighbours` and the byte limit. `NothingIsLeft`: after the peephole no rule
  applies. `NothingDeadIsKept`: every value that is dead on a path is given up on it.
- *Is a value given up too early?* `NothingLiveIsKilled`.

### Why these bounds are enough

*Server.* A lost update needs one request of each side of a race and one to see
its effect: `continue`, `pause` and a third command, three lines. Two
instructions let a pause take effect before, between and after them. Every
property of the run but `NobodyWaitsForEver` is proved for all bounds.

*VM.* Frames disagree with the source when boundaries of two ranges meet; two
expansions give every way two intervals can lie (apart, adjacent, nested,
sharing a start or an end). Five instructions hold two expansions with one
position before, between and after them, or a conditional with both branches.
The run takes those placements the debug information can represent
(`Representable` in `BVMSimulator`): one expansion per name, a nested name that
sorts before its caller's, boundaries that do not coincide, no `Return` inside.
Every property of the run but `CommandsReturn` is proved for all such programs,
`NoBreakpointMissed` and `ImplementsScript` for more (below).
`MaxBreakpoints` is 1 in two of the programs (`TrackedPrograms`) and 0 in the rest.

*Breakpoints.* An index goes wrong when an id outlives its breakpoint or two
share a position: three ids, two sources and a position that belongs to two
lines show both. The same properties are proved for all bounds.

*Adapter.* Three concurrent requests are an execution command, one that
interferes with it and one that ends the session. `ClientHearsOnce` and
`EventsFollowResponses` are proved for any number of requests.

*Argument layout.* Six slots are the least window in which `OP_2ROT` exists, and
seven slots on the stack put one below the window and one argument beyond it, so
that the path without a plan is taken with a window that is too large. Four copy
depths reach every shape of the old sequence, its special case and each copying
opcode; seven slots take copies past the depth that is searched. Three arguments
are one more than a pair, before or after it. `MaxMoveWindow` and `MaxCopyDepth`
stand for `MAX_MOVE_WINDOW` (8) and `MAX_COPY_DEPTH` (6), scaled down.

*Code generation.* Two parameters and a local are the least with which a slot is
below, between or above two others. Four statements are a change of the layout, an
`if` that changes it differently in its branches, and a use after the join; or a
loop with a body of two and a use. Every list of four statements is enumerated.
Lists of five (without loops, three variables: 5.6 million states; with loops,
two variables) were searched outside the runs.

*Expressions.* `SignBit` is 8: all pairs of literals of a 4-bit word are folded,
and all starts, stops and steps of a range tried. Two bytes of base 4 are the least
in which a number is empty, short, full, padded or too wide, and two operators the
least with which one reads the other's result.

*Layout.* Direct pushes end at three bytes, lengths of one byte at 17 (base 18) and
code is aligned to five, so that payloads of 1, 2, 12 and 18 bytes take every form
of a push; with three statements and two pushes every residue of the alignment
occurs. Two fields whose names begin alike are the least that can be confused.

*Sources.* Each family varies one part of the language (operators, accesses,
literals, statements, declarations, blocks, gaps between lines, members, libraries,
signatures, fields) or of the folder's work (a constant, arrays, globals, a
diamond and a cycle of imports) and keeps the rest as short as possible. About
5 000 contracts are folded; 708 are rejected because they bind a global twice, and
199 because a global cannot be computed.

*Peephole.* No rule looks at more than five instructions, and a rule's result
triggers another in a window of at most five; the entry stacks tell the numbers, `00` and
strings apart that the opcodes tell apart.

*Shell.* A cell's effect on a later one needs a cell that leaves something, one
that changes it and one that looks; the fourth may be the repetition in the
debugger or a reset.

*Lifetimes.* An owner, a branch or loop of depth two and a later use are four
statements.

Each other bound is a guard of a client's action (`MaxRequests`, `MaxId`,
`MaxItems`, `MaxHits`, `MaxStatements`, `MaxCells`): it limits how much is asked,
never what the program does.

`CHECK_DEADLOCK FALSE` is said where the system really may stop: the client of
the VM may issue no further command, a compiled statement, an optimised script or
a planned function is done, and an adapter that is disposed of and whose child is
closed has nothing left to do. `LiveDebugSession` and `BreakpointManager` are
checked for deadlock, with an explicit step for the exited process and for the
client that rests.

## Fairness

- *Server*: weak fairness of each thread, which any preemptive scheduler gives.
  `acknowledgeRequest` waits for a mutex the execution thread takes and releases
  repeatedly; strong fairness says a waiting thread gets a mutex that is free
  again and again. The client owes nothing: it may stop writing.
- *VM*: weak fairness of the loop. A loop that is running goes on; no command
  is ever owed.
- *Adapter*: node runs queued continuations and callbacks, timers fire, a killed
  process exits (SIGKILL follows SIGTERM). The server owes nothing: it may hang,
  and the timers are what the liveness properties rest on.

The compiler's modules state no fairness: they are sequential, and their
properties are about the states they reach.

## The proofs

Nothing is assumed but the named assumptions on the constants, and what the
theorems of the VM say of its programs.

### LiveDebugSession_proofs

Assumptions: `MaxRequests \in Nat`, `EndPC \in Nat \ {0}`. The inductive invariant
`IndInv` is the conjunction of

1. `TypeOK`;
2. `ControlInv`: which positions of the two threads go with which session state
   (a thread inside `run` means Running; a pending continue means no execution
   thread yet; the reader joins only in Ready or Paused). `VMHasOneUser` is not
   inductive without it: that the reader at `inspect` excludes a run has to be
   remembered from the test of `isRunning` to the use of the VM;
3. `HolderInv`: an event of the program's life is held by one thread at a time,
   and `terminated` only by the one that has claimed it;
4. `WrittenInv`: once `terminated` is written nobody holds such an event, so that
   `TerminatedIsFinal` is kept by every later write;
5. `LateInv`: where the run can be after the one instruction that was already
   started when a request was set, which bounds `late` by one.

`TypeCorrect`, `ControlCorrect`, `FlagsOwned`, `TerminatedOnce`, `RequestsSeen`
and `Inductive` follow, and `OneUser`, whose second half is an action property.
Two more theorems have invariants of their own on top of `IndInv`:

- `PausesAnswered`. `PauseInv` follows a pause from the mark to the stop: the mark
  is set before the VM's flag; from then on the response is held by the reader
  until it is written; the execution thread leaves `waitForPauseResponse` only when
  the mark is withdrawn, which happens in `acknowledgeRequest`, behind the write,
  or in a disconnect or the destructor, when the reader is past every pause. So
  the stop that names a pause stands behind the response.
- `Refinement`. `Spec` implements `LiveDebugProtocol` under the mapping from what
  is written and from the session's run number. `LifeInv` says which event of the
  program's life may come next, given the last one written (`Phase`), the run and
  what either thread holds; every step then is a step of the protocol or leaves the
  mapped state alone.

The conjuncts are proved one after the other (each lemma assumes those before
it), with one step per action of the thread at hand; the lemmas about `outbox`
and `out` say what an append or a tail does to "some event is held" and "some
event is written".

### BVMSimulator_proofs

Each theorem says of which programs it holds; the code guarantees none of the three
hypotheses, and what it does otherwise is described in
[what was found](#what-was-found).

- `AllRepresentable` (`FramesCorrect`, `StepsCorrect`): the debug information can
  represent the program. Ranges of expansions nest or are disjoint, with distinct
  boundaries; names are unique and sort before those of the functions around them;
  no `Return` inside a private function; two positions with the same line and column
  have the same functions around them.
- `AllKeepCourse` (`BreakpointsKept`) is weaker: no private function has the selected
  function's name or contains a `Return`. Its calls may be repeated, adjacent or
  overlap, names may sort in any order, and frames may be missing or stale.
- `AllReturnSafely` (`DebuggingIsTransparent`) lies between them: a program is
  representable, or it is like those of `AllKeepCourse` and has no `Return` at or
  after the start of a private function. What is excluded is a stale frame at a
  `Return`: the simulator then goes back to the end of that frame's function, which
  the script without a debugger does not, and the theorem does not hold.

- `FramesCorrect`. The expansions around a position nest, so that the last of them
  is the innermost, and `getFunctionAtPC`, which takes the first name in
  alphabetical order, finds it (`Innermost`). From one position to the next at most
  one expansion ends or one begins (`ActiveGoesOn`). `FrameInv` says that the call
  stack holds one frame for each expansion around `pc`, outermost first.
- `BreakpointsKept`. From the skip flag's invariant: `run` skips the breakpoints of
  a position only while it has not left the line it started on. For that a machine
  must never jump ahead. `CourseInv` is `FrameInv` for a representable program and
  for another says only that the selected function's frame is at the bottom and that
  the frames above it are of ranges that have begun, in this order
  (`FramesOfRanges`); a `Return` with a stale frame then goes back, never ahead
  (`StaleReturn`).
- `DebuggingIsTransparent`. With `CourseInv`, an instruction changes program counter
  and branches as `BVMScript` says: the return to a caller, the one way in which
  frames decide what is executed, is never taken at a `Return` of the contract
  (`NeverGoesBack`).
- `StepsCorrect`. `StepInv` relates the number of frames, which the loops compare,
  to the number of expansions around `pc`, and says that a step over stays within the
  expansion it began in until it ends.

### LiveDebugAdapter_proofs

Assumption: `MaxRequests \in Nat`. `AdapterInv` is `TypeOK` and

1. `PromiseInv`: a request that has not been answered is held by exactly one
   promise: a queued continuation, an entry of `pending`, the exit of the child or,
   for the launch, its readiness. This is what makes the race of an answer with its
   timer, a write error and the close of the child harmless: each of them takes the
   promise out of the place it was in;
2. `ClientInv`: which responses and events have been sent, given what is answered;
3. `DeferralInv`: the deferral count is the number of commands that move or end the
   session and are unanswered, so that nothing is flushed ahead of a response;
4. `LaunchInv`: the launch can only succeed while nobody, the server included, has
   announced the end; without it "initialized" might follow "terminated".

The methods of the adapter are functions from state to state, and each has a lemma
of its own about any state of the adapter (`StopFacts`, `EndFacts`,
`TerminateFacts`, ...), stated in terms of what the method does with promises
(`Owned`), with what was said (`Told`) and with the order of both (`Ordered`). An
action is then a composition of methods, and its step a composition of lemmas.
`Inductive` is the invariant; `PromisesKept`, `ClientCorrect` and the action
property `EventsCorrect` follow.

### LiveDebugAdapterAgreement_proofs

`StatesCorrect`: the adapter's copy of the session's state agrees with it
(`StatesAgree`). The two are compared only when nothing is on its way, so the
invariant has to say what they have to do with each other at any other moment,
from what is in the two pipes. `AgreementInv`, on top of `AdapterInv`, is
about a client that has not begun to leave and a server it can reach
(`Connected`; once it leaves, `LeavingInv` keeps a disconnect in the pipe until the
server is gone, so that the session is never quiet again):

1. `NumberInv`: every number in use is below `protocolSeq`, and a pending request
   and an unread line of stdin with the same number are the same command. So an
   answer settles the request it was written for;
2. `FailureInv`: only an inspection, a pause or the launch is ever answered with an
   error. A move is not, which is what makes the optimistic "running" of
   `handleExecutionCommand` safe; a timer or a write error that rejects a move
   stops the child with it;
3. `NewsInv`: news of the session stands in one order across the deferred events,
   stdout and the stop event; what ends a run is the last of it, and names the state
   the session is in;
4. `StateInv`: while the adapter is "running" either its one move has not been read
   and finds the session ready, or the session runs, or the news of its end is on its
   way (`Running`); otherwise there is no news and no move, and the states
   agree (`Resting`).

The lemmas come in three layers: what each method of the adapter leaves in every
field (`AnswerIs`, `EndIs`, `AskIs`, ...); that a step which adds no news and no
move keeps 1-4 (`NewsKept`, `MovesKept`, `UnnoticedAgrees`); and one lemma per
action of client, callbacks and server. TLC has checked `AgreementInv` on the run's
instance before.

### BreakpointManager_proofs

Assumptions: those of the module on the debug information (`PCsOf` maps to
positions, ranges are not empty). `IndInv` is `AgreeInv` (`TablesTypeOK`,
`IndexMatches`, `Located`: the positions stored in an entry are those of its line,
without which a removal that takes the positions from the entry would leave ids in
the index, and `RecordsInv`: what the server's records and the request in progress
name) and `WishInv` (a breakpoint is enabled unless the user has disabled it and no
`break` has revived it). The lemmas treat a table operation by itself
(`AddLineStep`, `AddFunctionStep`, `AddAndResolveStep`, `RemoveStep`) and the
commands use them; `...Wishes` are the lemmas of `WishInv`, one per command.
`StopsCorrect` is the action property `StopsWhereAsked`: the two-stage lookup,
through the index and by the least id, answers yes wherever a breakpoint stands
that the user has not disabled, and nowhere else. Two cases are excluded by name,
because there the code does something else: a disabled breakpoint that a later
`break` has switched on again may stop (`revived`), and a function at whose entry
`getFunctionAtPC` finds a function before it in the map does not (`Hidden`).

### ScriptExpressions_proofs

The first half of the module is about numbers and bytes, the second has the
theorems.

`LoopsExact`: for every word size, `build` and `valueAt` give the values of the
range as plain integer arithmetic has them, and no iteration is added, lost or
refused. The argument: turning the sign bit adds `SignBit`, so that `ordered` is
monotone and the difference of two ordered numbers is their distance; the
distance fits an unsigned word, and so does every offset up to it, so that no
product wraps; a quotient and whether a remainder is left count the multiples of
the step below the distance. The theorem is first proved of the loop alone
(`RangesExact`), which `Spec` implements.

`FoldingExact`: the action property `FoldingIsExact` for every word size. One
lemma per operation of `static_integer_evaluator.cpp`: the questions
`checkedAdd`, `checkedSubtract` and `checkedMultiply` ask before they compute are
equivalent to the exact result being no machine integer (for a product, a
comparison with a quotient is one of the products, `AboveQuotient`, by the signs
of the operands), and the quotient towards zero is the only number whose
remainder is small enough and has the dividend's sign, in the word unless the
least integer is divided by -1. `OperatorIsExact` puts them together. What they
are applied to needs an invariant, `KnownItems`: the operands are a sequence, and
what the compiler knows of one is a machine integer. A called function leaves as
many operands as its opcodes do, so the proof visits every opcode (`OpcodeLeaves`)
and every entry of `operatorMap` and `opCreators`.

`ExpressionsCorrect`: `ExpressionsAgree`, for every width of the integers, every
even base of the bytes, any arguments and expressions of any length. Its
hypothesis is `AllExcluded`: the five disagreements of `Differs` are left out, as
they are in the run. The code does not rule them out, and without any one of them
the property is false; they are listed under [what was found](#what-was-found).

1. Bytes. `serializeScriptNum` and `toInt` are inverse on all machine integers but
   the least (`SerializedIsRead`), and `RoundTrip` is their core: the digits of a
   magnitude add up to it, there are as few as possible, and the sign bit is found
   again in the last one. The code computes both in a loop. What a loop computes is
   proved by induction on the number of bytes; `Induction`, about sets of numbers,
   is derived from the well-founded order of the naturals, and with it that a
   recursive function has a value everywhere (`RecursionExists`).
2. Opcodes. What each opcode leaves, or that it throws, for operands that are
   numbers and operands that are not (`OneNumber`, `NumericLeaves`, `BytesLeave`).
3. Functions. `CallOfOne`, `CallOfTwo` and `CallOfSlice` say what the
   interpreter's builtin functions return for values with given bytes.
4. `ReadAlike`: a value whose bytes are the machine's is the same number
   on both sides, unless it is the least integer. `Matches` says when the outcomes of machine and interpreter go
   together: both throw, or the machine leaves the bytes of the value returned.
   `OperatorMatches`, `UnaryMatches`, `BinaryMatches` and `SliceMatches` have one
   case for each operator and function; `IdentityMatches` treats what is emitted
   for a literal 0 or 1, and `EvalOpCommutes` and `CallCommutes` the operands that
   the compiler turns round.
5. `AgreeInv`: every operand of the expression agrees, and neither side has thrown
   alone. To agree is: the interpreter has a byte string and the machine the same,
   or it has a machine integer and the machine its bytes; and what the compiler
   still knows of a literal is that integer, on which folding rests.

Assumptions: those of `RangePlan` and `ScriptNumbers` (a positive sign bit, 1 a
machine integer, an even base, a word of that many bytes, `NoNumber` no integer),
that the operators and functions of the run are some the compiler has, and that
the arguments are byte strings.

### LifetimePlanner_proofs

`LivesKept`: `NothingLiveIsKilled`, for functions of any size over any names and
parameters, nested to any depth, and along every path. Assumptions: `Names` is
finite, `Parameters` are some of them, and the bounds are numbers. `LifeInv` says
what holds in which phase, and is inductive (`Inductive`):

1. *Planning*, `PlanInv`. The graph is one the analysis can take (`SoundGraph`):
   every value lives in the place of a root, what a statement defines is in the
   table, and a block is either executed once (`RunsOnce`: a set of blocks without
   it has all its successors and is not left) or all that is defined in it escapes
   in it (`EscapesAll`). That is what `appendLoopDefinitionEscapes` and the escapes
   before a loop are for: without them a place could be given up in one iteration
   and defined anew in the next. For a loop that is open there is a set of
   blocks, with its header, that is not left and in which everything escapes
   (`LoopEscapes`), so that the back edge can be added; the blocks a node will be
   continued at are empty and belong to one node (`OpenFine`); and the scopes a
   node remembers are those around it, with the same names (`Nested`), so that the
   two branches can be compared name by name. There is a lemma per action of the
   planner (`VarDeclStep` to `BeginForStep`), made of lemmas about its operations on
   a graph (`StatementAdded`, `EdgeAdded`, `BlocksAdded`, `ValuesAdded`).
2. *Analysis*, `SoFar`. `ReachableIsClosed`: as many rounds as there are blocks
   reach all that can be reached, by counting. A round that ends where it
   began changed nothing on its way (`NothingMoved`), so the sets satisfy the
   equations of the data flow (`DominatorsAreFixed`, `LivenessIsFixed`). Every
   round of the liveness keeps that what a block needs at its beginning is
   available there (`RoundsStaySound`): the dominators of a block are dominators of
   its predecessors or the block itself. At the entry, therefore, only parameters
   are needed (`RunBegins`).
3. *Running*, `SoundRun`. What is needed from the place of the run on is present
   and in its slot; what is lent has escaped and is there; a drop that is due is of
   a place that is there, not needed, and due once (`SoundPending`); and for a place
   that has not escaped and is there, its definition is behind (`DefinedBehind`), so
   that no later statement defines it a second time (`NotDefinedAgain`). `StatementRuns`
   and `EdgeRuns` keep it, and `RunIsSafe` is the property.

The reaching values play no part: which values a kill retires decides what else is
dropped, not whether the place is needed.

### CompilerSession

`DebugCorrect`: `DebugRepeatsTheCell` is inductive as it stands, for every set of
cells and whatever compilation makes of them, because the stacks, the code and the
range are recorded together, or not at all. The theorem is in the module itself.

### Model-checked only

- Liveness (`NobodyWaitsForEver`, `CommandsReturn`, `BothSidesEnd`): it rests on
  fairness, which is out of the prover's reach.
- What recursive definitions compute over programs: the parser, the interpreter, the
  peephole's rounds, code generation over a program and the script codec are
  recursive functions of trees and lists. Induction on numbers, as in
  `ScriptExpressions_proofs`, is available, induction over such data is not. So are
  `ParsedAsWritten`, `FoldedAsWritten`, `OptimizedAsWritten`, `MirrorIsExact`,
  `CompiledAsInterpreted`, `RepresentationsAgree` and `DeployedAsWritten`.
- `GraphsAreSound` and `NothingDeadIsKept` of the lifetime planner. The invariant
  of the proof does not follow the names of the table's entries nor on which path a
  value was defined, so a graph the analysis would reject is not ruled out by it;
  and what is dead needs the liveness to be the *least* solution, where
  `LivesKept` needs only that it is one.
- `PlansAreBest` and `EmittedMovesAreExact` of the stack planner, `FactsAreTrue` of
  code generation, `OriginsAreTrue` and `NothingIsLeft` of the peephole pass,
  `SessionIsItsScript` of the shell and `FinalizedOnce` of the layout: the first
  rests on a search over all stacks, the others on operators over whole programs.
## What was found

Each item was seen in a behaviour of the model and followed in the code. The runs
leave out the programs concerned by a named bound (`Excluded`, `Idioms`,
`Representable`), so that the properties hold of everything else. File names are
relative to `src/src`; *visitor* is `compiler/ast_to_bytecode_visitor.cpp`.

*Debugger*

- The response to a pause may follow the stop it belongs to: the handler tests
  `isRunning()` (`debugger/protocol/live_debug_server.cpp:536`) and marks the
  response as pending in a later step. `test/live/live_protocol.test.js:506`
  asserts the opposite. `PauseStopFollowsItsResponse` is about requests that were
  marked in time.
- A function that is expanded twice keeps only the range of its last expansion
  (`debugger/info/debug_info.cpp:667`), so that `next` steps into the first.
  Adjacent calls leave a stale frame, with which `OP_RETURN` goes back
  (`debugger/vm/bvm_simulator.cpp:606`). A range inside one that sorts before it is
  not found at its entry, and its breakpoint never stops (`Hidden`).
- A request whose `command` is not a string or whose `seq` is not a number makes
  `request.value` throw outside the `try` of `handleRequest`
  (`live_debug_server.cpp:443`) or in `makeResponse` (1532); `main` has no handler,
  and the process aborts without an answer. The client of `LiveDebugSession` writes
  no such line.
- `continue` after a step that ended on a breakpoint stops there again
  (`bvm_simulator.cpp:316`).
- `break` enables every disabled breakpoint (`debugger/interface/cli_debugger.cpp:334`);
  the manual (`docs/en/references/debugger_user_manual.md:162`) says of a disabled
  breakpoint that it "won't trigger". `StopsWhereAsked` asks what the user disabled
  and excludes the breakpoints in `revived` by name; TLC finds it violated without
  that exclusion.

*Code generation*

- A condition that is an identifier without a slot on the main stack is consumed
  twice by the compiler's stack and once by the machine (visitor 1923-1928): `a = p
  == q; if q: Return Push(6) else: Return Push(7)` branches on `a`. The comment
  there says that the real slot is consumed "as well".
- Two arguments at depths 3 and 1, or 5 and 3, are taken for a pair (visitor 8945)
  and moved with `OP_2SWAP` or `OP_2ROT`; the comment at 8873 says where they should
  be. `analyzeArgumentLayout` counts that as one byte, so no plan replaces it.
- Two fields of the state share a placeholder if the name of one and its size read
  like the other's: with `x: hex2` and `x2: hex2`, `<self.x>` becomes `<self.x2>`
  (visitor 866-869, `bytecode_finalize_pass.h:548`), although
  `ast_to_bytecode_converter.h:257` takes care of names that end in digits.
- A block variable on the alt stack is taken off once more than the machine takes
  it (visitor 1211-1231). An alias of a variable on the alt stack keeps reading the
  old value after `SetMain` and a new assignment (visitor 3399-3411). A value bound
  to a name on the alt stack survives `SetMain`.
- A variable renamed in a branch is no longer cleaned up; a constant of the `then`
  branch counts as not owned at the join; the deletion of a constant in a branch is
  forgotten at the join; after `a = 3; Delete(a)` an instruction without code
  remains in the debug information.
- After `if q: Return p else: a = 0` the analysis lets `a` be read although code
  generation does not know it. A branch whose loop always returns is taken to fall
  through.

*Expressions*, where machine and AST interpreter differ (`Differs` in
`ScriptExpressions`):

- `least`: the least integer takes nine bytes, which the machine refuses to read.
- `falseBytes`: `Not`, `Verify` and `ZeroNotEqual` of a negative zero or a number
  that is too wide.
- `identity`: `p + 0`, `p - 0`, `p * 1` and `p / 1` emit nothing (visitor
  5631-5687), so that a padded or too wide `p` stays as it is.
- `byteOrder`: `NumToBin` and `BinToNum` are big-endian on the machine and
  little-endian in the interpreter and in `BUILTIN_FUNCTION_DOC.md:925`.
- `sliceBounds`: bounds the interpreter clamps and the machine refuses.
- Not in the model: `Size(p)` of a variable that is not on top gives the size of
  the item on top (visitor 8142); `r = -p` leaves a name in the script (visitor
  5474); the overflow check of `OP_NUM2BIN` never holds (`bvm_simulator.cpp:1155`) and
  `OP_BIN2NUM` shifts into a signed word (1173); the interpreter lacks `Split`,
  `Min`, `Max`, `Within` and some comparisons; its range loop adds without a check
  (`interpreter/ast_interpreter.cpp:1498`) and allows ten times the iterations the
  compiler allows.

*Optimisation and shell*

- `5 5 EQUAL VERIFY` is optimised to nothing; the roll-back looks at the input only
  (`bytecode_peephole_pass.h:421`). A legacy program of which nothing is left is then
  refused as empty.
- A cell is compiled and optimised with those before it, and a rewrite across the
  border changes code that has been executed (`compiler_repl/cell_compiler.cpp:526`):
  `x = Push(1)`, `Delete(x)` leaves 1 on the session's stack. `%debug` of a constant
  cell executes the whole session again. An internal compiler error ends the
  process (`error/error_manager.cpp:55`).

*Front end*

- An import with a trailing comment is not one (`lexer/import_resolver.cpp:27`).
  `Return` and destructuring do not need a line end; blocks without a header refuse
  a trailing blank line; a struct refuses one before its first field. Those of them
  that change what is accepted are excluded by name.

## What is not modelled

- *A script that ends inside a private function.* The simulator returns to the
  caller, a real script would end (comment at `bvm_simulator.cpp:1657`).
- *Breakpoints* on a bare position, ignore counts, temporary and data breakpoints:
  no caller sets them.
- *The extension's* replay adapter, its renumbered variable references
  (`extension.js:2495`), panels and commands; the web page.
- *In code generation*: structs, arrays, private functions, types, hashes,
  signatures and transaction opcodes, the functions only the compiler knows.
- *The debug information's* scopes and variables, the inspectors, the step trace:
  they are read and displayed.
- *Positions of merged tails.* Where the optimiser has merged the tails of two
  branches, `getCurrentLocation` (`bvm_simulator.cpp:1748`) chooses among the origins
  of an instruction by the branches this run has taken
  (`debugger/info/debug_info.cpp:742`). `PositionAt` is a function of the program
  counter: the step commands are modelled for programs without merged tails. That the
  origins themselves survive the merge is checked by the peephole run.
- *Conditions of breakpoints*, which the code never evaluates (`breakpoint.cpp:61`).
- *Parsers, printers and I/O*: wording, layout, JSON, files, logging, the pass
  manager, the transaction loader, the lines of the interpreter's shell.
- *Undefined behaviour.* The server's threads share atomics, state under a mutex
  and the VM; that the VM is not shared is `VMHasOneUser`, so the model has no data
  race to resolve. Signed overflow wraps where the code computes without a check
  (`ScriptNumbers`).

## Plan

*Proofs.* The planner's certificate (every recorded state is queued or relaxed,
hence `PlansAreBest`); that the planner's values are available where they are
used, hence `GraphsAreSound`; the least liveness, hence `NothingDeadIsKept`; padding
and alignment of `ScriptLayout`.

*Modules.* Private functions and their arguments in `CodeGeneration`; arrays and
structs; scopes and variables of the debug information; the replay adapter.

## Running the checks

Each run in `PROJECT.json` names a root module and a configuration:

    tlc -config LiveDebugSession.cfg LiveDebugSession.tla

Every run ends within five minutes with two workers. The proofs are checked with

    tlapm LiveDebugSession_proofs.tla
    tlapm BVMSimulator_proofs.tla
    tlapm LiveDebugAdapter_proofs.tla
    tlapm LiveDebugAdapterAgreement_proofs.tla
    tlapm BreakpointManager_proofs.tla
    tlapm ScriptExpressions_proofs.tla
    tlapm LifetimePlanner_proofs.tla
    tlapm CompilerSession.tla

which use SMT (Z3), Zenon and, for the temporal steps, LS4.
