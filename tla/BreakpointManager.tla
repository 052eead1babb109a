--------------------------- MODULE BreakpointManager ---------------------------
(***************************************************************************)
(* The breakpoints of a debug session: the table and the pc index of       *)
(* src/src/debugger/breakpoint/breakpoint_manager.cpp, and the clients that *)
(* change them. A process has one client:                                  *)
(*                                                                         *)
(*   "cli"   the command line debugger: break, delete, disable, enable     *)
(*   "live"  the live debug server: setBreakpoints replaces the            *)
(*           breakpoints of one source file                                *)
(*                                                                         *)
(* Either client works while the VM is stopped (LiveDebugSession shows it  *)
(* of the server), and the VM asks shouldBreakAtPC while it runs.          *)
(***************************************************************************)
EXTENDS Integers, Sequences

CONSTANTS
    Sources,      \* source files the debug information or a client names
    MainSource,   \* DebugInfo::sourceFilename
    Lines,        \* line numbers
    PCs,          \* instruction positions
    PCsOf,        \* DebugInfo::getPCsForSourceLine, by source and line
    Functions,    \* DebugInfo::functions: names by their order in the map
    Start, End,   \* ... and their half-open ranges
    MaxItems,     \* bound: lines of one setBreakpoints request
    MaxId,        \* bound: breakpoints ever added
    MaxHits       \* bound: hits counted by one breakpoint

ASSUME SourcesAssumption == MainSource \in Sources
ASSUME LinesAssumption == Lines \subseteq Nat \ {0}
ASSUME PCsAssumption == PCs \subseteq Nat
ASSUME PCsOfAssumption == PCsOf \in [Sources \X Lines -> SUBSET PCs]
ASSUME FunctionsAssumption ==
    /\ Functions \subseteq Nat \ {0}
    /\ Start \in [Functions -> PCs] /\ End \in [Functions -> Nat]
    /\ \A f \in Functions : Start[f] < End[f]
ASSUME BoundsAssumption == MaxItems \in Nat /\ MaxId \in Nat /\ MaxHits \in Nat

VARIABLES
    client,          \* which of the two clients this process has
    breakpoints,     \* m_breakpoints
    pcToBreakpoints, \* m_pcToBreakpoints
    nextId,          \* m_nextId
    sourceIds,       \* m_sourceBreakpointIds of the live server
    todo,            \* the setBreakpoints request being handled
    check,           \* the VM's last question and the answer to it
    asked,           \* auxiliary: per source, the lines its client asked for
    failed,          \* auxiliary: sources one of whose requests failed
    disabled,        \* auxiliary: ids the user has disabled, and not enabled since
    revived          \* auxiliary: those of them a later "break" has enabled

wishes == <<disabled, revived>>

vars == <<client, breakpoints, pcToBreakpoints, nextId, sourceIds, todo,
          check, asked, failed, wishes>>

Kinds    == {"line", "conditional", "function"}
Malformed == 0                         \* an item that is no line number
Requests == Lines \cup {Malformed}    \* an item of "breakpoints"

IsLine(b) == b.kind \in {"line", "conditional"}    \* dynamic_cast<LineBreakpoint>

(* The state PENDING needs debug information that changes: none does.      *)
Breakpoint == {b \in [kind : Kinds, source : Sources, line : Lines \cup {0},
                      name : Functions \cup {0}, enabled : BOOLEAN,
                      hits : Nat, pcs : SUBSET PCs] :
                  IsLine(b) \/ b.name \in Functions}

Ids == DOMAIN breakpoints
Executable(source, line) == PCsOf[<<source, line>>] # {}

NoRequest == [source |-> MainSource, items |-> <<>>, ids |-> {}, lines |-> {},
              active |-> FALSE]
Idle      == ~todo.active

With(f, id, b)  == [i \in DOMAIN f \cup {id} |-> IF i = id THEN b ELSE f[i]]

Init ==
    /\ client \in {"cli", "live"}
    /\ breakpoints = [i \in {} |-> NoRequest]
    /\ pcToBreakpoints = [pc \in PCs |-> {}]
    /\ nextId = 1
    /\ sourceIds = [s \in Sources |-> {}]
    /\ todo = NoRequest
    /\ check = [pc |-> 0, executing |-> FALSE, active |-> {}, id |-> 0]
    /\ asked = [s \in Sources |-> {}]
    /\ failed = {} /\ disabled = {} /\ revived = {}
-----------------------------------------------------------------------------
(***************************************************************************)
(* The manager's operations.                                               *)
(***************************************************************************)
updatePCToBreakpointMapping(index, id, b) ==
    IF IsLine(b) THEN [pc \in PCs |-> IF pc \in b.pcs THEN index[pc] \cup {id}
                                                      ELSE index[pc]]
                 ELSE index

(* resolveBreakpoint: the positions of the line, and always ENABLED.       *)
Resolved(b) ==
    [b EXCEPT !.pcs = IF IsLine(b) THEN PCsOf[<<b.source, b.line>>] ELSE @,
              !.enabled = TRUE]

(* addLineBreakpoint, addConditionalBreakpoint: of a line with code, else  *)
(* they return 0 and nothing changes.                                      *)
NewLine(kind, source, line) ==
    [kind |-> kind, source |-> source, line |-> line, name |-> 0,
     enabled |-> TRUE, hits |-> 0, pcs |-> PCsOf[<<source, line>>]]

NewFunction(name) ==
    [kind |-> "function", source |-> MainSource, line |-> 0, name |-> name,
     enabled |-> TRUE, hits |-> 0, pcs |-> {}]

MutAddLine(kind, source, line) ==
    /\ breakpoints' = With(breakpoints, nextId, NewLine(kind, source, line))
    /\ pcToBreakpoints' = updatePCToBreakpointMapping(pcToBreakpoints, nextId,
                              NewLine(kind, source, line))
    /\ UNCHANGED nextId
AddLine(kind, source, line) ==
    LET b == NewLine(kind, source, line)
    IN  /\ breakpoints' = With(breakpoints, nextId, b)
        /\ pcToBreakpoints' =
               updatePCToBreakpointMapping(pcToBreakpoints, nextId, b)
        /\ nextId' = nextId + 1

(* cmdBreak calls resolveBreakpoints as well: every breakpoint, again.     *)
ResolveAll(table) == [i \in DOMAIN table |-> Resolved(table[i])]

ReindexAll(index, table) ==
    [pc \in PCs |->
        (index[pc] \ {i \in DOMAIN table : IsLine(table[i]) /\ pc \in table[i].pcs})
        \cup {i \in DOMAIN table : IsLine(table[i])
                                   /\ pc \in PCsOf[<<table[i].source, table[i].line>>]}]

AddLineAndResolveAll(source, line) ==
    LET b == NewLine("line", source, line)
        table == With(breakpoints, nextId, b)
    IN  /\ breakpoints' = ResolveAll(table)
        /\ pcToBreakpoints' = ReindexAll(
               updatePCToBreakpointMapping(pcToBreakpoints, nextId, b), table)
        /\ nextId' = nextId + 1

(* removeBreakpoint for a set of ids, one after the other.                 *)
removeBreakpoints(ids) ==
    /\ breakpoints' = [i \in Ids \ ids |-> breakpoints[i]]
    /\ pcToBreakpoints' =
           [pc \in PCs |-> pcToBreakpoints[pc] \
               {i \in ids \cap Ids : IsLine(breakpoints[i])
                                     /\ pc \in breakpoints[i].pcs}]

Switched(b, enabled) == [b EXCEPT !.enabled = enabled]    \* setState
Counted(b)           == [b EXCEPT !.hits = @ + 1]         \* incrementHitCount

Becomes(id, b) == breakpoints' = [breakpoints EXCEPT ![id] = b]

SetEnabled(id, enabled) ==
    IF id \in Ids THEN Becomes(id, Switched(breakpoints[id], enabled))
                  ELSE UNCHANGED breakpoints
-----------------------------------------------------------------------------
(***************************************************************************)
(* The VM: shouldBreakAtPC of the instruction at pc, in a branch that is   *)
(* executed or not, where "active" are the source lines the instruction    *)
(* stands for on the branches taken (hasActiveSourceOrigin).               *)
(***************************************************************************)
Least(S) == CHOOSE i \in S : \A j \in S : i <= j

getFunctionAtPC(pc) ==
    LET around == {f \in Functions : Start[f] <= pc /\ pc < End[f]}
    IN  IF around = {} THEN 0 ELSE Least(around)

LinesAt(pc) == {l \in Sources \X Lines : pc \in PCsOf[l]}

(* LineBreakpoint::shouldBreak; ConditionalBreakpoint::shouldBreak asks it *)
(* and does not evaluate its condition, a TODO of the code.                *)
MutLineStops(pc, active) ==
    {i \in Ids : breakpoints[i].enabled /\ i \in pcToBreakpoints[pc]}
LineStops(pc, active) ==
    {i \in pcToBreakpoints[pc] \cap Ids :
        /\ breakpoints[i].enabled /\ pc \in breakpoints[i].pcs
        /\ <<breakpoints[i].source, breakpoints[i].line>> \in active}

FunctionStops(pc) ==
    LET f == getFunctionAtPC(pc)
    IN  {i \in Ids : /\ breakpoints[i].kind = "function" /\ breakpoints[i].enabled
                     /\ f # 0 /\ Start[f] = pc /\ breakpoints[i].name = f}

(* The breakpoint that stops the VM, 0 if none does.                       *)
StopAt(pc, executing, active) ==
    CASE ~executing -> 0
      [] executing /\ LineStops(pc, active) # {} -> Least(LineStops(pc, active))
      [] executing /\ LineStops(pc, active) = {} /\ FunctionStops(pc) # {} ->
             Least(FunctionStops(pc))
      [] OTHER -> 0

shouldBreakAtPC(pc, executing, active) ==
    LET id == StopAt(pc, executing, active)
    IN  /\ Idle
        /\ id # 0 => breakpoints[id].hits < MaxHits
        /\ check' = [pc |-> pc, executing |-> executing, active |-> active,
                     id |-> id]
        /\ IF id = 0 THEN UNCHANGED breakpoints
                     ELSE Becomes(id, Counted(breakpoints[id]))
        /\ UNCHANGED <<client, pcToBreakpoints, nextId, sourceIds, todo, asked,
                       failed, wishes>>
-----------------------------------------------------------------------------
(***************************************************************************)
(* The command line debugger.                                              *)
(***************************************************************************)
AtPrompt == client = "cli" /\ nextId <= MaxId
OnlyManager == UNCHANGED <<client, sourceIds, todo, check, asked, failed>>

(* findNearestValidSourceLine with distance 2: the first executable one.   *)
Nearest(source, line) ==
    LET candidates == <<line, line + 1, line - 1, line + 2, line - 2>>
        Valid(i) == candidates[i] \in Lines /\ Executable(source, candidates[i])
    IN  {candidates[i] : i \in {j \in 1..5 : Valid(j) /\ \A k \in 1..j - 1 : ~Valid(k)}}

(* "break <line>": without an executable line nothing changes. The nearest *)
(* line is read back from its first position, which may stand for several. *)
cmdBreakLine(line) ==
    /\ AtPrompt
    /\ \E near \in Nearest(MainSource, line) :
           \E source \in Sources, l \in Lines :
               /\ \/ near = line /\ source = MainSource /\ l = line
                  \/ near # line /\ Least(PCsOf[<<MainSource, near>>]) \in PCsOf[<<source, l>>]
               /\ Executable(MainSource, l)
               /\ AddLineAndResolveAll(MainSource, l)
    /\ revived' = disabled
    /\ UNCHANGED disabled /\ OnlyManager

cmdBreakFunction(name) ==
    /\ AtPrompt
    /\ breakpoints' = With(breakpoints, nextId, NewFunction(name))
    /\ nextId' = nextId + 1
    /\ UNCHANGED <<pcToBreakpoints, wishes>> /\ OnlyManager

cmdDelete(id) ==
    /\ client = "cli"
    /\ removeBreakpoints({id})
    /\ disabled' = disabled \ {id} /\ revived' = revived \ {id}
    /\ UNCHANGED nextId /\ OnlyManager

cmdDisable(id) ==
    /\ client = "cli"
    /\ SetEnabled(id, FALSE)
    /\ disabled' = disabled \cup ({id} \cap Ids) /\ revived' = revived \ {id}
    /\ UNCHANGED <<pcToBreakpoints, nextId>> /\ OnlyManager

cmdEnable(id) ==
    /\ client = "cli"
    /\ SetEnabled(id, TRUE)
    /\ disabled' = disabled \ {id} /\ revived' = revived \ {id}
    /\ UNCHANGED <<pcToBreakpoints, nextId>> /\ OnlyManager
-----------------------------------------------------------------------------
(***************************************************************************)
(* The live server's handleSetBreakpoints: removes what it has recorded    *)
(* for the source, then adds item after item, then records the ids. An     *)
(* item that is no line throws, and the request is answered as failed.     *)
(***************************************************************************)
Begin(source, items) ==
    /\ client = "live" /\ Idle
    /\ removeBreakpoints(sourceIds[source])
    /\ sourceIds' = [sourceIds EXCEPT ![source] = {}]
    /\ todo' = [source |-> source, items |-> items, ids |-> {}, lines |-> {},
                active |-> TRUE]
    /\ UNCHANGED <<client, nextId, check, asked, failed, wishes>>

HandleItem ==
    /\ todo.active /\ todo.items # <<>> /\ Head(todo.items) \in Lines
    /\ IF Executable(todo.source, Head(todo.items))
       THEN /\ nextId <= MaxId
            /\ \E kind \in {"line", "conditional"} :
                   AddLine(kind, todo.source, Head(todo.items))
            /\ todo' = [todo EXCEPT !.items = Tail(@), !.ids = @ \cup {nextId},
                                    !.lines = @ \cup {Head(todo.items)}]
       ELSE /\ todo' = [todo EXCEPT !.items = Tail(@)]
            /\ UNCHANGED <<breakpoints, pcToBreakpoints, nextId>>
    /\ UNCHANGED <<client, sourceIds, check, asked, failed, wishes>>

ItemThrows ==
    /\ todo.active /\ todo.items # <<>> /\ Head(todo.items) \notin Lines
    /\ todo' = NoRequest
    /\ failed' = failed \cup {todo.source}
    /\ UNCHANGED <<client, breakpoints, pcToBreakpoints, nextId, sourceIds,
                   check, asked, wishes>>

MutFinish ==
    /\ todo.active /\ todo.items = <<>>
    /\ asked' = [asked EXCEPT ![todo.source] = todo.lines]
    /\ todo' = NoRequest
    /\ UNCHANGED <<client, breakpoints, pcToBreakpoints, nextId, sourceIds,
                   check, failed, wishes>>
Finish ==
    /\ todo.active /\ todo.items = <<>>
    /\ sourceIds' = [sourceIds EXCEPT ![todo.source] = todo.ids]
    /\ asked' = [asked EXCEPT ![todo.source] = todo.lines]
    /\ todo' = NoRequest
    /\ UNCHANGED <<client, breakpoints, pcToBreakpoints, nextId, check, failed,
                   wishes>>
-----------------------------------------------------------------------------
(* The client rests: it has no more commands, or the bounds are reached.   *)
Rest == Idle /\ UNCHANGED vars

Cli ==
    \/ \E l \in Lines : cmdBreakLine(l)
    \/ \E f \in Functions : cmdBreakFunction(f)
    \/ \E id \in 1..MaxId : cmdDelete(id) \/ cmdDisable(id) \/ cmdEnable(id)

Live ==
    \/ \E s \in Sources, n \in 0..MaxItems :
           /\ nextId + n <= MaxId + 1
           /\ \E items \in [1..n -> Requests] : Begin(s, items)
    \/ HandleItem \/ ItemThrows \/ Finish

VM == \E pc \in PCs, executing \in BOOLEAN :
          \E active \in SUBSET LinesAt(pc) : shouldBreakAtPC(pc, executing, active)

Next == Cli \/ Live \/ VM \/ Rest

Spec == Init /\ [][Next]_vars
-----------------------------------------------------------------------------
(***************************************************************************)
(* Properties.                                                             *)
(***************************************************************************)
(* The types of the manager's and of the server's tables.                  *)
TablesTypeOK ==
    /\ client \in {"cli", "live"}
    /\ nextId \in Nat \ {0}
    /\ Ids \subseteq 1..nextId - 1
    /\ breakpoints \in [Ids -> Breakpoint]
    /\ \A i \in Ids : IsLine(breakpoints[i]) => breakpoints[i].line \in Lines
    /\ pcToBreakpoints \in [PCs -> SUBSET (1..nextId - 1)]
    /\ sourceIds \in [Sources -> SUBSET (1..nextId - 1)]
    /\ todo \in [source : Sources, items : Seq(Requests),
                ids : SUBSET (1..nextId - 1), lines : SUBSET Lines,
                active : BOOLEAN]
    /\ asked \in [Sources -> SUBSET Lines] /\ failed \subseteq Sources

(* The variables keep their types; ids are never given twice.              *)
TypeOK == TablesTypeOK /\ disabled \subseteq Ids /\ revived \subseteq disabled

(* m_pcToBreakpoints is the inverse of the positions of the breakpoints in *)
(* m_breakpoints, however they are added, replaced and removed: an id that *)
(* is left over would be looked up at every instruction for ever.          *)
IndexMatches ==
    \A pc \in PCs :
        pcToBreakpoints[pc] = {i \in Ids : IsLine(breakpoints[i])
                                           /\ pc \in breakpoints[i].pcs}

(* The places a breakpoint stands for: its line, wherever that line is      *)
(* active (a condition is kept and never evaluated), or the entry of its    *)
(* function.                                                               *)
Covers(b, question) ==
    IF IsLine(b) THEN <<b.source, b.line>> \in question.active
                 ELSE question.pc = Start[b.name]

(* Excluded by name: a function at whose entry getFunctionAtPC finds one of *)
(* the functions before it in the map's order, expanded around that entry. *)
Hidden(b) ==
    /\ ~IsLine(b)
    /\ \E f \in Functions : /\ f < b.name
                            /\ Start[f] <= Start[b.name] /\ Start[b.name] < End[f]

(* A question stops at a breakpoint the user has not disabled ...          *)
MissesNone(q) ==
    q.executing /\ (\E i \in Ids \ disabled : Covers(breakpoints[i], q)
                                             /\ ~Hidden(breakpoints[i]))
    => q.id # 0

(* ... and at no other; at a disabled one only if it is revived.           *)
StopsAtWished(q) ==
    q.id # 0 =>
        /\ q.executing
        /\ q.id \in Ids /\ Covers(breakpoints[q.id], q)
        /\ q.id \in disabled => q.id \in revived

(* Through the index, the branch trace and the table, the VM's questions   *)
(* get the answers the user asked for with break, disable, enable and      *)
(* delete, or with setBreakpoints: it stops wherever a breakpoint the user *)
(* has not disabled stands, and nowhere else; at a disabled breakpoint only *)
(* if a later "break" has revived it (excluded by name: cmdBreak resolves  *)
(* every breakpoint, and resolving enables it).                            *)
StopsWhereAsked ==
    [][check' # check => MissesNone(check') /\ StopsAtWished(check')]_vars

(* setBreakpoints replaces: after a request the breakpoints of its source  *)
(* are those of its last request, and all of them can be replaced again;   *)
(* unless a request for it has ever failed half-way.                       *)
IdsOf(s)   == {i \in Ids : breakpoints[i].source = s}
LinesOf(s) == {breakpoints[i].line : i \in IdsOf(s)}

LastRequestCounts ==
    client = "live" /\ Idle =>
        \A s \in Sources \ failed :
            /\ LinesOf(s) = asked[s]
            /\ IdsOf(s) = sourceIds[s]

(* The tables of the breakpoints agree with one another and with what was  *)
(* asked for.                                                              *)
TablesAgree == IndexMatches /\ LastRequestCounts

(* What these rest on: a line breakpoint has the positions of its line, and *)
(* the live server's records name breakpoints of their source only.        *)
Located ==
    \A i \in Ids : IsLine(breakpoints[i]) =>
        breakpoints[i].pcs = PCsOf[<<breakpoints[i].source, breakpoints[i].line>>]

Handles(s) == todo.active /\ todo.source = s

RecordsInv ==
    /\ client = "cli" => Idle
    /\ client = "live" => \A i \in Ids : IsLine(breakpoints[i])
    /\ \A s \in Sources : sourceIds[s] \subseteq {i \in 1..nextId - 1 :
                              i \in Ids => breakpoints[i].source = s}
    /\ \A i \in todo.ids : i \in Ids => breakpoints[i].source = todo.source
    /\ client = "live" =>
           \A s \in Sources \ failed :
               /\ Handles(s) => IdsOf(s) = todo.ids /\ LinesOf(s) = todo.lines
               /\ ~Handles(s) => IdsOf(s) = sourceIds[s] /\ LinesOf(s) = asked[s]

AgreeInv == TablesTypeOK /\ IndexMatches /\ Located /\ RecordsInv

(* A breakpoint is enabled unless the user has disabled it and no "break"  *)
(* has enabled it again.                                                   *)
WishInv ==
    /\ disabled \subseteq Ids /\ revived \subseteq disabled
    /\ client = "live" => disabled = {}
    /\ \A i \in Ids : breakpoints[i].enabled <=> (i \notin disabled \/ i \in revived)

IndInv == AgreeInv /\ WishInv
=============================================================================
