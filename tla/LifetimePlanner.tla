---------------------------- MODULE LifetimePlanner ----------------------------
(***************************************************************************)
(* The planner of src/src/compiler/ast_lifetime_planner.cpp: it turns the  *)
(* body of a function into a control flow graph, one action per node it    *)
(* visits, has the graph analysed (ValueLifetime), and schedules after     *)
(* which statements code generation may drop a variable. Then the function *)
(* runs, along any path of the graph, and loses what the analysis gives up *)
(* (present) and what code generation drops (slots).                       *)
(*                                                                         *)
(* The planner takes the tree as it comes: declarations may shadow one     *)
(* another, and a variable may be used after it was deleted.               *)
(***************************************************************************)
EXTENDS ValueLifetime, SequencesExt

CONSTANTS
    Names,          \* of variables
    Parameters,     \* those that are parameters of the function
    MaxStatements,  \* bound on the statements of the function
    MaxDepth        \* bound on their nesting

ASSUME NamesAssumption == IsFiniteSet(Names) /\ Parameters \subseteq Names
ASSUME BoundsAssumption == MaxStatements \in Nat /\ MaxDepth \in Nat

VARIABLES
    graph,      \* m_plan.cfg and m_plan.values
    scopes,     \* m_scopes: the value of each name, the innermost scope last
    block,      \* m_currentBlock
    open,       \* the nodes being visited, the innermost last
    reaches,    \* whether the statements so far reach their end
    planned,    \* the number of statements visited
    phase,
    dominators, live, reaching,  \* the sets the analysis computes
    result,     \* its kills and its issues
    place,      \* of the running function: a block, and how many of its statements are done
    present,    \* the atoms the analysis has not given up
    slots,      \* the atoms code generation has not dropped
    pending,    \* the kills whose statement is not at its end yet
    lent        \* the atoms something that is not in the graph may use

planner == <<graph, scopes, block, open, reaches, planned>>
analysis == <<dominators, live, reaching, result>>
machine == <<place, present, slots, pending, lent>>
vars == <<planner, phase, analysis, machine>>

NoScope == [x \in {} |-> 0]
NoResult == [kills |-> {}, edgeKills |-> {}, schedule |-> {}, escaped |-> {}, issues |-> {}]
EmptyBlock == [statements |-> <<>>, successors |-> {}]

Phases == {"planning", "dominators", "liveness", "reaching", "rejected", "running"}
-----------------------------------------------------------------------------
(* Names and values.                                                       *)
Visible == UNION {DOMAIN scopes[i] : i \in DOMAIN scopes}
Owner(x) == CHOOSE i \in DOMAIN scopes :
    x \in DOMAIN scopes[i] /\ \A j \in DOMAIN scopes : x \in DOMAIN scopes[j] => j <= i
Current(x) == scopes[Owner(x)][x]

Bound(scope, x, v) == [y \in DOMAIN scope \cup {x} |-> IF y = x THEN v ELSE scope[y]]

NewValue == Len(graph.table) + 1

(* A value in a place of its own, and one that shares its source's.        *)
Fresh(x, binding, v) == [name |-> x, binding |-> binding, atoms |-> {v}, sources |-> {}]
Alias(x, v, source) ==
    [name |-> x, binding |-> v, atoms |-> graph.table[source].atoms, sources |-> {source}]

(* Statements of the graph know the statement of the program they come     *)
(* from (m_statementAnchors), and which statement of the function's own    *)
(* list that is part of (m_lifetimeControlFlowDepth).                      *)
Conditionals == {i \in DOMAIN open : open[i].kind # "block"}
Outermost(frames, id) == IF frames = {} THEN id ELSE open[Min(frames)].id
Anchored(definitions, uses, id) ==
    [definitions |-> definitions, uses |-> uses, anchor |-> id, top |-> Outermost(Conditionals, id)]

Appended(g, b, s) == [g EXCEPT !.blocks[b].statements = Append(@, s)]
Linked(g, from, to) == [g EXCEPT !.blocks[from].successors = @ \cup to]

InLoop == \E i \in DOMAIN open : open[i].kind = "for"

EscapesOf(values) ==
    LET order == SetToSeq(values) IN [i \in DOMAIN order |-> Use(order[i], "Escape")]

(* What is defined in a loop is not reclaimed: appendLoopDefinitionEscapes.*)
Recorded(g, b, s, inLoop) ==
    IF inLoop /\ s.definitions # {}
    THEN Appended(Appended(g, b, s), b, [s EXCEPT !.definitions = {}, !.uses = EscapesOf(s.definitions)])
    ELSE Appended(g, b, s)
-----------------------------------------------------------------------------
Planning == phase = "planning" /\ reaches /\ planned < MaxStatements
Counted == planned' = planned + 1
Nesting == Planning /\ Len(open) < MaxDepth
Id == planned + 1
Elsewhere == UNCHANGED <<phase, analysis, machine>>

Plain(s) ==
    /\ graph' = Appended(graph, block, s)
    /\ UNCHANGED <<scopes, block, open>>
    /\ Counted /\ Elsewhere

(* x: int = ..., where the value is a literal, a variable (whose place x   *)
(* shares) or the result of an operator on a variable.                     *)
VarDecl(x, uses, sources) ==
    /\ Planning
    /\ LET v == NewValue
           entry == IF sources = {} THEN Fresh(x, v, v)
                    ELSE Alias(x, v, CHOOSE source \in sources : TRUE)
       IN  /\ graph' = Recorded([graph EXCEPT !.table = Append(@, entry)], block,
                                Anchored({v}, uses, Id), InLoop)
           /\ scopes' = [scopes EXCEPT ![Len(scopes)] = Bound(@, x, v)]
    /\ UNCHANGED <<block, open, reaches>>
    /\ Counted /\ Elsewhere

(* x = ...: a new value for the binding, in a new place.                   *)
Assign(x, uses) ==
    /\ Planning /\ x \in Visible
    /\ LET v == NewValue
           entry == Fresh(x, graph.table[Current(x)].binding, v)
           target == <<Use(Current(x), "None")>>
       IN  /\ graph' = Recorded([graph EXCEPT !.table = Append(@, entry)], block,
                                Anchored({v}, uses \o target, Id), InLoop)
           /\ scopes' = [scopes EXCEPT ![Owner(x)] = Bound(@, x, v)]
    /\ UNCHANGED <<block, open, reaches>>
    /\ Counted /\ Elsewhere

(* An expression: its variables are read, consumed by Delete, or escape    *)
(* into a call.                                                            *)
ExprStmt(uses) ==
    /\ Planning
    /\ Plain(Anchored({}, uses, Id))
    /\ UNCHANGED reaches

(* Return ends the function. (return is planned as an expression that      *)
(* escapes, and so is the value of Return.)                                *)
Return(uses) ==
    /\ Planning
    /\ Plain(Anchored({}, uses, Id))
    /\ reaches' = FALSE

BeginBlock ==
    /\ Nesting
    /\ open' = Append(open, [kind |-> "block", id |-> Id])
    /\ scopes' = Append(scopes, NoScope)
    /\ UNCHANGED <<graph, block, reaches>>
    /\ Counted /\ Elsewhere

EndBlock ==
    /\ phase = "planning" /\ open # <<>> /\ Last(open).kind = "block"
    /\ open' = Front(open) /\ scopes' = Front(scopes)
    /\ UNCHANGED <<graph, block, reaches, planned>>
    /\ Elsewhere
-----------------------------------------------------------------------------
BeginIf(uses) ==
    /\ Nesting
    /\ LET n == Len(graph.blocks)
           condition == Appended(graph, block, Anchored({}, uses, Id))
           grown == [condition EXCEPT !.blocks = @ \o <<EmptyBlock, EmptyBlock, EmptyBlock>>]
       IN  /\ graph' = Linked(grown, block, {n + 1, n + 2})
           /\ open' = Append(open, [kind |-> "if", id |-> Id, before |-> scopes,
                                    else |-> n + 2, join |-> n + 3])
           /\ block' = n + 1
    /\ scopes' = Append(scopes, NoScope)
    /\ UNCHANGED reaches
    /\ Counted /\ Elsewhere

Else ==
    /\ phase = "planning" /\ open # <<>> /\ Last(open).kind = "if"
    /\ LET f == Last(open)
       IN  /\ graph' = IF reaches THEN Linked(graph, block, {f.join}) ELSE graph
           /\ open' = Append(Front(open),
                             [kind |-> "else", id |-> f.id, before |-> f.before, join |-> f.join,
                              thenEnd |-> block, thenReaches |-> reaches, then |-> Front(scopes)])
           /\ block' = f.else
           /\ scopes' = Append(f.before, NoScope)
    /\ reaches' = TRUE
    /\ UNCHANGED planned
    /\ Elsewhere

(* The names whose value differs between the ends of the two branches.     *)
Differing(f, after) ==
    {at \in UNION {{i} \X DOMAIN f.before[i] : i \in DOMAIN f.before} :
        f.then[at[1]][at[2]] # after[at[1]][at[2]]}

(* The names keep what the then-branch gave them.                          *)
MutMerged(f, after, joined) == [graph |-> joined, scopes |-> f.then]

(* Where both branches reach the end, such a name gets a value of its own, *)
(* and neither this value nor the two it stands for is reclaimed.          *)
Merged(f, after, joined) ==
    LET differing == SetToSeq(Differing(f, after))
        New(i) == Len(graph.table) + i
        entries == [i \in DOMAIN differing |->
            LET at == differing[i]
            IN  Fresh(at[2], graph.table[f.before[at[1]][at[2]]].binding, New(i))]
        Of(sc) == {sc[at[1]][at[2]] : at \in ToSet(differing)}
        new == {New(i) : i \in DOMAIN differing}
        At(definitions, values) ==
            [definitions |-> definitions, uses |-> EscapesOf(values), anchor |-> f.id,
             top |-> Outermost(Conditionals \ {Len(open)}, f.id)]
        table == [joined EXCEPT !.table = @ \o entries]
        arms == Appended(Appended(table, f.thenEnd, At({}, Of(f.then))), block, At({}, Of(after)))
    IN  [graph  |-> IF differing = <<>> THEN joined
                    ELSE Appended(Appended(arms, f.join, At(new, {})), f.join, At({}, new)),
         scopes |-> [i \in DOMAIN f.before |-> [x \in DOMAIN f.before[i] |->
                        IF <<i, x>> \in Differing(f, after)
                        THEN New(CHOOSE k \in DOMAIN differing : differing[k] = <<i, x>>)
                        ELSE f.then[i][x]]]]

EndIf ==
    /\ phase = "planning" /\ open # <<>> /\ Last(open).kind = "else"
    /\ LET f == Last(open)
           after == Front(scopes)
           joined == IF reaches THEN Linked(graph, block, {f.join}) ELSE graph
           merged == Merged(f, after, joined)
       IN  /\ graph' = IF f.thenReaches /\ reaches THEN merged.graph ELSE joined
           /\ scopes' = IF f.thenReaches /\ reaches THEN merged.scopes
                        ELSE IF f.thenReaches THEN f.then
                        ELSE IF reaches THEN after
                        ELSE f.before
           /\ block' = f.join
           /\ reaches' = (f.thenReaches \/ reaches)
    /\ open' = Front(open)
    /\ UNCHANGED planned
    /\ Elsewhere

(* The body of a loop is planned once, for all its iterations; whatever    *)
(* could cross the back edge escapes.                                      *)
BeginFor(x) ==
    /\ Nesting
    /\ LET n == Len(graph.blocks)
           v == NewValue
           visible == UNION {{scopes[i][y] : y \in DOMAIN scopes[i]} : i \in DOMAIN scopes}
           setup == Appended(graph, block, Anchored({}, EscapesOf(visible), Id))
           grown == [setup EXCEPT !.blocks = @ \o <<EmptyBlock, EmptyBlock, EmptyBlock>>,
                                  !.table = Append(@, Fresh(x, v, v))]
           linked == Linked(Linked(grown, block, {n + 1}), n + 1, {n + 2, n + 3})
       IN  /\ graph' = Recorded(linked, n + 2, Anchored({v}, <<>>, Id), TRUE)
           /\ open' = Append(open, [kind |-> "for", id |-> Id, before |-> scopes,
                                    header |-> n + 1, exit |-> n + 3])
           /\ block' = n + 2
           /\ scopes' = Append(Append(scopes, Bound(NoScope, x, v)), NoScope)
    /\ UNCHANGED reaches
    /\ Counted /\ Elsewhere

EndFor ==
    /\ phase = "planning" /\ open # <<>> /\ Last(open).kind = "for"
    /\ LET f == Last(open)
       IN  /\ graph' = IF reaches THEN Linked(graph, block, {f.header}) ELSE graph
           /\ scopes' = f.before
           /\ block' = f.exit
    /\ open' = Front(open)
    /\ reaches' = TRUE
    /\ UNCHANGED planned
    /\ Elsewhere
-----------------------------------------------------------------------------
(* The analysis. A graph with issues is given up.                          *)
Unplanned == UNCHANGED <<planner, machine>>
Judged(issues, next) ==
    /\ phase' = IF issues = {} THEN next ELSE "rejected"
    /\ result' = [result EXCEPT !.issues = issues]

Analyse ==
    /\ phase = "planning" /\ open = <<>>
    /\ Judged(DefinitionIssues(graph), "dominators")
    /\ dominators' = InitialDominators(graph)
    /\ UNCHANGED <<live, reaching>> /\ Unplanned

FindDominators ==
    /\ phase = "dominators"
    /\ dominators' = SweepDominators(graph, dominators)
    /\ IF dominators' # dominators
       THEN UNCHANGED <<phase, live, result>>
       ELSE /\ Judged(AvailabilityIssues(graph, dominators), "liveness")
            /\ live' = InitialLiveness(graph)
    /\ UNCHANGED reaching /\ Unplanned

FindLive ==
    /\ phase = "liveness"
    /\ live' = SweepLiveness(graph, live)
    /\ IF live' # live
       THEN UNCHANGED <<phase, reaching>>
       ELSE phase' = "reaching" /\ reaching' = InitialReaching(graph)
    /\ UNCHANGED <<dominators, result>> /\ Unplanned

(* buildSchedule and emitLifetimeCleanupAfter: code generation drops what  *)
(* is killed in the function's own list of statements, if no binding of    *)
(* the atom was ever given another value.                                  *)
Versions(binding) == {v \in Values(graph) : graph.table[v].binding = binding}
Scheduled(kills, escaped) ==
    {kill \in kills :
        /\ kill.cleanup /\ kill.atom \notin escaped
        /\ LET s == Statement(graph, kill.at[1], kill.at[2]) IN s.anchor = s.top
        /\ \A v \in kill.retired : Versions(graph.table[v].binding) = {v}}

FindReaching ==
    /\ phase = "reaching"
    /\ reaching' = SweepReaching(graph, reaching)
    /\ IF reaching' # reaching
       THEN UNCHANGED <<phase, result, machine>>
       ELSE LET issues == ConsumeIssues(graph, live)
                kills == Kills(graph, live, reaching)
                escaped == Escaped(graph)
            IN  /\ phase' = IF issues = {} THEN "running" ELSE "rejected"
                /\ result' = [kills |-> kills, edgeKills |-> EdgeKills(graph, live, reaching),
                              schedule |-> Scheduled(kills, escaped),
                              escaped |-> escaped, issues |-> issues]
                /\ present' = AtomsOf(graph, graph.parameters)
                /\ slots' = present'
                /\ UNCHANGED <<place, pending, lent>>
    /\ UNCHANGED <<dominators, live, planner>>
-----------------------------------------------------------------------------
AtomsKilledBy(kills) == {kill.atom : kill \in kills}
NextStatement == Statement(graph, place[1], place[2] + 1)
HasNext == place[2] < Len(graph.blocks[place[1]].statements)

(* The drops that are due before a statement: those of a statement of the  *)
(* function's list that is over.                                           *)
Due(s) == {kill \in pending : Statement(graph, kill.at[1], kill.at[2]).anchor # s.top}

RunStatement ==
    /\ phase = "running" /\ HasNext
    /\ LET s == NextStatement
           next == <<place[1], place[2] + 1>>
           defined == AtomsOf(graph, s.definitions)
           consumed == AtomsOf(graph, UsedFor(s, "Consume"))
           killed == {kill \in result.kills : kill.at = next}
       IN  /\ place' = next
           /\ present' = (present \cup defined) \ (consumed \cup AtomsKilledBy(killed))
           /\ slots' = ((slots \ AtomsKilledBy(Due(s))) \cup defined) \ consumed
           /\ pending' = (pending \ Due(s)) \cup (killed \cap result.schedule)
           /\ lent' = lent \cup AtomsOf(graph, UsedFor(s, "Escape"))
    /\ UNCHANGED <<planner, phase, analysis>>

TakeEdge(t) ==
    /\ phase = "running" /\ ~HasNext /\ t \in graph.blocks[place[1]].successors
    /\ place' = <<t, 0>>
    /\ present' = present \ AtomsKilledBy({kill \in result.edgeKills :
                                kill.from = place[1] /\ kill.to = t})
    /\ UNCHANGED <<planner, phase, analysis, slots, pending, lent>>
-----------------------------------------------------------------------------
Init ==
    LET order == SetToSeq(Parameters)
        index == [x \in Parameters |-> CHOOSE i \in DOMAIN order : order[i] = x]
    IN  /\ graph = [blocks |-> <<EmptyBlock>>,
                    parameters |-> DOMAIN order,
                    table |-> [i \in DOMAIN order |-> Fresh(order[i], i, i)]]
        /\ scopes = <<index, NoScope>>
        /\ block = Entry /\ open = <<>> /\ reaches = TRUE /\ planned = 0
        /\ phase = "planning"
        /\ dominators = <<>> /\ live = <<>> /\ reaching = <<>> /\ result = NoResult
        /\ place = <<Entry, 0>>
        /\ present = {} /\ slots = {} /\ pending = {} /\ lent = {}

(* The statements the function is made of. The uses of an expression are   *)
(* those of the expression statement; an assignment or a declaration of a  *)
(* literal stands for one that reads variables just before.                *)
Uses(x, effect) == <<Use(Current(x), effect)>>

Plan ==
    \/ \E x \in Names : VarDecl(x, <<>>, {}) \/ Assign(x, <<>>)
    \/ \E x \in Names \ Visible, y \in Visible : VarDecl(x, Uses(y, "None"), {Current(y)})
    \/ \E x \in Names \ Visible : BeginFor(x)
    \/ \E x \in Visible : BeginIf(Uses(x, "None"))
    \/ \E x \in Visible, effect \in Effects : ExprStmt(Uses(x, effect))
    \/ \E x, y \in Visible : Owner(x) < Owner(y) /\ ExprStmt(Uses(x, "Consume") \o Uses(y, "Consume"))
    \/ Return(<<>>)
    \/ BeginBlock \/ EndBlock
    \/ Else \/ EndIf \/ EndFor

Next ==
    \/ Plan
    \/ Analyse \/ FindDominators \/ FindLive \/ FindReaching
    \/ RunStatement
    \/ \E t \in Blocks(graph) : TakeEdge(t)

Spec == Init /\ [][Next]_vars
-----------------------------------------------------------------------------
TypeOK ==
    /\ phase \in Phases
    /\ phase = "planning" =>
        /\ graph.parameters \subseteq Values(graph)
        /\ \A at \in Sites(graph) :
            LET s == Statement(graph, at[1], at[2])
            IN  s.definitions \cup UsedIn(s) \subseteq Values(graph)
        /\ \A b \in Blocks(graph) : graph.blocks[b].successors \subseteq Blocks(graph)
        /\ block \in Blocks(graph)
        /\ \A i \in DOMAIN scopes : \A x \in DOMAIN scopes[i] :
            x = graph.table[scopes[i][x]].name
    /\ present \cup slots \cup lent \subseteq AtomsOf(graph, Values(graph))

(* The planner's graphs are what the analysis takes: every value has one   *)
(* definition, and none is used that another branch has defined or that a  *)
(* branch has replaced.                                                    *)
GraphsAreSound ==
    /\ TypeOK
    /\ result.issues \cap {"ParameterDefined", "DuplicateDefinition", "MissingDefinition",
                        "UseBeforeDefinition", "AliasSourceUnavailable"} = {}

(* No statement finds a place given up that it uses, on whatever path it   *)
(* is reached; what has escaped stays; and nothing is dropped twice.       *)
NothingLiveIsKilled ==
    phase = "running" =>
        /\ lent \subseteq present \cap slots
        /\ HasNext =>
            LET s == NextStatement
                used == AtomsOf(graph, UsedIn(s) \cup SourcesIn(graph, s))
                killed == {kill \in result.kills :
                              kill.cleanup /\ kill.at = <<place[1], place[2] + 1>>}
            IN  /\ used \subseteq present \cap (slots \ AtomsKilledBy(Due(s)))
                /\ AtomsKilledBy(killed) \subseteq present \cup AtomsOf(graph, s.definitions)
                /\ AtomsKilledBy(Due(s)) \subseteq slots
        /\ ~HasNext =>
            AtomsKilledBy({kill \in result.edgeKills : kill.from = place[1]}) \subseteq present

(* The places the rest of the function, from here on, may still use.       *)
Onwards(b) ==
    LET within[n \in Nat] ==
            IF n = 0 THEN graph.blocks[b].successors
            ELSE within[n - 1] \cup UNION {graph.blocks[c].successors : c \in within[n - 1]}
    IN  within[Len(graph.blocks)]
StillUsed ==
    LET sites == {at \in Sites(graph) :
                     \/ at[1] \in Onwards(place[1])
                     \/ at[1] = place[1] /\ at[2] > place[2]}
        statements == {Statement(graph, at[1], at[2]) : at \in sites}
    IN  AtomsOf(graph, UNION {UsedIn(s) \cup SourcesIn(graph, s) : s \in statements})

(* A place no path from here uses has been given up, unless it has escaped *)
(* or the function does not mention it.                                    *)
NothingDeadIsKept ==
    phase = "running" =>
        LET mentioned == AtomsOf(graph, Referenced(graph) \cup Defined(graph))
        IN  \A a \in (present \ result.escaped) \cap mentioned : a \in StillUsed
=============================================================================
