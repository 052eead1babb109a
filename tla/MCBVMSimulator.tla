---------------------------- MODULE MCBVMSimulator ----------------------------
(***************************************************************************)
(* Small programs for BVMSimulator: all placements of up to two private    *)
(* function expansions in a few shapes of code.                            *)
(***************************************************************************)
EXTENDS BVMSimulator

Main == 5            \* the selected function's name, after those of the privates

Straight == <<"plain", "plain", "plain", "plain", "plain">>
Branch   == <<"if", "plain", "else", "plain", "endif">>
EarlyEnd == <<"plain", "if", "return", "endif", "plain">>
IfInIf   == <<"if", "if", "else", "endif", "endif">>

Expansion(n, s, e) == [name |-> n, start |-> s, end |-> e]

(* Privates have lines of their own, with a column per position; two       *)
(* positions of the selected function share a line.                        *)
Placed(code, privates) ==
    LET N == Len(code)
        all == <<Expansion(Main, 0, N)>> \o privates
        In(q) == SelectSeq(all, LAMBDA e : e.start <= q /\ q < e.end)
        At(q) == LET f == In(q)[Len(In(q))] IN
                 IF f.name = Main THEN <<1 + (q \div 2), 0>>
                                  ELSE <<10 * f.name, q - f.start>>
    IN  [code |-> code, expansions |-> all,
         position |-> [q \in 0..N - 1 |-> At(q)]]

Count(code, e, op) == Cardinality({q \in e.start + 1 .. e.end : code[q] = op})

(* A private function contains whole conditionals.                         *)
Whole(code, e) ==
    /\ Count(code, e, "if") = Count(code, e, "endif")
    /\ Count(code, e, "else") = Count(code, e, "if") \/ Count(code, e, "else") = 0

Ranges(code) == {e \in [name : {1, 2}, start : 0..Len(code) - 1, end : 1..Len(code)] :
                    e.start < e.end /\ Whole(code, e)}

(* The compiler enters an expansion after those that start before it.      *)
AllPrivates(code) ==
    {<<>>} \cup {<<e>> : e \in Ranges(code)}
    \cup {<<e, f>> : <<e, f>> \in {ef \in Ranges(code) \X Ranges(code) :
             Disjoint(ef[1], ef[2]) \/ Nested(ef[1], ef[2])}}

TrackedPrograms ==
    {p \in UNION {{Placed(code, ps) : ps \in AllPrivates(code)} :
                  code \in {Straight, Branch, EarlyEnd, IfInIf}} : Representable(p)}

(* A call and a call in a branch: in these a breakpoint may be set, of a   *)
(* line or of a function. With it every command can stop anywhere, and the *)
(* other programs are many.                                                *)
BreakpointsIn(p) ==
    IF p \in {Placed(Straight, <<Expansion(1, 2, 4)>>),
              Placed(Branch, <<Expansion(1, 1, 2)>>)}
    THEN 1 ELSE 0
=============================================================================
