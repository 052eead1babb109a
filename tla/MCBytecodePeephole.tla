--------------------------- MODULE MCBytecodePeephole ---------------------------
(***************************************************************************)
(* Small scripts for the peephole pass: every short straight line over the *)
(* instructions the rules speak of, longer lines over the ones whose rules *)
(* feed each other, branches with common tails, nested branches, and       *)
(* scripts with data after their end.                                      *)
(***************************************************************************)
EXTENDS BytecodePeephole

CONSTANTS LineLength, CoreLength, BranchLength

Ops(names) == {Instruction(name) : name \in names}
Lines(alphabet, n) == UNION {[1..k -> alphabet] : k \in 0..n}

Alphabet ==
    {Push(n) : n \in {-1, 0, 1, 2, 17, PaddedZero}}
        \union {[op |-> "DATA", n |-> NotANumber], Instruction("TEXT")}
        \union Ops({"DUP", "DROP", "SWAP", "OVER", "PICK", "ROLL", "ADD", "SUB",
                    "NOT", "EQUAL", "NUMEQUAL", "NUMNOTEQUAL", "2DROP", "VERIFY",
                    "RETURN"})

Core == {Push(0), Push(1), Push(17)}
            \union Ops({"DUP", "DROP", "SWAP", "EQUAL", "NOT", "VERIFY"})

(* Instructions whose rules expose windows for each other.                 *)
Chained == {Push(0), Push(17)} \union Ops({"DUP", "EQUAL", "NOT", "VERIFY"})

StraightLines == Lines(Alphabet, LineLength) \union Lines(Core, CoreLength)
                     \union Lines(Chained, CoreLength + 1)

If(condition, then, else) ==
    condition \o <<Instruction("IF")>> \o then \o <<Instruction("ELSE")>>
        \o else \o <<Instruction("ENDIF")>>

Bodies == Lines({Push(1)} \union Ops({"DROP", "NOT", "VERIFY", "RETURN"}), BranchLength)
Tests  == {<<>>, <<Instruction("EQUAL"), Instruction("NOT")>>}

Branches == {If(c, t, e) \o d : c \in Tests, t \in Bodies, e \in Bodies,
                                d \in Lines(Ops({"DROP"}), 1)}

(* Regions in both arms of a region, with instructions around them.        *)
Around == Lines(Ops({"DROP"}), 1)
Inner  == {If(<<>>, t, e) \o d : t \in {<<Push(17)>>, <<Push(1), Instruction("VERIFY")>>},
                                 e \in {<<Push(1)>>, <<Push(17)>>}, d \in Around}
Nested == {If(<<>>, a \o t, e) \o d :
               a \in {<<>>, <<Push(17)>>}, t \in Inner, e \in Inner, d \in Around}

Suffixed == {l \o <<Instruction("RETURN"), Push(1), Instruction("DROP")>> :
                 l \in Lines(Core, 2)}

MCPrograms ==
    [code : StraightLines \union Branches \union Nested, suffix : {0}, debug : BOOLEAN]
        \union [code : Suffixed, suffix : {2}, debug : {FALSE}]

MCEntryStacks ==
    {<<>>, <<0>>, <<1, 0>>, <<0, 1, 1>>, <<2, 1, 0>>, <<PaddedZero, 0, 1>>,
     <<NotANumber, NotANumber, 1>>}
=============================================================================
