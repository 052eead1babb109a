--------------------------- MODULE MCCompilerSession ---------------------------
(***************************************************************************)
(* Every cell that can be typed with the statements of the model: one      *)
(* statement, or an assignment together with a Verify, or an expression.   *)
(***************************************************************************)
EXTENDS CompilerSession

CONSTANTS Operators, Written

Expressions ==
    {Literal(v) : v \in Written} \cup {Pushed(v) : v \in Written}
    \cup {Name(y) : y \in Variables} \cup {Clone(y) : y \in Variables}
    \cup {e \in {Operator(o, y, z) : o \in Operators, y \in Variables, z \in Variables} :
              e.names[1] # e.names[2]}

Moves == {Statement(op, x, Nothing) : op \in {"SetAlt", "SetMain", "Delete"}, x \in Variables}
Assigning == {Assigns(x, e) : x \in Variables, e \in Expressions}
Checks == {Verifies(e) : e \in Expressions}
SingleStatements == Moves \cup Assigning \cup Checks \cup {Returns(e) : e \in Expressions}

MCCells ==
    {StatementCell(<<s>>) : s \in SingleStatements}
    \cup {StatementCell(<<s, Verifies(Name(s.target))>>) : s \in Assigning}
    \cup {ExpressionCell(e) : e \in Expressions}

Symmetry == Permutations(Variables)
=============================================================================
