---------------------------- MODULE MCScriptLayout ----------------------------
(***************************************************************************)
(* Small contracts: a byte has 18 values, a push of its own opcode at most *)
(* 3 bytes, the code is aligned to 5. Two fields, of which the name of one *)
(* is the name of the other with a digit.                                  *)
(***************************************************************************)
EXTENDS ScriptLayout

x  == <<"x">>
x1 == <<"x", "1">>

MCOpcodes == <<"RETURN", "DUP", "DROP", "SWAP", "NIP", "IF", "ENDIF">>

(* None of the two declared, the first alone (with size 1 it is spelled as *)
(* the second is), and both.                                               *)
MCFields  == {x, x1}
MCLengths == {<<>>, x :> 1, x :> 2, (x :> 12) @@ (x1 :> 1)}

Long(n) == [k \in 1..n |-> k % 7]

(* A value with an opcode of its own, a byte that is also the opcode of a  *)
(* push, and payloads that need one and two bytes of length.               *)
MCPayloads == {<<1>>, <<2, 4>>, Long(12), Long(18)}
MCNumbers  == {-9, -1}
MCUsed     == {"DROP", "SWAP"}

MCEntryStacks == {<<<<1>>, <<4>>>>, <<<<>>, <<4>>>>}
=============================================================================
