-------------------------- MODULE MCBreakpointManager --------------------------
(***************************************************************************)
(* Debug information for BreakpointManager: a contract of three lines that *)
(* calls a function of a library file, and one hoisted instruction.        *)
(***************************************************************************)
EXTENDS BreakpointManager

MCSources   == {"main", "lib"}
MCMain      == "main"
MCLines     == 1..3
MCPCs       == 0..2

(* Instruction 1 stands for lines 1 and 3; line 2 has no code of its own.  *)
MCPCsOf ==
    [l \in MCSources \X MCLines |->
        CASE l = <<"main", 1>> -> {0, 1}
          [] l = <<"main", 3>> -> {1}
          [] l = <<"lib", 2>>  -> {2}
          [] OTHER -> {}]

(* Function 1 is expanded at the entry of function 2, which is selected.   *)
MCFunctions == {1, 2}
MCStart     == [f \in MCFunctions |-> 0]
MCEnd       == [f \in MCFunctions |-> IF f = 1 THEN 1 ELSE 3]
=============================================================================
