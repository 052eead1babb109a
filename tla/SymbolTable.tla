----------------------------- MODULE SymbolTable -----------------------------
(***************************************************************************)
(* The compiler's symbolic stacks, src/src/bytecode/symtab.cpp and         *)
(* scope.cpp, with the instructions emitted beside them. A table is a      *)
(* record of                                                               *)
(*                                                                         *)
(*   main, alt   the names on the two stacks, top first; alt is shared by  *)
(*               all tables of the function                                *)
(*   fixed       what is known of a variable at compile time: a value, or  *)
(*               a name where the program assigned something without a slot*)
(*   newSymbol   m_newSymbol, how often a name was pushed in this block    *)
(*   declared    m_declaredSymbols, the names this block defined           *)
(*   scope       m_currentScope, the names defined, in that order          *)
(*   code        the instructions emitted for the present statement        *)
(***************************************************************************)
EXTENDS StaticIntegers, FiniteSets

CONSTANT Placeholder  \* CompilerPlaceholder: what an opcode leaves

ASSUME NamesAssumption == {Placeholder, Nothing} \cap Variables = {}

EmptyTable ==
    [main |-> <<>>, alt |-> <<>>, fixed |-> [x \in Variables |-> Nothing],
     newSymbol |-> [x \in Variables |-> 0], declared |-> {}, scope |-> <<>>,
     code |-> <<>>]

IsOn(s, x) == \E k \in DOMAIN s : s[k] = x

(* getPos: the depth of the uppermost slot of that name.                   *)
Pos(s, x) == (CHOOSE k \in DOMAIN s : s[k] = x /\ \A j \in 1..k - 1 : s[j] # x) - 1

symbolExists(t, x) == IsOn(t.scope, x)
-----------------------------------------------------------------------------
(* What is emitted. A name in the fixed area has no encoding as a number:  *)
(* its text gets into the bytecode, which is refused in the end.           *)
emit(t, code) == [t EXCEPT !.code = @ \o code]

Opcode(op) == <<Instruction(op)>>
Repeated(op, n) == [k \in 1..n |-> Instruction(op)]
Refused == Instruction("TEXT")
FixedCode(v) == IF v \in Values THEN <<Push(v)>> ELSE <<Refused>>

emitRoll(d) ==
    CASE d = 0 -> <<>>
      [] d = 1 -> Opcode("SWAP")
      [] d = 2 -> Opcode("ROT")
      [] OTHER -> <<Push(d), Instruction("ROLL")>>

emitPick(d) ==
    CASE d = 0 -> Opcode("DUP")
      [] d = 1 -> Opcode("OVER")
      [] OTHER -> <<Push(d), Instruction("PICK")>>

emitDiscard(d) ==
    CASE d = 0 -> Opcode("DROP")
      [] d = 1 -> Opcode("NIP")
      [] OTHER -> emitRoll(d) \o Opcode("DROP")

Compiles(t) == \A k \in DOMAIN t.code : t.code[k] # Refused
-----------------------------------------------------------------------------
track(t, x) ==
    IF x \in Variables THEN [t EXCEPT !.newSymbol[x] = @ + 1] ELSE t
untrack(t, x) ==
    IF x \in Variables /\ t.newSymbol[x] > 0
    THEN [t EXCEPT !.newSymbol[x] = @ - 1] ELSE t

push(t, x) == track([t EXCEPT !.main = <<x>> \o @], x)
pop(t)     == untrack([t EXCEPT !.main = Tail(@)], Head(t.main))
dropAt(t, d) ==
    untrack([t EXCEPT !.main = SubSeq(@, 1, d) \o Below(@, d + 1)], t.main[d + 1])
roll(t, d) == [t EXCEPT !.main = Rolled(@, d)]
renameAtPosition(t, d, x) == [t EXCEPT !.main[d + 1] = x]

(* A slot is brought to the top, on both sides.                            *)
rollToTop(t, d) == roll(emit(t, emitRoll(d)), d)

setFixed(t, x, v) == [t EXCEPT !.fixed[x] = v]
removeFixed(t, x) == [t EXCEPT !.fixed[x] = Nothing]

defineSymbol(t, x) ==
    IF x \in t.declared THEN t
    ELSE [t EXCEPT !.scope = Append(@, x), !.declared = @ \cup {x}]
removeSymbol(t, x) ==
    [t EXCEPT !.scope = SelectSeq(@, LAMBDA y : y # x), !.declared = @ \ {x}]

enterScope(t) ==
    [t EXCEPT !.newSymbol = [x \in Variables |-> 0], !.declared = {}]
-----------------------------------------------------------------------------
(* The statements that move a slot between the stacks, or remove it.       *)
MoveToAlt(t) ==
    emit([t EXCEPT !.main = Tail(@), !.alt = <<Head(t.main)>> \o @], Opcode("TOALTSTACK"))

(* A fixed value is given a slot first, under its own name.                *)
Materialized(t, x) == push(removeFixed(emit(t, FixedCode(t.fixed[x])), x), x)

SetAlt(t, x) ==
    LET slot == IF IsOn(t.main, x) THEN t ELSE Materialized(t, x)
    IN  MoveToAlt(rollToTop(slot, Pos(slot.main, x)))

SetMain(t, x) ==
    LET d == Pos(t.alt, x)
    IN  emit([t EXCEPT !.main = <<x>> \o @,
                       !.alt = SubSeq(@, 1, d) \o Below(@, d + 1)],
             Repeated("FROMALTSTACK", d + 1)
                 \o [k \in 1..2 * d |-> Instruction(IF k % 2 = 1 THEN "SWAP" ELSE "TOALTSTACK")])

(* The elements above the one deleted from the alt stack are taken off it  *)
(* and put back.                                                           *)
DeleteFromAlt(t, d) ==
    untrack(emit([t EXCEPT !.alt = SubSeq(@, 1, d) \o Below(@, d + 1)],
                 Repeated("FROMALTSTACK", d + 1) \o Opcode("DROP")
                     \o Repeated("TOALTSTACK", d)),
            t.alt[d + 1])

DeleteFromMain(t, d) == pop(roll(emit(t, emitDiscard(d)), d))

Delete(t, x) ==
    LET unfixed == removeFixed(t, x)
        removed == CASE IsOn(t.main, x) -> DeleteFromMain(unfixed, Pos(t.main, x))
                     [] ~IsOn(t.main, x) /\ IsOn(t.alt, x) ->
                            DeleteFromAlt(unfixed, Pos(t.alt, x))
                     [] OTHER -> unfixed
    IN  removeSymbol(removed, x)
-----------------------------------------------------------------------------
(* The end of a block: the slots of its own names are removed, except for  *)
(* names of an outer block that were bound anew.                           *)
BlockLocals(t) ==
    {x \in Variables : t.newSymbol[x] > 0
                       /\ (symbolExists(t, x) => x \in t.declared)}
MainLocals(t) == {x \in BlockLocals(t) : IsOn(t.main, x)}
AltLocals(t)  == {x \in BlockLocals(t) : ~IsOn(t.main, x) /\ IsOn(t.alt, x)}

TopFirst(names, s) ==
    SetToSortSeq(names, LAMBDA x, y : Pos(s, x) < Pos(s, y))

DropSlot(t, d) ==
    IF d = 1 THEN dropAt(emit(t, Opcode("NIP")), 1)
    ELSE LET rolled == rollToTop(t, d)
         IN  emit([rolled EXCEPT !.main = Tail(@)], Opcode("DROP"))

(* A name that was pushed more than once is dropped as often, if it has    *)
(* that many slots.                                                        *)
DropLocal(t, x) ==
    FoldLeft(LAMBDA s, k : IF IsOn(s.main, x) THEN DropSlot(s, Pos(s.main, x)) ELSE s,
             t, [k \in 1..t.newSymbol[x] |-> k])

(* "num" counts the elements above the one removed; setMain has moved that *)
(* one too, and the instructions have not.                                 *)
DropAltLocal(t, x) ==
    LET num == Pos(t.alt, x)
    IN  emit([t EXCEPT !.alt = SubSeq(@, 1, num) \o Below(@, num + 1)],
             Repeated("FROMALTSTACK", num) \o Opcode("DROP")
                 \o Repeated("TOALTSTACK", num))

CleanBlock(t) ==
    LET onlyAlt == FoldLeft(DropLocal, t, TopFirst(MainLocals(t), t.main))
    IN  FoldLeft(DropAltLocal, onlyAlt, TopFirst(AltLocals(t), t.alt))
=============================================================================
