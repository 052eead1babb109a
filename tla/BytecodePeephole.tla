---------------------------- MODULE BytecodePeephole ----------------------------
(***************************************************************************)
(* The peephole pass over a compiled script, run of                        *)
(* src/src/bytecode_peephole_pass.h: rounds of a scan that rewrites windows*)
(* of three and of two instructions until nothing changes, the merging of  *)
(* common branch tails by src/src/bytecode/structured_if_tail_optimizer.cpp*)
(* and cleanup rounds after it, and a rollback. Every rewrite carries along*)
(* the provenance that the debugger reads:                                 *)
(* src/src/debugger/info/debug_info.cpp.                                   *)
(***************************************************************************)
EXTENDS PeepholeRules

CONSTANTS
    Programs,      \* what the code generation hands over: the code, how many
                   \* instructions of it are state and data after the script,
                   \* and whether debug information travels with it
    EntryStacks,   \* the stacks a caller may leave
    MaxRounds      \* kMaxRounds

ASSUME RoundsAssumption == MaxRounds \in Nat \ {0}

VARIABLES
    program,   \* the pass's input, kept for the rollback
    code,      \* instrs
    origins,   \* for each instruction, the original instructions it stands
               \* for, each with the branch arms under which it does
    phase,     \* "scan", "tails", "cleanup", "finish", "done"
    round,     \* rounds of the present loop
    next,      \* the instruction the scan has reached
    out        \* what the scan has emitted, and from which instruction

vars == <<program, code, origins, phase, round, next, out>>

(* What is executed of the present code.                                   *)
ExecutableEnd == optimizablePrefixLength(code, program.suffix)

-----------------------------------------------------------------------------
(* Provenance. An origin is an original instruction with the arms under    *)
(* which an instruction stands for it; arms are named by the present place *)
(* of their IF.                                                            *)

(* remapPCs: every arm follows its IF to its new place.                    *)
Moved(origin, newPlace) ==
    [origin EXCEPT !.path = [k \in DOMAIN @ |->
        [region |-> newPlace[@[k].region], arm |-> @[k].arm]]]

MovedAll(os, newPlace) == [k \in DOMAIN os |-> Moved(os[k], newPlace)]

(* resolveOrigin: of the origins whose arms were all taken the one with the*)
(* most arms, and of those the first; {} where every one conflicts.        *)
resolveOrigin(os, trace) ==
    LET Taken(o) == \A k \in DOMAIN o.path :
                        /\ o.path[k].region \in DOMAIN trace
                        /\ trace[o.path[k].region] = o.path[k].arm
        fits == {k \in DOMAIN os : Taken(os[k])}
        best == {k \in fits : \A l \in fits :
                    Len(os[k].path) > Len(os[l].path)
                        \/ (Len(os[k].path) = Len(os[l].path) /\ k <= l)}
    IN  IF os = <<>> THEN {}
        ELSE IF trace = <<>> THEN {os[1].pc}
        ELSE {os[k].pc : k \in best}

-----------------------------------------------------------------------------
(* Common branch tails: Parser, optimizeSequence and flatten, on the flat  *)
(* code. A level counts the IFs that are open after an instruction.        *)

IsIf(i) == i.op \in {"IF", "NOTIF"}

Level(s, p) == Cardinality({k \in 1..p : IsIf(s[k])})
                   - Cardinality({k \in 1..p : s[k].op = "ENDIF"})

EndOf(s, p) ==
    CHOOSE e \in {k \in p+1..Len(s) : Level(s, k) < Level(s, p)} :
        \A k \in p+1..e-1 : Level(s, k) >= Level(s, p)

ElsesOf(s, p) ==
    {k \in p+1..EndOf(s, p)-1 : s[k].op = "ELSE" /\ Level(s, k) = Level(s, p)}

IsWellFormed(s) ==
    /\ Level(s, Len(s)) = 0
    /\ \A k \in DOMAIN s : Level(s, k) >= 0 /\ (s[k].op = "ELSE" => Level(s, k) > 0)
    /\ \A p \in DOMAIN s : IsIf(s[p]) => Cardinality(ElsesOf(s, p)) <= 1

(* The arms an instruction lies in, the outermost first; the ELSE and the  *)
(* ENDIF of a region lie outside it.                                       *)
EnclosingArms(s, pc) ==
    LET opened == {p \in 1..pc-1 : IsIf(s[p]) /\ pc < EndOf(s, p)
                                              /\ pc \notin ElsesOf(s, p)}
        Arm(p) == IF \E k \in ElsesOf(s, p) : k < pc THEN "ELSE" ELSE "THEN"
        regions == SetToSortSeq(opened, LAMBDA p, q : p < q)
    IN  [k \in DOMAIN regions |->
            [region |-> regions[k], arm |-> Arm(regions[k])]]

extractionSafe(s) ==
    \A k \in DOMAIN s : s[k].op \notin {"RETURN", "CODESEPARATOR", "TEXT"}

(* How many instructions at the end of both bodies are the same whole      *)
(* instructions and regions.                                               *)
CommonTail(s, p, middle, e) ==
    LET Same(n) == /\ SubSeq(s, middle - n, middle - 1) = SubSeq(s, e - n, e - 1)
                   /\ Level(s, middle - n - 1) = Level(s, p)
        lengths == {n \in 0..Len(s) : n < middle - p /\ n < e - middle /\ Same(n)}
    IN  IF extractionSafe(SubSeq(s, p + 1, e - 1))
        THEN CHOOSE n \in lengths : \A l \in lengths : l <= n
        ELSE 0

(* The region that ends at e loses its common tail of n instructions, and  *)
(* one copy of it comes after the end, under the provenance of both.       *)
Hoist(r, middle, e, n) ==
    LET Indices(a, b) == [k \in 1..(b - a + 1) |-> a + k - 1]
        order == Indices(1, middle - n - 1) \o Indices(middle, e - n - 1) \o <<e>>
                     \o Indices(middle - n, middle - 1) \o Indices(e + 1, Len(r.code))
        Copy(old) == IF old \in e-n..e-1 THEN old - (e - middle) ELSE old
        place == [old \in DOMAIN r.code |->
                      CHOOSE k \in DOMAIN order : order[k] = Copy(old)]
        Both(old) == IF old \in middle-n..middle-1
                     THEN r.origins[old] \o r.origins[old + (e - middle)]
                     ELSE r.origins[old]
    IN  [code    |-> [k \in DOMAIN order |-> r.code[order[k]]],
         origins |-> [k \in DOMAIN order |-> MovedAll(Both(order[k]), place)],
         at      |-> e - n,
         changed |-> TRUE]

(* The next region that ends after r.at, inner regions before outer ones;  *)
(* the tail that it gives up is not visited again.                         *)
MergeNextRegion(r, end) ==
    LET ends == {k \in r.at+1..end : r.code[k].op = "ENDIF"}
        e == CHOOSE k \in ends : \A l \in ends : k <= l
        p == CHOOSE k \in 1..e-1 : IsIf(r.code[k]) /\ EndOf(r.code, k) = e
        elses == ElsesOf(r.code, p)
        middle == CHOOSE k \in elses : TRUE
        n == IF elses = {} THEN 0 ELSE CommonTail(r.code, p, middle, e)
    IN  IF ends = {} THEN r
        ELSE IF n = 0 THEN [r EXCEPT !.at = e]
        ELSE Hoist(r, middle, e, n)

optimizeSequence(s, os) ==
    LET withArms == [pc \in DOMAIN os |->
            [k \in DOMAIN os[pc] |-> [os[pc][k] EXCEPT !.path = EnclosingArms(s, pc)]]]
        start == [code |-> s, origins |-> withArms, at |-> 0, changed |-> FALSE]
        Visit(r, k) == MergeNextRegion(r, Len(r.code))
    IN  FoldLeftDomain(Visit, start, SelectSeq(s, LAMBDA i : i.op = "ENDIF"))

-----------------------------------------------------------------------------
(* The pass.                                                               *)

Identity(s) == [pc \in DOMAIN s |-> <<[pc |-> pc, path |-> <<>>]>>]

Init ==
    /\ program \in Programs
    /\ code = program.code
    /\ origins = Identity(program.code)
    /\ phase = "scan"
    /\ round = 0
    /\ next = 1
    /\ out = <<>>

allowTrueVerifyElision == ~program.debug

Scanning == phase \in {"scan", "cleanup"}

(* What the rules say of the window at the present instruction.            *)
Triples    == TriplesAt(code, ExecutableEnd, next)
Duplicates == DuplicatesAt(code, ExecutableEnd, next)
Emitted    == [k \in DOMAIN out |-> out[k].instr]
Pairs == PairsAt(code, ExecutableEnd, next, Emitted, allowTrueVerifyElision)

Emit(rewrite, consumed) ==
    /\ out' = out \o [k \in DOMAIN rewrite |->
                 [instr |-> rewrite[k].instr, from |-> next + rewrite[k].offset]]
    /\ next' = next + consumed
    /\ UNCHANGED <<program, code, origins, phase, round>>

RewriteTriple ==
    /\ Scanning
    /\ \E r \in Triples : Emit(r, 3)

DuplicatePush ==
    /\ Scanning
    /\ Triples = {}
    /\ Duplicates
    /\ Emit(Kept(code[next]) \o Second("DUP"), 2)

RewritePair ==
    /\ Scanning
    /\ Triples = {}
    /\ ~Duplicates
    /\ \E r \in Pairs : Emit(r, 2)

Keep ==
    /\ Scanning
    /\ next <= ExecutableEnd
    /\ Triples = {}
    /\ ~Duplicates
    /\ Pairs = {}
    /\ Emit(Kept(code[next]), 1)

(* Mutant: a scan that makes the code no shorter is taken to be the last.  *)
MutChanged(newCode) == CodeBytes(newCode) < CodeBytes(code)

Changed(newCode) == newCode # code

(* The end of a scan: what lies beyond the executable prefix is taken over,*)
(* and the debug information follows the instructions to their new places. *)
EndScan ==
    LET rest    == [k \in 1..(Len(code) - ExecutableEnd) |->
                      [instr |-> code[ExecutableEnd + k], from |-> ExecutableEnd + k]]
        all     == out \o rest
        newCode == [k \in DOMAIN all |-> all[k].instr]
        place   == [old \in {all[k].from : k \in DOMAIN all} |->
                      CHOOSE k \in DOMAIN all : all[k].from = old]
        again   == Changed(newCode) /\ round + 1 < MaxRounds
    IN  /\ Scanning
        /\ next > ExecutableEnd
        /\ code' = newCode
        /\ origins' = [k \in DOMAIN all |-> MovedAll(origins[all[k].from], place)]
        /\ out' = <<>>
        /\ next' = 1
        /\ round' = IF again THEN round + 1 ELSE 0
        /\ phase' = CASE again -> phase
                      [] ~again /\ phase = "scan" -> "tails"
                      [] ~again /\ phase = "cleanup" -> "finish"
        /\ UNCHANGED program

(* Common tails leave their branches; a merge exposes new windows, for     *)
(* which the scan runs again. Malformed code is left as it is.             *)
MergeCommonTails ==
    LET prefix == SubSeq(code, 1, ExecutableEnd)
        rest(s) == SubSeq(s, ExecutableEnd + 1, Len(s))
        merged == optimizeSequence(prefix, SubSeq(origins, 1, ExecutableEnd))
    IN  /\ phase = "tails"
        /\ IF IsWellFormed(prefix) /\ merged.changed
           THEN /\ code' = merged.code \o rest(code)
                /\ origins' = merged.origins \o rest(origins)
                /\ phase' = "cleanup"
           ELSE /\ phase' = "finish"
                /\ UNCHANGED <<code, origins>>
        /\ UNCHANGED <<program, round, next, out>>

(* The deletion of a constant true VERIFY must not leave an empty script:  *)
(* the input comes back if it had such a pair and nothing is left.         *)
containsTrueVerifyPair(s, suffix) ==
    \E k \in 1..optimizablePrefixLength(s, suffix)-1 :
        s[k] = Push(1) /\ s[k + 1].op = "VERIFY"

(* Placeholders are not counted: they are no bytes yet.                    *)
ExecutableBytes(s, suffix) ==
    CodeBytes(SelectSeq(SubSeq(s, 1, optimizablePrefixLength(s, suffix)),
                        LAMBDA i : ~isInert(i)))

RollsBack ==
    /\ allowTrueVerifyElision
    /\ ExecutableBytes(program.code, program.suffix) # 0
    /\ ExecutableBytes(code, program.suffix) = 0
    /\ containsTrueVerifyPair(program.code, program.suffix)

Finish ==
    /\ phase = "finish"
    /\ phase' = "done"
    /\ IF RollsBack
       THEN code' = program.code /\ origins' = Identity(program.code)
       ELSE UNCHANGED <<code, origins>>
    /\ UNCHANGED <<program, round, next, out>>

Next ==
    \/ RewriteTriple
    \/ DuplicatePush
    \/ RewritePair
    \/ Keep
    \/ EndScan
    \/ MergeCommonTails
    \/ Finish

Spec == Init /\ [][Next]_vars

-----------------------------------------------------------------------------
(* Properties.                                                             *)

(* The pass keeps one list of origins for each instruction, at least one of*)
(* them, and the arms they name are arms of IFs that come before.          *)
TypeOK ==
    /\ program \in Programs
    /\ phase \in {"scan", "tails", "cleanup", "finish", "done"}
    /\ round \in 0..MaxRounds-1
    /\ next \in 1..Len(code)+1
    /\ \A k \in DOMAIN out : out[k].from \in 1..next-1
    /\ DOMAIN origins = DOMAIN code
    /\ \A pc \in DOMAIN code : \A k \in DOMAIN origins[pc] :
          LET o == origins[pc][k]
          IN  /\ o.pc \in DOMAIN program.code
              /\ \A l \in DOMAIN o.path : o.path[l].region \in 1..pc-1
                                              /\ IsIf(code[o.path[l].region])

(* Between two rewrites of the whole code, the script does for every caller*)
(* what it did before: it throws where it threw, leaves the same stacks,   *)
(* and carries the same data after its end. That holds for every caller,   *)
(* also one whose stack is too short or holds no numbers.                  *)
OptimizedAsWritten ==
    next = 1 /\ code # program.code =>
        /\ \A s \in EntryStacks :
              Outcome(Run(code, s)) = Outcome(Run(program.code, s))
        /\ SubSeq(code, Len(code) - program.suffix + 1, Len(code))
               = SubSeq(program.code, Len(program.code) - program.suffix + 1,
                        Len(program.code))

(* With debug information the optimised script is debugged as if it were   *)
(* the original: every instruction that is executed resolves to exactly one*)
(* original instruction, in the original's order and one that the original *)
(* executed, also when its tail was merged from two branches; and a VERIFY *)
(* that fails is located where the original fails.                         *)
OriginsAreTrue ==
    /\ TypeOK
    /\ next = 1 /\ program.debug /\ code # program.code =>
        \A s \in EntryStacks :
            LET was == Run(program.code, s)
                now == Run(code, s)
                Pcs(m) == {m.log[k].pc : k \in DOMAIN m.log}
                place == [k \in DOMAIN now.log |->
                             resolveOrigin(origins[now.log[k].pc], now.log[k].trace)]
                PlaceOf(k) == CHOOSE pc \in place[k] : TRUE
                reached == IF now.ok THEN Len(now.log) ELSE Len(now.log) - 1
                verified == ~was.ok /\ was.main # <<>>
                    /\ program.code[Last(was.log).pc].op = "VERIFY"
            IN  /\ \A k \in DOMAIN now.log : Cardinality(place[k]) = 1
                /\ \A k \in 1..Len(now.log)-1 : PlaceOf(k) < PlaceOf(k + 1)
                /\ \A k \in 1..reached : PlaceOf(k) \in Pcs(was)
                /\ verified => PlaceOf(Len(now.log)) = Last(was.log).pc

(* The comment at the loop: the rounds go on until nothing changes, and    *)
(* their bound is only a precaution. When the pass has finished no rule    *)
(* applies any more, whatever the rules and the merged tails have exposed. *)
NothingIsLeft ==
    phase = "finish" =>
        \A pc \in 1..ExecutableEnd :
            /\ TriplesAt(code, ExecutableEnd, pc) = {}
            /\ ~DuplicatesAt(code, ExecutableEnd, pc)
            /\ PairsAt(code, ExecutableEnd, pc, SubSeq(code, 1, pc - 1),
                       allowTrueVerifyElision) = {}
=============================================================================
