------------------------------ MODULE Bytecode ------------------------------
(* Instruction sequences (chunk.c, chunk.h) and the optimizer that runs over  *)
(* each of them before it becomes a chunk (compiler.c).                       *)
(*                                                                            *)
(* An instruction is a record: its opcode, its operands (args), whether it is *)
(* a label, and for a jump the instruction it is known to reach: `to`, or     *)
(* the one after `toPrev` when that one did not exist yet.  Instructions are  *)
(* named by `id`, the C pointer; 0 is NULL.  Constants stand in the operands  *)
(* themselves: the pool shares the slots of strings only, which nothing       *)
(* changes.  A sequence also remembers the memory of instructions that were   *)
(* freed, because pointers to them are still followed.                        *)
EXTENDS Integers, Sequences, SequencesExt, TLC, Rationals

Insn(id, op, args) ==
    [id |-> id, op |-> op, args |-> args, label |-> FALSE, to |-> 0, toPrev |-> 0,
     number |-> FALSE, continue |-> FALSE, extra |-> 0]

EmptyIseq == [insns |-> <<>>, catch |-> <<>>, freed |-> <<>>, nextId |-> 1, abort |-> FALSE]

Width(in) == 1 + Len(in.args)
WordCount(insns) == LET words[i \in 0..Len(insns)] == IF i = 0 THEN 0 ELSE words[i - 1] + Width(insns[i])
                    IN  words[Len(insns)]
InsnIndex(seq, id) == SelectInSeq(seq.insns, LAMBDA in : in.id = id)
InsnOf(seq, id) == seq.insns[InsnIndex(seq, id)]
Tail1(seq) == IF seq.insns = <<>> THEN 0 ELSE Last(seq.insns).id

\* insn->next, also of an instruction that was freed.
NextOf(seq, id) ==
    LET i == InsnIndex(seq, id) IN
    IF i = 0 THEN seq.freed[id]
    ELSE IF i < Len(seq.insns) THEN seq.insns[i + 1].id ELSE 0

AddInsn(seq, in) == [seq EXCEPT !.insns = Append(@, in), !.nextId = @ + 1]

RmInsn(seq, id) ==
    [seq EXCEPT !.insns = RemoveAt(@, InsnIndex(seq, id)),
                !.freed = (id :> NextOf(seq, id)) @@ @]

\* Words from the instruction `start` to the instruction `end`.
InsnOffset(seq, start, end) ==
    WordCount(SubSeq(seq.insns, InsnIndex(seq, start), InsnIndex(seq, end) - 1))

\* Where each instruction begins.
WordOffset(seq, i) == WordCount(SubSeq(seq.insns, 1, i - 1))

\* The instruction at a word offset; 0 when the offset is inside another one.
InsnAtOffset(seq, offset) ==
    LET at == {i \in DOMAIN seq.insns : WordOffset(seq, i) = offset} IN
    IF at = {} THEN 0 ELSE seq.insns[CHOOSE i \in at : TRUE].id

\* Words after `prev` (NULL for none) up to and including `after`.
InsnWordDiff(seq, prev, after) ==
    LET from == IF prev = 0 THEN 1 ELSE InsnIndex(seq, prev) + 1
    IN  WordCount(SubSeq(seq.insns, from, InsnIndex(seq, after)))

\* A row of the catch table: the words of the try block, the handler, the class
\* it catches.  Rows are numbered from 0.
CatchRow(from, to, target, class) ==
    [ifrom |-> from, ito |-> to, itarget |-> target, class |-> class, isEnsure |-> FALSE]
EnsureRow(from, to, target) ==
    [ifrom |-> from, ito |-> to, itarget |-> target, class |-> "", isEnsure |-> TRUE]
AddRow(seq, row) == [seq EXCEPT !.catch = Append(@, row)]

-----------------------------------------------------------------------------
(* Kinds of instructions the optimizer tells apart.                           *)

BinOps == {"ADD", "SUBTRACT", "MULTIPLY", "DIVIDE", "MODULO"}
Jumps == {"JUMP", "JUMP_IF_FALSE", "JUMP_IF_TRUE", "JUMP_IF_FALSE_PEEK", "JUMP_IF_TRUE_PEEK"}
Consts == {"CONSTANT", "FALSE", "TRUE", "NIL"}
PopTypes == {"POP", "POP_N"}

IsNumConst(in) == in.op = "CONSTANT" /\ in.number
ConstBool(in) == in.op \in {"CONSTANT", "TRUE"}

\* The operands of % become ints.
Arith(op, a, b) ==
    CASE op = "ADD" -> Plus(a, b)
      [] op = "SUBTRACT" -> Minus(a, b)
      [] op = "MULTIPLY" -> Times(a, b)
      [] op = "DIVIDE" -> DividedBy(a, b)
      [] op = "MODULO" -> Rest(a, b)

\* A division by zero is left to the running program.  The test is made before
\* the operands of % are cut to ints: one less than 1 still divides by zero.
Foldable(op, b) == op \in {"DIVIDE", "MODULO"} => b # Zero
Traps(op, b) == op = "MODULO" /\ ToInt(b) = 0
FoldConstant(op, bin, ain) == Arith(op, ain.args[1], bin.args[1])

-----------------------------------------------------------------------------
(* Changing a sequence under its jumps.                                       *)

TargetOf(seq, in) == IF in.to # 0 THEN in.to ELSE NextOf(seq, in.toPrev)

\* What the two patching loops share: forward jumps over the instruction `id`,
\* and loops back over it, get `words` more; one that reaches `id` itself is
\* said to reach the next one.  Breaks and catch rows are not looked at.
PatchJumps(seq, id, words, clearPrev) ==
    LET at == InsnIndex(seq, id)
        next == NextOf(seq, id)
        Reach(i) == InsnIndex(seq, TargetOf(seq, seq.insns[i]))
        Over(i) == \/ i < at /\ seq.insns[i].op \in Jumps /\ Reach(i) >= at
                   \/ i > at /\ seq.insns[i].op = "LOOP" /\ Reach(i) <= at
        Patched(i) ==
            LET in == seq.insns[i] IN
            [in EXCEPT !.args[1] = @ + words,
                       !.to = IF Reach(i) = at THEN next ELSE @,
                       !.toPrev = IF Reach(i) = at /\ clearPrev THEN 0 ELSE @]
        Lost(i) == /\ i # at
                   /\ \/ i < at /\ seq.insns[i].op \in Jumps
                      \/ i > at /\ seq.insns[i].op = "LOOP"
                   /\ Reach(i) = 0
    IN  [seq EXCEPT
            !.insns = [i \in DOMAIN @ |-> IF Over(i) THEN Patched(i) ELSE @[i]],
            \* the assertions that the target exists and the offset stays positive
            !.abort = \/ @
                      \/ \E i \in DOMAIN seq.insns : Lost(i)
                      \/ \E i \in DOMAIN seq.insns : Over(i) /\ seq.insns[i].args[1] + words <= 0]

RmInsnUnpatched(seq, id) == RmInsn(seq, id)
RmInsnAndPatchJumps(seq, id) ==
    RmInsn(PatchJumps(seq, id, -Width(InsnOf(seq, id)), FALSE), id)

Update(seq, id, F(_)) == [seq EXCEPT !.insns[InsnIndex(seq, id)] = F(@)]

AddInsnOperand(seq, id, operand) ==
    PatchJumps(Update(seq, id, LAMBDA in : [in EXCEPT !.args = Append(@, operand)]), id, 1, TRUE)
=============================================================================
