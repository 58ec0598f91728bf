----------------------------- MODULE Optimizer -----------------------------
(* optimizeIseq of compiler.c: constant folding, merging of pops, jumps on    *)
(* constants, unused constants.  The C loop over `cur` is the recursion.      *)
EXTENDS Bytecode

Head1(seq) == IF seq.insns = <<>> THEN 0 ELSE seq.insns[1].id
PrevOf(seq, id) == LET i == InsnIndex(seq, id) IN IF i > 1 THEN seq.insns[i - 1].id ELSE 0

IsPopType(in) == in.op \in PopTypes
PopCount(in) == IF in.op = "POP" THEN 1 ELSE in.args[1]

\* JUMP_IF_FALSE becomes a POP of one word where two were: jumps over it are
\* not patched.
ReplaceJumpInsn(seq, id) ==
    LET in == InsnOf(seq, id) IN
    CASE in.label -> seq
      [] in.op = "JUMP_IF_FALSE" ->
            Update(seq, id, LAMBDA j : [j EXCEPT !.op = "POP", !.args = <<>>])
      [] OTHER -> RmInsnAndPatchJumps(seq, id)

\* The last two instructions are number constants, and the operation can be done.
FoldsAt(seq, i) ==
    /\ seq.insns[i].op \in BinOps
    /\ i > 2 /\ IsNumConst(seq.insns[i - 1]) /\ IsNumConst(seq.insns[i - 2])

FoldAt(seq, i) ==
    LET in == seq.insns[i]
        bin == seq.insns[i - 1]
        ain == seq.insns[i - 2]
        folded == [seq EXCEPT !.insns[i - 2].args[1] = FoldConstant(in.op, bin, ain)]
    IN  IF Traps(in.op, bin.args[1]) THEN [seq EXCEPT !.abort = TRUE]
        ELSE RmInsnAndPatchJumps(RmInsnAndPatchJumps(folded, in.id), bin.id)

MergesPops(prev, in) == IsPopType(prev) /\ IsPopType(in) /\ ~prev.label /\ ~in.label
MergePops(seq, prev, in) ==
    LET rest == RmInsnAndPatchJumps(seq, prev.id)
        n == PopCount(prev)
    IN  IF in.op = "POP"
          THEN Update(AddInsnOperand(rest, in.id, n + 1), in.id,
                      LAMBDA j : [j EXCEPT !.op = "POP_N"])
          ELSE Update(rest, in.id, LAMBDA j : [j EXCEPT !.args[1] = @ + n])

\* The test of the jump is a constant that it does not jump on.
NeverJumps(prev, in) ==
    \/ in.op = "JUMP_IF_FALSE" /\ ConstBool(prev)
    \/ in.op = "JUMP_IF_TRUE_PEEK" /\ ~ConstBool(prev)

\* OP_BLOCK_CONTINUE takes the value that was popped last, and so needs it.
Unused(seq, prev, id) ==
    /\ InsnOf(seq, id).op = "POP" /\ prev.op \in Consts
    /\ NextOf(seq, id) # 0 => InsnOf(seq, NextOf(seq, id)).op # "BLOCK_CONTINUE"

RECURSIVE OptimizeFrom(_, _, _)
OptimizeFrom(seq, cur, keepUnused) ==
    IF cur = 0 \/ seq.abort THEN seq
    ELSE
    LET i == InsnIndex(seq, cur)
        in == seq.insns[i]
        merges == i > 1 /\ MergesPops(seq.insns[i - 1], in)
        s == IF merges THEN MergePops(seq, seq.insns[i - 1], in) ELSE seq
        constBefore == i > 1 /\ seq.insns[i - 1].op \in Consts
    IN  CASE FoldsAt(seq, i) /\ Foldable(in.op, seq.insns[i - 1].args[1]) ->
                OptimizeFrom(FoldAt(seq, i), seq.insns[i - 2].id, keepUnused)
          [] FoldsAt(seq, i) /\ ~Foldable(in.op, seq.insns[i - 1].args[1]) ->
                OptimizeFrom(seq, NextOf(seq, cur), keepUnused)
          [] in.op \in Jumps /\ in.args[1] = 0 ->
                OptimizeFrom(ReplaceJumpInsn(seq, cur), NextOf(seq, cur), keepUnused)
          [] in.op \in Jumps /\ constBefore ->
                LET r == IF NeverJumps(seq.insns[i - 1], in) THEN ReplaceJumpInsn(seq, cur) ELSE seq
                IN  IF InsnIndex(r, cur) = 0 THEN OptimizeFrom(r, Head1(r), keepUnused)
                    ELSE OptimizeFrom(r, NextOf(r, cur), keepUnused)
          [] ~keepUnused /\ constBefore /\ Unused(seq, seq.insns[i - 1], cur) ->
                LET r == RmInsnAndPatchJumps(RmInsnAndPatchJumps(seq, seq.insns[i - 1].id), cur)
                IN  OptimizeFrom(r, Head1(r), keepUnused)
          [] OTHER -> OptimizeFrom(s, NextOf(s, cur), keepUnused)

OptimizeIseq(seq, keepUnused) == OptimizeFrom(seq, Head1(seq), keepUnused)
=============================================================================
