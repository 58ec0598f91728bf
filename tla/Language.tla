------------------------------ MODULE Language ------------------------------
(* The compiler and the machine held to the meaning of the program.           *)
EXTENDS Machine

CONSTANT Meaning(_)     \* what a program prints, and whether an error stops it

VARIABLE expected       \* what the program should print, and whether it fails

LanguageInit == Init /\ expected = [out |-> <<>>, uncaught |-> FALSE]
LanguageLoad == Load /\ expected' = Meaning(Programs[which[1]])
LanguageStep == Step /\ UNCHANGED expected
LanguageNext == LanguageLoad \/ LanguageStep
lvars == <<vars, expected>>
\* The machine's loop goes on while the thread runs: the weak fairness of
\* LanguageStep, which is enabled exactly then, written without ENABLED.
Fairness == []<>(m.status # "run") \/ []<><<LanguageStep>>_lvars
LanguageSpec == LanguageInit /\ [][LanguageNext]_lvars /\ Fairness

-----------------------------------------------------------------------------
\* What is printed is what the program means, in order and as far as the run
\* has come; at the end it is all of it, and the program fails exactly when an
\* error leaves its top level (compile_node, optimizeIseq, vm_run).
OutputAgrees ==
    /\ IsPrefix(m.out, expected.out)
    /\ m.status = "done" => m.out = expected.out /\ ~expected.uncaught
    /\ m.status = "uncaught" => m.out = expected.out /\ expected.uncaught
    /\ m.status \in {"load", "run", "done", "uncaught"}

\* A program that ends has popped all it pushed, left every function, block,
\* method and class body and closed every upvalue: the pops the compiler emits,
\* the breaks, the returns and the handlers account for every value and every
\* receiver (popScope, OP_BREAK, OP_RETURN, OP_POP_CREF, popFrame).
Balanced ==
    m.status = "done" =>
        /\ m.top = 0 /\ Len(m.frames) = 1
        /\ m.blocks = 0 /\ m.errInfo = <<>>
        /\ m.this = Nil /\ m.thisStack = <<>> /\ m.crefs = <<>>
        /\ \A c \in DOMAIN m.cells : ~m.cells[c].open

\* Every place to which an error can jump out of a block belongs to a native
\* frame that still waits for the block: the longjmp never goes to a C frame
\* that has returned (addErrInfo, unwindErrInfo, SETUP_BLOCK).
LandingsAlive ==
    /\ \A i \in DOMAIN m.errInfo : m.errInfo[i].frame \in DOMAIN m.frames /\ m.frames[m.errInfo[i].frame].native # ""
    /\ \A i \in 2..Len(m.errInfo) : m.errInfo[i - 1].frame < m.errInfo[i].frame
    /\ m.blocks = Len(m.errInfo)

\* An open upvalue points into the part of the stack that is in use, at a local
\* of a frame that has not returned, and no two point to the same place
\* (captureUpvalue, closeUpvalues, popFrame).
OpenUpvaluesOnStack ==
    \A c \in DOMAIN m.cells : m.cells[c].open =>
        /\ m.cells[c].at < m.top
        /\ OpenAt(m, m.cells[c].at) = {c}
        /\ m.status = "run" => \E i \in DOMAIN m.frames :
              m.frames[i].native = "" /\ m.cells[c].at \in m.frames[i].slots..(m.frames[i].slots + Funcs[m.frames[i].fn].max - 1)

\* A frame, and whatever it leaves behind when it is left, changes what its
\* callers have on the stack only through upvalues: neither a call's slots nor
\* a return, a break out of a block or an error reaches below the callee's
\* place (doCallCallable, OP_RETURN, lxBlockYield, popFrame).
OperandsOf(after) == CASE after \in {"set", "added"} -> 2 [] after \in {"get", "eq", "ne"} \union Comparisons -> 1 [] OTHER -> 0
Base(f) == IF f.native = "" THEN f.slots - OperandsOf(f.after) ELSE f.args
Left == IF Len(m'.frames) < Len(m.frames) THEN m.frames[Len(m'.frames) + 1] ELSE Frame(m)
CallersKeepTheirStack ==
    [][m.status = "run" =>
        \A p \in 0..(Base(Left) - 1) : OpenAt(m, p) = {} => p < m'.top /\ Read(m', p) = Read(m, p)]_lvars

\* Every jump, break and handler of a chunk reaches the first word of an
\* instruction, whatever the optimizer removed or lengthened
\* (rmInsnAndPatchJumps, addInsnOperand, patchBreaks, patchLoop).
Reaches(code, at) ==
    LET in == code[at] IN
    CASE in.op \in Jumps -> at + 1 + in.args[1]
      [] in.op = "LOOP" -> at - in.args[1]
      [] in.op = "BREAK" -> at + in.args[1]
      [] OTHER -> at
JumpsLand ==
    \A fn \in DOMAIN Funcs :
        /\ \A at \in DOMAIN Funcs[fn].code : Reaches(Funcs[fn].code, at) \in DOMAIN Funcs[fn].code
        /\ \A i \in DOMAIN Funcs[fn].catch : Funcs[fn].catch[i].itarget \in DOMAIN Funcs[fn].code

\* A program that runs ends: no jump, and no handler that an error comes back
\* to, takes the machine to where it was before.
Terminates == (m.status = "run") ~> (m.status # "run")
=============================================================================
