------------------------------- MODULE VMLock -------------------------------
(***************************************************************************)
(* What the global VM lock promises to the rest of clox: at any moment at  *)
(* most one thread has the VM, and the VM passes from one thread to        *)
(* another only through a moment at which nobody has it.  This is the      *)
(* README's "Threads can run concurrently for IO and other blocking        *)
(* operations, but cannot run concurrently in the VM itself".              *)
(***************************************************************************)
CONSTANTS Threads,   \* the threads the process ever creates
          Main       \* the thread that initialises the VM

VARIABLE holders     \* the threads that have the VM

Init == holders = {Main}

Enter(t) ==
  /\ holders = {}
  /\ holders' = {t}

Leave(t) ==
  /\ holders = {t}
  /\ holders' = {}

Next == \E t \in Threads : Enter(t) \/ Leave(t)

Spec == Init /\ [][Next]_holders
=============================================================================
