------------------------------ MODULE MCSignals ------------------------------
(* Small instances of Signals for TLC: the interesting cases need a main   *)
(* thread, one other thread, and two signals of which one is drained first. *)
EXTENDS Signals, TLC
=============================================================================
