------------------------------- MODULE MCGVL -------------------------------
(* Small instances of GVL for TLC. *)
EXTENDS GVL
=============================================================================
