-------------------------------- MODULE MCGC --------------------------------
(* Small instances of GC for TLC. *)
EXTENDS GC

(* Bounds: an object is hidden while the collector is on and none has a    *)
(* finalizer; there is one reference at a time between objects.            *)
HiddenAlone == hidden # {} => GCOn /\ activeFinalizers = 0
OneEdge == Cardinality({<<a, b>> \in Slots \X Slots : b \in refs[a]}) <= 1
=============================================================================
