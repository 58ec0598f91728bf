---------------------------- MODULE ObjectGraph ----------------------------
(***************************************************************************)
(* What the memory manager promises to a lox program: a graph of objects   *)
(* that only the program changes.  An object the program can reach is      *)
(* never handed out a second time, and one with a finalizer is not handed  *)
(* out again before the finalizer was called.                              *)
(***************************************************************************)
EXTENDS Integers

CONSTANT Objects

VARIABLES
  roots,        \* objects on a stack, in a frame, in a global or a constant
  kept,         \* objects hidden from the collector by native code
  graph,        \* graph[o]: what a reachable object o refers to
  finalizable   \* objects with a finalizer that was not called yet

vars == <<roots, kept, graph, finalizable>>

\* The objects that can be reached from R along edges: the least set that
\* contains R and is closed under edges.
ReachableFrom(R, edges) ==
  LET closed == {S \in SUBSET Objects :
                   R \subseteq S /\ \A a \in S : edges[a] \subseteq S}
  IN {o \in Objects : \A S \in closed : o \in S}

Reachable == ReachableFrom(roots \cup kept, graph)

\* Unreachable objects have no edges, as nobody can read them.
Trim(R, edges) ==
  LET reach == ReachableFrom(R, edges)
  IN [o \in Objects |-> IF o \in reach THEN edges[o] ELSE {}]

Init ==
  /\ roots = {} /\ kept = {} /\ finalizable = {}
  /\ graph = [o \in Objects |-> {}]

New(o) ==
  /\ o \notin finalizable
  /\ roots' = roots \cup {o}
  /\ graph' = [graph EXCEPT ![o] = {}]
  /\ UNCHANGED <<kept, finalizable>>
  /\ o \notin Reachable

\* Stacks and variables change: they hold objects the program could reach.
Roots ==
  /\ UNCHANGED finalizable
  /\ roots' \in SUBSET Objects /\ kept' \in SUBSET Objects
  /\ roots' \cup kept' \subseteq Reachable
  /\ graph' = Trim(roots' \cup kept', graph)

\* The references of one object change.
Edges(a) ==
  /\ UNCHANGED <<roots, kept, finalizable>>
  /\ graph'[a] # graph[a]
  /\ {a} \cup graph'[a] \subseteq Reachable
  /\ graph' = Trim(roots \cup kept, [graph EXCEPT ![a] = graph'[a]])

SetFinalizer(o) ==
  /\ UNCHANGED <<roots, kept, graph>>
  /\ finalizable' = finalizable \cup {o}
  /\ o \in Reachable

Finalize(o) ==
  /\ UNCHANGED <<roots, kept, graph>>
  /\ o \in finalizable /\ finalizable' = finalizable \ {o}
  /\ o \notin Reachable

Next ==
  \/ \E o \in Objects : New(o) \/ Edges(o) \/ SetFinalizer(o) \/ Finalize(o)
  \/ Roots

Spec == Init /\ [][Next]_vars
=============================================================================
