---------------------------- MODULE MCCoordinator ----------------------------
(* Small instances of Coordinator. *)
EXTENDS Coordinator, TLC

CONSTANTS t1, t2, h1, h2

NoPaneKeys  == {}
NoLeaves    == [k \in {} |-> NoLeaf]
NoPanes     == [h \in Handles |-> NoPane]
Independent == [t \in Tasks |-> {}]
Chain       == [t \in Tasks |-> IF t = t2 THEN {t1} ELSE {}]

\* The terminals are interchangeable, and so are tasks without dependencies.
HandleSymmetry == Permutations(Handles)
FullSymmetry   == Permutations(Handles) \cup Permutations(Tasks)

=============================================================================
