--------------------------- MODULE MCNodeRegistry ---------------------------
(***************************************************************************)
(* The registry on a small instance.                                       *)
(***************************************************************************)
EXTENDS NodeRegistry, TLC

\* Node ids and task ids are only compared for equality.
Symmetry == Permutations(Nodes) \cup Permutations(Tasks)
=============================================================================
