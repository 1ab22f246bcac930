------------------------------ MODULE MCDocStore ------------------------------
(* Small instances of DocStore for TLC.                                    *)
EXTENDS DocStore, TLC

\* Ids and data are only compared for equality.
Symmetry == Permutations(Docs) \cup Permutations(Values)

\* Workspaces are interchangeable too where there are two.
SymmetryW == Symmetry \cup Permutations(Workspaces)
=============================================================================
