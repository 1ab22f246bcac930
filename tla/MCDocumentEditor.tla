------------------------- MODULE MCDocumentEditor -------------------------
(* Small instances of DocumentEditor for TLC.                              *)
EXTENDS DocumentEditor, TLC

CONSTANTS d1, d2, f1, f2

MCSymmetry == Permutations(Fields)
===========================================================================
