-------------------------- MODULE MCSchemaEditor --------------------------
(* Small instances of SchemaEditor for TLC.                                *)
EXTENDS SchemaEditor

CONSTANTS s1, s2

MCImports == {<<TRUE, TRUE>>}
===========================================================================
