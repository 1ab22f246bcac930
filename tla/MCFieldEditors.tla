-------------------------- MODULE MCFieldEditors --------------------------
(* A small instance of FieldEditors for TLC.                               *)
EXTENDS FieldEditors

CONSTANTS x, u1
===========================================================================
