-------------------------- MODULE MCWorkspaceSync --------------------------
(* A small instance of WorkspaceSync for TLC.                              *)
EXTENDS WorkspaceSync

CONSTANTS w1, w2, d1, v0, v1
===========================================================================
