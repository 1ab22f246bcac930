----------------------------- MODULE MCSessions -----------------------------
(* A small instance of Sessions for TLC.                                   *)
EXTENDS Sessions

CONSTANTS t1, t2, u1
=============================================================================
