------------------------ MODULE MCSequentialHandlers ------------------------
(* A small instance of SequentialHandlers for TLC.                         *)
EXTENDS SequentialHandlers, MCDocHandlers
=============================================================================
