---------------------------- MODULE MCMcpServer ----------------------------
(* A small instance of McpServer for TLC.                                  *)
EXTENDS McpServer

ReadAndDelete == {"list_documents", "delete_document"}
OnlyCreate    == {"create_document"}
=============================================================================
