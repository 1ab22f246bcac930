---------------------------- MODULE MCDocHandlers ----------------------------
(* Small instances of DocHandlers for TLC.                                 *)
EXTENDS DocHandlers, TLC

Symmetry == Permutations(Docs) \cup Permutations(Values) \cup Permutations(Pool)

DocumentRequests ==
    {"create_document", "update_document", "update_document_status", "delete_document",
     "restore_document_version", "push_document_to_production",
     "push_collection_to_production", "pull_document_from_production",
     "pull_collection_from_production"}

\* Without these nothing can be edited.
Setup == {"create_workspace", "create_collection"}

AllRequests ==
    DocumentRequests \cup Setup
    \cup {"delete_workspace", "push_to_production", "pull_from_production", "delete_collection"}

NoRequests == {}

\* What may arrive in the middle of anything else.
Harmless == {"delete_document", "create_workspace", "create_collection"}

WithPush == DocumentRequests \cup Setup \cup {"push_to_production"}

WithPull == DocumentRequests \cup Setup \cup {"pull_from_production"}
=============================================================================
