--------------------------- MODULE MCConversation ---------------------------
(* Small instances of Conversation: one user, two webhook turns that may    *)
(* overlap, and in MCConversationWeb one web chat request and tools that    *)
(* commit midway.                                                           *)
EXTENDS Conversation
=============================================================================
