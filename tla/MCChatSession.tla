---------------------------- MODULE MCChatSession ----------------------------
(* The chat session for the model checker; a chat is deleted and opened by    *)
(* name, so its names are not symmetric.                                      *)
EXTENDS ChatSession
=============================================================================
