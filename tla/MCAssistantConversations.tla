---------------------- MODULE MCAssistantConversations ----------------------
(* Small instances of AssistantConversations for TLC. *)
EXTENDS AssistantConversations

CONSTANT policy

OneVersion  == {policy}
==============================================================================
