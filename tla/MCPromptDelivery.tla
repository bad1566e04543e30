-------------------------- MODULE MCPromptDelivery --------------------------
(* PromptDelivery with two chats and two calls under way.                  *)
EXTENDS PromptDelivery, TLC

=============================================================================
