-------------------------- MODULE MCChatRefinement --------------------------
(* ChatRefinement with the raw reviews of MCChatSession.                   *)
EXTENDS ChatRefinement, MCChatSession
=============================================================================
