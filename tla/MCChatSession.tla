--------------------------- MODULE MCChatSession ---------------------------
(***************************************************************************)
(* ChatSession with turns that may overlap and limits that they reach.     *)
(***************************************************************************)
EXTENDS ChatSession, TLC
=============================================================================
