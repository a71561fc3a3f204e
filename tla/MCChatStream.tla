---------------------------- MODULE MCChatStream ----------------------------
(* Instance of ChatStream for TLC.                                          *)
EXTENDS ChatStream
=============================================================================
