---------------------------- MODULE MCChatClient ----------------------------
(* ChatClient on small numbers of messages and lines. *)
EXTENDS ChatClient

MCFd == 1..3
=============================================================================
