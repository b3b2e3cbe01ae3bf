---------------------------- MODULE MCChatStore ----------------------------
(* ChatStore with two users, three SaveMessage calls and a clock of two   *)
(* seconds at two ticks each: enough for two messages in one second, a    *)
(* reply, and a drain racing a save.                                      *)
EXTENDS ChatStore
=============================================================================
