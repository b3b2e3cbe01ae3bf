---------------------------- MODULE MCChatSend ----------------------------
(* ChatSend with three CHAT_SENDs and a HEARTBEAT_PING on one connection *)
(* (set in the cfg): enough for two saves to overtake a third, for a      *)
(* failed save between two good ones, and for the PONG to queue among    *)
(* the ACKs.                                                              *)
EXTENDS ChatSend
=============================================================================
