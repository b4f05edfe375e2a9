---------------------------- MODULE MCChatServer -----------------------------
(* All constants are plain model values and bounds, given in the cfg files *)
(* of the Chat runs.  Sessions and handlers are not interchangeable there, *)
(* since liveness is checked.                                              *)
EXTENDS ChatServer
=============================================================================
