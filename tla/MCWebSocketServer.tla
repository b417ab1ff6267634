-------------------------- MODULE MCWebSocketServer --------------------------
(* Two pages, one after the other, that send one kind of message. *)
EXTENDS WebSocketServer

Requests == {"DESELECT"}
=============================================================================
