---------------------------- MODULE MCWebSocket ----------------------------
(***************************************************************************)
(* A small instance of WebSocket for TLC.                                  *)
(***************************************************************************)
EXTENDS WebSocket
=============================================================================
