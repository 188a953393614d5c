---------------------------- MODULE MCPttManager ----------------------------
(* PttManager needs no bound: its state is finite.                          *)
EXTENDS PttManager
=============================================================================
