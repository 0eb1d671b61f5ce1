------------------------------ MODULE MCWsPage ------------------------------
(* An instance of WsPage for TLC: two calls of the page.                   *)
EXTENDS WsPage

CONSTANTS c1, c2

SomeCalls == <<c1, c2>>
=============================================================================
