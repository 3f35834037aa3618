---------------------------- MODULE MCTcpConnect ----------------------------
(* Connecting with a timeout and with users who may cancel.                *)
EXTENDS TcpConnect
=============================================================================
