---------------------------- MODULE MCTcpDestroy -----------------------------
(* Two sockets given up by threads of every kind, with one worker.         *)
EXTENDS TcpDestroy
=============================================================================
