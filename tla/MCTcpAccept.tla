----------------------------- MODULE MCTcpAccept -----------------------------
(* One accept with a timeout, on small instances. *)
EXTENDS TcpAccept
=============================================================================
