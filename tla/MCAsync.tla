------------------------------ MODULE MCAsync ------------------------------
(* One operation on small instances, given in the configuration. *)
EXTENDS Async
=============================================================================
