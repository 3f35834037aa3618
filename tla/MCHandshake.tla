----------------------------- MODULE MCHandshake -----------------------------
(* One handshake on small instances. *)
EXTENDS Handshake, TLC

\* The threads of the completion port are interchangeable.
WorkerSymmetry == Permutations(Workers)
=============================================================================
