---------------------------- MODULE MCSslStream -----------------------------
(* A receive, or a send of as many chunks as there are children, through   *)
(* an SSL socket.                                                          *)
EXTENDS SslStream, TLC

\* The threads of the completion port are interchangeable.
WorkerSymmetry == Permutations(Workers)
=============================================================================
