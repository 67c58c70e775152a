------------------------- MODULE MCReliableTransfer -------------------------
(* Small instances of ReliableTransfer for TLC. *)
EXTENDS ReliableTransfer, TLC

CONSTANTS s1, s2

\* Sending boards are interchangeable (used by the runs without liveness).
Symmetry == Permutations(Senders)
=============================================================================
