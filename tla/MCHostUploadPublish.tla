------------------------ MODULE MCHostUploadPublish -------------------------
(* Small instances of HostUploadPublish for TLC. *)
EXTENDS HostUploadPublish, TLC

CONSTANTS n1, n2

Symmetry == Permutations(Names)
=============================================================================
