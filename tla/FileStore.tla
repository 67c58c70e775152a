----------------------------- MODULE FileStore ------------------------------
(***************************************************************************)
(* What the upload service promises about the files on the flash, whatever *)
(* fails or loses power in between: a file is replaced in one step, by a   *)
(* completely received upload or not at all; COMPLETE is answered only     *)
(* when the upload is what the name holds, ERROR only when it is not; and  *)
(* nothing but a replacement or a deletion changes a file.                 *)
(***************************************************************************)
EXTENDS Naturals, Sequences

CONSTANTS FileNames

VARIABLES
    store,     \* store[n]: the upload that file n holds, 0 if there is none
    uploads,   \* the name each upload is for, in the order they were begun
    outcome,   \* what the host knows of the last upload
    deletions  \* files the host has deleted

vars == <<store, uploads, outcome, deletions>>

Last == Len(uploads)
Holds == store[uploads[Last]] = Last

Init ==
    /\ store = [n \in FileNames |-> 0]
    /\ uploads = <<>>
    /\ outcome = "unknown"
    /\ deletions = 0

Begin(n) ==
    /\ uploads' = Append(uploads, n)
    /\ outcome' = "open"
    /\ UNCHANGED <<store, deletions>>

Replace ==
    /\ outcome = "open"
    /\ ~ Holds
    /\ store' = [store EXCEPT ![uploads[Last]] = Last]
    /\ UNCHANGED <<uploads, outcome, deletions>>

Reply ==
    /\ outcome = "open"
    /\ outcome' = IF Holds THEN "complete" ELSE "error"
    /\ UNCHANGED <<store, uploads, deletions>>

Interrupt ==
    /\ outcome = "open"
    /\ outcome' = "unknown"
    /\ UNCHANGED <<store, uploads, deletions>>

Delete(n) ==
    /\ outcome # "open"
    /\ store[n] # 0
    /\ store' = [store EXCEPT ![n] = 0]
    /\ deletions' = deletions + 1
    /\ UNCHANGED <<uploads, outcome>>

Next ==
    \/ \E n \in FileNames : Begin(n) \/ Delete(n)
    \/ Replace \/ Reply \/ Interrupt

Spec == Init /\ [][Next]_vars
=============================================================================
