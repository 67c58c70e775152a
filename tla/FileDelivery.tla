---------------------------- MODULE FileDelivery ----------------------------
(***************************************************************************)
(* What Protocol v2 promises, without frames, retries or radios: boards    *)
(* offer files, the receiving board stores each offered file at most once  *)
(* and unaltered, and a board claims success only for a stored file.  It   *)
(* promises nothing to a board that does not claim success: its file may   *)
(* be stored all the same.                                                 *)
(***************************************************************************)
EXTENDS Naturals, Sequences

CONSTANTS Boards, Transfers, Sizes

VARIABLES
    offered,   \* offered[i]: number of packets of transfer i, once it is offered
    count,     \* transfers 1..count are offered
    files,     \* the stored files, oldest first
    current,   \* current[b]: the transfer board b offered last, or 0
    claimed    \* claimed[b]: board b reports that transfer as delivered

vars == <<offered, count, files, current, claimed>>

Content(i) == [k \in 1 .. offered[i] |-> <<i, k - 1>>]
Stored == {files[n].id : n \in 1 .. Len(files)}

Init ==
    /\ offered = [i \in Transfers |-> 0]
    /\ count = 0
    /\ files = <<>>
    /\ current = [b \in Boards |-> 0]
    /\ claimed = [b \in Boards |-> FALSE]

Offer(b) ==
    /\ count + 1 \in Transfers
    /\ count' = count + 1
    /\ \E n \in Sizes : offered' = [offered EXCEPT ![count + 1] = n]
    /\ current' = [current EXCEPT ![b] = count + 1]
    /\ claimed' = [claimed EXCEPT ![b] = FALSE]
    /\ UNCHANGED files

Store(i) ==
    /\ i \in 1 .. count
    /\ i \notin Stored
    /\ files' = Append(files, [id |-> i, data |-> Content(i)])
    /\ UNCHANGED <<offered, count, current, claimed>>

Claim(b) ==
    /\ ~ claimed[b]
    /\ current[b] \in Stored
    /\ claimed' = [claimed EXCEPT ![b] = TRUE]
    /\ UNCHANGED <<offered, count, files, current>>

Forget(b) ==
    /\ current' = [current EXCEPT ![b] = 0]
    /\ claimed' = [claimed EXCEPT ![b] = FALSE]
    /\ UNCHANGED <<offered, count, files>>

Next ==
    \/ \E b \in Boards : Offer(b) \/ Claim(b) \/ Forget(b)
    \/ \E i \in Transfers : Store(i)

Spec == Init /\ [][Next]_vars
=============================================================================
