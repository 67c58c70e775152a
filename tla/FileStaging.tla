---------------------------- MODULE FileStaging -----------------------------
(***************************************************************************)
(* What the upload commands promise, whoever sends them and whatever is    *)
(* lost, repeated or damaged on the way: the file on the flash is replaced *)
(* in one step, by a file that somebody announced and whose chunks have    *)
(* been staged one after the other, each once, with nothing of another     *)
(* sender between them.                                                    *)
(***************************************************************************)
EXTENDS Naturals, Sequences

CONSTANTS
    Owners,    \* who may own an upload
    Files,     \* sequences of chunks
    NoFile,    \* the name holds nothing
    NoStage    \* no upload is open

VARIABLES
    file,      \* what the name holds
    stage      \* the upload that is open

vars == <<file, stage>>

Init ==
    /\ file \in Files \union {NoFile}
    /\ stage = NoStage

Open(o, f) ==
    /\ stage' = [owner |-> o, announced |-> f, chunks |-> 0, intact |-> TRUE]
    /\ UNCHANGED file

\* The next chunk of the announced file, or one that was damaged on its way.
Extend(undamaged) ==
    /\ stage # NoStage
    /\ stage.chunks < Len(stage.announced)
    /\ stage' = [stage EXCEPT !.chunks = @ + 1, !.intact = @ /\ undamaged]
    /\ UNCHANGED file

Publish ==
    /\ stage # NoStage
    /\ stage.chunks = Len(stage.announced)
    /\ stage.intact
    /\ file' = stage.announced
    /\ stage' = NoStage

Drop ==
    /\ stage # NoStage
    /\ stage' = NoStage
    /\ UNCHANGED file

Delete ==
    /\ stage = NoStage
    /\ file' = NoFile
    /\ UNCHANGED stage

Next ==
    \/ \E o \in Owners, f \in Files : Open(o, f)
    \/ \E undamaged \in BOOLEAN : Extend(undamaged)
    \/ Publish \/ Drop \/ Delete

Spec == Init /\ [][Next]_vars
=============================================================================
