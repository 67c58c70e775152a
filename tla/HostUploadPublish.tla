------------------------- MODULE HostUploadPublish --------------------------
(***************************************************************************)
(* Uploads from the PC: how commandUpload replaces a file on SPIFFS.       *)
(*                                                                         *)
(* The upload is received into host_upload.part.  To publish it over an    *)
(* existing file, publish() writes a journal with the file's name, moves   *)
(* the old file to a backup, moves the upload into its place, and removes  *)
(* backup and journal; recover() finishes or undoes this at boot and       *)
(* before the next upload.  The board may lose power between any two file  *)
(* operations and inside the writing of the journal, and any file          *)
(* operation may fail without effect.                                      *)
(*                                                                         *)
(* Abstractions.  Uploads are numbered; the content of a complete file is  *)
(* the number of its upload, Cut stands for the partial while data is      *)
(* still missing or not yet flushed.  exists() is exact, and a rename of   *)
(* SPIFFS takes effect or does not.  The command mutex lets one command    *)
(* run at a time, so only the loss of power interleaves with a command.    *)
(***************************************************************************)
EXTENDS Naturals, Sequences

CONSTANTS
    Names,         \* filenames that isValidHostFilename accepts
    MaxUploads,    \* uploads begun
    FaultKinds,    \* "power": power may fail; "file": operations may fail
    MaxFaults      \* faults of all kinds together

Missing == 0                \* no such file
Cut == MaxUploads + 1       \* an incomplete partial
Absent == "absent"          \* no journal
Torn == "torn"              \* a journal that readJournal rejects

ASSUME NamesAssumption ==
    /\ Absent \notin Names
    /\ Torn \notin Names
    /\ MaxUploads \in Nat
    /\ MaxFaults \in Nat

VARIABLES
    files,     \* files[n]: the upload that name n holds
    journal,   \* host_replace.part: the name in it
    backup,    \* host_backup.part
    partial,   \* host_upload.part
    uploads,   \* the name of each upload begun
    active,    \* host_upload_.active: the last upload is being received
    outcome,   \* what the PC has been told of the last upload
    deletions, \* DELETED answers so far
    pc,        \* where the running command, or boot, is
    caller,    \* who called recover()
    wanted,    \* the name of an UPLOAD BEGIN that recover() still delays
    faults     \* faults so far, of each kind

disk    == <<files, journal, backup, partial>>
session == <<uploads, active, outcome, deletions, wanted>>
vars    == <<disk, session, pc, caller, faults>>

-----------------------------------------------------------------------------
Name == uploads[Len(uploads)]
Number == Len(uploads)

Works == UNCHANGED faults
Fault(kind) ==
    /\ kind \in FaultKinds
    /\ faults["file"] + faults["power"] < MaxFaults
    /\ faults' = [faults EXCEPT ![kind] = @ + 1]

Goto(label) == pc' = label /\ UNCHANGED caller
Call(who) == pc' = "recover" /\ caller' = who

-----------------------------------------------------------------------------
(* recover(ops): on return it hands its result to its caller.              *)

Return(ok) ==
    Goto(CASE caller = "boot"     -> "sweep"
           [] caller = "begin"    -> IF ok THEN "open" ELSE "ready"
           [] caller = "publish"  -> IF ok THEN "replace" ELSE "refuse"
           [] caller = "rollback" -> "refuse"
           [] caller = "finish"   -> "complete")

\* Without a journal an orphaned backup is left alone, and reported.
RecoverNothing ==
    /\ pc = "recover"
    /\ journal = Absent
    /\ Return(backup = Missing)
    /\ UNCHANGED <<disk, session>>
    /\ Works

RecoverUnreadable ==
    /\ pc = "recover"
    /\ journal # Absent
    /\ \/ journal = Torn /\ Works
       \/ Fault("file")
    /\ Return(FALSE)
    /\ UNCHANGED <<disk, session>>

\* Mutant: the backup is removed without looking for the destination.
RecoverBackup_Discard ==
    /\ pc = "recover"
    /\ journal \in Names
    /\ backup # Missing
    /\ \/ backup' = Missing /\ UNCHANGED files /\ Goto("unlink") /\ Works
       \/ UNCHANGED <<files, backup>> /\ Return(FALSE) /\ Fault("file")
    /\ UNCHANGED <<journal, partial, session>>

\* The backup is removed when the destination exists and moved back when not.
RecoverBackup ==
    /\ pc = "recover"
    /\ journal \in Names
    /\ backup # Missing
    /\ \/ /\ backup' = Missing
          /\ files' = IF files[journal] # Missing THEN files
                      ELSE [files EXCEPT ![journal] = backup]
          /\ Goto("unlink")
          /\ Works
       \/ /\ UNCHANGED <<files, backup>>
          /\ Return(FALSE)
          /\ Fault("file")
    /\ UNCHANGED <<journal, partial, session>>

\* Mutant: the journal is removed before the backup is dealt with.
RecoverJournal_First ==
    /\ pc = "unlink" \/ (pc = "recover" /\ journal \in Names)
    /\ \/ journal' = Absent /\ Return(TRUE) /\ Works
       \/ UNCHANGED journal /\ Return(FALSE) /\ Fault("file")
    /\ UNCHANGED <<files, backup, partial, session>>

RecoverJournal ==
    /\ \/ pc = "unlink"
       \/ pc = "recover" /\ journal \in Names /\ backup = Missing
    /\ \/ journal' = Absent /\ Return(TRUE) /\ Works
       \/ UNCHANGED journal /\ Return(FALSE) /\ Fault("file")
    /\ UNCHANGED <<files, backup, partial, session>>

-----------------------------------------------------------------------------
(* publish(ops, partial, destination), called by UPLOAD END.               *)

\* The destination is free: one rename publishes.
PublishNew ==
    /\ pc = "replace"
    /\ files[Name] = Missing
    /\ \/ /\ files' = [files EXCEPT ![Name] = partial]
          /\ partial' = Missing
          /\ Goto("complete")
          /\ Works
       \/ UNCHANGED <<files, partial>> /\ Goto("refuse") /\ Fault("file")
    /\ UNCHANGED <<journal, backup, session>>

\* writeJournal opens the journal ...
OpenJournal ==
    /\ pc = "replace"
    /\ files[Name] # Missing
    /\ \/ journal' = Torn /\ Goto("journal") /\ Works
       \/ UNCHANGED journal /\ Goto("refuse") /\ Fault("file")
    /\ UNCHANGED <<files, backup, partial, session>>

\* ... and writes and closes it, or removes it, if it can.
WriteJournal ==
    /\ pc = "journal"
    /\ \/ journal' = Name /\ Goto("moveOld") /\ Works
       \/ journal' \in {Absent, Torn} /\ Goto("refuse") /\ Fault("file")
    /\ UNCHANGED <<files, backup, partial, session>>

MoveOld ==
    /\ pc = "moveOld"
    /\ \/ /\ backup' = files[Name]
          /\ files' = [files EXCEPT ![Name] = Missing]
          /\ Goto("moveNew")
          /\ UNCHANGED journal
          /\ Works
       \/ /\ journal' \in {Absent, journal}
          /\ Goto("refuse")
          /\ UNCHANGED <<files, backup>>
          /\ Fault("file")
    /\ UNCHANGED <<partial, session>>

\* Mutant: publication ends without the cleanup.
MoveNew_NoCleanup ==
    /\ pc = "moveNew"
    /\ \/ /\ files' = [files EXCEPT ![Name] = partial]
          /\ partial' = Missing
          /\ Goto("complete")
          /\ Works
       \/ UNCHANGED <<files, partial>> /\ Call("rollback") /\ Fault("file")
    /\ UNCHANGED <<journal, backup, session>>

MoveNew ==
    /\ pc = "moveNew"
    /\ \/ /\ files' = [files EXCEPT ![Name] = partial]
          /\ partial' = Missing
          /\ Call("finish")
          /\ Works
       \/ UNCHANGED <<files, partial>> /\ Call("rollback") /\ Fault("file")
    /\ UNCHANGED <<journal, backup, session>>

-----------------------------------------------------------------------------
(* The commands, and boot.                                                 *)

\* resetHostUpload(true): the partial is removed, unless that fails.
Reset ==
    \/ partial' = Missing /\ Works
    \/ UNCHANGED partial /\ Fault("file")

\* UPLOAD BEGIN runs recover() before it looks at the session.
UploadBegin(n) ==
    /\ pc = "ready"
    /\ Number < MaxUploads
    /\ wanted' = n
    /\ Call("begin")
    /\ UNCHANGED <<disk, uploads, active, outcome, deletions>>
    /\ Works

\* It drops the upload it supersedes and opens the partial; no space is left or
\* the partial cannot be opened: no upload is active.
UploadOpens ==
    /\ pc = "open"
    /\ uploads' = Append(uploads, wanted)
    /\ active' = TRUE
    /\ outcome' = "open"
    /\ partial' = Cut
    /\ Goto("ready")
    /\ UNCHANGED <<files, journal, backup, deletions, wanted>>
    /\ Works
UploadOpenFails ==
    /\ pc = "open"
    /\ active' = FALSE
    /\ outcome' = IF active THEN "error" ELSE outcome
    /\ Reset
    /\ Goto("ready")
    /\ UNCHANGED <<files, journal, backup, uploads, deletions, wanted>>

\* UPLOAD END when size and CRC agree and the partial is flushed and closed.
UploadEnd ==
    /\ pc = "ready"
    /\ active
    /\ partial' = Number
    /\ Call("publish")
    /\ UNCHANGED <<files, journal, backup, session>>
    /\ Works

\* CANCEL, expiry, a failed write or verification: the upload is given up; so
\* it is when publish() returns false.
UploadGivenUp ==
    /\ \/ pc = "ready" /\ active
       \/ pc = "refuse"
    /\ active' = FALSE
    /\ outcome' = "error"
    /\ Reset
    /\ Goto("ready")
    /\ UNCHANGED <<files, journal, backup, uploads, deletions, wanted>>

UploadComplete ==
    /\ pc = "complete"
    /\ active' = FALSE
    /\ outcome' = "complete"
    /\ Goto("ready")
    /\ UNCHANGED <<disk, uploads, deletions, wanted>>
    /\ Works

\* Mutant: DELETE does not look for a pending recovery.
StorageDelete_Pending(n) ==
    /\ pc = "ready"
    /\ ~ active
    /\ files[n] # Missing
    /\ files' = [files EXCEPT ![n] = Missing]
    /\ deletions' = deletions + 1
    /\ UNCHANGED <<journal, backup, partial, uploads, active, outcome, wanted, pc, caller>>
    /\ Works

\* STORAGE DELETE is refused during an upload and while a recovery is pending.
StorageDelete(n) ==
    /\ pc = "ready"
    /\ ~ active
    /\ journal = Absent
    /\ backup = Missing
    /\ files[n] # Missing
    /\ files' = [files EXCEPT ![n] = Missing]
    /\ deletions' = deletions + 1
    /\ UNCHANGED <<journal, backup, partial, uploads, active, outcome, wanted, pc, caller>>
    /\ Works

\* Power fails: a journal that was being written is torn, or just complete.
PowerFails ==
    /\ Fault("power")
    /\ journal' \in {journal} \cup (IF pc = "journal" THEN {Name} ELSE {})
    /\ active' = FALSE
    /\ outcome' = IF active THEN "unknown" ELSE outcome
    /\ Call("boot")
    /\ UNCHANGED <<files, backup, partial, uploads, deletions, wanted>>

\* Mutant: boot removes every .part file.
Sweep_All ==
    /\ pc = "sweep"
    /\ Reset
    /\ backup' = Missing
    /\ Goto("ready")
    /\ UNCHANGED <<files, journal, session>>

\* cleanupStaleIncomingFiles spares the journal and the backup.
Sweep ==
    /\ pc = "sweep"
    /\ Reset
    /\ Goto("ready")
    /\ UNCHANGED <<files, journal, backup, session>>

-----------------------------------------------------------------------------
Init ==
    /\ files = [n \in Names |-> Missing]
    /\ journal = Absent
    /\ backup = Missing
    /\ partial = Missing
    /\ uploads = <<>>
    /\ active = FALSE
    /\ outcome = "unknown"
    /\ deletions = 0
    /\ pc = "recover"
    /\ caller = "boot"
    /\ wanted \in Names
    /\ faults = [kind \in {"file", "power"} |-> 0]

Recover == RecoverNothing \/ RecoverUnreadable \/ RecoverBackup \/ RecoverJournal
Publish == PublishNew \/ OpenJournal \/ WriteJournal \/ MoveOld \/ MoveNew
Command ==
    \/ \E n \in Names : UploadBegin(n) \/ StorageDelete(n)
    \/ UploadOpens \/ UploadOpenFails \/ UploadEnd \/ UploadGivenUp \/ UploadComplete

Next == Recover \/ Publish \/ Command \/ PowerFails \/ Sweep

Spec == Init /\ [][Next]_vars

-----------------------------------------------------------------------------
(* Properties.                                                             *)

Labels == {"recover", "unlink", "replace", "journal", "moveOld", "moveNew",
           "refuse", "complete", "open", "ready", "sweep"}

TypeOK ==
    /\ files \in [Names -> 0 .. MaxUploads]
    /\ journal \in Names \cup {Absent, Torn}
    /\ backup \in 0 .. MaxUploads
    /\ partial \in 0 .. Cut
    /\ uploads \in Seq(Names)
    /\ Number <= MaxUploads
    /\ active \in BOOLEAN
    /\ outcome \in {"unknown", "open", "complete", "error"}
    /\ deletions \in Nat
    /\ pc \in Labels
    /\ caller \in {"boot", "begin", "publish", "rollback", "finish"}
    /\ wanted \in Names
    /\ faults \in [{"file", "power"} -> 0 .. MaxFaults]

\* Wherever power fails or an operation fails, a backup is never without the
\* journal that says whose it is: recover() would leave it orphaned for ever.
BackupIsJournaled == backup # Missing => journal \in Names

\* As long as file operations work, a finished command or boot leaves no backup,
\* no forgotten partial and no readable journal, wherever power failed before.
NothingLeftBehind ==
    faults["file"] = 0 =>
        (pc = "ready" =>
            /\ backup = Missing
            /\ journal \in {Absent, Torn}
            /\ ~ active => partial = Missing)

\* Wherever power or an operation fails, the flash is in a state that recover()
\* brings back to order.
FlashRecoverable == TypeOK /\ BackupIsJournaled /\ NothingLeftBehind

\* The file a name stands for, counting one that recover() will move back.
Visible(n) ==
    IF files[n] = Missing /\ journal = n THEN backup ELSE files[n]

\* The journalled replacement implements the atomic one of FileStore.
Store == INSTANCE FileStore WITH
    FileNames <- Names,
    store <- [n \in Names |-> Visible(n)]
ImplementsStore == Store!Init /\ [][Store!Next]_(Store!vars)

\* tools/tests/host_transport_safety.cpp, "recovery at each interrupted
\* publication step": recover() succeeds and the journal is gone.  The code does
\* not ensure it when power fails while the journal is being written.
RecoveryCompletes ==
    faults["file"] = 0 => (pc = "ready" => journal = Absent)
=============================================================================
