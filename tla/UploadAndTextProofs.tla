------------------------ MODULE UploadAndTextProofs ------------------------
(***************************************************************************)
(* Proofs about HostUploadPublish, for any names, any number of uploads    *)
(* and any number of faults of either kind: the flash is always in a state *)
(* that recover() brings back to order, and the journalled replacement     *)
(* implements the atomic one of FileStore.                                 *)
(*                                                                         *)
(* The invariant says, for each place of a command, what the journal, the  *)
(* backup and the partial are there, that an upload is open exactly while  *)
(* the PC is told so, and which file the last upload is: none before the   *)
(* rename of publish(), the one under its name after it.                   *)
(*                                                                         *)
(* And about TextMessages, for any boards, ranges and messages, and any    *)
(* number of mishaps: what a board prints and runs is what it read, and    *)
(* what it reads comes in its senders' order.                              *)
(*                                                                         *)
(* The invariant says that each board is a reader of the packets it has    *)
(* read: its assembler follows the end of them, and its texts, printed or  *)
(* still in the pass, are those that end in them.  And what a board has    *)
(* heard, read or not, is in the order of its senders, which are never     *)
(* before it: that is why a text of several chunks cannot come twice.      *)
(***************************************************************************)
EXTENDS HostUploadPublish, TextMessages, FiniteSetTheorems, SequenceTheorems, TLAPS

Recovering == pc \in {"recover", "unlink"}
RecoverFor(callers) == Recovering /\ caller \in callers

Publishing == pc \in {"replace", "journal", "moveOld", "moveNew"}

\* The rename that publishes the last upload has been made.
Published == pc = "complete" \/ RecoverFor({"finish"})

\* What the journal and the backup are at each place of publish() and recover().
JournalInv ==
    /\ pc \in {"unlink", "replace", "journal", "moveOld", "open"} => backup = Missing
    /\ pc \in {"replace", "open"} => journal = Absent
    /\ pc = "unlink" => journal \in Names
    /\ pc = "journal" => journal = Torn
    /\ pc \in {"moveOld", "moveNew"} => journal = Name
    /\ pc = "moveNew" => files[Name] = Missing
    /\ RecoverFor({"rollback", "finish"}) => journal = Name

\* An upload is open while the PC is told so, and there is one to speak of.
SessionInv ==
    /\ active <=> outcome = "open"
    /\ active => Number > 0
    /\ Publishing \/ pc \in {"refuse", "complete"} => active
    /\ RecoverFor({"publish", "rollback", "finish"}) => active
    /\ pc = "sweep" \/ RecoverFor({"boot"}) => ~ active
    /\ pc = "open" \/ RecoverFor({"begin"}) => Number < MaxUploads

\* The last upload is nowhere but in the partial until it is published, and under
\* its name from then on.
ContentInv ==
    /\ backup <= Number
    /\ \A n \in Names : files[n] <= Number
    /\ Publishing \/ RecoverFor({"publish"}) => partial = Number
    /\ active /\ ~ Published => backup # Number /\ \A n \in Names : files[n] # Number
    /\ Published => files[Name] = Number /\ partial = Missing

\* No backup, and no journal that recover() would act on.
Tidy == backup = Missing /\ journal \in {Absent, Torn}

\* As long as file operations work, only publish() and recover() leave anything.
TidyInv ==
    faults["file"] = 0 =>
        /\ pc \in {"ready", "refuse", "complete", "sweep"} => Tidy
        /\ RecoverFor({"publish", "begin"}) /\ pc = "recover" => Tidy
        /\ ~ RecoverFor({"rollback"})
        /\ pc = "ready" \/ RecoverFor({"begin"}) => active \/ partial = Missing

UploadInv ==
    TypeOK /\ BackupIsJournaled /\ JournalInv /\ SessionInv /\ ContentInv /\ TidyInv

-----------------------------------------------------------------------------
\* The last upload has a name and a number as soon as there is one.
LEMMA LastUpload ==
    ASSUME TypeOK, Number > 0
    PROVE  Name \in Names /\ Number \in 1 .. MaxUploads
BY DEF TypeOK, Number, Name

\* Beginning an upload adds one to the list.
LEMMA NextUpload ==
    ASSUME TypeOK, uploads' = Append(uploads, wanted)
    PROVE  uploads' \in Seq(Names) /\ Number' = Number + 1 /\ Name' = wanted
BY DEF TypeOK, Number, Name

\* A file operation changes one name.
LEMMA OneFile ==
    ASSUME TypeOK, NEW n \in Names, NEW v \in 0 .. MaxUploads,
           files' = [files EXCEPT ![n] = v]
    PROVE  /\ files' \in [Names -> 0 .. MaxUploads]
           /\ files'[n] = v
           /\ \A m \in Names \ {n} : files'[m] = files[m]
BY DEF TypeOK

\* resetHostUpload removes the partial or leaves it as it is.
LEMMA ResetTypes ==
    ASSUME TypeOK, Reset
    PROVE  /\ partial' \in 0 .. Cut
           /\ faults' \in [{"file", "power"} -> 0 .. MaxFaults]
           /\ faults'["file"] = 0 => partial' = Missing /\ faults["file"] = 0
BY NamesAssumption DEF TypeOK, Fault, Reset, Works, Cut, Missing

\* A fault of either kind is counted below the bound.
LEMMA FaultTypes ==
    ASSUME TypeOK, NEW kind \in {"file", "power"}, Fault(kind)
    PROVE  /\ faults' \in [{"file", "power"} -> 0 .. MaxFaults]
           /\ kind = "file" => faults'["file"] # 0
           /\ kind = "power" => faults'["file"] = faults["file"]
BY NamesAssumption DEF TypeOK, Fault

-----------------------------------------------------------------------------
LEMMA InitInv == Init => UploadInv
<1> SUFFICES ASSUME Init PROVE UploadInv
  OBVIOUS
<1> USE NamesAssumption DEF Init, Missing, Number
<1>1. Number = 0 /\ uploads \in Seq(Names)
  OBVIOUS
<1>2. TypeOK
  <2>1. /\ files \in [Names -> 0 .. MaxUploads]
        /\ faults \in [{"file", "power"} -> 0 .. MaxFaults]
    OBVIOUS
  <2>2. /\ journal \in Names \cup {Absent, Torn}
        /\ backup \in 0 .. MaxUploads
        /\ partial \in 0 .. Cut
        /\ deletions \in Nat
    BY DEF Cut
  <2>3. pc \in Labels
    BY DEF Labels
  <2>4. /\ active \in BOOLEAN
        /\ outcome \in {"unknown", "open", "complete", "error"}
        /\ caller \in {"boot", "begin", "publish", "rollback", "finish"}
        /\ wanted \in Names
    OBVIOUS
  <2>5. Number <= MaxUploads
    BY <1>1
  <2> HIDE DEF Init
  <2> QED BY <1>1, <2>1, <2>2, <2>3, <2>4, <2>5 DEF TypeOK
<1> QED
  BY <1>1, <1>2 DEF UploadInv, BackupIsJournaled, JournalInv, SessionInv, ContentInv,
     TidyInv, Tidy, Recovering, RecoverFor, Publishing, Published

\* Every step leaves every variable in its type.
LEMMA TypePreserved ==
    ASSUME UploadInv, Next
    PROVE  TypeOK'
<1> USE NamesAssumption DEF UploadInv, TypeOK, Cut, Labels, JournalInv, SessionInv, ContentInv, Recovering, RecoverFor, Publishing, Published, Missing, Number, Name, Works, Goto, Call, Return, disk, session
<1>1. CASE RecoverNothing
  BY <1>1, LastUpload, FaultTypes DEF RecoverNothing
<1>2. CASE RecoverUnreadable
  BY <1>2, LastUpload, FaultTypes DEF RecoverUnreadable
<1>3. CASE RecoverBackup
  <2>1. /\ backup' \in 0 .. MaxUploads
        /\ files' \in [Names -> 0 .. MaxUploads]
    <3>1. CASE UNCHANGED <<files, backup>>
      BY <3>1
    <3>2. CASE backup' = Missing /\ files' = [files EXCEPT ![journal] = backup]
      BY <1>3, <3>2, OneFile DEF RecoverBackup
    <3>3. CASE backup' = Missing /\ files' = files
      BY <3>3
    <3> QED BY <1>3, <3>1, <3>2, <3>3 DEF RecoverBackup
  <2>2. faults' \in [{"file", "power"} -> 0 .. MaxFaults]
    BY <1>3, FaultTypes DEF RecoverBackup
  <2> QED BY <1>3, <2>1, <2>2 DEF RecoverBackup
<1>4. CASE RecoverJournal
  BY <1>4, LastUpload, FaultTypes DEF RecoverJournal
<1>5. CASE PublishNew
  BY <1>5, LastUpload, FaultTypes DEF PublishNew
<1>6. CASE OpenJournal
  BY <1>6, LastUpload, FaultTypes DEF OpenJournal
<1>7. CASE WriteJournal
  BY <1>7, LastUpload, FaultTypes DEF WriteJournal
<1>8. CASE MoveOld
  BY <1>8, LastUpload, FaultTypes DEF MoveOld
<1>9. CASE MoveNew
  BY <1>9, LastUpload, FaultTypes DEF MoveNew
<1>10. CASE \E n \in Names : UploadBegin(n)
  BY <1>10 DEF UploadBegin
<1>11. CASE \E n \in Names : StorageDelete(n)
  BY <1>11 DEF StorageDelete
<1>12. CASE UploadOpens
  BY <1>12, NextUpload DEF UploadOpens
<1>13. CASE UploadOpenFails
  BY <1>13, ResetTypes DEF UploadOpenFails
<1>14. CASE UploadEnd
  BY <1>14, LastUpload, FaultTypes DEF UploadEnd
<1>15. CASE UploadGivenUp
  BY <1>15, ResetTypes DEF UploadGivenUp
<1>16. CASE UploadComplete
  BY <1>16, LastUpload, FaultTypes DEF UploadComplete
<1>17. CASE PowerFails
  BY <1>17, LastUpload, FaultTypes DEF PowerFails
<1>18. CASE Sweep
  BY <1>18, ResetTypes DEF Sweep
<1> QED
  BY <1>1, <1>2, <1>3, <1>4, <1>5, <1>6, <1>7, <1>8, <1>9, <1>10, <1>11, <1>12, <1>13, <1>14, <1>15, <1>16, <1>17, <1>18
     DEF Next, Recover, Publish, Command

\* The journal names what the backup is, at every place.
LEMMA JournalPreserved ==
    ASSUME UploadInv, Next
    PROVE  BackupIsJournaled' /\ JournalInv'
<1> USE NamesAssumption DEF UploadInv, TypeOK, BackupIsJournaled, JournalInv, SessionInv, Recovering, RecoverFor, Publishing, Published, Fault, Missing, Number, Name, Works, Goto, Call, Return, Reset, disk, session
<1>1. CASE RecoverNothing
  BY <1>1, LastUpload, FaultTypes DEF RecoverNothing
<1>2. CASE RecoverUnreadable
  BY <1>2, LastUpload, FaultTypes DEF RecoverUnreadable
<1>3. CASE RecoverBackup
  BY <1>3, LastUpload, FaultTypes DEF RecoverBackup
<1>4. CASE RecoverJournal
  BY <1>4, LastUpload, FaultTypes DEF RecoverJournal
<1>5. CASE PublishNew
  BY <1>5, LastUpload, FaultTypes DEF PublishNew
<1>6. CASE OpenJournal
  BY <1>6, LastUpload, FaultTypes DEF OpenJournal
<1>7. CASE WriteJournal
  BY <1>7, LastUpload, FaultTypes DEF WriteJournal
<1>8. CASE MoveOld
  BY <1>8, LastUpload, FaultTypes DEF MoveOld
<1>9. CASE MoveNew
  BY <1>9, LastUpload, FaultTypes DEF MoveNew
<1>10. CASE \E n \in Names : UploadBegin(n)
  BY <1>10 DEF UploadBegin
<1>11. CASE \E n \in Names : StorageDelete(n)
  BY <1>11 DEF StorageDelete
<1>12. CASE UploadOpens
  BY <1>12, NextUpload DEF UploadOpens
<1>13. CASE UploadOpenFails
  BY <1>13, LastUpload, FaultTypes DEF UploadOpenFails
<1>14. CASE UploadEnd
  BY <1>14, LastUpload, FaultTypes DEF UploadEnd
<1>15. CASE UploadGivenUp
  BY <1>15, LastUpload, FaultTypes DEF UploadGivenUp
<1>16. CASE UploadComplete
  BY <1>16, LastUpload, FaultTypes DEF UploadComplete
<1>17. CASE PowerFails
  BY <1>17, LastUpload, FaultTypes DEF PowerFails
<1>18. CASE Sweep
  BY <1>18, LastUpload, FaultTypes DEF Sweep
<1> QED
  BY <1>1, <1>2, <1>3, <1>4, <1>5, <1>6, <1>7, <1>8, <1>9, <1>10, <1>11, <1>12, <1>13, <1>14, <1>15, <1>16, <1>17, <1>18
     DEF Next, Recover, Publish, Command

\* An upload is open while the PC is told so.
LEMMA SessionPreserved ==
    ASSUME UploadInv, Next
    PROVE  SessionInv'
<1> USE NamesAssumption DEF UploadInv, TypeOK, SessionInv, Recovering, RecoverFor, Publishing, Missing, Number, Name, Works, Goto, Call, Return, Reset, disk, session
<1>1. CASE RecoverNothing
  BY <1>1, LastUpload, FaultTypes DEF RecoverNothing
<1>2. CASE RecoverUnreadable
  BY <1>2, LastUpload, FaultTypes DEF RecoverUnreadable
<1>3. CASE RecoverBackup
  BY <1>3, LastUpload, FaultTypes DEF RecoverBackup
<1>4. CASE RecoverJournal
  BY <1>4, LastUpload, FaultTypes DEF RecoverJournal
<1>5. CASE PublishNew
  BY <1>5, LastUpload, FaultTypes DEF PublishNew
<1>6. CASE OpenJournal
  BY <1>6, LastUpload, FaultTypes DEF OpenJournal
<1>7. CASE WriteJournal
  BY <1>7, LastUpload, FaultTypes DEF WriteJournal
<1>8. CASE MoveOld
  BY <1>8, LastUpload, FaultTypes DEF MoveOld
<1>9. CASE MoveNew
  BY <1>9, LastUpload, FaultTypes DEF MoveNew
<1>10. CASE \E n \in Names : UploadBegin(n)
  BY <1>10 DEF UploadBegin
<1>11. CASE \E n \in Names : StorageDelete(n)
  BY <1>11 DEF StorageDelete
<1>12. CASE UploadOpens
  BY <1>12, NextUpload DEF UploadOpens
<1>13. CASE UploadOpenFails
  BY <1>13, LastUpload, FaultTypes DEF UploadOpenFails
<1>14. CASE UploadEnd
  BY <1>14, LastUpload, FaultTypes DEF UploadEnd
<1>15. CASE UploadGivenUp
  BY <1>15, LastUpload, FaultTypes DEF UploadGivenUp
<1>16. CASE UploadComplete
  BY <1>16, LastUpload, FaultTypes DEF UploadComplete
<1>17. CASE PowerFails
  BY <1>17, LastUpload, FaultTypes DEF PowerFails
<1>18. CASE Sweep
  BY <1>18, LastUpload, FaultTypes DEF Sweep
<1> QED
  BY <1>1, <1>2, <1>3, <1>4, <1>5, <1>6, <1>7, <1>8, <1>9, <1>10, <1>11, <1>12, <1>13, <1>14, <1>15, <1>16, <1>17, <1>18
     DEF Next, Recover, Publish, Command

\* The last upload stays in the partial until it is published, and then has its name.
LEMMA ContentPreserved ==
    ASSUME UploadInv, Next
    PROVE  ContentInv'
<1> USE NamesAssumption DEF UploadInv, TypeOK, BackupIsJournaled, JournalInv, SessionInv, ContentInv, Recovering, RecoverFor, Publishing, Published, Missing, Number, Name, Works, Goto, Call, Return, Reset, disk, session
<1>1. CASE RecoverNothing
  BY <1>1, LastUpload, FaultTypes DEF RecoverNothing
<1>2. CASE RecoverUnreadable
  BY <1>2, LastUpload, FaultTypes DEF RecoverUnreadable
<1>3. CASE RecoverBackup
  <2>1. CASE files' = files
    BY <1>3, <2>1 DEF RecoverBackup
  <2>2. CASE files' = [files EXCEPT ![journal] = backup]
    <3>1. /\ files'[journal] = backup
          /\ \A m \in Names \ {journal} : files'[m] = files[m]
      BY <1>3, <2>2, OneFile DEF RecoverBackup
    <3> QED BY <1>3, <2>2, <3>1, LastUpload DEF RecoverBackup
  <2> QED BY <1>3, <2>1, <2>2 DEF RecoverBackup
<1>4. CASE RecoverJournal
  BY <1>4, LastUpload, FaultTypes DEF RecoverJournal
<1>5. CASE PublishNew
  <2>1. CASE files' = files
    BY <1>5, <2>1, LastUpload DEF PublishNew
  <2>2. CASE files' = [files EXCEPT ![Name] = partial]
    <3>1. partial = Number /\ Name \in Names /\ Number \in 1 .. MaxUploads
      BY <1>5, LastUpload DEF PublishNew
    <3>2. files'[Name] = Number /\ \A m \in Names \ {Name} : files'[m] = files[m]
      BY <2>2, <3>1, OneFile
    <3> QED BY <1>5, <2>2, <3>1, <3>2 DEF PublishNew
  <2> QED BY <1>5, <2>1, <2>2 DEF PublishNew
<1>6. CASE OpenJournal
  BY <1>6, LastUpload, FaultTypes DEF OpenJournal
<1>7. CASE WriteJournal
  BY <1>7, LastUpload, FaultTypes DEF WriteJournal
<1>8. CASE MoveOld
  BY <1>8, LastUpload, FaultTypes DEF MoveOld
<1>9. CASE MoveNew
  <2>1. CASE files' = files
    BY <1>9, <2>1, LastUpload DEF MoveNew
  <2>2. CASE files' = [files EXCEPT ![Name] = partial]
    <3>1. partial = Number /\ Name \in Names /\ Number \in 1 .. MaxUploads
      BY <1>9, LastUpload DEF MoveNew
    <3>2. files'[Name] = Number /\ \A m \in Names \ {Name} : files'[m] = files[m]
      BY <2>2, <3>1, OneFile
    <3> QED BY <1>9, <2>2, <3>1, <3>2 DEF MoveNew
  <2> QED BY <1>9, <2>1, <2>2 DEF MoveNew
<1>10. CASE \E n \in Names : UploadBegin(n)
  BY <1>10 DEF UploadBegin
<1>11. CASE \E n \in Names : StorageDelete(n)
  BY <1>11 DEF StorageDelete
<1>12. CASE UploadOpens
  BY <1>12, NextUpload DEF UploadOpens
<1>13. CASE UploadOpenFails
  BY <1>13, LastUpload, FaultTypes DEF UploadOpenFails
<1>14. CASE UploadEnd
  BY <1>14, LastUpload, FaultTypes DEF UploadEnd
<1>15. CASE UploadGivenUp
  BY <1>15, LastUpload, FaultTypes DEF UploadGivenUp
<1>16. CASE UploadComplete
  BY <1>16, LastUpload, FaultTypes DEF UploadComplete
<1>17. CASE PowerFails
  BY <1>17, LastUpload, FaultTypes DEF PowerFails
<1>18. CASE Sweep
  BY <1>18, LastUpload, FaultTypes DEF Sweep
<1> QED
  BY <1>1, <1>2, <1>3, <1>4, <1>5, <1>6, <1>7, <1>8, <1>9, <1>10, <1>11, <1>12, <1>13, <1>14, <1>15, <1>16, <1>17, <1>18
     DEF Next, Recover, Publish, Command

\* As long as file operations work, nothing is left behind.
LEMMA TidyPreserved ==
    ASSUME UploadInv, Next
    PROVE  TidyInv'
<1> USE NamesAssumption DEF UploadInv, TypeOK, BackupIsJournaled, JournalInv, SessionInv, ContentInv, TidyInv, Tidy, Recovering, RecoverFor, Publishing, Published, Missing, Number, Name, Works, Goto, Call, Return, Reset, disk, session
<1>1. CASE RecoverNothing
  BY <1>1, LastUpload, FaultTypes DEF RecoverNothing
<1>2. CASE RecoverUnreadable
  BY <1>2, LastUpload, FaultTypes DEF RecoverUnreadable
<1>3. CASE RecoverBackup
  BY <1>3, LastUpload, FaultTypes DEF RecoverBackup
<1>4. CASE RecoverJournal
  BY <1>4, LastUpload, FaultTypes DEF RecoverJournal
<1>5. CASE PublishNew
  BY <1>5, LastUpload, FaultTypes DEF PublishNew
<1>6. CASE OpenJournal
  BY <1>6, LastUpload, FaultTypes DEF OpenJournal
<1>7. CASE WriteJournal
  BY <1>7, LastUpload, FaultTypes DEF WriteJournal
<1>8. CASE MoveOld
  BY <1>8, LastUpload, FaultTypes DEF MoveOld
<1>9. CASE MoveNew
  BY <1>9, LastUpload, FaultTypes DEF MoveNew
<1>10. CASE \E n \in Names : UploadBegin(n)
  BY <1>10 DEF UploadBegin
<1>11. CASE \E n \in Names : StorageDelete(n)
  BY <1>11 DEF StorageDelete
<1>12. CASE UploadOpens
  BY <1>12, NextUpload DEF UploadOpens
<1>13. CASE UploadOpenFails
  BY <1>13, LastUpload, FaultTypes DEF UploadOpenFails
<1>14. CASE UploadEnd
  BY <1>14, LastUpload, FaultTypes DEF UploadEnd
<1>15. CASE UploadGivenUp
  BY <1>15, LastUpload, FaultTypes DEF UploadGivenUp
<1>16. CASE UploadComplete
  BY <1>16, LastUpload, FaultTypes DEF UploadComplete
<1>17. CASE PowerFails
  BY <1>17, LastUpload, FaultTypes DEF PowerFails
<1>18. CASE Sweep
  BY <1>18, LastUpload, FaultTypes DEF Sweep
<1> QED
  BY <1>1, <1>2, <1>3, <1>4, <1>5, <1>6, <1>7, <1>8, <1>9, <1>10, <1>11, <1>12, <1>13, <1>14, <1>15, <1>16, <1>17, <1>18
     DEF Next, Recover, Publish, Command

\* A step that changes nothing keeps the invariant.
LEMMA StutterPreserved == UploadInv /\ UNCHANGED vars => UploadInv'
BY DEF UploadInv, vars, disk, session, TypeOK, BackupIsJournaled, JournalInv, SessionInv,
   ContentInv, TidyInv, Tidy, Recovering, RecoverFor, Publishing, Published, Number, Name

\* The invariant holds in every state of every behaviour.
THEOREM UploadInvariant == Spec => []UploadInv
<1>1. UploadInv /\ [Next]_vars => UploadInv'
  BY TypePreserved, JournalPreserved, SessionPreserved, ContentPreserved, TidyPreserved,
     StutterPreserved DEF UploadInv
<1> QED BY <1>1, InitInv, PTL DEF Spec

\* Wherever power or an operation fails, the flash is in a state that recover()
\* brings back to order: a backup has the journal that says whose it is, and while
\* file operations work nothing is left behind by a finished command.
THEOREM FlashAlwaysRecoverable == Spec => []FlashRecoverable
<1>1. UploadInv => FlashRecoverable
  BY DEF UploadInv, FlashRecoverable, NothingLeftBehind, TidyInv, Tidy
<1> QED BY <1>1, UploadInvariant, PTL

-----------------------------------------------------------------------------
(* HostUploadPublish implements FileStore.                                 *)

\* What each name stands for, as FileStore sees it.
Shown == [n \in Names |-> Visible(n)]

\* Without a backup a name stands for its own file.
LEMMA NoBackup ==
    ASSUME TypeOK, backup = Missing
    PROVE  Shown = files
<1>1. \A n \in Names : Visible(n) = files[n]
  BY DEF Visible
<1> QED BY <1>1 DEF Shown, TypeOK

\* No step of recover() changes what a name stands for.
LEMMA RecoverShown ==
    ASSUME UploadInv, Recover
    PROVE  Shown' = Shown
<1> USE NamesAssumption DEF UploadInv, BackupIsJournaled, JournalInv
<1>1. CASE RecoverNothing
  BY <1>1 DEF RecoverNothing, disk, Shown, Visible
<1>2. CASE RecoverUnreadable
  BY <1>2 DEF RecoverUnreadable, disk, Shown, Visible
<1>3. CASE RecoverBackup
  <2>1. CASE UNCHANGED <<files, backup>>
    BY <1>3, <2>1 DEF RecoverBackup, Shown, Visible
  <2>2. CASE backup' = Missing /\ files' = files /\ files[journal] # Missing
    BY <1>3, <2>2 DEF RecoverBackup, Shown, Visible
  <2>3. CASE /\ backup' = Missing /\ files[journal] = Missing
             /\ files' = [files EXCEPT ![journal] = backup]
    <3>1. files'[journal] = backup /\ \A m \in Names \ {journal} : files'[m] = files[m]
      BY <1>3, <2>3, OneFile DEF RecoverBackup, TypeOK
    <3> QED BY <1>3, <2>3, <3>1 DEF RecoverBackup, Shown, Visible
  <2> QED BY <1>3, <2>1, <2>2, <2>3 DEF RecoverBackup
<1>4. CASE RecoverJournal
  BY <1>4 DEF RecoverJournal, Shown, Visible, Recovering, Missing
<1> QED BY <1>1, <1>2, <1>3, <1>4 DEF Recover

\* A step of publish() changes nothing but the name it publishes, and that to the
\* number of the upload.
LEMMA PublishShown ==
    ASSUME UploadInv, Publish
    PROVE  \/ Shown' = Shown
           \/ Shown' = [Shown EXCEPT ![Name] = Number]
<1> USE NamesAssumption DEF UploadInv, BackupIsJournaled, JournalInv, Publishing
<1>1. pc \in {"replace", "journal", "moveOld", "moveNew"} =>
         Name \in Names /\ Number \in 1 .. MaxUploads /\ partial = Number
  BY LastUpload DEF SessionInv, ContentInv
<1>2. CASE PublishNew \/ MoveNew
  <2>1. CASE UNCHANGED <<files, partial>>
    BY <1>2, <2>1 DEF PublishNew, MoveNew, Shown, Visible
  <2>2. CASE files' = [files EXCEPT ![Name] = partial]
    <3>1. /\ files'[Name] = Number
          /\ \A m \in Names \ {Name} : files'[m] = files[m]
      BY <1>1, <1>2, <2>2 DEF PublishNew, MoveNew, TypeOK
    <3>2. UNCHANGED <<journal, backup>>
      BY <1>2 DEF PublishNew, MoveNew
    <3>3. ASSUME NEW m \in Names
          PROVE  Visible(m)' = IF m = Name THEN Number ELSE Visible(m)
      BY <1>1, <1>2, <3>1, <3>2 DEF Visible, Missing, PublishNew, MoveNew
    <3>4. Shown' = [m \in Names |-> IF m = Name THEN Number ELSE Visible(m)]
      BY <3>3, Zenon DEF Shown
    <3> QED BY <1>1, <1>2, <3>4 DEF Shown, PublishNew, MoveNew
  <2> QED BY <1>2, <2>1, <2>2 DEF PublishNew, MoveNew
<1>3. CASE OpenJournal
  BY <1>3 DEF OpenJournal, Shown, Visible, Missing
<1>4. CASE WriteJournal
  BY <1>4 DEF WriteJournal, Shown, Visible, Missing
<1>5. CASE MoveOld
  <2>1. CASE UNCHANGED <<files, backup>>
    BY <1>5, <2>1 DEF MoveOld, Shown, Visible
  <2>2. CASE backup' = files[Name] /\ files' = [files EXCEPT ![Name] = Missing]
    <3>1. files'[Name] = Missing /\ \A m \in Names \ {Name} : files'[m] = files[m]
      BY <1>1, <1>5, <2>2 DEF MoveOld, TypeOK
    <3>2. Visible(Name)' = Visible(Name)
      BY <1>1, <1>5, <2>2, <3>1 DEF MoveOld, Visible, session, Name
    <3> QED BY <1>1, <1>5, <2>2, <3>1, <3>2 DEF MoveOld, Shown, Visible
  <2> QED BY <1>5, <2>1, <2>2 DEF MoveOld
<1> QED BY <1>2, <1>3, <1>4, <1>5 DEF Publish

\* The empty flash is the empty store.
LEMMA RefinesInit == Init => Store!Init
<1> SUFFICES ASSUME Init PROVE Store!Init
  OBVIOUS
<1>1. \A n \in Names : Visible(n) = 0
  BY DEF Init, Visible, Missing
<1> QED BY <1>1 DEF Init, Store!Init

\* Every step of the board is a step of FileStore, or changes nothing it speaks of.
LEMMA RefinesStep == UploadInv /\ [Next]_vars => [Store!Next]_(Store!vars)
<1> SUFFICES ASSUME UploadInv, [Next]_vars
             PROVE  Store!Next \/ UNCHANGED <<Shown, uploads, outcome, deletions>>
  BY DEF Store!vars, Shown
<1> USE DEF UploadInv
<1>1. CASE Recover
  <2>1. UNCHANGED session
    BY <1>1 DEF Recover, RecoverNothing, RecoverUnreadable, RecoverBackup, RecoverJournal
  <2> QED BY <1>1, <2>1, RecoverShown DEF session
<1>2. CASE Publish
  <2>1. UNCHANGED session /\ Publishing
    BY <1>2 DEF Publish, PublishNew, OpenJournal, WriteJournal, MoveOld, MoveNew, Publishing
  <2>2. /\ outcome = "open"
        /\ Name \in Names
        /\ Shown[Name] # Number
    <3>1. active /\ ~ Published
      BY <2>1 DEF SessionInv, Published, Publishing, Recovering, RecoverFor
    <3> QED
      BY <3>1, LastUpload DEF SessionInv, ContentInv, Shown, Visible
  <2>3. CASE Shown' = Shown
    BY <2>1, <2>3 DEF session
  <2>4. CASE Shown' = [Shown EXCEPT ![Name] = Number]
    <3>1. Store!Replace
      BY <2>1, <2>2, <2>4 DEF Store!Replace, Store!Holds, Store!Last, Shown, session,
         Name, Number
    <3> QED BY <3>1 DEF Store!Next
  <2> QED BY <1>2, <2>3, <2>4, PublishShown
<1>3. CASE \E n \in Names : UploadBegin(n)
  BY <1>3 DEF UploadBegin, disk, Shown, Visible
<1>4. CASE \E n \in Names : StorageDelete(n)
  <2>1. PICK n \in Names : StorageDelete(n)
    BY <1>4
  <2>2. Shown = files /\ Shown' = files'
    <3>1. TypeOK' /\ backup' = Missing
      BY <2>1, TypePreserved DEF StorageDelete, Next, Command
    <3> QED BY <2>1, <3>1, NoBackup DEF StorageDelete, Shown, Visible, TypeOK
  <2>3. Store!Delete(n)
    BY <2>1, <2>2 DEF StorageDelete, SessionInv, Store!Delete, Shown, Missing
  <2> QED BY <2>3 DEF Store!Next
<1>5. CASE UploadOpens
  <2>1. wanted \in Names /\ Shown' = Shown
    BY <1>5 DEF UploadOpens, TypeOK, Shown, Visible
  <2>2. Store!Begin(wanted)
    BY <1>5, <2>1 DEF UploadOpens, Store!Begin, Shown
  <2> QED BY <2>1, <2>2 DEF Store!Next
<1>6. CASE UploadOpenFails \/ UploadGivenUp
  <2>1. Shown' = Shown /\ UNCHANGED <<uploads, deletions>>
    BY <1>6 DEF UploadOpenFails, UploadGivenUp, Shown, Visible
  <2>2. CASE ~ active
    BY <1>6, <2>1, <2>2 DEF UploadOpenFails, UploadGivenUp, SessionInv
  <2>3. CASE active
    <3>1. ~ Published
      BY <1>6 DEF UploadOpenFails, UploadGivenUp, Published, RecoverFor, Recovering
    <3>2. Shown[Name] # Number /\ outcome = "open" /\ outcome' = "error"
      BY <1>6, <2>3, <3>1, LastUpload DEF UploadOpenFails, UploadGivenUp, SessionInv,
         ContentInv, Shown, Visible
    <3>3. Store!Reply
      BY <2>1, <3>2 DEF Store!Reply, Store!Holds, Store!Last, Shown, Name, Number
    <3> QED BY <3>3 DEF Store!Next
  <2> QED BY <2>2, <2>3 DEF TypeOK
<1>7. CASE UploadComplete
  <2>1. Shown' = Shown /\ UNCHANGED <<uploads, deletions>>
    BY <1>7 DEF UploadComplete, disk, Shown, Visible
  <2>2. Shown[Name] = Number /\ outcome = "open" /\ outcome' = "complete"
    BY <1>7, LastUpload DEF UploadComplete, Published, Publishing, SessionInv, ContentInv,
       Shown, Visible, Missing
  <2>3. Store!Reply
    BY <2>1, <2>2 DEF Store!Reply, Store!Holds, Store!Last, Shown, Name, Number
  <2> QED BY <2>3 DEF Store!Next
<1>8. CASE UploadEnd
  BY <1>8 DEF UploadEnd, session, Shown, Visible
<1>9. CASE PowerFails
  <2>1. Shown' = Shown /\ UNCHANGED <<uploads, deletions>>
    BY <1>9 DEF PowerFails, JournalInv, Shown, Visible, Missing
  <2>2. CASE active
    <3>1. Store!Interrupt
      BY <1>9, <2>1, <2>2 DEF PowerFails, SessionInv, Store!Interrupt, Shown
    <3> QED BY <3>1 DEF Store!Next
  <2>3. CASE ~ active
    BY <1>9, <2>1, <2>3 DEF PowerFails
  <2> QED BY <2>2, <2>3
<1>10. CASE Sweep
  BY <1>10 DEF Sweep, session, Shown, Visible
<1>11. CASE UNCHANGED vars
  BY <1>11 DEF vars, disk, session, Shown, Visible
<1> QED
  BY <1>1, <1>2, <1>3, <1>4, <1>5, <1>6, <1>7, <1>8, <1>9, <1>10, <1>11
     DEF Next, Command

\* Whatever fails or loses power in between, an upload replaces the file of its
\* name in one step or not at all, COMPLETE is answered only when it has, ERROR
\* only when it has not, and nothing else but a deletion changes a file.
THEOREM StoreImplemented == Spec => ImplementsStore
<1>1. Spec => [][Store!Next]_(Store!vars)
  BY UploadInvariant, RefinesStep, PTL DEF Spec
<1> QED BY <1>1, RefinesInit, PTL DEF Spec, ImplementsStore

-----------------------------------------------------------------------------
(* Members of a sequence picked by their places.                           *)

\* The rank of a place among the places picked.
RankOf(K, k) == Cardinality({i \in K : i <= k})

\* Ranks are in order, from one on.
LEMMA RankBounds ==
    ASSUME NEW n \in Nat, NEW K \in SUBSET (1..n)
    PROVE  /\ IsFiniteSet(K) /\ Cardinality(K) \in Nat
           /\ \A k \in K : RankOf(K, k) \in 1..Cardinality(K)
           /\ \A k, l \in K : k < l => RankOf(K, k) < RankOf(K, l)
<1>1. IsFiniteSet(K) /\ Cardinality(K) \in Nat
    <2>1. IsFiniteSet(1..n)
        BY FS_Interval
    <2>2. IsFiniteSet(K)
        BY <2>1, FS_Subset
    <2>3. QED  BY <2>2, FS_CardinalityType
<1>2. ASSUME NEW k \in K
      PROVE  RankOf(K, k) \in 1..Cardinality(K)
    <2>1. {i \in K : i <= k} \in SUBSET K
        OBVIOUS
    <2>2. /\ IsFiniteSet({i \in K : i <= k})
          /\ RankOf(K, k) <= Cardinality(K) /\ RankOf(K, k) \in Nat
        BY <1>1, <2>1, FS_Subset, FS_CardinalityType DEF RankOf
    <2>3. k \in {i \in K : i <= k}
        OBVIOUS
    <2>4. RankOf(K, k) # 0
        BY <2>2, <2>3, FS_EmptySet DEF RankOf
    <2>5. QED  BY <1>1, <2>2, <2>4
<1>3. ASSUME NEW k \in K, NEW l \in K, k < l
      PROVE  RankOf(K, k) < RankOf(K, l)
    <2> DEFINE small == {i \in K : i <= k}  large == {i \in K : i <= l}
    <2>1. small \in SUBSET large /\ large \in SUBSET K
        <3>1. k \in Int /\ l \in Int /\ K \subseteq Int
            OBVIOUS
        <3>2. \A i \in K : i <= k => i <= l
            BY <1>3, <3>1
        <3>3. QED  BY <3>2
    <2>2. IsFiniteSet(large)
        BY <1>1, <2>1, FS_Subset
    <2>3. IsFiniteSet(small) /\ Cardinality(small) <= Cardinality(large)
          /\ (Cardinality(large) = Cardinality(small) => large = small)
        BY <2>1, <2>2, FS_Subset
    <2>4. l \in large /\ l \notin small
        BY <1>3
    <2>5. Cardinality(small) \in Nat /\ Cardinality(large) \in Nat
        BY <2>2, <2>3, FS_CardinalityType
    <2>6. Cardinality(small) # Cardinality(large)
        BY <2>3, <2>4
    <2> HIDE DEF small, large
    <2>7. Cardinality(small) < Cardinality(large)
        BY <2>3, <2>5, <2>6
    <2>8. QED  BY <2>7 DEF RankOf, small, large
<1>4. QED  BY <1>1, <1>2, <1>3

\* Each rank is some place's.
LEMMA RankFound ==
    ASSUME NEW n \in Nat, NEW K \in SUBSET (1..n), NEW j \in 1..Cardinality(K)
    PROVE  \E k \in K : AtRank(K, j) = {k} /\ RankOf(K, k) = j
<1> DEFINE rank == [k \in K |-> RankOf(K, k)]
           ranks == 1..Cardinality(K)
<1>1. IsFiniteSet(K) /\ Cardinality(K) \in Nat
    BY RankBounds
<1>2. rank \in [K -> ranks]
    BY RankBounds
<1>3. ASSUME NEW k \in K, NEW l \in K, rank[k] = rank[l]
      PROVE  k = l
    <2>1. RankOf(K, k) = RankOf(K, l)
        BY <1>3
    <2>2. ~(k < l) /\ ~(l < k)
        <3>1. RankOf(K, k) \in 1..Cardinality(K) /\ RankOf(K, l) \in 1..Cardinality(K)
            BY RankBounds
        <3>2. (k < l => RankOf(K, k) < RankOf(K, l)) /\ (l < k => RankOf(K, l) < RankOf(K, k))
            BY RankBounds
        <3>3. QED  BY <2>1, <3>1, <3>2
    <2>3. k \in Int /\ l \in Int
        OBVIOUS
    <2>4. QED  BY <2>2, <2>3
<1>4. IsFiniteSet(ranks) /\ Cardinality(ranks) = Cardinality(K)
    BY <1>1, FS_Interval
<1> HIDE DEF ranks
<1>5. rank \in Injection(K, ranks)
    <2> HIDE DEF rank
    <2>1. DOMAIN rank = K
        BY <1>2
    <2>2. QED  BY <1>2, <1>3, <2>1 DEF Injection, IsInjective
<1>6. rank \in Surjection(K, ranks)
    <2> HIDE DEF rank
    <2>1. QED  BY <1>4, <1>5, FS_Injection
<1>7. PICK k \in K : rank[k] = j
    <2>1. j \in ranks
        BY DEF ranks
    <2> HIDE DEF rank
    <2>2. QED  BY <1>6, <2>1 DEF Surjection
<1>8. ASSUME NEW l \in K
      PROVE  l \in AtRank(K, j) <=> l = k
    <2>1. l \in AtRank(K, j) <=> RankOf(K, l) = j
        BY DEF AtRank, RankOf
    <2>2. RankOf(K, k) = j
        BY <1>7
    <2>3. RankOf(K, l) = j => rank[l] = rank[k]
        BY <2>2
    <2>4. RankOf(K, l) = j => l = k
        BY <2>3, <1>3
    <2>5. QED  BY <2>1, <2>2, <2>4
<1>9. AtRank(K, j) \subseteq K
    BY DEF AtRank
<1>10. AtRank(K, j) = {k} /\ RankOf(K, k) = j
    BY <1>7, <1>8, <1>9
<1>11. QED  BY <1>10

\* The place of the member of that rank.
PlaceOf(K, j) == CHOOSE k \in AtRank(K, j) : TRUE

\* The place of a rank and the rank of a place are each other's inverse.
LEMMA PlaceFound ==
    ASSUME NEW n \in Nat, NEW K \in SUBSET (1..n)
    PROVE  /\ \A j \in 1..Cardinality(K) :
                  PlaceOf(K, j) \in K /\ RankOf(K, PlaceOf(K, j)) = j
           /\ \A i, j \in 1..Cardinality(K) : i < j => PlaceOf(K, i) < PlaceOf(K, j)
           /\ \A k \in K : PlaceOf(K, RankOf(K, k)) = k
<1>1. ASSUME NEW j \in 1..Cardinality(K)
      PROVE  PlaceOf(K, j) \in K /\ RankOf(K, PlaceOf(K, j)) = j
    BY RankFound DEF PlaceOf
<1>2. ASSUME NEW i \in 1..Cardinality(K), NEW j \in 1..Cardinality(K), i < j
      PROVE  PlaceOf(K, i) < PlaceOf(K, j)
    <2>1. PICK k \in K : k = PlaceOf(K, i) /\ RankOf(K, k) = i
        BY <1>1
    <2>2. PICK l \in K : l = PlaceOf(K, j) /\ RankOf(K, l) = j
        BY <1>1
    <2>3. Cardinality(K) \in Nat /\ (l < k => RankOf(K, l) < RankOf(K, k))
        BY RankBounds
    <2>4. i \in Int /\ j \in Int /\ k \in Int /\ l \in Int
        BY <2>3
    <2>5. k # l /\ ~(l < k)
        BY <1>2, <2>1, <2>2, <2>3, <2>4
    <2>6. k < l
        BY <2>4, <2>5
    <2>7. QED  BY <2>1, <2>2, <2>6
<1>3. ASSUME NEW k \in K
      PROVE  PlaceOf(K, RankOf(K, k)) = k
    <2>1. PICK j \in 1..Cardinality(K) : j = RankOf(K, k)
        BY RankBounds
    <2>2. PICK l \in K : AtRank(K, j) = {l}
        BY RankFound
    <2>3. k \in AtRank(K, j)
        BY <2>1 DEF AtRank, RankOf
    <2>4. PlaceOf(K, j) = k
        BY <2>2, <2>3 DEF PlaceOf
    <2>5. QED  BY <2>1, <2>4
<1>4. QED  BY <1>1, <1>2, <1>3

\* What is picked: as many members as places, each from its place.
LEMMA PickedType ==
    ASSUME NEW S, NEW s \in Seq(S), NEW K \in SUBSET (1..Len(s))
    PROVE  /\ Picked(s, K) \in Seq(S) /\ Len(Picked(s, K)) = Cardinality(K)
           /\ Cardinality(K) \in Nat
           /\ \A j \in 1..Cardinality(K) :
                 PlaceOf(K, j) \in K /\ Picked(s, K)[j] = s[PlaceOf(K, j)]
<1> DEFINE picked == [j \in 1..Cardinality(K) |-> s[PlaceOf(K, j)]]
<1>1. Len(s) \in Nat /\ \A k \in 1..Len(s) : s[k] \in S
    BY ElementOfSeq
<1>2. Cardinality(K) \in Nat
    BY <1>1, RankBounds
<1>3. \A j \in 1..Cardinality(K) : PlaceOf(K, j) \in K
    BY <1>1, PlaceFound
<1>4. Picked(s, K) = picked
    BY DEF Picked, PlaceOf
<1>5. picked \in [1..Cardinality(K) -> S]
    BY <1>1, <1>3
<1>6. picked \in Seq(S)
    BY <1>2, <1>5
<1>7. Len(picked) = Cardinality(K)
    <2>1. DOMAIN picked = 1..Cardinality(K)
        OBVIOUS
    <2> HIDE DEF picked
    <2>2. QED  BY <1>2, <1>6, <2>1, LenProperties
<1>8. QED  BY <1>2, <1>3, <1>4, <1>6, <1>7

\* One member more: it is picked, or nothing changes.
LEMMA PickedAppend ==
    ASSUME NEW S, NEW s \in Seq(S), NEW x \in S, NEW K \in SUBSET (1..Len(s))
    PROVE  /\ Picked(Append(s, x), K) = Picked(s, K)
           /\ Picked(Append(s, x), K \cup {Len(s) + 1}) = Append(Picked(s, K), x)
<1> DEFINE n == Len(s)
           t == Append(s, x)
           L == K \cup {n + 1}
           c == Cardinality(K)
<1>1. n \in Nat
    BY ElementOfSeq
<1>2. t \in Seq(S) /\ Len(t) = n + 1 /\ t[n + 1] = x /\ \A k \in 1..n : t[k] = s[k]
    BY AppendProperties
<1> HIDE DEF t
<1>3. K \subseteq 1..n
    OBVIOUS
<1> HIDE DEF n
<1>4. K \in SUBSET (1..Len(t)) /\ L \in SUBSET (1..Len(t)) /\ n + 1 \notin K
    BY <1>1, <1>2, <1>3
<1>5. c \in Nat /\ IsFiniteSet(K)
    BY <1>1, <1>3, RankBounds
<1>6. Cardinality(L) = c + 1
    BY <1>4, <1>5, FS_AddElement
<1>7. Picked(t, K) = Picked(s, K)
    <2>1. \A j \in 1..c : PlaceOf(K, j) \in 1..n
        BY <1>1, <1>3, PlaceFound
    <2>2. \A j \in 1..c : t[PlaceOf(K, j)] = s[PlaceOf(K, j)]
        BY <1>2, <2>1
    <2>3. QED  BY <2>2 DEF Picked, PlaceOf
<1>8. ASSUME NEW j \in 1..c
      PROVE  PlaceOf(L, j) = PlaceOf(K, j) /\ PlaceOf(K, j) \in 1..n
    <2>1. PICK k \in K : k = PlaceOf(K, j) /\ RankOf(K, k) = j
        BY <1>1, <1>3, PlaceFound
    <2>2. {i \in L : i <= k} = {i \in K : i <= k}
        BY <1>1, <1>3
    <2>3. RankOf(L, k) = j
        BY <2>1, <2>2 DEF RankOf
    <2>4. PlaceOf(L, RankOf(L, k)) = k
        <3>1. k \in L /\ n + 1 \in Nat /\ L \in SUBSET (1..n + 1)
            BY <1>1, <1>3
        <3> HIDE DEF L
        <3>2. QED  BY <3>1, PlaceFound
    <2>5. QED  BY <1>3, <2>1, <2>3, <2>4
<1>9. PlaceOf(L, c + 1) = n + 1
    <2>1. {i \in L : i <= n + 1} = L
        <3>1. \A i \in L : i <= n + 1
            BY <1>1, <1>3
        <3> HIDE DEF L
        <3>2. QED  BY <3>1
    <2>2. RankOf(L, n + 1) = c + 1
        BY <1>6, <2>1 DEF RankOf
    <2>3. PlaceOf(L, RankOf(L, n + 1)) = n + 1
        <3>1. n + 1 \in L /\ n + 1 \in Nat /\ L \in SUBSET (1..n + 1)
            BY <1>1, <1>3
        <3> HIDE DEF L
        <3>2. QED  BY <3>1, PlaceFound
    <2>4. QED  BY <2>2, <2>3
<1>10. /\ Picked(s, K) \in Seq(S) /\ Len(Picked(s, K)) = c
       /\ \A j \in 1..c : Picked(s, K)[j] = s[PlaceOf(K, j)]
    BY <1>3, PickedType DEF n
<1>11. /\ Picked(t, L) \in Seq(S) /\ Len(Picked(t, L)) = c + 1
       /\ \A j \in 1..c + 1 : Picked(t, L)[j] = t[PlaceOf(L, j)]
    <2> HIDE DEF L
    <2>1. QED  BY <1>2, <1>4, <1>6, PickedType
<1> HIDE DEF L, c
<1>12. Picked(t, L) = Append(Picked(s, K), x)
    <2> DEFINE old == Picked(s, K)  new == Picked(t, L)  longer == Append(Picked(s, K), x)
    <2>1. /\ longer \in Seq(S) /\ Len(longer) = c + 1 /\ longer[c + 1] = x
          /\ \A j \in 1..c : longer[j] = old[j]
        BY <1>10, AppendProperties
    <2>2. ASSUME NEW j \in 1..c
          PROVE  new[j] = longer[j]
        <3>1. new[j] = t[PlaceOf(L, j)]
            BY <1>5, <1>11
        <3>2. longer[j] = s[PlaceOf(K, j)]
            BY <1>10, <2>1
        <3>3. PlaceOf(L, j) = PlaceOf(K, j) /\ PlaceOf(K, j) \in 1..n
            BY <1>8
        <3>4. QED  BY <1>2, <3>1, <3>2, <3>3
    <2>3. new[c + 1] = longer[c + 1]
        BY <1>2, <1>5, <1>9, <1>11, <2>1
    <2> HIDE DEF old, new, longer
    <2>4. ASSUME NEW j \in 1..c + 1
          PROVE  new[j] = longer[j]
        BY <1>5, <2>2, <2>3
    <2>5. new \in Seq(S) /\ Len(new) = c + 1
        BY <1>11 DEF new
    <2>6. new = longer
        BY <2>1, <2>4, <2>5, SeqEqual
    <2>7. QED  BY <2>6 DEF new, longer
<1>13. QED  BY <1>7, <1>12 DEF t, n, L

-----------------------------------------------------------------------------
(* What a reader of the packets puts together, one packet later.           *)

Piece == {p \in Packet : p.chunk <= Chunks[p.msg]}
Signal == Piece \cup {Garbled}

\* A packet of a message carries one of its chunks.
LEMMA SignalFacts ==
    ASSUME TextAssumption, NEW p \in Signal
    PROVE  /\ p = [msg |-> p.msg, chunk |-> p.chunk]
           /\ p # Garbled => /\ p \in Packet /\ p.msg \in Messages
                             /\ p.chunk \in 1..Chunks[p.msg] /\ Chunks[p.msg] \in Nat \ {0}
           /\ p = Garbled <=> p.msg = NoMessage
           /\ p = Garbled => p.msg \notin Remote
<1>1. Garbled.msg = NoMessage /\ Garbled.chunk = 0
    BY DEF Garbled
<1>2. NoMessage \notin Messages /\ Remote \subseteq Messages
      /\ Chunks \in [Messages -> Nat \ {0}]
    BY DEF TextAssumption
<1>3. CASE p = Garbled
    BY <1>1, <1>2, <1>3 DEF Garbled
<1>4. CASE p \in Piece
    BY <1>1, <1>2, <1>4 DEF Piece, Packet, Garbled
<1>5. QED  BY <1>3, <1>4 DEF Signal

\* A packet more: the packets of texts.
LEMMA TextsAppend ==
    ASSUME NEW packets \in Seq(Signal), NEW p \in Signal
    PROVE  Texts(Append(packets, p)) = IF p.msg \notin Remote THEN Append(Texts(packets), p)
                                       ELSE Texts(packets)
<1> DEFINE n == Len(packets)
           new == Append(packets, p)
           K == {k \in DOMAIN packets : packets[k].msg \notin Remote}
           L == {k \in DOMAIN new : new[k].msg \notin Remote}
<1>1. n \in Nat /\ DOMAIN packets = 1..n
    BY LenProperties
<1>2. /\ new \in Seq(Signal) /\ Len(new) = n + 1 /\ DOMAIN new = 1..n + 1
      /\ new[n + 1] = p /\ \A k \in 1..n : new[k] = packets[k]
    BY AppendProperties, LenProperties
<1> HIDE DEF new
<1>3. L = IF p.msg \notin Remote THEN K \cup {n + 1} ELSE K
    BY <1>1, <1>2
<1>4. K \in SUBSET (1..Len(packets))
    BY <1>1
<1> HIDE DEF K, n
<1>5. Picked(new, K) = Picked(packets, K)
      /\ Picked(new, K \cup {n + 1}) = Append(Picked(packets, K), p)
    BY <1>4, PickedAppend DEF n, new
<1>6. Texts(packets) = Picked(packets, K) /\ Texts(new) = Picked(new, L)
    BY DEF Texts, K, L
<1>7. QED  BY <1>3, <1>5, <1>6 DEF new

\* A packet more: the commands.
LEMMA CommandsAppend ==
    ASSUME TextAssumption, NEW packets \in Seq(Signal), NEW p \in Signal
    PROVE  /\ CommandsRead(packets) \in Seq(Messages \cup {NoMessage})
           /\ CommandsRead(Append(packets, p)) =
                 IF p.msg \in Remote THEN Append(CommandsRead(packets), p.msg)
                 ELSE CommandsRead(packets)
<1> DEFINE n == Len(packets)
           new == Append(packets, p)
           K == {k \in DOMAIN packets : packets[k].msg \in Remote}
           L == {k \in DOMAIN new : new[k].msg \in Remote}
           heard == Picked(packets, K)
           names(s) == [k \in DOMAIN s |-> s[k].msg]
<1>1. n \in Nat /\ DOMAIN packets = 1..n
    BY LenProperties
<1>2. /\ new \in Seq(Signal) /\ Len(new) = n + 1 /\ DOMAIN new = 1..n + 1
      /\ new[n + 1] = p /\ \A k \in 1..n : new[k] = packets[k]
    BY AppendProperties, LenProperties
<1> HIDE DEF new
<1>3. L = IF p.msg \in Remote THEN K \cup {n + 1} ELSE K
    BY <1>1, <1>2
<1>4. K \in SUBSET (1..Len(packets))
    BY <1>1
<1> HIDE DEF K, n
<1>5. Picked(new, K) = heard /\ Picked(new, K \cup {n + 1}) = Append(heard, p)
    BY <1>4, PickedAppend DEF n, new
<1>6. CommandsRead(packets) = names(heard) /\ CommandsRead(new) = names(Picked(new, L))
    BY DEF CommandsRead, K, L
<1>7. heard \in Seq(Signal)
    BY <1>4, PickedType
<1> HIDE DEF heard
<1>8. \A q \in Signal : q.msg \in Messages \cup {NoMessage}
    BY SignalFacts
<1>9. names(heard) \in Seq(Messages \cup {NoMessage})
    <2>1. Len(heard) \in Nat /\ DOMAIN heard = 1..Len(heard)
          /\ \A k \in 1..Len(heard) : heard[k] \in Signal
        BY <1>7, LenProperties, ElementOfSeq
    <2>2. names(heard) \in [1..Len(heard) -> Messages \cup {NoMessage}]
        BY <1>8, <2>1
    <2>3. QED  BY <2>1, <2>2
<1>10. names(Append(heard, p)) = Append(names(heard), p.msg)
    <2> DEFINE m == Len(heard)
               one == names(Append(heard, p))
               two == Append(names(heard), p.msg)
    <2>1. m \in Nat /\ DOMAIN heard = 1..m
        BY <1>7, LenProperties
    <2>2. /\ Append(heard, p) \in Seq(Signal) /\ DOMAIN Append(heard, p) = 1..m + 1
          /\ Append(heard, p)[m + 1] = p
          /\ \A k \in 1..m : Append(heard, p)[k] = heard[k]
        BY <1>7, AppendProperties, LenProperties
    <2>3. DOMAIN names(heard) = 1..m
        BY <2>1
    <2>4. Len(names(heard)) = m
        <3> HIDE DEF names
        <3>1. QED  BY <1>9, <2>1, <2>3, LenProperties
    <2>5. /\ two \in Seq(Messages \cup {NoMessage}) /\ DOMAIN two = 1..m + 1
          /\ two[m + 1] = p.msg /\ \A k \in 1..m : two[k] = names(heard)[k]
        <3>1. p.msg \in Messages \cup {NoMessage}
            BY <1>8
        <3> HIDE DEF names, m
        <3>2. QED  BY <1>9, <2>3, <2>4, <3>1, AppendProperties, LenProperties
    <2>6. DOMAIN one = 1..m + 1
        BY <2>2
    <2>7. \A k \in 1..m : two[k] = heard[k].msg /\ one[k] = heard[k].msg
        <3> HIDE DEF m, two
        <3>1. 1..m \subseteq 1..m + 1
            BY <2>1 DEF m
        <3>2. QED  BY <2>1, <2>2, <2>5, <3>1
    <2>8. one[m + 1] = p.msg
        <3>1. m + 1 \in 1..m + 1
            BY <2>1
        <3>2. QED  BY <2>2, <3>1
    <2>9. \A k \in 1..m + 1 : one[k] = two[k]
        <3> HIDE DEF one, two, m
        <3>1. \A k \in 1..m + 1 : k \in 1..m \/ k = m + 1
            BY <2>1 DEF m
        <3>2. QED  BY <2>5, <2>7, <2>8, <3>1
    <2>10. one = [k \in 1..m + 1 |-> one[k]]
        BY <2>6
    <2>11. two = [k \in 1..m + 1 |-> two[k]]
        <3> HIDE DEF one, two, m
        <3>1. QED  BY <2>5
    <2>12. QED
        <3> HIDE DEF one, two, m
        <3>1. one = two
            BY <2>9, <2>10, <2>11
        <3>2. QED  BY <3>1 DEF one, two
<1>11. QED
    <2> HIDE DEF names, L
    <2>1. CASE p.msg \in Remote
        BY <1>3, <1>5, <1>6, <1>9, <1>10, <2>1 DEF new
    <2>2. CASE p.msg \notin Remote
        BY <1>3, <1>5, <1>6, <1>9, <2>2 DEF new
    <2>3. QED  BY <2>1, <2>2

\* A packet that repeats the last one.
Again(s, p) == s # <<>> /\ s[Len(s)] = p /\ p # Garbled /\ Chunks[p.msg] > 1

\* A packet more: those that are no repetition.
LEMMA DistinctAppend ==
    ASSUME NEW s \in Seq(Signal), NEW p \in Signal
    PROVE  /\ Distinct(s) \in Seq(Signal)
           /\ Distinct(Append(s, p)) =
                 IF Again(s, p) THEN Distinct(s) ELSE Append(Distinct(s), p)
<1> DEFINE n == Len(s)
           new == Append(s, p)
           K == {k \in DOMAIN s : ~Repeats(s, k)}
           L == {k \in DOMAIN new : ~Repeats(new, k)}
<1>1. n \in Nat /\ DOMAIN s = 1..n /\ (s = <<>> <=> n = 0)
    BY LenProperties, EmptySeq
<1>2. /\ new \in Seq(Signal) /\ Len(new) = n + 1 /\ DOMAIN new = 1..n + 1
      /\ new[n + 1] = p /\ \A k \in 1..n : new[k] = s[k]
    BY AppendProperties, LenProperties
<1> HIDE DEF new, n
<1>3. \A k \in 1..n : Repeats(new, k) <=> Repeats(s, k)
    <2> TAKE k \in 1..n
    <2>1. k > 1 => k - 1 \in 1..n
        BY <1>1
    <2>2. QED  BY <1>2, <2>1 DEF Repeats
<1>4. Repeats(new, n + 1) <=> Again(s, p)
    <2>1. n + 1 > 1 <=> s # <<>>
        BY <1>1
    <2>2. n + 1 > 1 => new[(n + 1) - 1] = s[n]
        BY <1>1, <1>2
    <2>3. QED  BY <1>2, <2>1, <2>2 DEF Repeats, Again, n
<1>5. ASSUME NEW k \in 1..n + 1
      PROVE  k \in 1..n \/ k = n + 1
    BY <1>1
<1>6. 1..n \subseteq 1..n + 1 /\ n + 1 \in 1..n + 1 /\ n + 1 \notin 1..n
    BY <1>1
<1>7. L = IF Again(s, p) THEN K ELSE K \cup {n + 1}
    BY <1>1, <1>2, <1>3, <1>4, <1>5, <1>6
<1>8. K \in SUBSET (1..Len(s))
    BY <1>1 DEF n
<1> HIDE DEF K
<1>9. Picked(s, K) \in Seq(Signal) /\ Picked(new, K) = Picked(s, K)
      /\ Picked(new, K \cup {n + 1}) = Append(Picked(s, K), p)
    BY <1>8, PickedAppend, PickedType DEF n, new
<1>10. Distinct(s) = Picked(s, K) /\ Distinct(new) = Picked(new, L)
    BY DEF Distinct, K, L
<1>11. QED  BY <1>7, <1>9, <1>10 DEF new

\* The last k packets are the first k chunks of m.
Holds(d, m, k) ==
    k <= Len(d) /\ \A i \in 1..k : d[Len(d) - k + i] = [msg |-> m, chunk |-> i]

\* Packet p is the last one of a text whose chunks before it came just before.
Completes(d, p) ==
    p # Garbled /\ p.chunk = Chunks[p.msg] /\ Holds(d, p.msg, p.chunk - 1)

\* The last packet is the last of those chunks.
LEMMA HoldsLast ==
    ASSUME NEW d \in Seq(Signal), NEW m, NEW k \in Nat \ {0}, Holds(d, m, k)
    PROVE  d # <<>> /\ d[Len(d)] = [msg |-> m, chunk |-> k]
<1>1. Len(d) \in Nat /\ Len(d) # 0
    BY LenProperties DEF Holds
<1>2. k \in 1..k /\ Len(d) - k + k = Len(d)
    BY <1>1
<1>3. d[Len(d) - k + k] = [msg |-> m, chunk |-> k]
    BY <1>2 DEF Holds
<1>4. QED  BY <1>1, <1>2, <1>3, EmptySeq

\* A packet more: it is the next chunk, behind those before it.
LEMMA HoldsAppend ==
    ASSUME NEW d \in Seq(Signal), NEW p \in Signal, NEW m, NEW k \in Nat
    PROVE  Holds(Append(d, p), m, k + 1) <=> Holds(d, m, k) /\ p = [msg |-> m, chunk |-> k + 1]
<1> DEFINE n == Len(d)
           new == Append(d, p)
<1>1. n \in Nat
    BY LenProperties
<1>2. Len(new) = n + 1 /\ new[n + 1] = p /\ \A i \in 1..n : new[i] = d[i]
    BY AppendProperties
<1> HIDE DEF new
<1>3. k + 1 <= n + 1 <=> k <= n
    BY <1>1
<1>4. ASSUME k <= n, NEW i \in 1..k
      PROVE  new[(n + 1) - (k + 1) + i] = d[n - k + i]
    <2>1. (n + 1) - (k + 1) + i = n - k + i /\ n - k + i \in 1..n
        BY <1>1, <1>4
    <2>2. QED  BY <1>2, <2>1
<1>5. (n + 1) - (k + 1) + (k + 1) = n + 1
    BY <1>1
<1>6. \A i \in 1..k + 1 : i \in 1..k \/ i = k + 1
    OBVIOUS
<1>7. 1..k \subseteq 1..k + 1 /\ k + 1 \in 1..k + 1
    OBVIOUS
<1>8. ASSUME k <= n
      PROVE  (\A i \in 1..k + 1 : new[(n + 1) - (k + 1) + i] = [msg |-> m, chunk |-> i])
             <=> /\ \A i \in 1..k : d[n - k + i] = [msg |-> m, chunk |-> i]
                 /\ p = [msg |-> m, chunk |-> k + 1]
    <2>1. new[(n + 1) - (k + 1) + (k + 1)] = p
        BY <1>2, <1>5
    <2>2. \A i \in 1..k : new[(n + 1) - (k + 1) + i] = d[n - k + i]
        BY <1>4, <1>8
    <2> DEFINE here(i) == new[(n + 1) - (k + 1) + i]
               there(i) == d[n - k + i]
               chunkAt(i) == [msg |-> m, chunk |-> i]
    <2>3. here(k + 1) = p /\ \A i \in 1..k : here(i) = there(i)
        BY <2>1, <2>2
    <2> HIDE DEF here, there, chunkAt
    <2>4. (\A i \in 1..k + 1 : here(i) = chunkAt(i))
          <=> (\A i \in 1..k : there(i) = chunkAt(i)) /\ p = chunkAt(k + 1)
        BY <1>6, <1>7, <2>3
    <2>5. QED  BY <2>4 DEF here, there, chunkAt
<1>9. CASE k <= n
    BY <1>2, <1>3, <1>8, <1>9 DEF Holds
<1>10. CASE ~(k <= n)
    BY <1>2, <1>3, <1>10 DEF Holds
<1>11. QED  BY <1>9, <1>10

\* A packet more: where texts end.
LEMMA EndingsAppend ==
    ASSUME TextAssumption, NEW d \in Seq(Signal), NEW p \in Signal
    PROVE  /\ Endings(d) \in Seq(Signal)
           /\ Endings(Append(d, p)) =
                 IF Completes(d, p) THEN Append(Endings(d), p) ELSE Endings(d)
<1> DEFINE n == Len(d)
           new == Append(d, p)
           K == {k \in DOMAIN d : EndsText(d, k)}
           L == {k \in DOMAIN new : EndsText(new, k)}
<1>1. n \in Nat /\ DOMAIN d = 1..n /\ \A k \in 1..n : d[k] \in Signal
    BY LenProperties, ElementOfSeq
<1>2. /\ new \in Seq(Signal) /\ Len(new) = n + 1 /\ DOMAIN new = 1..n + 1
      /\ new[n + 1] = p /\ \A k \in 1..n : new[k] = d[k]
    BY AppendProperties, LenProperties
<1> HIDE DEF new, n
<1>3. ASSUME NEW k \in 1..n
      PROVE  EndsText(new, k) <=> EndsText(d, k)
    <2>1. new[k] = d[k]
        BY <1>2
    <2>2. CASE d[k] = Garbled
        BY <2>1, <2>2 DEF EndsText
    <2>3. CASE d[k] # Garbled
        <3>1. PICK m \in Messages : m = d[k].msg
            BY <1>1, <2>3, SignalFacts
        <3>2. PICK c \in Nat : c = Chunks[m]
            BY <1>1, <2>3, <3>1, SignalFacts
        <3>3. k >= c => \A i \in 1..c : k - c + i \in 1..n
            BY <1>1
        <3>4. k >= c => \A i \in 1..c : new[k - c + i] = d[k - c + i]
            BY <1>2, <3>3
        <3>5. QED  BY <2>1, <3>1, <3>2, <3>4 DEF EndsText
    <2>4. QED  BY <2>2, <2>3
<1>4. EndsText(new, n + 1) <=> Completes(d, p)
    <2>1. CASE p = Garbled
        BY <1>2, <2>1 DEF EndsText, Completes
    <2>2. CASE p # Garbled
        <3>1. PICK m \in Messages, c \in Nat \ {0} :
                  m = p.msg /\ c = Chunks[p.msg] /\ p = [msg |-> m, chunk |-> p.chunk]
            BY <2>2, SignalFacts
        <3>2. EndsText(new, n + 1) <=> Holds(new, m, c)
            <4>1. n + 1 >= c <=> c <= n + 1
                BY <1>1
            <4>2. QED  BY <1>2, <2>2, <3>1, <4>1 DEF EndsText, Holds
        <3>3. PICK k \in Nat : c = k + 1
            <4>1. c - 1 \in Nat /\ c = (c - 1) + 1
                OBVIOUS
            <4>2. QED  BY <4>1
        <3>4. Holds(new, m, c) <=> Holds(d, m, k) /\ p = [msg |-> m, chunk |-> c]
            BY <3>3, HoldsAppend DEF new
        <3>5. p = [msg |-> m, chunk |-> c] <=> p.chunk = c
            BY <3>1
        <3>6. c - 1 = k
            BY <3>3
        <3>7. QED  BY <2>2, <3>1, <3>2, <3>4, <3>5, <3>6 DEF Completes
    <2>3. QED  BY <2>1, <2>2
<1>5. \A k \in 1..n + 1 : k \in 1..n \/ k = n + 1
    BY <1>1
<1>6. 1..n \subseteq 1..n + 1 /\ n + 1 \in 1..n + 1 /\ n + 1 \notin 1..n
    BY <1>1
<1>7. L = IF Completes(d, p) THEN K \cup {n + 1} ELSE K
    BY <1>1, <1>2, <1>3, <1>4, <1>5, <1>6
<1>8. K \in SUBSET (1..Len(d))
    BY <1>1 DEF n
<1> HIDE DEF K
<1>9. Picked(d, K) \in Seq(Signal) /\ Picked(new, K) = Picked(d, K)
      /\ Picked(new, K \cup {n + 1}) = Append(Picked(d, K), p)
    <2>1. Picked(d, K) \in Seq(Signal)
        BY <1>8, PickedType
    <2>2. Picked(Append(d, p), K) = Picked(d, K)
          /\ Picked(Append(d, p), K \cup {Len(d) + 1}) = Append(Picked(d, K), p)
        BY <1>8, PickedAppend
    <2>3. QED  BY <2>1, <2>2 DEF n, new
<1>10. Endings(d) = Picked(d, K) /\ Endings(new) = Picked(new, L)
    BY DEF Endings, K, L
<1>11. QED  BY <1>7, <1>9, <1>10 DEF new

\* What a whole text is: the chunks of its message.
Texting == Seq(Packet)

\* A whole text tells its message and its number of chunks.
LEMMA WholeType ==
    ASSUME TextAssumption, NEW m \in Messages
    PROVE  Whole(m) \in Texting /\ Len(Whole(m)) = Chunks[m] /\ Whole(m)[1].msg = m
<1>1. PICK c \in Nat \ {0} : c = Chunks[m]
    BY DEF TextAssumption
<1>2. Whole(m) = [k \in 1..c |-> [msg |-> m, chunk |-> k]]
    BY <1>1 DEF Whole
<1>3. Whole(m) \in [1..c -> Packet]
    BY <1>2 DEF Packet
<1>4. Whole(m) \in Texting
    BY <1>3 DEF Texting
<1>5. Len(Whole(m)) = c
    BY <1>3, <1>4, LenProperties DEF Texting
<1>6. Whole(m)[1].msg = m
    BY <1>2
<1>7. QED  BY <1>1, <1>4, <1>5, <1>6

\* The texts a reader of the packets has, when it is d that is left of them.
TextsOf(d) == LET last == Endings(d) IN [j \in DOMAIN last |-> Whole(last[j].msg)]

\* A packet more: the texts.
LEMMA TextsOfAppend ==
    ASSUME TextAssumption, NEW d \in Seq(Signal), NEW p \in Signal
    PROVE  TextsOf(Append(d, p)) =
               IF Completes(d, p) THEN Append(TextsOf(d), Whole(p.msg)) ELSE TextsOf(d)
<1> DEFINE last == Endings(d)
           whole(s) == [j \in DOMAIN s |-> Whole(s[j].msg)]
<1>1. last \in Seq(Signal)
      /\ Endings(Append(d, p)) = IF Completes(d, p) THEN Append(last, p) ELSE last
    BY EndingsAppend
<1>2. TextsOf(d) = whole(last) /\ TextsOf(Append(d, p)) = whole(Endings(Append(d, p)))
    BY DEF TextsOf
<1> HIDE DEF last
<1>3. whole(Append(last, p)) = Append(whole(last), Whole(p.msg))
    <2> DEFINE m == Len(last)
               one == whole(Append(last, p))
               two == Append(whole(last), Whole(p.msg))
               Kinds == {Whole(q.msg) : q \in Signal}
    <2>1. m \in Nat /\ DOMAIN last = 1..m /\ \A k \in 1..m : last[k] \in Signal
        BY <1>1, LenProperties, ElementOfSeq
    <2>2. /\ DOMAIN Append(last, p) = 1..m + 1 /\ Append(last, p)[m + 1] = p
          /\ \A k \in 1..m : Append(last, p)[k] = last[k]
        BY <1>1, AppendProperties, LenProperties
    <2>3. whole(last) \in [1..m -> Kinds]
        BY <2>1
    <2> HIDE DEF Kinds
    <2>4. whole(last) \in Seq(Kinds) /\ DOMAIN whole(last) = 1..m
        BY <2>1, <2>3
    <2>5. Len(whole(last)) = m
        <3> HIDE DEF whole
        <3>1. QED  BY <2>1, <2>4, LenProperties
    <2>6. Whole(p.msg) \in Kinds
        BY DEF Kinds
    <2>7. /\ DOMAIN two = 1..m + 1 /\ two[m + 1] = Whole(p.msg)
          /\ \A k \in 1..m : two[k] = whole(last)[k]
        <3> HIDE DEF whole, m
        <3>1. QED  BY <2>4, <2>5, <2>6, AppendProperties, LenProperties
    <2>8. DOMAIN one = 1..m + 1
        BY <2>2
    <2>9. \A k \in 1..m : whole(last)[k] = Whole(last[k].msg) /\ one[k] = Whole(last[k].msg)
        <3> HIDE DEF m
        <3>1. 1..m \subseteq 1..m + 1
            BY <2>1 DEF m
        <3>2. QED  BY <2>1, <2>2, <3>1
    <2>10. one[m + 1] = Whole(p.msg)
        <3>1. m + 1 \in 1..m + 1
            BY <2>1
        <3>2. QED  BY <2>2, <3>1
    <2>11. one = [k \in 1..m + 1 |-> one[k]]
        BY <2>8
    <2> HIDE DEF one, two, m
    <2>12. two = [k \in 1..m + 1 |-> two[k]]
        <3> HIDE DEF whole
        <3>1. two \in Seq(Kinds)
            BY <2>4, <2>6 DEF two
        <3>2. QED  BY <2>7, <3>1
    <2>13. \A k \in 1..m + 1 : k \in 1..m \/ k = m + 1
        BY <2>1
    <2>14. \A k \in 1..m + 1 : one[k] = two[k]
        <3> HIDE DEF whole
        <3>1. QED  BY <2>7, <2>9, <2>10, <2>13
    <2>15. one = two
        BY <2>11, <2>12, <2>14
    <2>16. QED  BY <2>15 DEF one, two
<1>4. QED
    <2> HIDE DEF whole
    <2>1. QED  BY <1>1, <1>2, <1>3

-----------------------------------------------------------------------------
(* The assembler follows what a reader of the packets has.                 *)

\* The first n chunks of m, and the assembler that has them.
Begun(m, n) == [k \in 1..n |-> [msg |-> m, chunk |-> k]]
Gathering(m, n) ==
    [active |-> TRUE, id |-> Id[m], count |-> Chunks[m], next |-> n + 1, text |-> Begun(m, n)]

\* It has what the last packets are the beginning of, when they are.
Following(asm, d) ==
    \/ \E m \in Messages \ Remote : \E n \in 1..Chunks[m] - 1 :
           asm = Gathering(m, n) /\ Holds(d, m, n)
    \/ /\ ~asm.active
       /\ \A m \in Messages \ Remote : \A n \in 1..Chunks[m] - 1 : ~Holds(d, m, n)

\* One chunk more of a text.
LEMMA BegunGrows ==
    ASSUME TextAssumption, NEW m \in Messages, NEW n \in Nat
    PROVE  /\ Begun(m, n) \in Texting
           /\ Append(Begun(m, n), [msg |-> m, chunk |-> n + 1]) = Begun(m, n + 1)
<1> DEFINE part == Begun(m, n)  more == Begun(m, n + 1)  p == [msg |-> m, chunk |-> n + 1]
<1>1. part \in [1..n -> Packet] /\ more \in [1..n + 1 -> Packet] /\ p \in Packet
    BY DEF Begun, Packet
<1>2. /\ \A k \in 1..n : part[k] = [msg |-> m, chunk |-> k]
      /\ \A k \in 1..n + 1 : more[k] = [msg |-> m, chunk |-> k]
    BY DEF Begun
<1> HIDE DEF part, more
<1>3. /\ part \in Texting /\ more \in Texting
    BY <1>1 DEF Texting
<1>4. Len(part) = n /\ Len(more) = n + 1
    BY <1>1, <1>3, LenProperties DEF Texting
<1>5. /\ Append(part, p) \in Texting /\ Len(Append(part, p)) = n + 1
      /\ Append(part, p)[n + 1] = p /\ \A k \in 1..n : Append(part, p)[k] = part[k]
    <2> HIDE DEF p
    <2>1. QED  BY <1>1, <1>3, <1>4, AppendProperties DEF Texting
<1>6. ASSUME NEW k \in 1..n + 1
      PROVE  Append(part, p)[k] = more[k]
    <2>1. CASE k = n + 1
        BY <1>2, <1>5, <2>1
    <2>2. CASE k # n + 1
        <3>1. k \in 1..n
            BY <2>2
        <3>2. QED  BY <1>2, <1>5, <3>1
    <2>3. QED  BY <2>1, <2>2
<1>7. Append(part, p) = more
    <2> HIDE DEF p
    <2>1. QED  BY <1>3, <1>4, <1>5, <1>6, SeqEqual DEF Texting
<1>8. QED  BY <1>3, <1>7 DEF part, more

\* What an assembler does with the chunk it waits for.
LEMMA Taken ==
    ASSUME TextAssumption, NEW m \in Messages \ Remote, NEW n \in 0..Chunks[m] - 1, NEW asm,
           Opened(asm, m, n + 1) = Gathering(m, n)
    PROVE  /\ n + 1 < Chunks[m] => /\ AcceptChunk(asm, m, n + 1).asm = Gathering(m, n + 1)
                                   /\ AcceptChunk(asm, m, n + 1).done = <<>>
           /\ n + 1 = Chunks[m] => /\ ~AcceptChunk(asm, m, n + 1).asm.active
                                   /\ AcceptChunk(asm, m, n + 1).done = Whole(m)
<1>1. PICK c \in Nat \ {0} : c = Chunks[m]
    BY DEF TextAssumption
<1> DEFINE cur == Gathering(m, n)
           going == n + 1 < c
           longer == [active |-> going, id |-> Id[m], count |-> c, next |-> (n + 1) + 1,
                      text |-> Begun(m, n + 1)]
<1>2. n \in Nat
    BY <1>1
<1>3. cur.active /\ cur.id = Id[m] /\ cur.count = Chunks[m] /\ cur.next = n + 1
      /\ cur.text = Begun(m, n)
    BY DEF Gathering
<1>4. Takes(cur, m, n + 1)
    BY <1>3 DEF Takes, SameText
<1>5. Longer(cur, m, n + 1) = Begun(m, n + 1)
    <2> HIDE DEF cur
    <2>1. QED  BY <1>2, <1>3, BegunGrows DEF Longer
<1>6. Extended(cur, m, n + 1) = longer
    <2>1. Extended(cur, m, n + 1) =
              [cur EXCEPT !.active = going, !.next = (n + 1) + 1, !.text = Begun(m, n + 1)]
        <3> HIDE DEF cur
        <3>1. QED  BY <1>1, <1>3, <1>5 DEF Extended
    <2> HIDE DEF going
    <2>2. QED  BY <1>1, <2>1 DEF Gathering
<1>7. AcceptChunk(asm, m, n + 1) =
          [asm |-> longer, done |-> IF n + 1 = c THEN Begun(m, n + 1) ELSE <<>>]
    <2> HIDE DEF longer, cur
    <2>1. Opened(asm, m, n + 1) = cur
        BY DEF cur
    <2>2. QED  BY <1>1, <1>3, <1>4, <1>5, <1>6, <2>1 DEF AcceptChunk
<1>8. longer.active = going
    OBVIOUS
<1>9. CASE n + 1 < c
    <2>1. going = TRUE
        BY <1>9
    <2>2. longer = Gathering(m, n + 1)
        BY <1>1, <2>1 DEF Gathering
    <2>3. n + 1 # c
        BY <1>1, <1>2, <1>9
    <2> HIDE DEF longer
    <2>4. QED  BY <1>1, <1>7, <2>2, <2>3
<1>10. CASE n + 1 = c
    <2>1. ~going
        BY <1>1, <1>2, <1>10
    <2>2. Whole(m) = Begun(m, n + 1)
        BY <1>1, <1>10 DEF Whole, Begun
    <2>3. ~(n + 1 < Chunks[m])
        BY <1>1, <2>1
    <2> HIDE DEF longer, going
    <2>4. QED  BY <1>1, <1>7, <1>8, <1>10, <2>1, <2>2, <2>3
<1>11. n + 1 <= c
    BY <1>1
<1>12. QED  BY <1>1, <1>2, <1>9, <1>10, <1>11

\* And with another one: it is ignored, or ends what was gathered.
LEMMA Ignored ==
    ASSUME TextAssumption, NEW m \in Messages \ Remote, NEW c \in 2..Chunks[m], NEW asm, ~asm.active
    PROVE  AcceptChunk(asm, m, c).asm = asm /\ AcceptChunk(asm, m, c).done = <<>>
<1>1. c # 1
    BY DEF TextAssumption
<1>2. Opened(asm, m, c) = asm
    BY <1>1 DEF Opened
<1>3. ~Takes(asm, m, c) /\ Ignores(asm, m, c)
    BY DEF Takes, Ignores
<1>4. QED  BY <1>2, <1>3 DEF AcceptChunk

\* A chunk that is not the next one, while a text is gathered.
LEMMA NotTaken ==
    ASSUME TextAssumption, IdsTell,
           NEW m \in Messages \ Remote, NEW c \in 2..Chunks[m],
           NEW g \in Messages \ Remote, NEW n \in Nat, m # g \/ c # n + 1
    PROVE  /\ AcceptChunk(Gathering(g, n), m, c).asm =
                 IF m = g /\ c <= n THEN Gathering(g, n) ELSE NoText
           /\ AcceptChunk(Gathering(g, n), m, c).done = <<>>
<1> DEFINE asm == Gathering(g, n)
<1>1. c # 1 /\ c \in Nat
    BY DEF TextAssumption
<1>2. Opened(asm, m, c) = asm
    BY <1>1 DEF Opened
<1>3. asm.active /\ asm.id = Id[g] /\ asm.count = Chunks[g] /\ asm.next = n + 1
    BY DEF Gathering
<1> HIDE DEF asm
<1>4. SameText(asm, m) <=> m = g
    BY <1>3 DEF SameText, IdsTell
<1>5. ~Takes(asm, m, c)
    BY <1>3, <1>4 DEF Takes
<1>6. Ignores(asm, m, c) <=> m = g /\ c < n + 1
    BY <1>3, <1>4 DEF Ignores
<1>7. c < n + 1 <=> c <= n
    BY <1>1
<1>8. AcceptChunk(asm, m, c) =
          [asm |-> IF Ignores(asm, m, c) THEN asm ELSE NoText, done |-> <<>>]
    BY <1>2, <1>5 DEF AcceptChunk
<1>9. QED  BY <1>6, <1>7, <1>8 DEF asm

\* The first chunk of a text begins it anew.
LEMMA OpenedFirst ==
    ASSUME NEW m, NEW asm
    PROVE  Opened(asm, m, 1) = Gathering(m, 0)
<1>1. Begun(m, 0) = <<>>
    BY DEF Begun
<1>2. 0 + 1 = 1
    OBVIOUS
<1>3. QED  BY <1>1, <1>2 DEF Opened, Gathering

\* A packet heard again changes nothing that matters.
LEMMA FollowsAgain ==
    ASSUME TextAssumption, IdsTell, NEW d \in Seq(Signal), NEW asm, Following(asm, d),
           NEW p \in Signal, p.msg \notin Remote, Again(d, p)
    PROVE  Accept(asm, p).done = <<>> /\ Following(Accept(asm, p).asm, d)
<1>1. p # Garbled /\ d # <<>> /\ d[Len(d)] = p /\ Chunks[p.msg] > 1
    BY DEF Again
<1>2. PICK m \in Messages \ Remote, n \in Nat \ {0} :
          /\ p = [msg |-> m, chunk |-> p.chunk] /\ n = Chunks[m]
          /\ p.chunk \in 1..n /\ m = p.msg
    BY <1>1, SignalFacts
<1>3. PICK c \in 1..n : c = p.chunk /\ p = [msg |-> m, chunk |-> c]
    BY <1>2
<1>4. Accept(asm, p) = AcceptChunk(asm, m, c)
    BY <1>1, <1>2, <1>3 DEF Accept
<1>5. n > 1
    BY <1>1, <1>2
<1>6. CASE c = 1
    <2>1. Opened(asm, m, 0 + 1) = Gathering(m, 0) /\ 0 \in 0..Chunks[m] - 1 /\ 0 + 1 < Chunks[m]
        BY <1>2, <1>5, OpenedFirst
    <2>2. AcceptChunk(asm, m, 0 + 1).asm = Gathering(m, 0 + 1)
          /\ AcceptChunk(asm, m, 0 + 1).done = <<>>
        BY <2>1, Taken
    <2>3. Holds(d, m, 1)
        <3>1. Len(d) \in Nat /\ Len(d) # 0
            BY <1>1, LenProperties, EmptySeq
        <3>2. \A i \in 1..1 : i = 1 /\ Len(d) - 1 + i = Len(d)
            BY <3>1
        <3>3. QED  BY <1>1, <1>3, <1>6, <3>1, <3>2 DEF Holds
    <2>4. 1 \in 1..Chunks[m] - 1
        BY <1>2, <1>5
    <2>5. 0 + 1 = 1
        OBVIOUS
    <2>6. QED  BY <1>4, <1>6, <2>2, <2>3, <2>4, <2>5 DEF Following
<1>7. CASE c # 1
    <2>1. c \in 2..Chunks[m]
        BY <1>2, <1>7
    <2>2. CASE ~asm.active
        <3>1. AcceptChunk(asm, m, c).asm = asm /\ AcceptChunk(asm, m, c).done = <<>>
            BY <2>1, <2>2, Ignored
        <3>2. QED  BY <1>4, <3>1
    <2>3. ASSUME NEW g \in Messages \ Remote, NEW k \in 1..Chunks[g] - 1,
                 asm = Gathering(g, k), Holds(d, g, k)
          PROVE  Accept(asm, p).done = <<>> /\ Following(Accept(asm, p).asm, d)
        <3>1. k \in Nat \ {0}
            BY DEF TextAssumption
        <3>2. d[Len(d)] = [msg |-> g, chunk |-> k]
            BY <2>3, <3>1, HoldsLast
        <3>3. [msg |-> g, chunk |-> k].msg = g /\ [msg |-> g, chunk |-> k].chunk = k
            OBVIOUS
        <3>4. m = g /\ c = k
            BY <1>1, <1>2, <1>3, <3>2, <3>3
        <3>5. c # k + 1 /\ c <= k
            BY <3>1, <3>4
        <3>6. /\ AcceptChunk(Gathering(g, k), m, c).asm = Gathering(g, k)
              /\ AcceptChunk(Gathering(g, k), m, c).done = <<>>
            BY <2>1, <3>1, <3>4, <3>5, NotTaken
        <3>7. QED  BY <1>4, <2>3, <3>6
    <2>4. QED  BY <2>2, <2>3 DEF Following
<1>8. QED  BY <1>6, <1>7

\* Another packet makes it longer, completes it, or ends it.
LEMMA FollowsNew ==
    ASSUME TextAssumption, IdsTell, NEW d \in Seq(Signal), NEW asm, Following(asm, d),
           NEW p \in Signal, p.msg \notin Remote, ~Again(d, p),
           d # <<>> /\ p # Garbled /\ d[Len(d)].msg = p.msg => d[Len(d)].chunk <= p.chunk
    PROVE  /\ Accept(asm, p).done = IF Completes(d, p) THEN Whole(p.msg) ELSE <<>>
           /\ Following(Accept(asm, p).asm, Append(d, p))
<1> DEFINE new == Append(d, p)
           Goal == /\ Accept(asm, p).done = IF Completes(d, p) THEN Whole(p.msg) ELSE <<>>
                   /\ Following(Accept(asm, p).asm, new)
<1>1. ASSUME NEW m, NEW n \in Nat \ {0}, Holds(new, m, n)
      PROVE  p = [msg |-> m, chunk |-> n] /\ Holds(d, m, n - 1)
    <2>1. PICK k \in Nat : k + 1 = n /\ n - 1 = k
        <3>1. n - 1 \in Nat /\ (n - 1) + 1 = n
            OBVIOUS
        <3>2. QED  BY <3>1
    <2>2. QED  BY <1>1, <2>1, HoldsAppend
<1>2. \A m \in Messages \ Remote : \A n \in 1..Chunks[m] - 1 : n \in Nat \ {0}
    BY DEF TextAssumption
<1>3. CASE p = Garbled
    <2>1. Accept(asm, p).asm = NoText /\ Accept(asm, p).done = <<>>
        BY <1>3 DEF Accept
    <2>2. ~NoText.active
        BY DEF NoText
    <2>3. \A m \in Messages \ Remote : \A n \in 1..Chunks[m] - 1 : ~Holds(new, m, n)
        <3>1. \A m \in Messages : \A n : Garbled # [msg |-> m, chunk |-> n]
            BY DEF Garbled, TextAssumption
        <3>2. QED  BY <1>1, <1>2, <1>3, <3>1
    <2>4. ~Completes(d, p)
        BY <1>3 DEF Completes
    <2>5. QED  BY <2>1, <2>2, <2>3, <2>4 DEF Following
<1>4. CASE p # Garbled
    <2>1. PICK m \in Messages \ Remote, n \in Nat \ {0} :
              /\ p = [msg |-> m, chunk |-> p.chunk] /\ n = Chunks[m]
              /\ p.chunk \in 1..n /\ m = p.msg
        BY <1>4, SignalFacts
    <2>2. PICK c \in 1..n : c = p.chunk /\ p = [msg |-> m, chunk |-> c]
        BY <2>1
    <2>3. Accept(asm, p) = AcceptChunk(asm, m, c)
        BY <1>4, <2>1, <2>2 DEF Accept
    <2>4. PICK k \in Nat : k = c - 1 /\ k + 1 = c
        <3>1. c - 1 \in Nat /\ (c - 1) + 1 = c
            OBVIOUS
        <3>2. QED  BY <3>1
    <2>5. Completes(d, p) <=> c = n /\ Holds(d, m, k)
        BY <1>4, <2>1, <2>2, <2>4 DEF Completes
    <2>6. \A a, l : [msg |-> a, chunk |-> l].msg = a /\ [msg |-> a, chunk |-> l].chunk = l
        OBVIOUS
    <2>7. ASSUME NEW g \in Messages \ Remote, NEW l \in 1..Chunks[g] - 1, Holds(new, g, l)
          PROVE  g = m /\ l = c /\ Holds(d, m, k)
        <3>1. l \in Nat \ {0}
            BY <1>2
        <3>2. p = [msg |-> g, chunk |-> l] /\ Holds(d, g, l - 1)
            BY <1>1, <2>7, <3>1
        <3>3. g = m /\ l = c
            BY <2>2, <2>6, <3>2
        <3>4. QED  BY <2>4, <3>2, <3>3
    <2>8. Holds(new, m, c) <=> Holds(d, m, k)
        BY <2>2, <2>4, HoldsAppend
    \* It is the chunk the assembler waits for.
    <2>9. ASSUME Opened(asm, m, k + 1) = Gathering(m, k), Holds(d, m, k)
          PROVE  Goal
        <3>1. k \in 0..Chunks[m] - 1
            BY <2>1, <2>4
        <3>2. CASE c < n
            <4>1. AcceptChunk(asm, m, c).asm = Gathering(m, c) /\ AcceptChunk(asm, m, c).done = <<>>
                BY <2>1, <2>4, <2>9, <3>1, <3>2, Taken
            <4>2. ~Completes(d, p)
                BY <2>5, <3>2
            <4>3. c \in 1..Chunks[m] - 1
                BY <2>1, <3>2
            <4>4. Holds(new, m, c)
                BY <2>8, <2>9
            <4>5. QED  BY <2>3, <4>1, <4>2, <4>3, <4>4 DEF Following
        <3>3. CASE c = n
            <4>1. ~AcceptChunk(asm, m, c).asm.active /\ AcceptChunk(asm, m, c).done = Whole(m)
                BY <2>1, <2>4, <2>9, <3>1, <3>3, Taken
            <4>2. Completes(d, p)
                BY <2>5, <2>9, <3>3
            <4>3. \A g \in Messages \ Remote : \A l \in 1..Chunks[g] - 1 : ~Holds(new, g, l)
                <5>1. c \notin 1..Chunks[m] - 1
                    BY <2>1, <3>3
                <5>2. QED  BY <2>7, <5>1
            <4>4. QED  BY <2>1, <2>3, <4>1, <4>2, <4>3 DEF Following
        <3>4. QED  BY <3>2, <3>3
    \* It is not, and nothing was gathered that it is the next of.
    <2>10. ASSUME ~Holds(d, m, k), AcceptChunk(asm, m, c).done = <<>>,
                  ~AcceptChunk(asm, m, c).asm.active
           PROVE  Goal
        <3>1. \A g \in Messages \ Remote : \A l \in 1..Chunks[g] - 1 : ~Holds(new, g, l)
            BY <2>7, <2>10
        <3>2. ~Completes(d, p)
            BY <2>5, <2>10
        <3>3. QED  BY <2>3, <2>10, <3>1, <3>2 DEF Following
    <2>11. CASE c = 1
        <3>1. k = 0 /\ Len(d) \in Nat
            BY <2>4, <2>11, LenProperties
        <3>2. Holds(d, m, 0)
            BY <3>1 DEF Holds
        <3>3. Opened(asm, m, k + 1) = Gathering(m, k)
            BY <2>4, <2>11, <3>1, OpenedFirst
        <3>4. QED  BY <2>9, <3>1, <3>2, <3>3
    <2>12. CASE c # 1
        <3>1. c \in 2..Chunks[m] /\ k \in Nat \ {0} /\ k \in 1..Chunks[m] - 1
            BY <2>1, <2>4, <2>12
        <3>2. ASSUME ~asm.active,
                     \A g \in Messages \ Remote : \A l \in 1..Chunks[g] - 1 : ~Holds(d, g, l)
              PROVE  Goal
            <4>1. AcceptChunk(asm, m, c).asm = asm /\ AcceptChunk(asm, m, c).done = <<>>
                BY <3>1, <3>2, Ignored
            <4>2. ~Holds(d, m, k)
                BY <3>1, <3>2
            <4>3. QED  BY <2>10, <3>2, <4>1, <4>2
        <3>3. ASSUME NEW g \in Messages \ Remote, NEW l \in 1..Chunks[g] - 1,
                     asm = Gathering(g, l), Holds(d, g, l)
              PROVE  Goal
            <4>1. l \in Nat \ {0} /\ Chunks[g] > 1
                BY DEF TextAssumption
            <4>2. d # <<>> /\ d[Len(d)] = [msg |-> g, chunk |-> l]
                BY <3>3, <4>1, HoldsLast
            <4>3. CASE m = g /\ c = l + 1
                <5>1. k = l
                    BY <2>4, <4>1, <4>3
                <5>2. Opened(asm, m, k + 1) = Gathering(m, k)
                    BY <2>4, <2>12, <3>3, <4>3, <5>1 DEF Opened
                <5>3. QED  BY <2>9, <3>3, <4>3, <5>1, <5>2
            <4>4. CASE m # g \/ c # l + 1
                <5>1. ~Holds(d, m, k)
                    <6>1. SUFFICES ASSUME Holds(d, m, k)
                                   PROVE  FALSE
                        OBVIOUS
                    <6>2. d[Len(d)] = [msg |-> m, chunk |-> k]
                        BY <3>1, <6>1, HoldsLast
                    <6>3. m = g /\ k = l
                        BY <2>6, <4>2, <6>2
                    <6>4. QED  BY <2>4, <4>4, <6>3
                <5>2. ~(m = g /\ c <= l)
                    <6>1. SUFFICES ASSUME m = g, c <= l
                                   PROVE  FALSE
                        OBVIOUS
                    <6>2. d[Len(d)].msg = p.msg /\ d[Len(d)].chunk = l
                        BY <2>1, <2>6, <4>2, <6>1
                    <6>3. l <= c
                        BY <1>4, <2>2, <4>2, <6>2
                    <6>4. l = c
                        BY <4>1, <6>1, <6>3
                    <6>5. d[Len(d)] = p /\ Chunks[p.msg] > 1
                        BY <2>1, <2>2, <4>1, <4>2, <6>1, <6>4
                    <6>6. QED  BY <1>4, <4>2, <6>5 DEF Again
                <5>3. /\ AcceptChunk(Gathering(g, l), m, c).asm = NoText
                      /\ AcceptChunk(Gathering(g, l), m, c).done = <<>>
                    BY <3>1, <4>1, <4>4, <5>2, NotTaken
                <5>4. ~NoText.active
                    BY DEF NoText
                <5>5. QED  BY <2>10, <3>3, <5>1, <5>3, <5>4
            <4>5. QED  BY <4>3, <4>4
        <3>4. QED  BY <3>2, <3>3 DEF Following
    <2>13. QED  BY <2>11, <2>12
<1>5. QED  BY <1>3, <1>4

-----------------------------------------------------------------------------
(* A reader of the packets.                                                *)

Kept(packets) == Distinct(Texts(packets))

\* What is kept ends with the last packet of a text.
SameLast(t, d) == (d = <<>> <=> t = <<>>) /\ (d # <<>> => d[Len(d)] = t[Len(t)])

\* A board that has read the packets: what it put together, and ran.
Reader(asm, packets, said, ran) ==
    /\ Following(asm, Kept(packets))
    /\ SameLast(Texts(packets), Kept(packets))
    /\ said = TextsOf(Kept(packets))
    /\ ran = CommandsRead(packets)

\* What a reader keeps are packets.
LEMMA TextsType ==
    ASSUME NEW packets \in Seq(Signal)
    PROVE  Texts(packets) \in Seq(Signal) /\ Kept(packets) \in Seq(Signal)
<1>1. {k \in DOMAIN packets : packets[k].msg \notin Remote} \in SUBSET (1..Len(packets))
    BY LenProperties
<1>2. Texts(packets) \in Seq(Signal)
    BY <1>1, PickedType DEF Texts
<1>3. Garbled \in Signal
    BY DEF Signal
<1>4. QED  BY <1>2, <1>3, DistinctAppend DEF Kept

\* Of nothing, nothing is picked.
LEMMA PickedNone == Picked(<<>>, {}) = <<>>
<1>1. Cardinality({}) = 0
    BY FS_EmptySet
<1>2. QED  BY <1>1 DEF Picked

\* A board that has read nothing.
LEMMA ReaderStarts ==
    ASSUME TextAssumption
    PROVE  Reader(NoText, <<>>, <<>>, <<>>)
<1>1. DOMAIN <<>> = {}
    OBVIOUS
<1>2. Texts(<<>>) = <<>>
    <2>1. {k \in DOMAIN <<>> : <<>>[k].msg \notin Remote} = {}
        BY <1>1
    <2>2. QED  BY <2>1, PickedNone DEF Texts
<1>3. Distinct(<<>>) = <<>>
    <2>1. {k \in DOMAIN <<>> : ~Repeats(<<>>, k)} = {}
        BY <1>1
    <2>2. QED  BY <2>1, PickedNone DEF Distinct
<1>4. Kept(<<>>) = <<>>
    BY <1>2, <1>3 DEF Kept
<1>5. Endings(<<>>) = <<>>
    <2>1. {k \in DOMAIN <<>> : EndsText(<<>>, k)} = {}
        BY <1>1
    <2>2. QED  BY <2>1, PickedNone DEF Endings
<1>6. TextsOf(<<>>) = <<>>
    BY <1>5 DEF TextsOf
<1>7. CommandsRead(<<>>) = <<>>
    <2>1. {k \in DOMAIN <<>> : <<>>[k].msg \in Remote} = {}
        BY <1>1
    <2>2. QED  BY <2>1, PickedNone DEF CommandsRead
<1>8. ~NoText.active
    BY DEF NoText
<1>9. \A m \in Messages \ Remote : \A n \in 1..Chunks[m] - 1 : ~Holds(<<>>, m, n)
    <2> TAKE m \in Messages \ Remote
    <2> TAKE n \in 1..Chunks[m] - 1
    <2>1. n \in Nat \ {0}
        BY DEF TextAssumption
    <2>2. <<>> \in Seq(Signal)
        OBVIOUS
    <2>3. QED  BY <2>1, <2>2, HoldsLast
<1>10. Following(NoText, <<>>)
    BY <1>8, <1>9 DEF Following
<1>11. SameLast(<<>>, <<>>)
    BY DEF SameLast
<1>12. QED  BY <1>2, <1>4, <1>6, <1>7, <1>10, <1>11 DEF Reader

\* One packet of a text more.  It is not older than the last one.
LEMMA HearsText ==
    ASSUME TextAssumption, IdsTell, NEW packets \in Seq(Signal), NEW asm, NEW said, NEW ran,
           Reader(asm, packets, said, ran), NEW p \in Signal, p.msg \notin Remote,
           \A q \in Signal : /\ Texts(packets) # <<>> /\ q = Texts(packets)[Len(Texts(packets))]
                             /\ p # Garbled /\ q.msg = p.msg
                            => q.chunk <= p.chunk
    PROVE  /\ Accept(asm, p).done \in Texting
           /\ Reader(Accept(asm, p).asm, Append(packets, p),
                     IF Accept(asm, p).done = <<>> THEN said
                     ELSE Append(said, Accept(asm, p).done), ran)
<1> DEFINE t == Texts(packets)
           d == Kept(packets)
           r == Accept(asm, p)
<1>1. t \in Seq(Signal) /\ d \in Seq(Signal)
    BY TextsType
<1>2. Texts(Append(packets, p)) = Append(t, p)
    BY TextsAppend
<1>3. d = Distinct(t)
    BY DEF Kept
<1>4. Following(asm, d) /\ SameLast(t, d) /\ said = TextsOf(d) /\ ran = CommandsRead(packets)
    BY DEF Reader
<1>5. Kept(Append(packets, p)) = IF Again(t, p) THEN d ELSE Append(d, p)
    <2> HIDE DEF t, d
    <2>1. QED  BY <1>1, <1>2, <1>3, DistinctAppend DEF Kept
<1>6. CommandsRead(Append(packets, p)) = ran
    BY <1>4, CommandsAppend
<1>7. \A q \in Signal : t # <<>> /\ q = t[Len(t)] /\ p # Garbled /\ q.msg = p.msg
                        => q.chunk <= p.chunk
    OBVIOUS
<1>8. /\ Append(t, p) # <<>> /\ Append(t, p)[Len(Append(t, p))] = p
      /\ Append(d, p) # <<>> /\ Append(d, p)[Len(Append(d, p))] = p
    <2> HIDE DEF t, d
    <2>1. QED  BY <1>1, AppendProperties, LenProperties
<1> HIDE DEF t, d, r
<1>9. Again(t, p) <=> Again(d, p)
    BY <1>4 DEF SameLast, Again
<1>10. CASE Again(t, p)
    <2>1. r.done = <<>> /\ Following(r.asm, d)
        BY <1>1, <1>4, <1>9, <1>10, FollowsAgain DEF r
    <2>2. SameLast(Append(t, p), d)
        BY <1>4, <1>8, <1>10 DEF SameLast, Again
    <2>3. Reader(r.asm, Append(packets, p), said, ran)
        BY <1>2, <1>4, <1>5, <1>6, <1>10, <2>1, <2>2 DEF Reader
    <2>4. <<>> \in Texting
        BY DEF Texting
    <2>5. QED  BY <2>1, <2>3, <2>4 DEF r
<1>11. CASE ~Again(t, p)
    <2>1. d # <<>> /\ p # Garbled /\ d[Len(d)].msg = p.msg => d[Len(d)].chunk <= p.chunk
        <3>1. d # <<>> => d[Len(d)] \in Signal
            BY <1>1, LenProperties, ElementOfSeq, EmptySeq
        <3>2. QED  BY <1>4, <1>7, <3>1 DEF SameLast
    <2>2. /\ r.done = IF Completes(d, p) THEN Whole(p.msg) ELSE <<>>
          /\ Following(r.asm, Append(d, p))
        BY <1>1, <1>4, <1>9, <1>11, <2>1, FollowsNew DEF r
    <2>3. SameLast(Append(t, p), Append(d, p))
        BY <1>8 DEF SameLast
    <2>4. TextsOf(Append(d, p)) =
              IF Completes(d, p) THEN Append(said, Whole(p.msg)) ELSE said
        BY <1>1, <1>4, TextsOfAppend
    <2>5. Completes(d, p) => Whole(p.msg) \in Texting /\ Whole(p.msg) # <<>>
        <3>1. SUFFICES ASSUME p # Garbled
                       PROVE  Whole(p.msg) \in Texting /\ Whole(p.msg) # <<>>
            BY DEF Completes
        <3>2. p.msg \in Messages /\ Chunks[p.msg] \in Nat \ {0}
            BY <3>1, SignalFacts
        <3>3. Len(Whole(p.msg)) # 0 /\ Whole(p.msg) \in Texting
            BY <3>2, WholeType
        <3>4. QED  BY <3>3
    <2>6. <<>> \in Texting
        BY DEF Texting
    <2>7. TextsOf(Append(d, p)) = IF r.done = <<>> THEN said ELSE Append(said, r.done)
        BY <2>2, <2>4, <2>5
    <2>8. Reader(r.asm, Append(packets, p),
                 IF r.done = <<>> THEN said ELSE Append(said, r.done), ran)
        BY <1>2, <1>5, <1>6, <1>11, <2>2, <2>3, <2>7 DEF Reader
    <2>9. QED  BY <2>2, <2>5, <2>6, <2>8 DEF r
<1>12. QED  BY <1>10, <1>11

\* A reading that is cut short: the assembler starts anew.
LEMMA HearsCut ==
    ASSUME TextAssumption, IdsTell, NEW packets \in Seq(Signal), NEW asm, NEW said, NEW ran,
           Reader(asm, packets, said, ran)
    PROVE  Reader(NoText, Append(packets, Garbled), said, ran)
<1>1. Garbled \in Signal /\ Garbled.msg \notin Remote
    BY SignalFacts DEF Signal
<1>2. Accept(asm, Garbled).asm = NoText /\ Accept(asm, Garbled).done = <<>>
    BY DEF Accept
<1>3. Reader(Accept(asm, Garbled).asm, Append(packets, Garbled),
             IF Accept(asm, Garbled).done = <<>> THEN said
             ELSE Append(said, Accept(asm, Garbled).done), ran)
    BY <1>1, HearsText
<1>4. QED  BY <1>2, <1>3

\* One command more.
LEMMA HearsCommand ==
    ASSUME TextAssumption, NEW packets \in Seq(Signal), NEW asm, NEW said, NEW ran,
           Reader(asm, packets, said, ran), NEW p \in Signal, p.msg \in Remote
    PROVE  Reader(asm, Append(packets, p), said, Append(ran, p.msg))
<1>1. Texts(Append(packets, p)) = Texts(packets)
    BY TextsAppend
<1>2. CommandsRead(Append(packets, p)) = Append(CommandsRead(packets), p.msg)
    BY CommandsAppend
<1>3. QED  BY <1>1, <1>2 DEF Reader, Kept

-----------------------------------------------------------------------------
(* The order of the packets on the air.                                    *)

\* Of one sender, q is of a later message than p or of a chunk not before p's.
NotAfter(box, p, q) ==
    \A c \in Boards : \A x, y \in DOMAIN box[c] :
        p.msg = box[c][x] /\ q.msg = box[c][y] => x < y \/ (x = y /\ p.chunk <= q.chunk)

Rising(box, s) == \A i, j \in DOMAIN s : i < j => NotAfter(box, s[i], s[j])

\* What is on the air is of a message its sender has begun, and not ahead of it.
Spoken(box, n, t, p) ==
    p = Garbled \/ \E c \in Boards : \E x \in 1..n[c] :
        p.msg = box[c][x] /\ (t[c] # Silent /\ x = n[c] => p.chunk <= t[c].chunk)

Clear(box, n, t, s) == Rising(box, s) /\ \A k \in DOMAIN s : Spoken(box, n, t, s[k])

\* Senders go on.
Onward(n, t, n2, t2) ==
    \A c \in Boards :
        \/ n2[c] = n[c] /\ (t2[c] # Silent => t[c] # Silent /\ t[c].chunk <= t2[c].chunk)
        \/ n2[c] = n[c] + 1

Counts(box) == {n \in [Boards -> Nat] : \A c \in Boards : n[c] <= Len(box[c])}

Sending == [msg : Messages, chunk : Nat \ {0}, attempt : 1..MaxAttempts, copies : 0..2]

\* A message is in one outbox, at one place.
LEMMA OutboxFacts ==
    ASSUME TextAssumption, NEW box \in Outboxes
    PROVE  /\ \A c \in Boards : /\ box[c] \in Seq(Messages) /\ Len(box[c]) \in Nat
                               /\ DOMAIN box[c] = 1..Len(box[c])
           /\ \A c \in Boards : \A x \in DOMAIN box[c] : box[c][x] \in Messages
           /\ \A b, c \in Boards : \A x \in DOMAIN box[b] : \A y \in DOMAIN box[c] :
                 box[b][x] = box[c][y] => b = c /\ x = y
<1>1. /\ box \in [Boards -> Seq(Messages)]
      /\ \A b \in Boards : IsInjective(box[b])
      /\ \A b \in Boards, c \in Boards : b # c => Range(box[b]) \cap Range(box[c]) = {}
    BY DEF TextAssumption
<1>2. \A c \in Boards : /\ box[c] \in Seq(Messages) /\ Len(box[c]) \in Nat
                        /\ DOMAIN box[c] = 1..Len(box[c])
    BY <1>1, LenProperties
<1>3. \A c \in Boards : \A x \in DOMAIN box[c] : box[c][x] \in Messages
    BY <1>2, ElementOfSeq
<1>4. ASSUME NEW b \in Boards, NEW c \in Boards, NEW x \in DOMAIN box[b], NEW y \in DOMAIN box[c],
             box[b][x] = box[c][y]
      PROVE  b = c /\ x = y
    <2>1. box[b][x] \in Range(box[b]) /\ box[b][x] \in Range(box[c])
        BY <1>4 DEF Range
    <2>2. b = c
        BY <1>1, <2>1
    <2>3. QED  BY <1>1, <1>4, <2>2 DEF IsInjective
<1>5. QED  BY <1>2, <1>3, <1>4

\* A packet goes behind those it is not before.
LEMMA ClearAppend ==
    ASSUME NEW box, NEW n, NEW t, NEW s \in Seq(Signal), NEW p \in Signal,
           Clear(box, n, t, s), Spoken(box, n, t, p), \A k \in DOMAIN s : NotAfter(box, s[k], p)
    PROVE  Clear(box, n, t, Append(s, p))
<1> DEFINE m == Len(s)
           new == Append(s, p)
<1>1. m \in Nat /\ DOMAIN s = 1..m
    BY LenProperties
<1>2. DOMAIN new = 1..m + 1 /\ new[m + 1] = p /\ \A k \in 1..m : new[k] = s[k]
    BY AppendProperties, LenProperties
<1> HIDE DEF m, new
<1>3. \A k \in 1..m + 1 : k \in 1..m \/ k = m + 1
    BY <1>1
<1>4. ASSUME NEW i \in 1..m + 1, NEW j \in 1..m + 1, i < j
      PROVE  NotAfter(box, new[i], new[j])
    <2>1. i \in 1..m
        BY <1>1, <1>4
    <2>2. CASE j = m + 1
        BY <1>1, <1>2, <2>1, <2>2
    <2>3. CASE j \in 1..m
        BY <1>1, <1>2, <1>4, <2>1, <2>3 DEF Clear, Rising
    <2>4. QED  BY <1>3, <2>2, <2>3
<1>5. ASSUME NEW k \in 1..m + 1
      PROVE  Spoken(box, n, t, new[k])
    BY <1>1, <1>2, <1>3 DEF Clear
<1>6. QED  BY <1>2, <1>4, <1>5 DEF Clear, Rising, new

\* What was heard first.
LEMMA ClearPart ==
    ASSUME NEW box, NEW n, NEW t, NEW r \in Seq(Signal), NEW f \in Seq(Signal),
           Clear(box, n, t, r \o f)
    PROVE  Clear(box, n, t, r) /\ Clear(box, n, t, r \o <<>>)
<1>1. /\ Len(r) \in Nat /\ Len(f) \in Nat /\ DOMAIN r = 1..Len(r)
      /\ DOMAIN (r \o f) = 1..Len(r) + Len(f)
      /\ \A k \in 1..Len(r) : (r \o f)[k] = r[k]
    BY ConcatProperties, LenProperties
<1>2. 1..Len(r) \subseteq 1..Len(r) + Len(f)
    BY <1>1
<1>3. Clear(box, n, t, r)
    BY <1>1, <1>2 DEF Clear, Rising
<1>4. r \o <<>> = r
    BY ConcatEmptySeq
<1>5. QED  BY <1>3, <1>4

\* What is in order stays so while senders go on.
LEMMA ClearStays ==
    ASSUME NEW box, NEW n \in [Boards -> Nat], NEW t, NEW n2, NEW t2, NEW s,
           t \in [Boards -> Sending \cup {Silent}], t2 \in [Boards -> Sending \cup {Silent}],
           s \in Seq(Signal), Clear(box, n, t, s), Onward(n, t, n2, t2)
    PROVE  Clear(box, n2, t2, s)
<1>1. ASSUME NEW p \in Signal, Spoken(box, n, t, p)
      PROVE  Spoken(box, n2, t2, p)
    <2>1. CASE p = Garbled
        BY <2>1 DEF Spoken
    <2>2. CASE p # Garbled
        <3>1. PICK c \in Boards : \E x \in 1..n[c] :
                  /\ p.msg = box[c][x]
                  /\ t[c] # Silent /\ x = n[c] => p.chunk <= t[c].chunk
            BY <1>1, <2>2 DEF Spoken
        <3>2. PICK x \in 1..n[c] : /\ p.msg = box[c][x]
                                   /\ t[c] # Silent /\ x = n[c] => p.chunk <= t[c].chunk
            BY <3>1
        <3>3. n[c] \in Nat /\ p.chunk \in Nat
            BY DEF Signal, Piece, Packet, Garbled
        <3>4. x \in 1..n2[c] /\ (t2[c] # Silent /\ x = n2[c] => p.chunk <= t2[c].chunk)
            <4>1. CASE n2[c] = n[c] + 1
                BY <3>3, <4>1
            <4>2. CASE /\ n2[c] = n[c]
                       /\ t2[c] # Silent => t[c] # Silent /\ t[c].chunk <= t2[c].chunk
                <5>1. CASE t2[c] = Silent
                    BY <4>2, <5>1
                <5>2. CASE t2[c] # Silent
                    <6>1. t[c] \in Sending /\ t2[c] \in Sending
                        BY <4>2, <5>2
                    <6>2. t[c].chunk \in Nat /\ t2[c].chunk \in Nat
                        BY <6>1 DEF Sending
                    <6>3. QED  BY <3>2, <3>3, <4>2, <5>2, <6>2
                <5>3. QED  BY <5>1, <5>2
            <4>3. QED  BY <4>1, <4>2 DEF Onward
        <3>5. QED  BY <3>2, <3>4 DEF Spoken
    <2>3. QED  BY <2>1, <2>2
<1>2. \A k \in DOMAIN s : s[k] \in Signal
    BY ElementOfSeq, LenProperties
<1>3. QED  BY <1>1, <1>2 DEF Clear

\* What board c has on the air now is behind all it said.
LEMMA BehindAll ==
    ASSUME TextAssumption, NEW box \in Outboxes, NEW n \in Counts(box), NEW t, NEW c \in Boards,
           n[c] > 0, t[c] # Silent, t[c].msg = box[c][n[c]],
           NEW q \in Signal, Spoken(box, n, t, q)
    PROVE  NotAfter(box, q, [msg |-> t[c].msg, chunk |-> t[c].chunk])
<1> DEFINE p == [msg |-> t[c].msg, chunk |-> t[c].chunk]
<1>1. p.msg = box[c][n[c]] /\ p.chunk = t[c].chunk
    OBVIOUS
<1> HIDE DEF p
<1>2. \A a \in Boards : n[a] \in Nat /\ n[a] <= Len(box[a])
    BY DEF Counts
<1>3. \A a \in Boards : 1..n[a] \subseteq DOMAIN box[a]
    BY <1>2, OutboxFacts
<1>4. SUFFICES ASSUME NEW a \in Boards, NEW x \in DOMAIN box[a], NEW y \in DOMAIN box[a],
                      q.msg = box[a][x], p.msg = box[a][y]
               PROVE  x < y \/ (x = y /\ q.chunk <= p.chunk)
    BY DEF NotAfter, p
<1>5. n[c] \in DOMAIN box[c]
    BY <1>2, <1>3
<1>6. a = c /\ y = n[c]
    <2>1. box[a][y] = box[c][n[c]]
        BY <1>1, <1>4
    <2>2. \A z \in DOMAIN box[c] : box[a][y] = box[c][z] => a = c /\ y = z
        BY OutboxFacts
    <2>3. QED  BY <1>5, <2>1, <2>2
<1>7. q # Garbled
    BY <1>4, OutboxFacts DEF Garbled, TextAssumption
<1>8. PICK e \in Boards : \E z \in 1..n[e] :
          /\ q.msg = box[e][z]
          /\ t[e] # Silent /\ z = n[e] => q.chunk <= t[e].chunk
    BY <1>7 DEF Spoken
<1>9. PICK z \in 1..n[e] : /\ q.msg = box[e][z]
                           /\ t[e] # Silent /\ z = n[e] => q.chunk <= t[e].chunk
    BY <1>8
<1>10. e = a /\ z = x
    <2>1. box[a][x] = box[e][z] /\ z \in DOMAIN box[e]
        BY <1>3, <1>4, <1>9
    <2>2. \A y2 \in DOMAIN box[e] : box[a][x] = box[e][y2] => a = e /\ x = y2
        BY OutboxFacts
    <2>3. QED  BY <2>1, <2>2
<1>11. x \in 1..n[c]
    BY <1>6, <1>9, <1>10
<1>12. x < y \/ x = y
    BY <1>2, <1>6, <1>11
<1>13. x = y => q.chunk <= p.chunk
    BY <1>1, <1>6, <1>9, <1>10
<1>14. QED  BY <1>12, <1>13

\* The next packet is not older than the last one of a text.
LEMMA NotOlder ==
    ASSUME TextAssumption, NEW box \in Outboxes, NEW n \in Counts(box), NEW t,
           NEW r \in Seq(Signal), NEW f \in Seq(Signal), f # <<>>, Clear(box, n, t, r \o f),
           NEW q \in Signal, Texts(r) # <<>>, q = Texts(r)[Len(Texts(r))],
           Head(f) # Garbled, q.msg = Head(f).msg
    PROVE  q.chunk <= Head(f).chunk
<1> DEFINE p == Head(f)
           K == {k \in DOMAIN r : r[k].msg \notin Remote}
<1>1. /\ Len(r) \in Nat /\ Len(f) \in Nat /\ DOMAIN r = 1..Len(r)
      /\ DOMAIN (r \o f) = 1..Len(r) + Len(f) /\ Len(f) # 0
      /\ \A k \in 1..Len(r) : (r \o f)[k] = r[k]
      /\ \A k \in Len(r) + 1..Len(r) + Len(f) : (r \o f)[k] = f[k - Len(r)]
    BY ConcatProperties, LenProperties, EmptySeq
<1>2. p = f[1] /\ p \in Signal
    BY HeadTailProperties, <1>1, ElementOfSeq
<1>3. (r \o f)[Len(r) + 1] = p /\ Len(r) + 1 \in 1..Len(r) + Len(f)
    <2>1. (Len(r) + 1) - Len(r) = 1 /\ Len(r) + 1 \in Len(r) + 1..Len(r) + Len(f)
        BY <1>1
    <2>2. (r \o f)[Len(r) + 1] = f[(Len(r) + 1) - Len(r)]
        BY <1>1, <2>1
    <2>3. QED  BY <1>1, <1>2, <2>1, <2>2
<1>4. PICK k \in 1..Len(r) : q = r[k]
    <2>1. K \in SUBSET (1..Len(r))
        BY <1>1
    <2>2. Texts(r) = Picked(r, K)
        BY DEF Texts
    <2> HIDE DEF K
    <2>3. /\ Len(Picked(r, K)) = Cardinality(K) /\ Cardinality(K) \in Nat
          /\ Picked(r, K) \in Seq(Signal)
          /\ \A j \in 1..Cardinality(K) :
                PlaceOf(K, j) \in K /\ Picked(r, K)[j] = r[PlaceOf(K, j)]
        BY <2>1, PickedType
    <2>4. Cardinality(K) # 0
        BY <2>2, <2>3, EmptySeq
    <2>5. Cardinality(K) \in 1..Cardinality(K)
        BY <2>3, <2>4
    <2>6. QED  BY <2>1, <2>2, <2>3, <2>5
<1>5. k < Len(r) + 1 /\ k \in 1..Len(r) + Len(f)
    BY <1>1
<1>6. NotAfter(box, q, p)
    BY <1>1, <1>3, <1>4, <1>5 DEF Clear, Rising
<1>7. Spoken(box, n, t, p)
    BY <1>1, <1>3 DEF Clear
<1> HIDE DEF p
<1>8. PICK c \in Boards : \E x \in 1..n[c] : p.msg = box[c][x]
    BY <1>7 DEF Spoken, p
<1>9. PICK x \in 1..n[c] : p.msg = box[c][x]
    BY <1>8
<1>10. x \in DOMAIN box[c]
    BY OutboxFacts DEF Counts
<1>11. x < x \/ q.chunk <= p.chunk
    BY <1>6, <1>9, <1>10 DEF NotAfter, p
<1>12. x \in Int
    OBVIOUS
<1>13. QED  BY <1>11, <1>12 DEF p

-----------------------------------------------------------------------------
(* The invariant.                                                          *)

Passing == [at : {"none", "draining", "handing"}, count : 0..DrainMax,
            texts : Seq(Texting), command : Messages \cup {NoMessage}]

TextTypes ==
    /\ outbox \in Outboxes /\ begun \in Counts(outbox)
    /\ tx \in [Boards -> Sending \cup {Silent}]
    /\ listening \in [Boards -> BOOLEAN]
    /\ fifo \in [Boards -> Seq(Signal)] /\ \A b \in Boards : Len(fifo[b]) <= FifoDepth
    /\ DOMAIN assembler = Boards
    /\ pass \in [Boards -> Passing]
    /\ printed \in [Boards -> Seq(Texting)]
    /\ executed \in [Boards -> Seq(Messages)]
    /\ read \in [Boards -> Seq(Signal)]

\* The message on the air is the last one begun.
Sent ==
    \A c \in Boards : tx[c] # Silent =>
        /\ begun[c] > 0 /\ tx[c].msg = outbox[c][begun[c]]
        /\ tx[c].chunk <= Chunks[tx[c].msg]

\* What a board heard, read or not.
Heard(b) == read[b] \o fifo[b]
InOrder == \A b \in Boards : Clear(outbox, begun, tx, Heard(b))

\* What a board put together, handed over or not.
Said(b) == printed[b] \o pass[b].texts
Ran(b) ==
    executed[b] \o (IF pass[b].command = NoMessage THEN <<>> ELSE <<pass[b].command>>)
Read == \A b \in Boards : Reader(assembler[b], read[b], Said(b), Ran(b))

NothingLeft == \A b \in Boards : pass[b].at = "none" => pass[b] = NoPass

TextsInv == TextTypes /\ Sent /\ NothingLeft /\ InOrder /\ Read

-----------------------------------------------------------------------------
(* The invariant holds at first.                                           *)

\* Types of a board at rest.
LEMMA NoPassType == TextAssumption => NoPass \in Passing /\ Silent \notin Sending
<1> SUFFICES ASSUME TextAssumption
             PROVE  NoPass \in Passing /\ Silent \notin Sending
    OBVIOUS
<1>1. DrainMax \in Nat /\ NoMessage \notin Messages
    BY DEF TextAssumption
<1>2. <<>> \in Seq(Texting)
    OBVIOUS
<1>3. NoPass \in Passing
    BY <1>1, <1>2 DEF NoPass, Passing
<1>4. Silent \notin Sending
    BY <1>1 DEF Silent, Sending
<1>5. QED  BY <1>3, <1>4

\* Nothing is heard, nothing is put together.
LEMMA TextsInitial == TextAssumption /\ TextsInit => TextsInv
<1> SUFFICES ASSUME TextAssumption, TextsInit
             PROVE  TextsInv
    OBVIOUS
<1>1. FifoDepth \in Nat
    BY DEF TextAssumption
<1>2. outbox \in Outboxes
    BY DEF TextsInit
<1>3. begun \in Counts(outbox)
    <2>1. \A c \in Boards : Len(outbox[c]) \in Nat
        BY <1>2, OutboxFacts
    <2>2. QED  BY <2>1 DEF TextsInit, Counts
<1>4. TextTypes
    <2>1. fifo \in [Boards -> Seq(Signal)] /\ read \in [Boards -> Seq(Signal)]
          /\ printed \in [Boards -> Seq(Texting)] /\ executed \in [Boards -> Seq(Messages)]
        BY DEF TextsInit
    <2>2. \A b \in Boards : Len(fifo[b]) <= FifoDepth
        BY <1>1 DEF TextsInit
    <2>3. pass \in [Boards -> Passing]
        BY NoPassType DEF TextsInit
    <2>4. tx \in [Boards -> Sending \cup {Silent}] /\ listening \in [Boards -> BOOLEAN]
          /\ DOMAIN assembler = Boards
        BY DEF TextsInit
    <2>5. QED  BY <1>2, <1>3, <2>1, <2>2, <2>3, <2>4 DEF TextTypes
<1>5. Sent
    BY DEF Sent, TextsInit
<1>6. NothingLeft
    BY DEF NothingLeft, TextsInit
<1>7. InOrder
    <2>1. \A b \in Boards : Heard(b) = <<>>
        BY DEF Heard, TextsInit
    <2>2. Clear(outbox, begun, tx, <<>>)
        BY DEF Clear, Rising
    <2>3. QED  BY <2>1, <2>2 DEF InOrder
<1>8. Read
    <2> SUFFICES ASSUME NEW b \in Boards
                 PROVE  Reader(assembler[b], read[b], Said(b), Ran(b))
        BY DEF Read
    <2>1. assembler[b] = NoText /\ read[b] = <<>> /\ printed[b] = <<>> /\ executed[b] = <<>>
          /\ pass[b] = NoPass
        BY DEF TextsInit
    <2>2. NoPass.texts = <<>> /\ NoPass.command = NoMessage
        BY DEF NoPass
    <2>3. Said(b) = <<>> /\ Ran(b) = <<>>
        BY <2>1, <2>2 DEF Said, Ran
    <2>4. QED  BY <2>1, <2>3, ReaderStarts
<1>9. QED  BY <1>4, <1>5, <1>6, <1>7, <1>8 DEF TextsInv

-----------------------------------------------------------------------------
(* What each step leaves as it was.                                        *)

\* Appending to the second of two sequences is appending to both.
LEMMA ConcatAppend ==
    ASSUME NEW S, NEW a \in Seq(S), NEW b \in Seq(S), NEW x \in S
    PROVE  a \o Append(b, x) = Append(a \o b, x)
<1>1. <<x>> \in Seq(S)
    OBVIOUS
<1>2. a \o b \in Seq(S)
    BY ConcatProperties
<1>3. Append(b, x) = b \o <<x>> /\ Append(a \o b, x) = (a \o b) \o <<x>>
    BY <1>2, AppendIsConcat
<1>4. QED  BY <1>1, <1>3, ConcatAssociative

\* Steps of the senders change nothing that a board read.
LEMMA ReadStays ==
    ASSUME Read, UNCHANGED <<assembler, read, printed, executed>>,
           \A b \in Boards : /\ pass'[b].texts = pass[b].texts
                             /\ pass'[b].command = pass[b].command
    PROVE  Read'
<1> SUFFICES ASSUME NEW b \in Boards
             PROVE  Reader(assembler[b], read[b], Said(b), Ran(b))'
    BY DEF Read
<1>1. Said(b)' = Said(b) /\ Ran(b)' = Ran(b)
    BY DEF Said, Ran
<1>2. Reader(assembler[b], read[b], Said(b), Ran(b))
    BY DEF Read
<1>3. QED  BY <1>1, <1>2

\* The order stays where packets are taken away and senders go on.
LEMMA InOrderStays ==
    ASSUME TextTypes, TextTypes', InOrder, Onward(begun, tx, begun', tx'), outbox' = outbox,
           \A b \in Boards : Heard(b)' \in {Heard(b), read[b]}
    PROVE  InOrder'
<1> SUFFICES ASSUME NEW b \in Boards
             PROVE  Clear(outbox, begun, tx, Heard(b))'
    BY DEF InOrder
<1>1. /\ read[b] \in Seq(Signal) /\ fifo[b] \in Seq(Signal) /\ begun \in [Boards -> Nat]
      /\ tx \in [Boards -> Sending \cup {Silent}]
    BY DEF TextTypes, Counts
<1>2. tx' \in [Boards -> Sending \cup {Silent}]
    BY DEF TextTypes
<1>3. Clear(outbox, begun, tx, Heard(b)) /\ Heard(b) \in Seq(Signal)
    BY <1>1, ConcatProperties DEF InOrder, Heard
<1>4. Clear(outbox, begun, tx, read[b])
    BY <1>1, <1>3, ClearPart DEF Heard
<1>5. PICK s \in Seq(Signal) : s = Heard(b)' /\ Clear(outbox, begun, tx, s)
    BY <1>1, <1>3, <1>4
<1>6. PICK box, n2, t2 : box = outbox /\ n2 = begun' /\ t2 = tx'
    OBVIOUS
<1>7. PICK n \in [Boards -> Nat], t \in [Boards -> Sending \cup {Silent}] : n = begun /\ t = tx
    BY <1>1
<1>8. Clear(box, n, t, s) /\ Onward(n, t, n2, t2) /\ t2 \in [Boards -> Sending \cup {Silent}]
    BY <1>2, <1>5, <1>6, <1>7
<1>9. Clear(box, n2, t2, s)
    BY <1>8, ClearStays
<1>10. QED  BY <1>5, <1>6, <1>9

\* Where senders do nothing, they go on.
LEMMA SendersIdle ==
    ASSUME TextTypes, UNCHANGED <<begun, tx>>
    PROVE  Onward(begun, tx, begun', tx')
<1>1. \A c \in Boards : tx[c] # Silent => tx[c].chunk <= tx[c].chunk
    <2> TAKE c \in Boards
    <2>1. tx[c] # Silent => tx[c].chunk \in Nat
        BY DEF TextTypes, Sending
    <2>2. QED  BY <2>1
<1>2. QED  BY <1>1 DEF Onward

-----------------------------------------------------------------------------
(* The steps of a sender.                                                  *)

\* A board begins its next message.
LEMMA BeginsKeeps ==
    ASSUME TextAssumption, TextsInv, NEW b \in Boards, TextBegins(b)
    PROVE  TextsInv'
<1>1. TextTypes /\ Sent /\ NothingLeft /\ InOrder /\ Read
    BY DEF TextsInv
<1>2. /\ begun[b] < Len(outbox[b]) /\ tx[b] = Silent
      /\ begun' = [begun EXCEPT ![b] = @ + 1]
      /\ tx' = [tx EXCEPT ![b] = [msg |-> outbox[b][begun'[b]], chunk |-> 1,
                                 attempt |-> 1, copies |-> 0]]
      /\ listening' = [listening EXCEPT ![b] = FALSE]
      /\ UNCHANGED <<outbox, fifo, assembler, pass, printed, executed, read>>
    BY DEF TextBegins, RadioFree
<1>3. /\ outbox \in Outboxes /\ begun \in [Boards -> Nat]
      /\ \A c \in Boards : begun[c] \in Nat /\ begun[c] <= Len(outbox[c])
      /\ tx \in [Boards -> Sending \cup {Silent}]
    BY <1>1 DEF TextTypes, Counts
<1>4. PICK k \in Nat : k = begun[b] + 1 /\ begun'[b] = k
    BY <1>2, <1>3
<1>5. Len(outbox[b]) \in Nat /\ k \in DOMAIN outbox[b]
    BY <1>2, <1>3, <1>4, OutboxFacts
<1>6. PICK m \in Messages : m = outbox[b][k]
    BY <1>3, <1>5, OutboxFacts
<1>7. tx'[b] = [msg |-> m, chunk |-> 1, attempt |-> 1, copies |-> 0]
      /\ \A c \in Boards : c # b => tx'[c] = tx[c] /\ begun'[c] = begun[c]
    BY <1>2, <1>3, <1>4, <1>6
<1>8. MaxAttempts \in Nat \ {0} /\ Chunks[m] \in Nat \ {0}
    BY DEF TextAssumption
<1>9. tx'[b] \in Sending
    BY <1>7, <1>8 DEF Sending
<1>10. TextTypes'
    <2>1. begun' \in Counts(outbox)
        <3>1. begun' \in [Boards -> Nat]
            BY <1>2, <1>3
        <3>2. \A c \in Boards : begun'[c] <= Len(outbox[c])
            BY <1>2, <1>3, <1>4, <1>5, <1>7
        <3>3. QED  BY <3>1, <3>2 DEF Counts
    <2>2. tx' \in [Boards -> Sending \cup {Silent}]
        BY <1>2, <1>3, <1>7, <1>9
    <2>3. QED  BY <1>1, <1>2, <2>1, <2>2 DEF TextTypes
<1>11. Sent'
    <2> SUFFICES ASSUME NEW c \in Boards, tx'[c] # Silent
                 PROVE  /\ begun'[c] > 0 /\ tx'[c].msg = outbox[c][begun'[c]]
                        /\ tx'[c].chunk <= Chunks[tx'[c].msg]
        BY <1>2 DEF Sent
    <2>1. CASE c = b
        BY <1>4, <1>6, <1>7, <1>8, <1>3, <2>1
    <2>2. CASE c # b
        BY <1>1, <1>7, <2>2 DEF Sent
    <2>3. QED  BY <2>1, <2>2
<1>12. NothingLeft'
    BY <1>1, <1>2 DEF NothingLeft
<1>13. InOrder'
    <2>1. Onward(begun, tx, begun', tx')
        <3> SUFFICES ASSUME NEW c \in Boards
                     PROVE  \/ begun'[c] = begun[c]
                               /\ (tx'[c] # Silent => tx[c] # Silent /\ tx[c].chunk <= tx'[c].chunk)
                            \/ begun'[c] = begun[c] + 1
            BY DEF Onward
        <3>1. CASE c = b
            BY <1>4, <3>1
        <3>2. CASE c # b
            <4>1. tx[c] # Silent => tx[c].chunk \in Nat
                BY <1>3 DEF Sending
            <4>2. QED  BY <1>7, <3>2, <4>1
        <3>3. QED  BY <3>1, <3>2
    <2>2. \A c \in Boards : Heard(c)' = Heard(c)
        BY <1>2 DEF Heard
    <2>3. QED  BY <1>1, <1>2, <1>10, <2>1, <2>2, InOrderStays
<1>14. Read'
    BY <1>1, <1>2, ReadStays
<1>15. QED  BY <1>10, <1>11, <1>12, <1>13, <1>14 DEF TextsInv

\* The packet a board sends.
LEMMA PacketSent ==
    ASSUME TextAssumption, TextTypes, Sent, NEW b \in Boards, tx[b] # Silent
    PROVE  /\ tx[b] \in Sending /\ tx[b].msg \in Messages /\ tx[b].chunk \in Nat \ {0}
           /\ [msg |-> tx[b].msg, chunk |-> tx[b].chunk] \in Signal
           /\ begun[b] > 0 /\ tx[b].msg = outbox[b][begun[b]]
<1>1. tx[b] \in Sending
    BY DEF TextTypes
<1>2. tx[b].msg \in Messages /\ tx[b].chunk \in Nat \ {0}
    BY <1>1 DEF Sending
<1>3. [msg |-> tx[b].msg, chunk |-> tx[b].chunk] \in Piece
    BY <1>2 DEF Piece, Packet, Sent
<1>4. QED  BY <1>1, <1>2, <1>3 DEF Sent, Signal

\* A copy of the packet reaches boards, or some of them hear it garbled.
LEMMA OnAirKeeps ==
    ASSUME TextAssumption, TextsInv, NEW b \in Boards, OnAir(b)
    PROVE  TextsInv'
<1>1. TextTypes /\ Sent /\ NothingLeft /\ InOrder /\ Read
    BY DEF TextsInv
<1> DEFINE packet == [msg |-> tx[b].msg, chunk |-> tx[b].chunk]
<1>2. /\ tx[b] # Silent /\ tx[b].copies < 2
      /\ tx' = [tx EXCEPT ![b].copies = @ + 1]
      /\ UNCHANGED <<outbox, begun, listening, assembler, pass, printed, executed, read>>
    BY DEF OnAir
<1>3. PICK p \in {Garbled, packet} : \E got \in SUBSET Boards :
          /\ \A c \in got : Len(fifo[c]) < FifoDepth
          /\ fifo' = [c \in Boards |-> IF c \in got THEN Append(fifo[c], p) ELSE fifo[c]]
    <2> DEFINE could == {c \in InRange[b] : listening[c] /\ Len(fifo[c]) < FifoDepth}
    <2>1. PICK garbled \in BOOLEAN : \E got \in SUBSET could :
              fifo' = [c \in Boards |-> IF c \in got
                                       THEN Append(fifo[c], IF garbled THEN Garbled ELSE packet)
                                       ELSE fifo[c]]
        BY DEF OnAir
    <2>2. InRange[b] \subseteq Boards
        BY DEF TextAssumption
    <2>3. PICK got \in SUBSET could :
              fifo' = [c \in Boards |-> IF c \in got
                                       THEN Append(fifo[c], IF garbled THEN Garbled ELSE packet)
                                       ELSE fifo[c]]
        BY <2>1
    <2>4. got \in SUBSET Boards /\ \A c \in got : Len(fifo[c]) < FifoDepth
        BY <2>2
    <2>5. CASE garbled = TRUE
        BY <2>3, <2>4, <2>5
    <2>6. CASE garbled = FALSE
        BY <2>3, <2>4, <2>6
    <2>7. QED  BY <2>5, <2>6
<1>4. PICK got \in SUBSET Boards :
          /\ \A c \in got : Len(fifo[c]) < FifoDepth
          /\ fifo' = [c \in Boards |-> IF c \in got THEN Append(fifo[c], p) ELSE fifo[c]]
    BY <1>3
<1>5. /\ tx[b] \in Sending /\ tx[b].msg \in Messages /\ tx[b].chunk \in Nat \ {0}
      /\ packet \in Signal /\ begun[b] > 0 /\ tx[b].msg = outbox[b][begun[b]]
    BY <1>1, <1>2, PacketSent
<1> HIDE DEF packet
<1>6. p \in Signal
    BY <1>5 DEF Signal
<1>7. /\ outbox \in Outboxes /\ begun \in Counts(outbox) /\ begun \in [Boards -> Nat]
      /\ tx \in [Boards -> Sending \cup {Silent}] /\ fifo \in [Boards -> Seq(Signal)]
      /\ \A c \in Boards : Len(fifo[c]) <= FifoDepth /\ read[c] \in Seq(Signal)
    BY <1>1 DEF TextTypes, Counts
<1>8. tx' \in [Boards -> Sending \cup {Silent}]
      /\ tx'[b] \in Sending /\ tx'[b].msg = tx[b].msg /\ tx'[b].chunk = tx[b].chunk
      /\ \A c \in Boards : c # b => tx'[c] = tx[c]
    <2>1. [tx[b] EXCEPT !.copies = @ + 1] \in Sending
          /\ [tx[b] EXCEPT !.copies = @ + 1].msg = tx[b].msg
          /\ [tx[b] EXCEPT !.copies = @ + 1].chunk = tx[b].chunk
        BY <1>2, <1>5 DEF Sending
    <2>2. tx' = [tx EXCEPT ![b] = [tx[b] EXCEPT !.copies = @ + 1]]
        BY <1>2
    <2>3. QED  BY <1>7, <2>1, <2>2
<1>9. ASSUME NEW c \in Boards
      PROVE  fifo'[c] \in Seq(Signal) /\ Len(fifo'[c]) <= FifoDepth
    <2>1. FifoDepth \in Nat /\ Len(fifo[c]) \in Nat
        BY <1>7, LenProperties DEF TextAssumption
    <2>2. CASE c \in got
        BY <1>4, <1>6, <1>7, <2>1, <2>2, AppendProperties
    <2>3. CASE c \notin got
        BY <1>4, <1>7, <2>3
    <2>4. QED  BY <2>2, <2>3
<1>10. TextTypes'
    BY <1>1, <1>2, <1>4, <1>8, <1>9 DEF TextTypes
<1>11. Sent'
    <2> SUFFICES ASSUME NEW c \in Boards, tx'[c] # Silent
                 PROVE  /\ begun[c] > 0 /\ tx'[c].msg = outbox[c][begun[c]]
                        /\ tx'[c].chunk <= Chunks[tx'[c].msg]
        BY <1>2 DEF Sent
    <2>1. CASE c = b
        BY <1>1, <1>2, <1>8, <2>1 DEF Sent
    <2>2. CASE c # b
        BY <1>1, <1>8, <2>2 DEF Sent
    <2>3. QED  BY <2>1, <2>2
<1>12. NothingLeft'
    BY <1>1, <1>2 DEF NothingLeft
<1>13. InOrder'
    <2>1. Onward(begun, tx, begun', tx')
        <3> SUFFICES ASSUME NEW c \in Boards
                     PROVE  tx'[c] # Silent => tx[c] # Silent /\ tx[c].chunk <= tx'[c].chunk
            BY <1>2 DEF Onward
        <3>1. CASE c = b
            BY <1>2, <1>5, <1>8, <3>1
        <3>2. CASE c # b
            <4>1. tx[c] # Silent => tx[c].chunk \in Nat
                BY <1>7 DEF Sending
            <4>2. QED  BY <1>8, <3>2, <4>1
        <3>3. QED  BY <3>1, <3>2
    <2>2. PICK box \in Outboxes, n \in Counts(outbox), t \in [Boards -> Sending \cup {Silent}],
               t2 \in [Boards -> Sending \cup {Silent}] :
              box = outbox /\ n = begun /\ t = tx /\ t2 = tx'
        BY <1>7, <1>8
    <2>3. n \in [Boards -> Nat] /\ Onward(n, t, n, t2)
        BY <1>2, <1>7, <2>1, <2>2
    <2>4. ASSUME NEW s \in Seq(Signal), Clear(box, n, t, s)
          PROVE  Clear(box, n, t2, s)
        BY <2>3, <2>4, ClearStays
    <2>5. ASSUME NEW s \in Seq(Signal), Clear(box, n, t, s)
          PROVE  Clear(box, n, t, Append(s, p))
        <3>1. Spoken(box, n, t, p)
            <4>1. CASE p = Garbled
                BY <4>1 DEF Spoken
            <4>2. CASE p = packet
                <5>1. begun[b] \in Nat
                    BY <1>7
                <5>2. begun[b] \in 1..begun[b] /\ packet.msg = outbox[b][begun[b]]
                      /\ packet.chunk <= tx[b].chunk
                    BY <1>5, <5>1 DEF packet
                <5>3. QED  BY <2>2, <4>2, <5>2 DEF Spoken
            <4>3. QED  BY <4>1, <4>2
        <3>2. ASSUME NEW k \in DOMAIN s
              PROVE  NotAfter(box, s[k], p)
            <4>1. PICK q \in Signal : q = s[k]
                BY ElementOfSeq, LenProperties
            <4>2. Spoken(box, n, t, q)
                BY <2>5, <4>1 DEF Clear
            <4>3. CASE p = packet
                <5>1. n \in Counts(box) /\ n[b] > 0 /\ t[b] # Silent /\ t[b].msg = box[b][n[b]]
                    BY <1>2, <1>5, <2>2
                <5>2. NotAfter(box, q, [msg |-> t[b].msg, chunk |-> t[b].chunk])
                    BY <4>2, <5>1, BehindAll
                <5>3. QED  BY <2>2, <4>1, <4>3, <5>2 DEF packet
            <4>4. CASE p = Garbled
                <5>1. \A c \in Boards : \A y \in DOMAIN box[c] : p.msg # box[c][y]
                    BY <4>4, OutboxFacts DEF Garbled, TextAssumption
                <5>2. QED  BY <5>1 DEF NotAfter
            <4>5. QED  BY <4>3, <4>4
        <3>3. QED  BY <1>6, <2>5, <3>1, <3>2, ClearAppend
    <2>6. ASSUME NEW c \in Boards
          PROVE  Clear(outbox, begun, tx, Heard(c))'
        <3>1. read[c] \in Seq(Signal) /\ fifo[c] \in Seq(Signal) /\ read'[c] = read[c]
            BY <1>2, <1>7
        <3>2. Heard(c) \in Seq(Signal) /\ Clear(box, n, t, Heard(c))
            BY <1>1, <2>2, <3>1, ConcatProperties DEF Heard, InOrder
        <3>3. PICK s \in Seq(Signal) : s = Heard(c) /\ Clear(box, n, t, s)
            BY <3>2
        <3>4. Heard(c)' = s \/ Heard(c)' = Append(s, p)
            <4>1. CASE c \in got
                <5>1. fifo'[c] = Append(fifo[c], p)
                    BY <1>4, <4>1
                <5>2. read[c] \o Append(fifo[c], p) = Append(read[c] \o fifo[c], p)
                    <6>1. PICK r \in Seq(Signal), f \in Seq(Signal) : r = read[c] /\ f = fifo[c]
                        BY <3>1
                    <6>2. r \o Append(f, p) = Append(r \o f, p)
                        BY <1>6, ConcatAppend
                    <6>3. QED  BY <6>1, <6>2
                <5>3. QED  BY <3>1, <3>3, <5>1, <5>2 DEF Heard
            <4>2. CASE c \notin got
                BY <1>4, <3>1, <3>3, <4>2 DEF Heard
            <4>3. QED  BY <4>1, <4>2
        <3>5. Append(s, p) \in Seq(Signal) /\ Clear(box, n, t, Append(s, p))
            BY <1>6, <2>5, <3>3, AppendProperties
        <3>6. Clear(box, n, t2, s) /\ Clear(box, n, t2, Append(s, p))
            BY <2>4, <3>3, <3>5
        <3>7. QED  BY <1>2, <2>2, <3>4, <3>6
    <2>7. QED  BY <2>6 DEF InOrder
<1>14. Read'
    BY <1>1, <1>2, ReadStays
<1>15. QED  BY <1>10, <1>11, <1>12, <1>13, <1>14 DEF TextsInv

\* The next chunk, or the end of the message.
LEMMA SucceedsKeeps ==
    ASSUME TextAssumption, TextsInv, NEW b \in Boards, Succeeds(b)
    PROVE  TextsInv'
<1>1. TextTypes /\ Sent /\ NothingLeft /\ InOrder /\ Read
    BY DEF TextsInv
<1>2. /\ tx[b] # Silent
      /\ \/ /\ tx[b].chunk < Chunks[tx[b].msg]
            /\ tx' = [tx EXCEPT ![b] = [msg |-> tx[b].msg, chunk |-> tx[b].chunk + 1,
                                       attempt |-> 1, copies |-> 0]]
         \/ tx' = [tx EXCEPT ![b] = Silent]
      /\ \/ UNCHANGED <<listening, fifo>>
         \/ EnterRx(b)
      /\ UNCHANGED <<outbox, begun, assembler, pass, printed, executed, read>>
    BY DEF Succeeds
<1>3. /\ tx[b] \in Sending /\ tx[b].msg \in Messages /\ tx[b].chunk \in Nat \ {0}
      /\ begun[b] > 0 /\ tx[b].msg = outbox[b][begun[b]]
    BY <1>1, <1>2, PacketSent
<1>4. /\ tx \in [Boards -> Sending \cup {Silent}] /\ fifo \in [Boards -> Seq(Signal)]
      /\ \A c \in Boards : Len(fifo[c]) <= FifoDepth /\ read[c] \in Seq(Signal)
    BY <1>1 DEF TextTypes
<1>5. \A c \in Boards : c # b => tx'[c] = tx[c]
    BY <1>2, <1>4
<1>6. PICK m \in Messages, k \in Nat \ {0}, l \in Nat \ {0} :
          m = tx[b].msg /\ k = tx[b].chunk /\ l = Chunks[m]
    BY <1>3 DEF TextAssumption
<1>7. \/ k < l /\ tx'[b] = [msg |-> m, chunk |-> k + 1, attempt |-> 1, copies |-> 0]
      \/ tx'[b] = Silent
    BY <1>2, <1>4, <1>6
<1>8. ASSUME tx'[b] # Silent
      PROVE  tx'[b] \in Sending /\ tx'[b].msg = m /\ tx'[b].chunk = k + 1 /\ k < l
    <2>1. MaxAttempts \in Nat \ {0}
        BY DEF TextAssumption
    <2>2. QED  BY <1>3, <1>6, <1>7, <1>8, <2>1 DEF Sending
<1>9. tx' \in [Boards -> Sending \cup {Silent}]
    <2>1. tx'[b] \in Sending \cup {Silent}
        BY <1>8
    <2>2. tx' = [tx EXCEPT ![b] = tx'[b]]
        BY <1>2, <1>4
    <2>3. QED  BY <1>4, <2>1, <2>2
<1>10. /\ listening' \in [Boards -> BOOLEAN] /\ fifo' \in [Boards -> Seq(Signal)]
       /\ \A c \in Boards : fifo'[c] \in {fifo[c], <<>>} /\ Len(fifo'[c]) <= FifoDepth
    <2>1. listening \in [Boards -> BOOLEAN] /\ FifoDepth \in Nat
        BY <1>1 DEF TextTypes, TextAssumption
    <2>2. <<>> \in Seq(Signal) /\ Len(<<>>) <= FifoDepth
        BY <2>1
    <2>3. CASE UNCHANGED <<listening, fifo>>
        BY <1>4, <2>1, <2>3
    <2>4. CASE EnterRx(b)
        <3>1. fifo' = [fifo EXCEPT ![b] = <<>>] /\ listening' = [listening EXCEPT ![b] = TRUE]
            BY <2>4 DEF EnterRx
        <3>2. fifo'[b] = <<>> /\ \A c \in Boards : c # b => fifo'[c] = fifo[c]
            BY <1>4, <3>1
        <3>3. fifo' \in [Boards -> Seq(Signal)]
            BY <1>4, <2>2, <3>1
        <3>4. ASSUME NEW c \in Boards
              PROVE  fifo'[c] \in {fifo[c], <<>>} /\ Len(fifo'[c]) <= FifoDepth
            BY <1>4, <2>2, <3>2
        <3>5. QED  BY <2>1, <3>1, <3>3, <3>4
    <2>5. QED  BY <1>2, <2>3, <2>4
<1>11. TextTypes'
    BY <1>1, <1>2, <1>9, <1>10 DEF TextTypes
<1>12. Sent'
    <2> SUFFICES ASSUME NEW c \in Boards, tx'[c] # Silent
                 PROVE  /\ begun[c] > 0 /\ tx'[c].msg = outbox[c][begun[c]]
                        /\ tx'[c].chunk <= Chunks[tx'[c].msg]
        BY <1>2 DEF Sent
    <2>1. CASE c = b
        BY <1>3, <1>6, <1>8, <2>1
    <2>2. CASE c # b
        BY <1>1, <1>5, <2>2 DEF Sent
    <2>3. QED  BY <2>1, <2>2
<1>13. NothingLeft'
    BY <1>1, <1>2 DEF NothingLeft
<1>14. InOrder'
    <2>1. Onward(begun, tx, begun', tx')
        <3> SUFFICES ASSUME NEW c \in Boards
                     PROVE  tx'[c] # Silent => tx[c] # Silent /\ tx[c].chunk <= tx'[c].chunk
            BY <1>2 DEF Onward
        <3>1. CASE c = b
            BY <1>2, <1>6, <1>8, <3>1
        <3>2. CASE c # b
            <4>1. tx[c] # Silent => tx[c].chunk \in Nat
                BY <1>4 DEF Sending
            <4>2. QED  BY <1>5, <3>2, <4>1
        <3>3. QED  BY <3>1, <3>2
    <2>2. \A c \in Boards : Heard(c)' \in {Heard(c), read[c]}
        BY <1>2, <1>4, <1>10, ConcatEmptySeq DEF Heard
    <2>3. QED  BY <1>1, <1>2, <1>11, <2>1, <2>2, InOrderStays
<1>15. Read'
    BY <1>1, <1>2, ReadStays
<1>16. QED  BY <1>11, <1>12, <1>13, <1>14, <1>15 DEF TextsInv

\* Another try, or the message is given up.
LEMMA FailsKeeps ==
    ASSUME TextAssumption, TextsInv, NEW b \in Boards, Fails(b)
    PROVE  TextsInv'
<1>1. TextTypes /\ Sent /\ NothingLeft /\ InOrder /\ Read
    BY DEF TextsInv
<1>2. /\ tx[b] # Silent
      /\ \/ /\ tx[b].attempt < MaxAttempts
            /\ tx' = [tx EXCEPT ![b] = [msg |-> tx[b].msg, chunk |-> tx[b].chunk,
                                       attempt |-> tx[b].attempt + 1, copies |-> 0]]
         \/ tx' = [tx EXCEPT ![b] = Silent]
      /\ UNCHANGED <<outbox, begun, listening, fifo, assembler, pass, printed, executed, read>>
    BY DEF Fails
<1>3. tx[b] \in Sending /\ tx[b].chunk \in Nat \ {0}
    BY <1>1, <1>2, PacketSent
<1>4. tx \in [Boards -> Sending \cup {Silent}]
    BY <1>1 DEF TextTypes
<1>5. \A c \in Boards : c # b => tx'[c] = tx[c]
    BY <1>2, <1>4
<1>6. PICK n \in Nat : n = tx[b].attempt
    BY <1>3 DEF Sending
<1>7. \/ /\ n < MaxAttempts
         /\ tx'[b] = [msg |-> tx[b].msg, chunk |-> tx[b].chunk, attempt |-> n + 1, copies |-> 0]
      \/ tx'[b] = Silent
    BY <1>2, <1>4, <1>6
<1>8. ASSUME tx'[b] # Silent
      PROVE  tx'[b] \in Sending /\ tx'[b].msg = tx[b].msg /\ tx'[b].chunk = tx[b].chunk
    <2>1. MaxAttempts \in Nat \ {0}
        BY DEF TextAssumption
    <2>2. QED  BY <1>3, <1>6, <1>7, <1>8, <2>1 DEF Sending
<1>9. tx' \in [Boards -> Sending \cup {Silent}]
    <2>1. tx'[b] \in Sending \cup {Silent}
        BY <1>8
    <2>2. tx' = [tx EXCEPT ![b] = tx'[b]]
        BY <1>2, <1>4
    <2>3. QED  BY <1>4, <2>1, <2>2
<1>10. TextTypes'
    BY <1>1, <1>2, <1>9 DEF TextTypes
<1>11. Sent'
    <2> SUFFICES ASSUME NEW c \in Boards, tx'[c] # Silent
                 PROVE  /\ begun[c] > 0 /\ tx'[c].msg = outbox[c][begun[c]]
                        /\ tx'[c].chunk <= Chunks[tx'[c].msg]
        BY <1>2 DEF Sent
    <2>1. tx[c] # Silent /\ tx'[c].msg = tx[c].msg /\ tx'[c].chunk = tx[c].chunk
        BY <1>2, <1>5, <1>8
    <2>2. QED  BY <1>1, <2>1 DEF Sent
<1>12. NothingLeft'
    BY <1>1, <1>2 DEF NothingLeft
<1>13. InOrder'
    <2>1. Onward(begun, tx, begun', tx')
        <3> SUFFICES ASSUME NEW c \in Boards
                     PROVE  tx'[c] # Silent => tx[c] # Silent /\ tx[c].chunk <= tx'[c].chunk
            BY <1>2 DEF Onward
        <3>1. CASE c = b
            BY <1>2, <1>3, <1>8, <3>1
        <3>2. CASE c # b
            <4>1. tx[c] # Silent => tx[c].chunk \in Nat
                BY <1>4 DEF Sending
            <4>2. QED  BY <1>5, <3>2, <4>1
        <3>3. QED  BY <3>1, <3>2
    <2>2. \A c \in Boards : Heard(c)' \in {Heard(c), read[c]}
        BY <1>2 DEF Heard
    <2>3. QED  BY <1>1, <1>2, <1>10, <2>1, <2>2, InOrderStays
<1>14. Read'
    BY <1>1, <1>2, ReadStays
<1>15. QED  BY <1>10, <1>11, <1>12, <1>13, <1>14 DEF TextsInv

-----------------------------------------------------------------------------
(* The steps of a board that listens.                                      *)

\* Nothing is sent.
LEMMA SentStays ==
    ASSUME Sent, UNCHANGED <<outbox, begun, tx>>
    PROVE  Sent'
BY DEF Sent

\* STOP.
LEMMA StopKeeps ==
    ASSUME TextAssumption, TextsInv, NEW b \in Boards, CommandStop(b)
    PROVE  TextsInv'
<1>1. TextTypes /\ Sent /\ NothingLeft /\ InOrder /\ Read
    BY DEF TextsInv
<1>2. /\ listening' = [listening EXCEPT ![b] = FALSE]
      /\ UNCHANGED <<outbox, begun, tx, fifo, assembler, pass, printed, executed, read>>
    BY DEF CommandStop
<1>3. TextTypes'
    BY <1>1, <1>2 DEF TextTypes
<1>4. NothingLeft'
    BY <1>1, <1>2 DEF NothingLeft
<1>5. InOrder'
    <2>1. \A c \in Boards : Heard(c)' = Heard(c)
        BY <1>2 DEF Heard
    <2>2. QED  BY <1>1, <1>2, <1>3, <2>1, SendersIdle, InOrderStays
<1>6. QED  BY <1>1, <1>2, <1>3, <1>4, <1>5, SentStays, ReadStays DEF TextsInv

\* A new session: what was read before is cut off.
LEMMA RxKeeps ==
    ASSUME TextAssumption, IdsTell, TextsInv, NEW b \in Boards, CommandRx(b)
    PROVE  TextsInv'
<1>1. TextTypes /\ Sent /\ NothingLeft /\ InOrder /\ Read
    BY DEF TextsInv
<1>2. /\ listening' = [listening EXCEPT ![b] = TRUE]
      /\ fifo' = [fifo EXCEPT ![b] = <<>>]
      /\ assembler' = [assembler EXCEPT ![b] = NoText]
      /\ read' = [read EXCEPT ![b] = IF @ = <<>> THEN @ ELSE Append(@, Garbled)]
      /\ UNCHANGED <<outbox, begun, tx, pass, printed, executed>>
    BY DEF CommandRx, EnterRx
<1>3. /\ fifo \in [Boards -> Seq(Signal)] /\ read \in [Boards -> Seq(Signal)]
      /\ DOMAIN assembler = Boards /\ FifoDepth \in Nat
    BY <1>1 DEF TextTypes, TextAssumption
<1>4. /\ fifo'[b] = <<>> /\ assembler'[b] = NoText
      /\ read'[b] = IF read[b] = <<>> THEN read[b] ELSE Append(read[b], Garbled)
      /\ \A c \in Boards : c # b => /\ fifo'[c] = fifo[c] /\ read'[c] = read[c]
                                    /\ assembler'[c] = assembler[c]
    BY <1>2, <1>3
<1>5. Garbled \in Signal
    BY DEF Signal
<1>6. read'[b] \in Seq(Signal)
    BY <1>3, <1>4, <1>5, AppendProperties
<1>7. TextTypes'
    <2>1. fifo' \in [Boards -> Seq(Signal)] /\ \A c \in Boards : Len(fifo'[c]) <= FifoDepth
        <3>1. \A c \in Boards : Len(fifo[c]) <= FifoDepth
            BY <1>1 DEF TextTypes
        <3>2. <<>> \in Seq(Signal) /\ Len(<<>>) <= FifoDepth
            BY <1>3
        <3>3. QED  BY <1>2, <1>3, <3>1, <3>2
    <2>2. read' \in [Boards -> Seq(Signal)]
        <3>1. read' = [read EXCEPT ![b] = read'[b]]
            BY <1>2, <1>3
        <3>2. QED  BY <1>3, <1>6, <3>1
    <2>3. DOMAIN assembler' = Boards
        BY <1>2, <1>3
    <2>4. QED  BY <1>1, <1>2, <2>1, <2>2, <2>3 DEF TextTypes
<1>8. NothingLeft'
    BY <1>1, <1>2 DEF NothingLeft
<1>9. InOrder'
    <2> SUFFICES ASSUME NEW c \in Boards
                 PROVE  Clear(outbox, begun, tx, read'[c] \o fifo'[c])
        BY <1>2 DEF InOrder, Heard
    <2>1. Clear(outbox, begun, tx, read[c] \o fifo[c])
        BY <1>1 DEF InOrder, Heard
    <2>2. PICK box \in Outboxes, n \in Counts(outbox), t \in [Boards -> Sending \cup {Silent}] :
              box = outbox /\ n = begun /\ t = tx
        BY <1>1 DEF TextTypes
    <2>3. CASE c # b
        BY <1>4, <2>1, <2>3
    <2>4. CASE c = b
        <3>1. PICK r \in Seq(Signal), f \in Seq(Signal) : r = read[b] /\ f = fifo[b]
            BY <1>3
        <3>2. Clear(box, n, t, r \o f)
            BY <2>1, <2>2, <2>4, <3>1
        <3>3. Clear(box, n, t, r)
            BY <3>2, ClearPart
        <3>4. Spoken(box, n, t, Garbled) /\ \A k \in DOMAIN r : NotAfter(box, r[k], Garbled)
            <4>1. \A a \in Boards : \A y \in DOMAIN box[a] : Garbled.msg # box[a][y]
                BY OutboxFacts DEF Garbled, TextAssumption
            <4>2. QED  BY <4>1 DEF NotAfter, Spoken
        <3>5. Clear(box, n, t, Append(r, Garbled))
            BY <1>5, <3>3, <3>4, ClearAppend
        <3>6. Clear(box, n, t, read'[b])
            BY <1>4, <3>1, <3>3, <3>5
        <3>7. read'[b] \o <<>> = read'[b]
            BY <1>6, ConcatEmptySeq
        <3>8. QED  BY <1>4, <2>2, <2>4, <3>6, <3>7
    <2>5. QED  BY <2>3, <2>4
<1>10. Read'
    <2> SUFFICES ASSUME NEW c \in Boards
                 PROVE  Reader(assembler[c], read[c], Said(c), Ran(c))'
        BY DEF Read
    <2>1. Said(c)' = Said(c) /\ Ran(c)' = Ran(c)
        BY <1>2 DEF Said, Ran
    <2>2. Reader(assembler[c], read[c], Said(c), Ran(c))
        BY <1>1 DEF Read
    <2>3. CASE c # b
        BY <1>4, <2>1, <2>2, <2>3
    <2>4. CASE c = b /\ read[b] # <<>>
        <3>1. PICK r \in Seq(Signal) : r = read[b]
            BY <1>3
        <3>2. PICK asm, said, ran : asm = assembler[b] /\ said = Said(b) /\ ran = Ran(b)
            OBVIOUS
        <3>3. Reader(asm, r, said, ran)
            BY <2>2, <2>4, <3>1, <3>2
        <3>4. Reader(NoText, Append(r, Garbled), said, ran)
            BY <3>3, HearsCut
        <3>5. QED  BY <1>4, <2>1, <2>4, <3>1, <3>2, <3>4
    <2>5. CASE c = b /\ read[b] = <<>>
        <3>1. /\ Said(b) = TextsOf(Kept(<<>>)) /\ Ran(b) = CommandsRead(<<>>)
            BY <2>2, <2>5 DEF Reader
        <3>2. <<>> = TextsOf(Kept(<<>>)) /\ <<>> = CommandsRead(<<>>)
            BY ReaderStarts DEF Reader
        <3>3. Reader(NoText, <<>>, Said(b), Ran(b))
            BY <3>1, <3>2, ReaderStarts
        <3>4. QED  BY <1>4, <2>1, <2>5, <3>3
    <2>6. QED  BY <2>3, <2>4, <2>5
<1>11. QED  BY <1>1, <1>2, <1>7, <1>8, <1>9, <1>10, SentStays DEF TextsInv

\* A pass begins.
LEMMA PassBeginsKeeps ==
    ASSUME TextAssumption, TextsInv, NEW b \in Boards, PassBegins(b) \/ PassEnds(b)
    PROVE  TextsInv'
<1>1. TextTypes /\ Sent /\ NothingLeft /\ InOrder /\ Read
    BY DEF TextsInv
<1>2. PICK at \in {"draining", "handing"} : pass' = [pass EXCEPT ![b].at = at]
    BY DEF PassBegins, PassEnds
<1>3. UNCHANGED <<outbox, begun, tx, listening, fifo, assembler, printed, executed, read>>
    BY DEF PassBegins, PassEnds
<1>4. pass \in [Boards -> Passing]
    BY <1>1 DEF TextTypes
<1>5. pass[b] \in Passing
    BY <1>4
<1>6. [pass[b] EXCEPT !.at = at] \in Passing /\ [pass[b] EXCEPT !.at = at].at = at
      /\ [pass[b] EXCEPT !.at = at].texts = pass[b].texts
      /\ [pass[b] EXCEPT !.at = at].command = pass[b].command
    BY <1>5 DEF Passing
<1>7. pass' \in [Boards -> Passing] /\ pass'[b].at = at /\ pass'[b].texts = pass[b].texts
      /\ pass'[b].command = pass[b].command
      /\ \A c \in Boards : c # b => pass'[c] = pass[c]
    BY <1>2, <1>4, <1>6
<1>8. TextTypes'
    BY <1>1, <1>3, <1>7 DEF TextTypes
<1>9. NothingLeft'
    BY <1>1, <1>7 DEF NothingLeft
<1>10. InOrder'
    <2>1. \A c \in Boards : Heard(c)' = Heard(c)
        BY <1>3 DEF Heard
    <2>2. QED  BY <1>1, <1>3, <1>8, <2>1, SendersIdle, InOrderStays
<1>11. \A c \in Boards : pass'[c].texts = pass[c].texts /\ pass'[c].command = pass[c].command
    BY <1>7
<1>12. Read'
    BY <1>1, <1>3, <1>11, ReadStays
<1>13. QED  BY <1>1, <1>3, <1>8, <1>9, <1>10, <1>12, SentStays DEF TextsInv

-----------------------------------------------------------------------------
(* The steps of a pass.                                                    *)

\* The first of one sequence moves behind another: together they stay.
LEMMA HeadMoves ==
    ASSUME NEW S, NEW r \in Seq(S), NEW f \in Seq(S), f # <<>>
    PROVE  /\ Head(f) \in S /\ Tail(f) \in Seq(S) /\ Len(Tail(f)) = Len(f) - 1
           /\ Append(r, Head(f)) \o Tail(f) = r \o f
<1> DEFINE h == Head(f)  rest == Tail(f)
<1>1. h \in S /\ rest \in Seq(S) /\ Len(rest) = Len(f) - 1
      /\ \A i \in 1..Len(rest) : rest[i] = f[i + 1]
    BY HeadTailProperties
<1>2. h = f[1] /\ Len(f) \in Nat /\ Len(f) # 0
    BY LenProperties, EmptySeq
<1> HIDE DEF h, rest
<1>3. <<h>> \in Seq(S) /\ Len(<<h>>) = 1 /\ <<h>>[1] = h
    BY <1>1
<1>4. <<h>> \o rest = f
    <2>1. /\ <<h>> \o rest \in Seq(S) /\ Len(<<h>> \o rest) = 1 + Len(rest)
          /\ \A i \in 1..1 : (<<h>> \o rest)[i] = <<h>>[i]
          /\ \A i \in 1 + 1..1 + Len(rest) : (<<h>> \o rest)[i] = rest[i - 1]
        BY <1>1, <1>3, ConcatProperties
    <2>2. Len(<<h>> \o rest) = Len(f)
        BY <1>1, <1>2, <2>1
    <2>3. ASSUME NEW i \in 1..Len(f)
          PROVE  (<<h>> \o rest)[i] = f[i]
        <3>1. CASE i = 1
            BY <1>2, <1>3, <2>1, <3>1
        <3>2. CASE i # 1
            <4>1. PICK j \in Nat : j = i - 1 /\ j + 1 = i /\ j \in 1..Len(rest)
                <5>1. i - 1 \in Nat /\ (i - 1) + 1 = i /\ i - 1 \in 1..Len(rest)
                    BY <1>1, <1>2, <3>2
                <5>2. QED  BY <5>1
            <4>2. i \in 1 + 1..1 + Len(rest)
                BY <1>1, <1>2, <3>2
            <4>3. (<<h>> \o rest)[i] = rest[j]
                BY <2>1, <4>1, <4>2
            <4>4. QED  BY <1>1, <4>1, <4>3
        <3>3. QED  BY <3>1, <3>2
    <2>4. QED  BY <2>1, <2>2, <2>3, SeqEqual
<1>5. Append(r, h) = r \o <<h>>
    BY <1>1, AppendIsConcat
<1>6. Append(r, h) \o rest = r \o f
    <2>1. (r \o <<h>>) \o rest = r \o (<<h>> \o rest)
        BY <1>1, <1>3, ConcatAssociative
    <2>2. QED  BY <1>4, <1>5, <2>1
<1>7. QED  BY <1>1, <1>6 DEF h, rest

\* A packet moves from what is heard to what is read.
LEMMA HeardStays ==
    ASSUME TextAssumption, TextTypes, NEW b \in Boards, fifo[b] # <<>>,
           fifo' = [fifo EXCEPT ![b] = Tail(@)],
           read' = [read EXCEPT ![b] = Append(@, Head(fifo[b]))]
    PROVE  /\ fifo' \in [Boards -> Seq(Signal)] /\ \A c \in Boards : Len(fifo'[c]) <= FifoDepth
           /\ read' \in [Boards -> Seq(Signal)]
           /\ read'[b] = Append(read[b], Head(fifo[b]))
           /\ Head(fifo[b]) \in Signal
           /\ \A c \in Boards : c # b => read'[c] = read[c]
           /\ \A c \in Boards : Heard(c)' = Heard(c)
<1>1. /\ fifo \in [Boards -> Seq(Signal)] /\ read \in [Boards -> Seq(Signal)]
      /\ \A c \in Boards : Len(fifo[c]) <= FifoDepth
    BY DEF TextTypes
<1>2. PICK r \in Seq(Signal), f \in Seq(Signal) : r = read[b] /\ f = fifo[b] /\ f # <<>>
    BY <1>1
<1>3. /\ Head(f) \in Signal /\ Tail(f) \in Seq(Signal) /\ Len(Tail(f)) = Len(f) - 1
      /\ Append(r, Head(f)) \o Tail(f) = r \o f
    <2>1. f # <<>>
        BY <1>2
    <2>2. QED  BY <2>1, HeadMoves, Zenon
<1>4. fifo' = [fifo EXCEPT ![b] = Tail(f)] /\ read' = [read EXCEPT ![b] = Append(r, Head(f))]
    BY <1>1, <1>2
<1>5. Append(r, Head(f)) \in Seq(Signal)
    BY <1>3, AppendProperties
<1>6. fifo' \in [Boards -> Seq(Signal)] /\ read' \in [Boards -> Seq(Signal)]
    BY <1>1, <1>3, <1>4, <1>5
<1>7. fifo'[b] = Tail(f) /\ read'[b] = Append(r, Head(f))
      /\ \A c \in Boards : c # b => fifo'[c] = fifo[c] /\ read'[c] = read[c]
    BY <1>1, <1>4
<1>8. \A c \in Boards : Len(fifo'[c]) <= FifoDepth
    <2>1. Len(f) \in Nat /\ Len(f) <= FifoDepth /\ FifoDepth \in Nat
        BY <1>1, <1>2, LenProperties DEF TextAssumption
    <2>2. Len(Tail(f)) <= FifoDepth
        BY <1>3, <2>1
    <2>3. QED  BY <1>1, <1>7, <2>2
<1>9. \A c \in Boards : Heard(c)' = Heard(c)
    BY <1>2, <1>3, <1>7 DEF Heard
<1>10. QED  BY <1>2, <1>3, <1>6, <1>7, <1>8, <1>9

\* The assembler takes one packet.
LEMMA ReadsTextKeeps ==
    ASSUME TextAssumption, IdsTell, TextsInv, NEW b \in Boards, ReadsText(b)
    PROVE  TextsInv'
<1>1. TextTypes /\ Sent /\ NothingLeft /\ InOrder /\ Read
    BY DEF TextsInv
<1> DEFINE r == Accept(assembler[b], Head(fifo[b]))
<1>2. /\ pass[b].at = "draining" /\ fifo[b] # <<>> /\ pass[b].count < DrainMax
      /\ Head(fifo[b]).msg \notin Remote
      /\ assembler' = [assembler EXCEPT ![b] = r.asm]
      /\ pass' = [pass EXCEPT ![b].count = @ + 1,
                             ![b].texts = IF r.done = <<>> THEN @ ELSE Append(@, r.done)]
      /\ read' = [read EXCEPT ![b] = Append(@, Head(fifo[b]))]
      /\ fifo' = [fifo EXCEPT ![b] = Tail(@)]
      /\ UNCHANGED <<outbox, begun, tx, listening, printed, executed>>
    BY DEF ReadsText, MayRead
<1>3. /\ fifo' \in [Boards -> Seq(Signal)] /\ \A c \in Boards : Len(fifo'[c]) <= FifoDepth
      /\ read' \in [Boards -> Seq(Signal)]
      /\ read'[b] = Append(read[b], Head(fifo[b])) /\ Head(fifo[b]) \in Signal
      /\ \A c \in Boards : c # b => read'[c] = read[c]
      /\ \A c \in Boards : Heard(c)' = Heard(c)
    BY <1>1, <1>2, HeardStays
<1>4. /\ pass \in [Boards -> Passing] /\ pass[b] \in Passing /\ DOMAIN assembler = Boards
      /\ read[b] \in Seq(Signal) /\ fifo[b] \in Seq(Signal)
      /\ printed[b] \in Seq(Texting) /\ outbox \in Outboxes /\ begun \in Counts(outbox)
    BY <1>1 DEF TextTypes
\* What the board makes of the packet.
<1>5. PICK box \in Outboxes, packets \in Seq(Signal), rest \in Seq(Signal), p \in Signal :
          box = outbox /\ packets = read[b] /\ rest = fifo[b] /\ p = Head(fifo[b])
    BY <1>3, <1>4
<1>6. PICK n, t, asm, said, ran :
          n = begun /\ t = tx /\ asm = assembler[b] /\ said = Said(b) /\ ran = Ran(b)
    OBVIOUS
<1>7. /\ box = outbox /\ packets = read[b] /\ rest = fifo[b] /\ p = Head(fifo[b])
      /\ n = begun /\ t = tx /\ asm = assembler[b] /\ said = Said(b) /\ ran = Ran(b)
    BY <1>5, <1>6
<1>8. Reader(asm, packets, said, ran) /\ Clear(box, n, t, packets \o rest) /\ n \in Counts(box)
      /\ rest # <<>> /\ p = Head(rest) /\ p.msg \notin Remote
    BY <1>1, <1>2, <1>4, <1>7 DEF Read, InOrder, Heard
<1>9. ASSUME NEW q \in Signal, Texts(packets) # <<>>, q = Texts(packets)[Len(Texts(packets))],
             p # Garbled, q.msg = p.msg
      PROVE  q.chunk <= p.chunk
    BY <1>8, <1>9, NotOlder
<1>10. PICK a : a = Accept(asm, p)
    OBVIOUS
<1>11. a.done \in Texting
      /\ Reader(a.asm, Append(packets, p),
                IF a.done = <<>> THEN said ELSE Append(said, a.done), ran)
    BY <1>8, <1>9, <1>10, HearsText
<1>12. r = a
    BY <1>7, <1>10
<1> HIDE DEF r
\* The pass.
<1>13. PICK at \in {"none", "draining", "handing"}, k \in 0..DrainMax, texts \in Seq(Texting),
            cmd \in Messages \cup {NoMessage} :
           pass[b] = [at |-> at, count |-> k, texts |-> texts, command |-> cmd]
    BY <1>4 DEF Passing
<1>14. PICK more \in Seq(Texting) :
           more = IF a.done = <<>> THEN texts ELSE Append(texts, a.done)
    BY <1>11, AppendProperties
<1>15. pass' = [pass EXCEPT ![b] = [at |-> at, count |-> k + 1, texts |-> more, command |-> cmd]]
    <2>1. pass[b].count = k /\ pass[b].texts = texts
        BY <1>13
    <2>2. pass' = [pass EXCEPT ![b] = [pass[b] EXCEPT !.count = k + 1, !.texts = more]]
        BY <1>2, <1>4, <1>12, <1>14, <2>1
    <2>3. [pass[b] EXCEPT !.count = k + 1, !.texts = more] =
              [at |-> at, count |-> k + 1, texts |-> more, command |-> cmd]
        <3> DEFINE was == [at |-> at, count |-> k, texts |-> texts, command |-> cmd]
                   counted == [at |-> at, count |-> k + 1, texts |-> texts, command |-> cmd]
        <3>1. [was EXCEPT !.count = k + 1] = counted
            OBVIOUS
        <3>2. [counted EXCEPT !.texts = more] =
                  [at |-> at, count |-> k + 1, texts |-> more, command |-> cmd]
            OBVIOUS
        <3>3. [was EXCEPT !.count = k + 1, !.texts = more] = [counted EXCEPT !.texts = more]
            BY <3>1
        <3>4. QED  BY <1>13, <3>2, <3>3
    <2>4. QED  BY <2>2, <2>3
<1>16. /\ pass' \in [Boards -> Passing] /\ pass'[b].at = "draining"
       /\ pass'[b].texts = more /\ pass'[b].command = pass[b].command
       /\ \A c \in Boards : c # b => pass'[c] = pass[c]
    <2>1. DrainMax \in Nat /\ at = "draining" /\ k < DrainMax
        BY <1>2, <1>13 DEF TextAssumption
    <2>2. [at |-> at, count |-> k + 1, texts |-> more, command |-> cmd] \in Passing
        BY <2>1 DEF Passing
    <2>3. QED  BY <1>4, <1>13, <1>15, <2>1, <2>2
<1>17. TextTypes'
    BY <1>1, <1>2, <1>3, <1>4, <1>16 DEF TextTypes
<1>18. NothingLeft'
    BY <1>1, <1>16 DEF NothingLeft
<1>19. InOrder'
    BY <1>1, <1>2, <1>3, <1>17, SendersIdle, InOrderStays
<1>20. Read'
    <2> SUFFICES ASSUME NEW c \in Boards
                 PROVE  Reader(assembler[c], read[c], Said(c), Ran(c))'
        BY DEF Read
    <2>1. CASE c # b
        <3>1. assembler'[c] = assembler[c] /\ read'[c] = read[c] /\ Said(c)' = Said(c)
              /\ Ran(c)' = Ran(c)
            BY <1>2, <1>3, <1>4, <1>16, <2>1 DEF Said, Ran
        <3>2. Reader(assembler[c], read[c], Said(c), Ran(c))
            BY <1>1 DEF Read
        <3>3. QED  BY <3>1, <3>2
    <2>2. CASE c = b
        <3>1. assembler'[b] = a.asm /\ read'[b] = Append(packets, p) /\ Ran(b)' = ran
            <4>1. Ran(b)' = Ran(b)
                <5>1. executed' = executed /\ pass'[b].command = pass[b].command
                    BY <1>2, <1>16
                <5>2. QED  BY <5>1 DEF Ran
            <4>2. assembler'[b] = r.asm
                BY <1>2, <1>4
            <4>3. QED  BY <1>3, <1>7, <1>12, <4>1, <4>2
        <3>2. PICK shown \in Seq(Texting) : shown = printed[b]
            BY <1>4
        <3>3. said = shown \o texts
            <4>1. pass[b].texts = texts
                BY <1>13
            <4>2. QED  BY <1>7, <3>2, <4>1 DEF Said
        <3>4. Said(b)' = shown \o more
            BY <1>2, <1>16, <3>2 DEF Said
        <3>5. shown \o Append(texts, a.done) = Append(said, a.done)
            BY <1>11, <3>3, ConcatAppend
        <3>6. Said(b)' = IF a.done = <<>> THEN said ELSE Append(said, a.done)
            BY <1>14, <3>3, <3>4, <3>5
        <3>7. QED  BY <1>11, <2>2, <3>1, <3>6
    <2>3. QED  BY <2>1, <2>2
<1>21. QED  BY <1>1, <1>2, <1>17, <1>18, <1>19, <1>20, SentStays DEF TextsInv

\* The pass takes a command.
LEMMA ReadsCommandKeeps ==
    ASSUME TextAssumption, TextsInv, NEW b \in Boards, ReadsCommand(b)
    PROVE  TextsInv'
<1>1. TextTypes /\ Sent /\ NothingLeft /\ InOrder /\ Read
    BY DEF TextsInv
<1>2. /\ pass[b].at = "draining" /\ fifo[b] # <<>> /\ pass[b].count < DrainMax
      /\ pass[b].command = NoMessage /\ Head(fifo[b]).msg \in Remote
      /\ pass' = [pass EXCEPT ![b].count = @ + 1, ![b].command = Head(fifo[b]).msg]
      /\ read' = [read EXCEPT ![b] = Append(@, Head(fifo[b]))]
      /\ fifo' = [fifo EXCEPT ![b] = Tail(@)]
      /\ UNCHANGED <<outbox, begun, tx, listening, assembler, printed, executed>>
    BY DEF ReadsCommand, MayRead
<1>3. /\ fifo' \in [Boards -> Seq(Signal)] /\ \A c \in Boards : Len(fifo'[c]) <= FifoDepth
      /\ read' \in [Boards -> Seq(Signal)]
      /\ read'[b] = Append(read[b], Head(fifo[b])) /\ Head(fifo[b]) \in Signal
      /\ \A c \in Boards : c # b => read'[c] = read[c]
      /\ \A c \in Boards : Heard(c)' = Heard(c)
    BY <1>1, <1>2, HeardStays
<1>4. /\ pass \in [Boards -> Passing] /\ pass[b] \in Passing
      /\ read[b] \in Seq(Signal) /\ executed[b] \in Seq(Messages)
    BY <1>1 DEF TextTypes
<1>5. PICK m \in Messages : m = Head(fifo[b]).msg
    BY <1>2 DEF TextAssumption
<1>6. PICK at \in {"none", "draining", "handing"}, k \in 0..DrainMax, texts \in Seq(Texting),
           cmd \in Messages \cup {NoMessage} :
          pass[b] = [at |-> at, count |-> k, texts |-> texts, command |-> cmd]
    BY <1>4 DEF Passing
<1>7. pass' = [pass EXCEPT ![b] = [at |-> at, count |-> k + 1, texts |-> texts, command |-> m]]
    <2>1. pass[b].count = k
        BY <1>6
    <2>2. pass' = [pass EXCEPT ![b] = [pass[b] EXCEPT !.count = k + 1, !.command = m]]
        BY <1>2, <1>4, <1>5, <2>1
    <2>3. [pass[b] EXCEPT !.count = k + 1, !.command = m] =
              [at |-> at, count |-> k + 1, texts |-> texts, command |-> m]
        <3> DEFINE was == [at |-> at, count |-> k, texts |-> texts, command |-> cmd]
                   counted == [at |-> at, count |-> k + 1, texts |-> texts, command |-> cmd]
        <3>1. [was EXCEPT !.count = k + 1] = counted
            OBVIOUS
        <3>2. [counted EXCEPT !.command = m] =
                  [at |-> at, count |-> k + 1, texts |-> texts, command |-> m]
            OBVIOUS
        <3>3. [was EXCEPT !.count = k + 1, !.command = m] = [counted EXCEPT !.command = m]
            BY <3>1
        <3>4. QED  BY <1>6, <3>2, <3>3
    <2>4. QED  BY <2>2, <2>3
<1>8. /\ pass' \in [Boards -> Passing] /\ pass'[b].at = "draining"
      /\ pass'[b].texts = pass[b].texts /\ pass'[b].command = m
      /\ \A c \in Boards : c # b => pass'[c] = pass[c]
    <2>1. DrainMax \in Nat /\ at = "draining" /\ k < DrainMax
        BY <1>2, <1>6 DEF TextAssumption
    <2>2. [at |-> at, count |-> k + 1, texts |-> texts, command |-> m] \in Passing
        BY <2>1 DEF Passing
    <2>3. QED  BY <1>4, <1>6, <1>7, <2>1, <2>2
<1>9. TextTypes'
    BY <1>1, <1>2, <1>3, <1>8 DEF TextTypes
<1>10. NothingLeft'
    BY <1>1, <1>8 DEF NothingLeft
<1>11. InOrder'
    BY <1>1, <1>2, <1>3, <1>9, SendersIdle, InOrderStays
<1>12. Read'
    <2> SUFFICES ASSUME NEW c \in Boards
                 PROVE  Reader(assembler[c], read[c], Said(c), Ran(c))'
        BY DEF Read
    <2>1. Said(c)' = Said(c)
        BY <1>2, <1>8 DEF Said
    <2>2. Reader(assembler[c], read[c], Said(c), Ran(c))
        BY <1>1 DEF Read
    <2>3. CASE c # b
        <3>1. read'[c] = read[c] /\ Ran(c)' = Ran(c)
            BY <1>2, <1>3, <1>8, <2>3 DEF Ran
        <3>2. QED  BY <1>2, <2>1, <2>2, <3>1
    <2>4. CASE c = b
        <3>1. PICK packets \in Seq(Signal), p \in Signal, ran \in Seq(Messages) :
                  packets = read[b] /\ p = Head(fifo[b]) /\ ran = executed[b]
            BY <1>3, <1>4
        <3>2. PICK asm, said : asm = assembler[b] /\ said = Said(b)
            OBVIOUS
        <3>3. /\ packets = read[b] /\ asm = assembler[b] /\ said = Said(b)
              /\ p = Head(fifo[b]) /\ ran = executed[b]
            BY <3>1, <3>2
        <3>4. Ran(b) = ran
            BY <1>2, <3>3, ConcatEmptySeq DEF Ran
        <3>5. Reader(asm, packets, said, ran)
            BY <2>2, <2>4, <3>3, <3>4
        <3>6. Reader(asm, Append(packets, p), said, Append(ran, m))
            BY <1>2, <1>5, <3>3, <3>5, HearsCommand
        <3>7. Ran(b)' = Append(ran, m)
            <4>1. m # NoMessage
                BY DEF TextAssumption
            <4>2. Ran(b)' = ran \o <<m>>
                BY <1>2, <1>8, <3>3, <4>1 DEF Ran
            <4>3. QED  BY <4>2, AppendIsConcat
        <3>8. QED  BY <1>2, <1>3, <2>1, <2>4, <3>3, <3>6, <3>7
    <2>5. QED  BY <2>3, <2>4
<1>13. QED  BY <1>1, <1>2, <1>9, <1>10, <1>11, <1>12, SentStays DEF TextsInv

\* The command is run, the texts are printed.
LEMMA HandsOverKeeps ==
    ASSUME TextAssumption, TextsInv, NEW b \in Boards, HandsOver(b)
    PROVE  TextsInv'
<1>1. TextTypes /\ Sent /\ NothingLeft /\ InOrder /\ Read
    BY DEF TextsInv
<1>2. /\ executed' = [executed EXCEPT ![b] = IF pass[b].command = NoMessage THEN @
                                            ELSE Append(@, pass[b].command)]
      /\ printed' = [printed EXCEPT ![b] = @ \o pass[b].texts]
      /\ pass' = [pass EXCEPT ![b] = NoPass]
      /\ UNCHANGED <<outbox, begun, tx, listening, fifo, assembler, read>>
    BY DEF HandsOver
<1>3. /\ pass \in [Boards -> Passing] /\ printed \in [Boards -> Seq(Texting)]
      /\ executed \in [Boards -> Seq(Messages)]
    BY <1>1 DEF TextTypes
<1>4. PICK texts \in Seq(Texting), cmd \in Messages \cup {NoMessage}, shown \in Seq(Texting),
           ran \in Seq(Messages) :
          /\ texts = pass[b].texts /\ cmd = pass[b].command /\ shown = printed[b]
          /\ ran = executed[b]
    BY <1>3 DEF Passing
<1>5. /\ printed'[b] = shown \o texts
      /\ executed'[b] = IF cmd = NoMessage THEN ran ELSE Append(ran, cmd)
      /\ pass'[b] = NoPass
      /\ \A c \in Boards : c # b => /\ printed'[c] = printed[c] /\ executed'[c] = executed[c]
                                    /\ pass'[c] = pass[c]
    BY <1>2, <1>3, <1>4
<1>6. shown \o texts \in Seq(Texting)
    BY ConcatProperties
<1>7. ASSUME cmd # NoMessage
      PROVE  Append(ran, cmd) \in Seq(Messages) /\ Append(ran, cmd) = ran \o <<cmd>>
    <2>1. cmd \in Messages
        BY <1>7
    <2>2. QED  BY <2>1, AppendProperties, AppendIsConcat
<1>8. TextTypes'
    <2>1. pass' \in [Boards -> Passing]
        BY <1>2, <1>3, NoPassType
    <2>2. printed' \in [Boards -> Seq(Texting)]
        <3>1. printed' = [printed EXCEPT ![b] = shown \o texts]
            BY <1>2, <1>4
        <3>2. QED  BY <1>3, <1>6, <3>1
    <2>3. executed' \in [Boards -> Seq(Messages)]
        <3>1. executed'[b] \in Seq(Messages)
            BY <1>5, <1>7
        <3>2. executed' = [executed EXCEPT ![b] = executed'[b]]
            BY <1>2, <1>3
        <3>3. QED  BY <1>3, <3>1, <3>2
    <2>4. QED  BY <1>1, <1>2, <2>1, <2>2, <2>3 DEF TextTypes
<1>9. NothingLeft'
    BY <1>1, <1>5 DEF NothingLeft
<1>10. InOrder'
    <2>1. \A c \in Boards : Heard(c)' = Heard(c)
        BY <1>2 DEF Heard
    <2>2. QED  BY <1>1, <1>2, <1>8, <2>1, SendersIdle, InOrderStays
<1>11. Read'
    <2> SUFFICES ASSUME NEW c \in Boards
                 PROVE  Reader(assembler[c], read[c], Said(c), Ran(c))'
        BY DEF Read
    <2>1. Reader(assembler[c], read[c], Said(c), Ran(c))
        BY <1>1 DEF Read
    <2>2. Said(c)' = Said(c) /\ Ran(c)' = Ran(c)
        <3>1. CASE c # b
            BY <1>5, <3>1 DEF Said, Ran
        <3>2. CASE c = b
            <4>1. NoPass.texts = <<>> /\ NoPass.command = NoMessage
                BY DEF NoPass
            <4>2. Said(b)' = (shown \o texts) \o <<>> /\ Said(b) = shown \o texts
                BY <1>4, <1>5, <4>1 DEF Said
            <4>3. Said(b)' = Said(b)
                BY <1>6, <4>2, ConcatEmptySeq
            <4>4. Ran(b)' = executed'[b] \o <<>>
                BY <1>5, <4>1 DEF Ran
            <4>5. Ran(b)' = executed'[b]
                BY <1>5, <1>7, <4>4, ConcatEmptySeq
            <4>6. Ran(b) = executed'[b]
                BY <1>4, <1>5, <1>7, ConcatEmptySeq DEF Ran
            <4>7. QED  BY <3>2, <4>3, <4>5, <4>6
        <3>3. QED  BY <3>1, <3>2
    <2>3. QED  BY <1>2, <2>1, <2>2
<1>12. QED  BY <1>1, <1>2, <1>8, <1>9, <1>10, <1>11, SentStays DEF TextsInv

-----------------------------------------------------------------------------
(* Theorems.                                                               *)

\* What is read stays in order where packets are left out.
LEMMA PickedClear ==
    ASSUME NEW box, NEW n, NEW t, NEW s \in Seq(Signal), NEW K \in SUBSET (1..Len(s)),
           Clear(box, n, t, s)
    PROVE  Clear(box, n, t, Picked(s, K))
<1> DEFINE picked == Picked(s, K)
<1>1. Len(s) \in Nat /\ DOMAIN s = 1..Len(s)
    BY LenProperties
<1>2. /\ picked \in Seq(Signal) /\ Len(picked) = Cardinality(K)
      /\ \A j \in 1..Cardinality(K) : PlaceOf(K, j) \in K /\ picked[j] = s[PlaceOf(K, j)]
    BY PickedType
<1>3. DOMAIN picked = 1..Cardinality(K)
    <2> HIDE DEF picked
    <2>1. QED  BY <1>2, LenProperties
<1>4. \A i, j \in 1..Cardinality(K) : i < j => PlaceOf(K, i) < PlaceOf(K, j)
    BY <1>1, PlaceFound
<1> HIDE DEF picked
<1>5. ASSUME NEW i \in DOMAIN picked, NEW j \in DOMAIN picked, i < j
      PROVE  NotAfter(box, picked[i], picked[j])
    <2>1. PICK k \in K, l \in K : k = PlaceOf(K, i) /\ l = PlaceOf(K, j)
        BY <1>2, <1>3
    <2>2. k < l /\ picked[i] = s[k] /\ picked[j] = s[l] /\ k \in DOMAIN s /\ l \in DOMAIN s
        BY <1>1, <1>2, <1>3, <1>4, <1>5, <2>1
    <2>3. NotAfter(box, s[k], s[l])
        BY <2>2 DEF Clear, Rising
    <2>4. QED  BY <2>2, <2>3
<1>6. ASSUME NEW j \in DOMAIN picked
      PROVE  Spoken(box, n, t, picked[j])
    <2>1. PICK k \in K : k = PlaceOf(K, j)
        BY <1>2, <1>3
    <2>2. picked[j] = s[k] /\ k \in DOMAIN s
        BY <1>1, <1>2, <1>3, <2>1
    <2>3. QED  BY <2>2 DEF Clear
<1>7. QED  BY <1>5, <1>6 DEF Clear, Rising, picked

\* What a reader keeps is in order.
LEMMA KeptClear ==
    ASSUME NEW box, NEW n, NEW t, NEW packets \in Seq(Signal), Clear(box, n, t, packets)
    PROVE  Clear(box, n, t, Kept(packets))
<1>1. \A s \in Seq(Signal) : {k \in DOMAIN s : s[k].msg \notin Remote} \in SUBSET (1..Len(s))
                            /\ {k \in DOMAIN s : ~Repeats(s, k)} \in SUBSET (1..Len(s))
    BY LenProperties
<1>2. PICK s \in Seq(Signal) : s = Texts(packets)
    BY TextsType
<1>3. Clear(box, n, t, s)
    <2>1. PICK K \in SUBSET (1..Len(packets)) : Texts(packets) = Picked(packets, K)
        BY <1>1 DEF Texts
    <2>2. Clear(box, n, t, Picked(packets, K))
        BY PickedClear
    <2>3. QED  BY <1>2, <2>1, <2>2
<1>4. PICK K \in SUBSET (1..Len(s)) : Distinct(s) = Picked(s, K)
    BY <1>1 DEF Distinct
<1>5. Clear(box, n, t, Picked(s, K))
    BY <1>3, PickedClear
<1>6. QED  BY <1>2, <1>4, <1>5 DEF Kept

\* Where texts end, one after the other.
LEMMA TextsPlaces ==
    ASSUME NEW d \in Seq(Signal), NEW k \in DOMAIN TextsOf(d), NEW l \in DOMAIN TextsOf(d), k < l
    PROVE  \E i, j \in 1..Len(d) :
               /\ i < j /\ EndsText(d, i) /\ EndsText(d, j)
               /\ TextsOf(d)[k] = Whole(d[i].msg) /\ TextsOf(d)[l] = Whole(d[j].msg)
<1> DEFINE K == {i \in DOMAIN d : EndsText(d, i)}
           last == Endings(d)
<1>1. Len(d) \in Nat /\ DOMAIN d = 1..Len(d)
    BY LenProperties
<1>2. K \in SUBSET (1..Len(d)) /\ last = Picked(d, K)
    BY <1>1 DEF Endings
<1>3. \A i \in K : EndsText(d, i)
    OBVIOUS
<1> HIDE DEF K, last
<1>4. /\ last \in Seq(Signal) /\ Len(last) = Cardinality(K)
      /\ \A j \in 1..Cardinality(K) : PlaceOf(K, j) \in K /\ last[j] = d[PlaceOf(K, j)]
    BY <1>2, PickedType
<1>5. DOMAIN last = 1..Cardinality(K)
    BY <1>4, LenProperties
<1>6. TextsOf(d) = [j \in DOMAIN last |-> Whole(last[j].msg)]
    BY DEF TextsOf, last
<1>7. k \in 1..Cardinality(K) /\ l \in 1..Cardinality(K)
      /\ TextsOf(d)[k] = Whole(last[k].msg) /\ TextsOf(d)[l] = Whole(last[l].msg)
    BY <1>5, <1>6
<1>8. PlaceOf(K, k) < PlaceOf(K, l)
    BY <1>1, <1>2, <1>7, PlaceFound
<1>9. PICK i \in K, j \in K : i = PlaceOf(K, k) /\ j = PlaceOf(K, l)
    BY <1>4, <1>7
<1>10. i < j /\ i \in 1..Len(d) /\ j \in 1..Len(d) /\ last[k] = d[i] /\ last[l] = d[j]
    BY <1>2, <1>4, <1>7, <1>8, <1>9
<1>11. EndsText(d, i) /\ EndsText(d, j)
    BY <1>3
<1>12. QED  BY <1>7, <1>10, <1>11

\* A whole text is of one message.
LEMMA SameWhole ==
    ASSUME TextAssumption, NEW m \in Messages, NEW g \in Messages, Whole(m) = Whole(g)
    PROVE  m = g
BY WholeType

\* In what was heard in order, a text of several chunks ends once.
LEMMA EndsOnce ==
    ASSUME TextAssumption, NEW box \in Outboxes, NEW n \in Counts(box), NEW t,
           NEW d \in Seq(Signal), Clear(box, n, t, d),
           NEW i \in 1..Len(d), NEW j \in 1..Len(d), i < j, EndsText(d, i), EndsText(d, j),
           d[i].msg = d[j].msg
    PROVE  Chunks[d[i].msg] = 1
<1>1. Len(d) \in Nat /\ DOMAIN d = 1..Len(d) /\ \A k \in 1..Len(d) : d[k] \in Signal
    BY LenProperties, ElementOfSeq
<1>2. d[i] # Garbled /\ d[j] # Garbled
    BY DEF EndsText
<1>3. PICK m \in Messages : m = d[i].msg
    BY <1>1, <1>2, SignalFacts
<1>4. PICK c \in Nat \ {0} : c = Chunks[m]
    BY DEF TextAssumption
<1>5. /\ i >= c /\ \A k \in 1..c : d[i - c + k] = [msg |-> m, chunk |-> k]
      /\ j >= c /\ \A k \in 1..c : d[j - c + k] = [msg |-> m, chunk |-> k]
    BY <1>3, <1>4 DEF EndsText
<1>6. SUFFICES ASSUME c > 1
               PROVE  FALSE
    BY <1>3, <1>4
<1>7. c \in 1..c /\ c - 1 \in 1..c /\ i - c + c = i /\ j - c + (c - 1) = j - 1
    BY <1>4, <1>6
<1>8. d[i - c + c] = [msg |-> m, chunk |-> c]
      /\ d[j - c + (c - 1)] = [msg |-> m, chunk |-> c - 1]
    BY <1>5, <1>7
<1>9. PICK b \in Nat : b = j - 1 /\ b \in 1..Len(d) /\ i <= b
    <2>1. j - 1 \in Nat /\ j - 1 \in 1..Len(d) /\ i <= j - 1
        BY <1>1
    <2>2. QED  BY <2>1
<1>10. /\ d[i].msg = m /\ d[i].chunk = c /\ d[b].msg = m /\ d[b].chunk = c - 1
    BY <1>7, <1>8, <1>9
<1>11. i # b
    BY <1>4, <1>10
<1>12. i < b
    BY <1>9, <1>11
<1>13. NotAfter(box, d[i], d[b])
    BY <1>1, <1>9, <1>12 DEF Clear, Rising
<1>14. PICK a \in Boards : \E x \in 1..n[a] : d[i].msg = box[a][x]
    BY <1>1, <1>2 DEF Clear, Spoken
<1>15. PICK x \in 1..n[a] : d[i].msg = box[a][x]
    BY <1>14
<1>16. x \in DOMAIN box[a]
    BY OutboxFacts DEF Counts
<1>17. x < x \/ d[i].chunk <= d[b].chunk
    BY <1>10, <1>13, <1>15, <1>16 DEF NotAfter
<1>18. QED  BY <1>4, <1>10, <1>17

\* What a board has printed is the first it put together.
LEMMA PrintedFirst ==
    ASSUME TextTypes, Read, NEW b \in Boards
    PROVE  /\ DOMAIN printed[b] \subseteq DOMAIN TextsOf(Kept(read[b]))
           /\ \A k \in DOMAIN printed[b] : printed[b][k] = TextsOf(Kept(read[b]))[k]
<1>1. Said(b) = TextsOf(Kept(read[b]))
    BY DEF Read, Reader
<1>2. PICK shown \in Seq(Texting), texts \in Seq(Texting) :
          shown = printed[b] /\ texts = pass[b].texts
    BY DEF TextTypes, Passing
<1>3. /\ Len(shown) \in Nat /\ Len(texts) \in Nat /\ DOMAIN shown = 1..Len(shown)
      /\ DOMAIN (shown \o texts) = 1..Len(shown) + Len(texts)
      /\ \A k \in 1..Len(shown) : (shown \o texts)[k] = shown[k]
    BY ConcatProperties, LenProperties
<1>4. 1..Len(shown) \subseteq 1..Len(shown) + Len(texts)
    BY <1>3
<1>5. QED  BY <1>1, <1>2, <1>3, <1>4 DEF Said

\* Every step keeps the invariant.
LEMMA TextsStep == TextAssumption /\ IdsTell /\ TextsInv /\ [TextsNext]_textVars => TextsInv'
<1> SUFFICES ASSUME TextAssumption, IdsTell, TextsInv, [TextsNext]_textVars
             PROVE  TextsInv'
    OBVIOUS
<1>1. ASSUME NEW b \in Boards, TextBegins(b)
      PROVE  TextsInv'
    BY <1>1, BeginsKeeps
<1>2. ASSUME NEW b \in Boards, OnAir(b)
      PROVE  TextsInv'
    BY <1>2, OnAirKeeps
<1>3. ASSUME NEW b \in Boards, Succeeds(b)
      PROVE  TextsInv'
    BY <1>3, SucceedsKeeps
<1>4. ASSUME NEW b \in Boards, Fails(b)
      PROVE  TextsInv'
    BY <1>4, FailsKeeps
<1>5. ASSUME NEW b \in Boards, CommandStop(b)
      PROVE  TextsInv'
    BY <1>5, StopKeeps
<1>6. ASSUME NEW b \in Boards, CommandRx(b)
      PROVE  TextsInv'
    BY <1>6, RxKeeps
<1>7. ASSUME NEW b \in Boards, PassBegins(b) \/ PassEnds(b)
      PROVE  TextsInv'
    BY <1>7, PassBeginsKeeps
<1>8. ASSUME NEW b \in Boards, ReadsText(b)
      PROVE  TextsInv'
    BY <1>8, ReadsTextKeeps
<1>9. ASSUME NEW b \in Boards, ReadsCommand(b)
      PROVE  TextsInv'
    BY <1>9, ReadsCommandKeeps
<1>10. ASSUME NEW b \in Boards, HandsOver(b)
       PROVE  TextsInv'
    BY <1>10, HandsOverKeeps
<1>11. CASE UNCHANGED textVars
    <2>1. TextTypes /\ Sent /\ NothingLeft /\ InOrder /\ Read
        BY DEF TextsInv
    <2>2. UNCHANGED <<outbox, begun, tx, listening, fifo, assembler, pass, printed, executed, read>>
        BY <1>11 DEF textVars
    <2>3. TextTypes'
        BY <2>1, <2>2 DEF TextTypes
    <2>4. NothingLeft'
        BY <2>1, <2>2 DEF NothingLeft
    <2>5. InOrder'
        <3>1. \A c \in Boards : Heard(c)' = Heard(c)
            BY <2>2 DEF Heard
        <3>2. QED  BY <2>1, <2>2, <2>3, <3>1, SendersIdle, InOrderStays
    <2>6. QED  BY <2>1, <2>2, <2>3, <2>4, <2>5, SentStays, ReadStays DEF TextsInv
<1>12. QED
    BY <1>1, <1>2, <1>3, <1>4, <1>5, <1>6, <1>7, <1>8, <1>9, <1>10, <1>11 DEF TextsNext

\* Boards follow what they read, and what they read is in its senders' order.
THEOREM TextsInvariant == TextAssumption /\ IdsTell => (TextsSpec => []TextsInv)
<1> SUFFICES ASSUME TextAssumption, IdsTell
             PROVE  TextsSpec => []TextsInv
    OBVIOUS
<1>1. TextsInit => TextsInv
    BY TextsInitial
<1>2. TextsInv /\ [TextsNext]_textVars => TextsInv'
    BY TextsStep
<1>3. QED  BY <1>1, <1>2, PTL DEF TextsSpec

\* The parts of TextsTrue follow from the invariant: the types,
LEMMA InvTypes == TextAssumption /\ TextsInv => TextTypeOK
<1> SUFFICES ASSUME TextAssumption, TextsInv
             PROVE  TextTypeOK
    OBVIOUS
<1>1. TextTypes
    BY DEF TextsInv
<1>2. ASSUME NEW b \in Boards
      PROVE  begun[b] \in 0..Len(outbox[b])
    <2>1. outbox \in Outboxes /\ begun[b] \in Nat /\ begun[b] <= Len(outbox[b])
        BY <1>1 DEF TextTypes, Counts
    <2>2. Len(outbox[b]) \in Nat
        BY <2>1, OutboxFacts
    <2>3. QED  BY <2>1, <2>2
<1>3. tx \in [Boards -> [msg : Messages, chunk : Nat \ {0},
                        attempt : 1..MaxAttempts, copies : 0..2] \cup {Silent}]
    BY <1>1 DEF TextTypes, Sending
<1>4. listening \in [Boards -> BOOLEAN] /\ \A b \in Boards : Len(fifo[b]) <= FifoDepth
    BY <1>1 DEF TextTypes
<1>5. ASSUME NEW b \in Boards
      PROVE  pass[b].at \in {"none", "draining", "handing"} /\ pass[b].count <= DrainMax
    BY <1>1 DEF TextTypes, Passing, TextAssumption
<1>6. ASSUME NEW b \in Boards, NEW k \in DOMAIN fifo[b]
      PROVE  fifo[b][k] \in Packet \cup {Garbled}
    <2>1. fifo[b] \in Seq(Signal)
        BY <1>1 DEF TextTypes
    <2>2. fifo[b][k] \in Signal
        BY <2>1, ElementOfSeq, LenProperties
    <2>3. QED  BY <2>2 DEF Signal, Piece
<1>7. QED  BY <1>2, <1>3, <1>4, <1>5, <1>6 DEF TextTypeOK

\* what is printed and run is what was read,
LEMMA InvShown == TextAssumption /\ TextsInv => ShownAsRead /\ CommandsAllRun
<1> SUFFICES ASSUME TextAssumption, TextsInv, NEW b \in Boards, Settled(b)
             PROVE  printed[b] = Reassembled(read[b]) /\ executed[b] = CommandsRead(read[b])
    BY DEF ShownAsRead, CommandsAllRun
<1>1. TextTypes /\ NothingLeft /\ Read
    BY DEF TextsInv
<1>2. pass[b] = NoPass
    BY <1>1 DEF NothingLeft, Settled
<1>3. NoPass.texts = <<>> /\ NoPass.command = NoMessage
    BY DEF NoPass
<1>4. PICK shown \in Seq(Texting), ran \in Seq(Messages) : shown = printed[b] /\ ran = executed[b]
    BY <1>1 DEF TextTypes
<1>5. Said(b) = shown /\ Ran(b) = ran
    BY <1>2, <1>3, <1>4, ConcatEmptySeq DEF Said, Ran
<1>6. Said(b) = TextsOf(Kept(read[b])) /\ Ran(b) = CommandsRead(read[b])
    BY <1>1 DEF Read, Reader
<1>7. TextsOf(Kept(read[b])) = Reassembled(read[b])
    BY DEF TextsOf, Kept, Reassembled
<1>8. QED  BY <1>4, <1>5, <1>6, <1>7

\* and it is printed once and in its senders' order.
LEMMA InvOrder == TextAssumption /\ TextsInv => ShownOnce /\ ShownInOrder
<1> SUFFICES ASSUME TextAssumption, TextsInv, NEW b \in Boards,
                    NEW k \in DOMAIN printed[b], NEW l \in DOMAIN printed[b], k < l
             PROVE  /\ printed[b][k] = printed[b][l] => Len(printed[b][k]) = 1
                    /\ \A c \in Boards : \A x, y \in DOMAIN outbox[c] :
                          /\ printed[b][k] = Whole(outbox[c][x])
                          /\ printed[b][l] = Whole(outbox[c][y])
                          => x <= y
    BY DEF ShownOnce, ShownInOrder
<1>1. TextTypes /\ InOrder /\ Read
    BY DEF TextsInv
<1>2. PICK box \in Outboxes, n \in Counts(outbox), r \in Seq(Signal), f \in Seq(Signal) :
          box = outbox /\ n = begun /\ r = read[b] /\ f = fifo[b]
    BY <1>1 DEF TextTypes
<1>3. PICK t : t = tx
    OBVIOUS
<1>4. n \in Counts(box)
    BY <1>2
<1>5. PICK d \in Seq(Signal) : d = Kept(r)
    BY TextsType
<1>6. Clear(box, n, t, d)
    <2>1. Clear(box, n, t, r \o f)
        BY <1>1, <1>2, <1>3 DEF InOrder, Heard
    <2>2. Clear(box, n, t, r)
        BY <2>1, ClearPart
    <2>3. QED  BY <1>5, <2>2, KeptClear
<1>7. /\ k \in DOMAIN TextsOf(d) /\ l \in DOMAIN TextsOf(d)
      /\ printed[b][k] = TextsOf(d)[k] /\ printed[b][l] = TextsOf(d)[l]
    BY <1>1, <1>2, <1>5, PrintedFirst
<1>8. PICK i, j \in 1..Len(d) :
          /\ i < j /\ EndsText(d, i) /\ EndsText(d, j)
          /\ TextsOf(d)[k] = Whole(d[i].msg) /\ TextsOf(d)[l] = Whole(d[j].msg)
    BY <1>7, TextsPlaces
<1>9. Len(d) \in Nat /\ DOMAIN d = 1..Len(d) /\ d[i] \in Signal /\ d[j] \in Signal
    BY LenProperties, ElementOfSeq
<1>10. d[i] # Garbled /\ d[j] # Garbled
    BY <1>8 DEF EndsText
<1>11. d[i].msg \in Messages /\ d[j].msg \in Messages
    BY <1>9, <1>10, SignalFacts
<1>12. ASSUME printed[b][k] = printed[b][l]
       PROVE  Len(printed[b][k]) = 1
    <2>1. d[i].msg = d[j].msg
        BY <1>7, <1>8, <1>11, <1>12, SameWhole
    <2>2. Chunks[d[i].msg] = 1
        BY <1>4, <1>6, <1>8, <2>1, EndsOnce
    <2>3. QED  BY <1>7, <1>8, <1>11, <2>2, WholeType
<1>13. ASSUME NEW c \in Boards, NEW x \in DOMAIN outbox[c], NEW y \in DOMAIN outbox[c],
              printed[b][k] = Whole(outbox[c][x]), printed[b][l] = Whole(outbox[c][y])
       PROVE  x <= y
    <2>1. /\ x \in DOMAIN box[c] /\ y \in DOMAIN box[c]
          /\ DOMAIN box[c] = 1..Len(box[c]) /\ Len(box[c]) \in Nat
          /\ box[c][x] \in Messages /\ box[c][y] \in Messages
        BY <1>2, OutboxFacts
    <2>2. d[i].msg = box[c][x] /\ d[j].msg = box[c][y]
        BY <1>2, <1>7, <1>8, <1>11, <1>13, <2>1, SameWhole
    <2>3. NotAfter(box, d[i], d[j])
        BY <1>6, <1>8, <1>9 DEF Clear, Rising
    <2>4. x < y \/ x = y
        BY <2>1, <2>2, <2>3 DEF NotAfter
    <2>5. QED  BY <2>1, <2>4
<1>14. QED  BY <1>12, <1>13

\* A board prints exactly the texts whose chunks it read one after the other, a
\* text of several chunks once, those of one sender in its order, and runs every
\* command it read, whatever is lost, repeated, garbled or cut short
\* (TextMessageAssembler::accept, rxTask).
THEOREM BoardsTextsTrue == TextAssumption /\ IdsTell => (TextsSpec => []TextsTrue)
<1> SUFFICES ASSUME TextAssumption, IdsTell
             PROVE  TextsSpec => []TextsTrue
    OBVIOUS
<1>1. TextsSpec => []TextsInv
    BY TextsInvariant
<1>2. TextsInv => TextsTrue
    BY InvTypes, InvShown, InvOrder DEF TextsTrue
<1>3. QED  BY <1>1, <1>2, PTL
=============================================================================
