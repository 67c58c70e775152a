---------------------------- MODULE StorageListing ----------------------------
(***************************************************************************)
(* The list of stored files a PC reads from the board page by page, and    *)
(* the files it deletes (main.cpp commandStorage; host_storage_protocol.hpp*)
(* listing; serial_device.py refresh_storage, delete_file and              *)
(* _handle_storage_response).  Each page is a snapshot of its own: between *)
(* two pages a received file may be published, and another host, on the    *)
(* wired console, may upload, delete and select.                           *)
(*                                                                         *)
(* The PC's link is the wireless one of BluetoothLink: after a timeout the *)
(* PC closes it and opens another; commands and answers of the old one do  *)
(* not cross over, but a command the board is already at takes its effect. *)
(***************************************************************************)
EXTENDS Integers, Sequences, FiniteSets

CONSTANTS
    Names,          \* file names, in the order std::sort gives them: numbers
    ListedSizes,    \* file sizes, positive; 0 stands for no file
    PageSize,       \* kPageSize: 4
    AnotherHost,    \* TRUE: the wired console is used meanwhile
    MaxChanges,     \* bound: changes made by others
    MaxOperations,  \* bound: operations of the PC
    MaxTimeouts     \* bound: 30 s waits of the PC that end without an answer

ListingAssumption ==
    /\ Names \subseteq Nat \ {0} /\ IsFiniteSet(Names)
    /\ ListedSizes \subseteq Nat \ {0}
    /\ PageSize \in Nat \ {0} /\ AnotherHost \in BOOLEAN
    /\ MaxChanges \in Nat /\ MaxOperations \in Nat /\ MaxTimeouts \in Nat

VARIABLES
    files,       \* the board's storage: size of each name, 0 if there is none
    selected,    \* the board's selected_file_, or None
    commands,    \* commands on their way to the board
    replies,     \* answers on their way to the PC
    listing,     \* the PC's operation: _storage_kind, _offset, _total, _files, _delete_name
    list,        \* the PC's _storage: entries and whether they are complete
    operations,  \* operations begun; the number identifies one
    since,       \* the first operation of the present connection
    reported,    \* the last deletion reported as done, or None
    removed,     \* ghost: the deletions that did remove their file
    existed,     \* ghost: entries that have existed since the listing began
    standing,    \* ghost: entries that have existed all the time since
    changes, timeouts

listingVars == <<files, selected, commands, replies, listing, list, operations, since,
                 reported, removed, existed, standing, changes, timeouts>>

-----------------------------------------------------------------------------
None == 0

Present(storage) == {n \in Names : storage[n] # 0}

Entries(storage) == {<<n, storage[n]>> : n \in Present(storage)}

\* All entries, in the order of their names.
Sorted(entries) ==
    {all \in [1..Cardinality(entries) -> entries] :
        /\ \A e \in entries : \E i \in DOMAIN all : all[i] = e
        /\ \A i, j \in DOMAIN all : i < j => all[i][1] < all[j][1]}

\* The snapshot of one STORAGE LIST: there is one such sequence.
Snapshots(storage) == Sorted(Entries(storage))

Error == [op |-> "error"]

\* listing: the page at an offset; next None is the last one.
Page(all, offset) ==
    IF offset > Len(all) THEN Error
    ELSE LET end == IF offset + PageSize < Len(all) THEN offset + PageSize ELSE Len(all)
         IN  [op |-> "list", offset |-> offset, total |-> Len(all),
              files |-> SubSeq(all, offset + 1, end),
              next |-> IF end < Len(all) THEN end ELSE None]

-----------------------------------------------------------------------------
Idle == [kind |-> "idle", offset |-> 0, total |-> None, files |-> <<>>, name |-> None]

ListingInit ==
    /\ files \in [Names -> ListedSizes \cup {0}]
    /\ selected \in Present(files) \cup {None}
    /\ Present(files) # {} => selected # None
    /\ commands = <<>> /\ replies = <<>>
    /\ listing = Idle /\ list = [entries |-> <<>>, complete |-> FALSE]
    /\ operations = 0 /\ since = 1
    /\ reported = None /\ removed = {}
    /\ existed = {} /\ standing = {}
    /\ changes = 0 /\ timeouts = 0

\* What the ghosts see of a change of the storage.
Watch(storage) ==
    /\ existed' = IF listing.kind = "list" THEN existed \cup Entries(storage) ELSE existed
    /\ standing' = IF listing.kind = "list" THEN standing \cap Entries(storage) ELSE standing

Smallest(set) == CHOOSE n \in set : \A m \in set : n <= m

\* Faulty: the selection stays with the file that is gone.
SelectionAfterDelete_Stays(n, storage) == selected

\* After a deletion the first file that is left is selected.
SelectionAfterDelete(n, storage) ==
    IF selected # n THEN selected
    ELSE IF Present(storage) = {} THEN None ELSE Smallest(Present(storage))

-----------------------------------------------------------------------------
(* The board's storage changes.                                            *)

Changed == changes < MaxChanges /\ changes' = changes + 1

\* A received file is published, under a name that was free.
Publish(n, s) ==
    /\ Changed /\ files[n] = 0
    /\ files' = [files EXCEPT ![n] = s]
    /\ Watch(files')
    /\ UNCHANGED <<selected, commands, replies, listing, list, operations, since, reported,
                   removed, timeouts>>

\* The other host has uploaded a file: it is selected.
UploadByOther(n, s) ==
    /\ AnotherHost /\ Changed
    /\ files' = [files EXCEPT ![n] = s] /\ selected' = n
    /\ Watch(files')
    /\ UNCHANGED <<commands, replies, listing, list, operations, since, reported, removed,
                   timeouts>>

DeleteByOther(n) ==
    /\ AnotherHost /\ Changed /\ files[n] # 0
    /\ files' = [files EXCEPT ![n] = 0]
    /\ selected' = SelectionAfterDelete(n, files')
    /\ Watch(files')
    /\ UNCHANGED <<commands, replies, listing, list, operations, since, reported, removed,
                   timeouts>>

SelectByOther(n) ==
    /\ AnotherHost /\ Changed /\ files[n] # 0
    /\ selected' = n
    /\ UNCHANGED <<files, commands, replies, listing, list, operations, since, reported,
                   removed, existed, standing, timeouts>>

-----------------------------------------------------------------------------
(* The board's commands.                                                   *)

Respond(message) ==
    /\ commands' = Tail(commands)
    /\ replies' = Append(replies, [operation |-> Head(commands).operation,
                                   body |-> message])

\* A lock is taken, a reception runs, a guard of DELETE holds, SPIFFS fails.
Refuse ==
    /\ commands # <<>>
    /\ Respond(Error)
    /\ UNCHANGED <<files, selected, listing, list, operations, since, reported, removed,
                   existed, standing, changes, timeouts>>

List ==
    /\ commands # <<>> /\ Head(commands).op = "list"
    /\ \E all \in Snapshots(files) : Respond(Page(all, Head(commands).offset))
    /\ UNCHANGED <<files, selected, listing, list, operations, since, reported, removed,
                   existed, standing, changes, timeouts>>

Delete ==
    /\ commands # <<>> /\ Head(commands).op = "delete"
    /\ LET n == Head(commands).name IN
       /\ files[n] # 0
       /\ files' = [files EXCEPT ![n] = 0]
       /\ selected' = SelectionAfterDelete(n, files')
       /\ Respond([op |-> "delete", name |-> n])
    /\ removed' = removed \cup {Head(commands).operation}
    /\ Watch(files')
    /\ UNCHANGED <<listing, list, operations, since, reported, changes, timeouts>>

\* A command of a connection that is closed is dropped from the queue.
DropCommand ==
    /\ commands # <<>> /\ Head(commands).operation < since
    /\ commands' = Tail(commands)
    /\ UNCHANGED <<files, selected, replies, listing, list, operations, since, reported,
                   removed, existed, standing, changes, timeouts>>

-----------------------------------------------------------------------------
(* The PC.                                                                 *)

Ask(command) == commands' = Append(commands, command)

\* refresh_storage: the first page.
BeginList ==
    /\ operations' = operations + 1
    /\ listing' = [Idle EXCEPT !.kind = "list"]
    /\ list' = [list EXCEPT !.complete = FALSE]
    /\ Ask([op |-> "list", operation |-> operations', offset |-> 0, name |-> None])
    /\ existed' = Entries(files) /\ standing' = Entries(files)

Refresh ==
    /\ listing.kind = "idle" /\ operations < MaxOperations
    /\ BeginList
    /\ UNCHANGED <<files, selected, replies, since, reported, removed, changes, timeouts>>

\* The listing that follows a deletion counts as another operation.
DeleteFile(n) ==
    /\ listing.kind = "idle" /\ operations + 1 < MaxOperations
    /\ operations' = operations + 1
    /\ listing' = [Idle EXCEPT !.kind = "delete", !.name = n]
    /\ Ask([op |-> "delete", operation |-> operations', offset |-> 0, name |-> n])
    /\ UNCHANGED <<files, selected, replies, list, since, reported, removed, existed,
                   standing, changes, timeouts>>

\* Faulty: whoever is connected gets it.
Reaches_Anybody(reply) == TRUE

\* sendBluetoothText checks the epoch, the reader its generation.
Reaches(reply) == reply.operation >= since

\* The cursor of a page agrees with its entries.
CursorFits(page) ==
    LET end == page.offset + Len(page.files) IN
    /\ end <= page.total
    /\ IF page.next = None THEN end = page.total
       ELSE page.files # <<>> /\ page.next = end /\ end < page.total

\* Faulty: a name may come twice.
PageFits_Twice(page) ==
    /\ page.op = "list" /\ page.offset = listing.offset /\ CursorFits(page)
    /\ listing.total # None => page.total = listing.total

\* The page continues what was read: the same total, and names not seen before.
PageFits(page) ==
    /\ page.op = "list" /\ page.offset = listing.offset /\ CursorFits(page)
    /\ listing.total # None => page.total = listing.total
    /\ \A i \in 1..Len(page.files), j \in 1..Len(listing.files) :
          page.files[i][1] # listing.files[j][1]

\* The answer the PC waits for has arrived.
Message == Head(replies).body

Received ==
    /\ replies # <<>> /\ Reaches(Head(replies)) /\ listing.kind # "idle"
    /\ replies' = Tail(replies)

\* Faulty: the entries of the page before are forgotten.
NextPage_Replaces ==
    /\ Received /\ listing.kind = "list"
    /\ PageFits(Message) /\ Message.next # None
    /\ listing' = [listing EXCEPT !.offset = Message.next, !.total = Message.total,
                        !.files = Message.files]
    /\ Ask([op |-> "list", operation |-> operations, offset |-> Message.next,
             name |-> None])
    /\ UNCHANGED <<files, selected, list, operations, since, reported, removed,
                   existed, standing, changes, timeouts>>

\* The next page is asked for.
NextPage ==
    /\ Received /\ listing.kind = "list"
    /\ PageFits(Message) /\ Message.next # None
    /\ listing' = [listing EXCEPT !.offset = Message.next, !.total = Message.total,
                        !.files = @ \o Message.files]
    /\ Ask([op |-> "list", operation |-> operations, offset |-> Message.next,
             name |-> None])
    /\ UNCHANGED <<files, selected, list, operations, since, reported, removed,
                   existed, standing, changes, timeouts>>

LastPage ==
    /\ Received /\ listing.kind = "list"
    /\ PageFits(Message) /\ Message.next = None
    /\ list' = [entries |-> listing.files \o Message.files, complete |-> TRUE]
    /\ listing' = Idle
    /\ UNCHANGED <<files, selected, commands, operations, since, reported, removed,
                   existed, standing, changes, timeouts>>

IsDeletion == Message.op = "delete" /\ Message.name = listing.name

\* Reported as deleted; the list is read again.
Deleted ==
    /\ Received /\ listing.kind = "delete" /\ IsDeletion
    /\ reported' = operations
    /\ BeginList
    /\ UNCHANGED <<files, selected, since, removed, changes, timeouts>>

\* An error, or an answer that does not fit: the operation has failed.
Failed ==
    /\ Received
    /\ IF listing.kind = "list" THEN ~PageFits(Message) ELSE ~IsDeletion
    /\ listing' = Idle /\ list' = [list EXCEPT !.complete = FALSE]
    /\ UNCHANGED <<files, selected, commands, operations, since, reported, removed,
                   existed, standing, changes, timeouts>>

\* An answer nobody waits for, or of a connection that is closed.
DropReply ==
    /\ replies # <<>>
    /\ ~Reaches(Head(replies)) \/ listing.kind = "idle"
    /\ replies' = Tail(replies)
    /\ UNCHANGED <<files, selected, commands, listing, list, operations, since, reported,
                   removed, existed, standing, changes, timeouts>>

\* _on_storage_timeout: the connection is closed, and another opened.
Timeout ==
    /\ listing.kind # "idle" /\ timeouts < MaxTimeouts /\ timeouts' = timeouts + 1
    /\ listing' = Idle /\ list' = [list EXCEPT !.complete = FALSE]
    /\ since' = operations + 1
    /\ UNCHANGED <<files, selected, commands, replies, operations, reported, removed,
                   existed, standing, changes>>

-----------------------------------------------------------------------------
Board == Refuse \/ List \/ Delete \/ DropCommand

Others ==
    \E n \in Names :
       \/ \E s \in ListedSizes : Publish(n, s) \/ UploadByOther(n, s)
       \/ DeleteByOther(n) \/ SelectByOther(n)

PC ==
    \/ Refresh \/ NextPage \/ LastPage \/ Deleted \/ Failed \/ DropReply \/ Timeout
    \/ \E n \in Names : DeleteFile(n)

ListingNext == Board \/ Others \/ PC

ListingSpec == ListingInit /\ [][ListingNext]_listingVars

-----------------------------------------------------------------------------
(* Properties.                                                             *)

ListingTypeOK ==
    /\ files \in [Names -> ListedSizes \cup {0}] /\ selected \in Names \cup {None}
    /\ Len(commands) <= operations /\ Len(replies) <= operations
    /\ listing.kind \in {"idle", "list", "delete"} /\ Len(listing.files) = listing.offset
    /\ reported \in 0..operations /\ removed \subseteq 1..operations
    /\ since \in 1..(operations + 1)

ShownEntries == {list.entries[i] : i \in 1..Len(list.entries)}

\* A listing that was accepted as complete names no file twice and none that
\* has not existed, with that size, since the listing began, whatever others do
\* between its pages.
EntriesWereThere ==
    list.complete =>
        /\ ShownEntries \subseteq existed
        /\ \A i, j \in 1..Len(list.entries) :
              list.entries[i][1] = list.entries[j][1] => i = j

\* A file that was there from the first page to the last is listed, unless files
\* both came and went meanwhile: one change shows in the total, and "listing
\* changed ... refresh again" is said (serial_device.py:464).
StandingListed ==
    list.complete /\ Cardinality(existed \ standing) <= 1 => standing \subseteq ShownEntries

\* What is reported as deleted was deleted by the operation that is reported,
\* not by an earlier one whose answer came late.
ReportTrue == reported # None => reported \in removed

\* The selected file exists, unless there is none to select.
SelectionExists == selected # None => files[selected] # 0

\* What the PC shows of the storage, and the board's selection, are true.
ListingTrue == ListingTypeOK /\ EntriesWereThere /\ StandingListed /\ ReportTrue /\ SelectionExists

=============================================================================
