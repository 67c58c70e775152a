--------------------------- MODULE MCHostSessions ---------------------------
(* Small instances of HostSessions for TLC: a wired and a wireless PC, files  *)
(* of one or two chunks, and an older file on the board.                      *)
EXTENDS HostSessions, TLC

CONSTANTS usb, bt, c1, c2

MixedSources == (usb :> <<c1>>) @@ (bt :> <<c2, c1>>)
ShortSources == (usb :> <<c1>>) @@ (bt :> <<c2>>)
OldFile == {<<c1>>}

\* Uploads meet uploads, downloads, readbacks and deletions.
AllTasks == (usb :> {"upload", "download", "delete"}) @@ (bt :> {"upload", "readback", "download"})
UploadTasks == (usb :> {"upload"}) @@ (bt :> {"upload", "readback"})

OfEachKind == [kind \in {"line", "answer", "damage", "break", "late"} |-> 1]
\* Two mishaps at a time, but every answer that comes at all comes in time.
NotLate == [OfEachKind EXCEPT !["late"] = 0]
=============================================================================
