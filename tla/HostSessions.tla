---------------------------- MODULE HostSessions ----------------------------
(***************************************************************************)
(* UPLOAD and DOWNLOAD sessions between PCs and the board: the handlers    *)
(* commandUpload and commandDownload, the session ownership they enforce,  *)
(* and the PC that drives them with its timeout and its retries.           *)
(*                                                                         *)
(* A wired PC talks over the UART and always has epoch 0; wireless PCs     *)
(* take turns on Bluetooth, where every connection and every loss of one   *)
(* starts a new epoch.  Lines of a client that has gone may still be in    *)
(* the board's queue when the next one connects.  A line or an answer may  *)
(* be lost (noise, an overlong line, a busy command mutex), and the bytes  *)
(* of a chunk may be damaged.                                              *)
(*                                                                         *)
(* Abstractions.  One file name.  A file is a sequence of chunks, and its  *)
(* size and CRC-32 are taken to tell the files of the model apart, so both *)
(* are the file itself; the negotiated width of a chunk is left out.  The  *)
(* command mutex makes a handler one step after the dispatch that lets it  *)
(* in; the link may change between the two.  Publication over an existing  *)
(* file is HostUploadPublish, here it succeeds or changes nothing.         *)
(***************************************************************************)
EXTENDS Naturals, Sequences, Functions

CONSTANTS
    Hosts,           \* the PCs
    Wireless,        \* those that use Bluetooth
    Source,          \* Source[p]: the file that PC p uploads
    Stored,          \* the files the board may hold at first
    Work,            \* Work[p]: what p does: "upload", "readback", "download", "delete"
    MaxWork,         \* operations a PC begins
    HostTransferMaxRetries,
    SessionLife,     \* periods of silence after which a session is dead
    Faults,          \* TRUE: the board's file operations may fail
    Mishaps,         \* bound on each kind of mishap: "line", "answer", "damage",
                     \* "break", and "late", an answer that outlasts a timeout
    MaxMishaps,      \* bound on all of them together
    LossyVerbs,      \* the commands and answers that may be lost
    NoFile, NoChunk, NoSession, NoHost

Files == {Source[p] : p \in Hosts} \union (Stored \ {NoFile})
Chunks == UNION {{f[i] : i \in 1..Len(f)} : f \in Files}

Verbs == {"BEGIN", "DATA", "END", "CANCEL", "ERROR", "DELETE"}
Lines == [dir : {"UPLOAD", "DOWNLOAD", "STORAGE"}, verb : Verbs, seq : Nat,
          total : Nat, chunk : Chunks \union {NoChunk}, file : Files \union {NoFile}]
Sessions == [wireless : BOOLEAN, epoch : Nat, file : Files, data : Seq(Chunks),
             age : 0..SessionLife]
Jobs == [host : Hosts, epoch : Nat, text : Lines, expired : BOOLEAN]

\* What an open upload is to FileStaging.
Stages == [owner : BOOLEAN \X Nat, announced : Files, chunks : Nat, intact : BOOLEAN]

\* There is one UART.
ASSUME HostsAssumption ==
    /\ Wireless \subseteq Hosts
    /\ \A p, q \in Hosts \ Wireless : p = q
    /\ NoFile \notin Files /\ \A f \in Files : f \in Seq(Chunks)
    /\ NoSession \notin Sessions \union Jobs \union Stages
    /\ NoHost \notin Hosts
    /\ MaxWork \in Nat /\ HostTransferMaxRetries \in Nat
    /\ SessionLife \in Nat \ {0}
    /\ Faults \in BOOLEAN
    /\ Mishaps \in [{"line", "answer", "damage", "break", "late"} -> Nat]
    /\ MaxMishaps \in Nat

VARIABLES
    file,      \* what the name holds on the flash
    up, down,  \* host_upload_ and host_download_
    link,      \* Bluetooth: the client that is connected and the epoch
    job,       \* the command that holds the command mutex
    line,      \* line[p]: lines on their way from PC p, with their epoch
    answer,    \* answer[p]: lines on their way to PC p
    pc,        \* the sessions of the PCs
    begun,     \* operations each PC has begun
    published, \* published[p]: what uploads have stored under the name, and
    held,      \* held[p]: what the name has held, since PC p began or, if not all
               \* it was sent had been read then, since it began before; for the
               \* properties
    mishaps    \* mishaps so far

board == <<file, up, down, job>>
wires == <<line, answer, link>>
pcs   == <<pc, begun>>
seen  == <<published, held>>
vars  == <<board, wires, pcs, seen, mishaps>>

-----------------------------------------------------------------------------
Line(dir, verb) ==
    [dir |-> dir, verb |-> verb, seq |-> 0, total |-> 0, chunk |-> NoChunk, file |-> NoFile]

Error(dir) == Line(dir, "ERROR")

Quiet == [op |-> "idle", last |-> Line("STORAGE", "DELETE"), retries |-> 0,
          n |-> 0, got |-> <<>>, meta |-> NoFile, result |-> "none"]

Init ==
    /\ file \in Stored
    /\ up = NoSession
    /\ down = NoSession
    /\ link = [client |-> NoHost, epoch |-> 0]
    /\ job = NoSession
    /\ line = [p \in Hosts |-> <<>>]
    /\ answer = [p \in Hosts |-> <<>>]
    /\ pc = [p \in Hosts |-> Quiet]
    /\ begun = [p \in Hosts |-> 0]
    /\ published = [p \in Hosts |-> {}]
    /\ held = [p \in Hosts |-> {file} \ {NoFile}]
    /\ mishaps = [kind \in DOMAIN Mishaps |-> 0]

Happened == SumFunction(mishaps)

Mishap(kind) ==
    /\ mishaps[kind] < Mishaps[kind] /\ Happened < MaxMishaps
    /\ mishaps' = [mishaps EXCEPT ![kind] = @ + 1]

-----------------------------------------------------------------------------
(* The board: dispatch, liveness and ownership of sessions                 *)

Epoch(p) == IF p \in Wireless THEN link.epoch ELSE 0
Attached(p) == p \in Wireless => link.client = p

\* A queued line of a Bluetooth client is for the connection it came over.
Stale(p, epoch) == p \in Wireless /\ (link.client = NoHost \/ epoch # link.epoch)

\* HostTransferGuard::alive
Alive(s, late) ==
    /\ ~ late
    /\ s.wireless => link.client # NoHost /\ s.epoch = link.epoch

\* While a PC waits, its timeouts measure the silence; while none does, it may
\* have lasted long enough.
Lateness(s) ==
    IF \E p \in Hosts : pc[p].op # "idle" \/ line[p] # <<>>
    THEN {s # NoSession /\ s.age >= SessionLife} ELSE BOOLEAN

\* Mutant: only the connection counts, not the silence.
Expire_LinkOnly(s) ==
    {IF s # NoSession /\ ~ Alive(s, FALSE) THEN NoSession ELSE s}

Expire(s) ==
    {IF s # NoSession /\ ~ Alive(s, late) THEN NoSession ELSE s : late \in Lateness(s)}

ExpireHostSessions ==
    /\ up' \in Expire(up)
    /\ down' \in Expire(down)

\* bluetoothCommandTask and dispatchCommand: a stale line is dropped unanswered.
Dispatch(p) ==
    /\ job = NoSession
    /\ line[p] # <<>>
    /\ line' = [line EXCEPT ![p] = Tail(@)]
    /\ job' = IF Stale(p, Head(line[p]).epoch) THEN NoSession
              ELSE [host |-> p, epoch |-> Head(line[p]).epoch,
                    text |-> Head(line[p]).text, expired |-> FALSE]
    /\ UNCHANGED <<file, up, down, answer, link, pcs, seen, mishaps>>

\* The sessions are examined on every dispatch, before the handler runs.
ExpireOnDispatch ==
    /\ job # NoSession
    /\ ~ job.expired
    /\ ExpireHostSessions
    /\ job' = [job EXCEPT !.expired = TRUE]
    /\ UNCHANGED <<file, wires, pcs, seen, mishaps>>

\* hostMaintenanceTask, when it gets the command mutex.
ExpireInMaintenance ==
    /\ job = NoSession
    /\ ExpireHostSessions
    /\ <<up', down'>> # <<up, down>>
    /\ UNCHANGED <<file, job, wires, pcs, seen, mishaps>>

\* A handler of the command dir verb, which answers and ends the job.
Handles(dir, verb) ==
    /\ job # NoSession
    /\ job.expired
    /\ job.text.dir = dir
    /\ job.text.verb = verb

\* emitHostTransferResponse: every answer is printed on the UART, whoever asked,
\* and goes to the wireless client if it asked and is still the same.
Hears(p) ==
    p \in Wireless => p = job.host /\ ~ Stale(p, job.epoch)

Answer(a) ==
    /\ job' = NoSession
    /\ answer' = [p \in Hosts |-> IF Hears(p) THEN Append(answer[p], a) ELSE answer[p]]
    /\ UNCHANGED <<line, link, pcs, mishaps>>

\* Mutant: whoever sends the next line continues the session.
Owns_Anybody(s) == TRUE

\* HostTransferGuard::owns: same transport and, over Bluetooth, same connection.
Owns(s) == s.wireless = (job.host \in Wireless) /\ s.epoch = job.epoch

\* A session of the other direction, or of another owner, is in the way.
OwnedByAnother(mine, other) == other # NoSession \/ (mine # NoSession /\ ~ Owns(mine))

Session(f) ==
    [wireless |-> job.host \in Wireless, epoch |-> job.epoch, file |-> f,
     data |-> <<>>, age |-> 0]

Touched(s) == [s EXCEPT !.age = 0]

-----------------------------------------------------------------------------
(* commandUpload.  up.file is what BEGIN announced, up.data what is in the *)
(* partial; next_sequence is Len(up.data), last_chunk its last element.    *)

UploadAdmits(verb) == Handles("UPLOAD", verb) /\ ~ OwnedByAnother(up, down)

\* transfer_owned_by_another_session, and no_active_upload.
UploadRefused ==
    /\ \E verb \in {"BEGIN", "DATA", "END", "CANCEL"} :
          /\ Handles("UPLOAD", verb)
          /\ \/ OwnedByAnother(up, down)
             \/ verb \in {"DATA", "END"} /\ up = NoSession
    /\ Answer(Error("UPLOAD"))
    /\ UNCHANGED <<file, up, down, seen>>

\* BEGIN drops an upload its owner had open.  It fails before that when
\* recovery is pending or the file is being sent, after that when the flash
\* is full or the partial cannot be opened.
UploadBegin ==
    /\ UploadAdmits("BEGIN")
    /\ \/ /\ up' = Session(job.text.file)
          /\ Answer([Line("UPLOAD", "BEGIN") EXCEPT !.file = job.text.file])
       \/ /\ Faults
          /\ up' \in {up, NoSession}
          /\ Answer(Error("UPLOAD"))
    /\ UNCHANGED <<file, down, seen>>

UploadCancel ==
    /\ UploadAdmits("CANCEL")
    /\ up' = NoSession
    /\ Answer(Line("UPLOAD", "CANCEL"))
    /\ UNCHANGED <<file, down, seen>>

\* matchesPrevious: the chunk that was written last, once more.
MatchesPrevious(seq, chunk) ==
    /\ up.data # <<>>
    /\ seq + 1 = Len(up.data)
    /\ chunk = up.data[Len(up.data)]

Ack == [Line("UPLOAD", "DATA") EXCEPT !.seq = job.text.seq, !.total = Len(up'.data)]

\* A repetition is acknowledged again and written no second time.
UploadDataAgain ==
    /\ UploadAdmits("DATA")
    /\ up # NoSession
    /\ MatchesPrevious(job.text.seq, job.text.chunk)
    /\ up' = Touched(up)
    /\ Answer(Ack)
    /\ UNCHANGED <<file, down, seen>>

\* Any other sequence than the next is refused; the session stays open.
UploadDataUnexpected ==
    /\ UploadAdmits("DATA")
    /\ up # NoSession
    /\ job.text.seq # Len(up.data)
    /\ ~ MatchesPrevious(job.text.seq, job.text.chunk)
    /\ up' = Touched(up)
    /\ Answer(Error("UPLOAD"))
    /\ UNCHANGED <<file, down, seen>>

\* More than was declared, and a failing write, end the session.
UploadData ==
    /\ UploadAdmits("DATA")
    /\ up # NoSession
    /\ job.text.seq = Len(up.data)
    /\ \/ /\ Len(up.data) < Len(up.file)
          /\ up' = [Touched(up) EXCEPT !.data = Append(@, job.text.chunk)]
          /\ Answer(Ack)
       \/ /\ Faults \/ Len(up.data) = Len(up.file)
          /\ up' = NoSession
          /\ Answer(Error("UPLOAD"))
    /\ UNCHANGED <<file, down, seen>>

\* Mutant: only the size is compared.
Verified_SizeOnly == Len(up.data) = Len(up.file)

\* The size received and the running CRC are those announced.
Verified == up.data = up.file

Published(f) ==
    /\ file' = f
    /\ published' = [p \in Hosts |-> published[p] \union {f}]
    /\ held' = [p \in Hosts |-> held[p] \union {f}]

\* Mutant: COMPLETE is answered whether or not the file was published.
UploadEnd_Anyway ==
    /\ UploadAdmits("END")
    /\ up # NoSession
    /\ up' = NoSession
    /\ Verified
    /\ \/ Published(up.data)
       \/ UNCHANGED <<file, seen>>
    /\ Answer([Line("UPLOAD", "END") EXCEPT !.file = up.file])
    /\ UNCHANGED down

UploadEnd ==
    /\ UploadAdmits("END")
    /\ up # NoSession
    /\ up' = NoSession
    /\ \/ /\ Verified
          /\ Published(up.data)
          /\ Answer([Line("UPLOAD", "END") EXCEPT !.file = up.file])
       \/ /\ Faults \/ ~ Verified
          /\ Answer(Error("UPLOAD"))
          /\ UNCHANGED <<file, seen>>
    /\ UNCHANGED down

-----------------------------------------------------------------------------
(* commandDownload.  down.file is what the open file held at BEGIN,        *)
(* down.data what has been sent of it.  STORAGE DELETE spares open files.  *)

DownloadAdmits(verb) == Handles("DOWNLOAD", verb) /\ ~ OwnedByAnother(down, up)

DownloadRefused ==
    /\ \E verb \in {"BEGIN", "DATA", "END", "CANCEL"} :
          /\ Handles("DOWNLOAD", verb)
          /\ \/ OwnedByAnother(down, up)
             \/ verb \in {"DATA", "END"} /\ down = NoSession
    /\ Answer(Error("DOWNLOAD"))
    /\ UNCHANGED <<file, up, down, seen>>

\* A missing file leaves an older download of the owner open; when the file
\* cannot be opened or inspected that has been closed already.
DownloadBegin ==
    /\ DownloadAdmits("BEGIN")
    /\ \/ /\ file # NoFile
          /\ down' = Session(file)
          /\ Answer([Line("DOWNLOAD", "BEGIN") EXCEPT !.file = file])
       \/ /\ file = NoFile
          /\ UNCHANGED down
          /\ Answer(Error("DOWNLOAD"))
       \/ /\ Faults /\ file # NoFile
          /\ down' = NoSession
          /\ Answer(Error("DOWNLOAD"))
    /\ UNCHANGED <<file, up, seen>>

DownloadCancel ==
    /\ DownloadAdmits("CANCEL")
    /\ down' = NoSession
    /\ Answer(Line("DOWNLOAD", "CANCEL"))
    /\ UNCHANGED <<file, up, seen>>

Piece(seq) ==
    [Line("DOWNLOAD", "DATA") EXCEPT !.seq = seq, !.chunk = down.file[seq + 1]]

\* Mutant: a repeated request is served with the next chunk.
DownloadAgain_ReadsOn ==
    /\ DownloadAdmits("DATA")
    /\ down # NoSession
    /\ job.text.seq + 1 = Len(down.data)
    /\ Len(down.data) < Len(down.file)
    /\ down' = [Touched(down) EXCEPT !.data = Append(@, Piece(Len(down.data)).chunk)]
    /\ Answer([Piece(Len(down.data)) EXCEPT !.seq = job.text.seq])
    /\ UNCHANGED <<file, up, seen>>

\* Sequence next - 1 is sent again from last_chunk, next is read from the file.
DownloadAgain ==
    /\ DownloadAdmits("DATA")
    /\ down # NoSession
    /\ job.text.seq + 1 = Len(down.data)
    /\ down' = Touched(down)
    /\ Answer(Piece(job.text.seq))
    /\ UNCHANGED <<file, up, seen>>

DownloadUnexpected ==
    /\ DownloadAdmits("DATA")
    /\ down # NoSession
    /\ job.text.seq + 1 # Len(down.data)
    /\ job.text.seq # Len(down.data) \/ Len(down.data) = Len(down.file)
    /\ down' = Touched(down)
    /\ Answer(Error("DOWNLOAD"))
    /\ UNCHANGED <<file, up, seen>>

\* A read fails when the open file has been replaced or removed.
DownloadData ==
    /\ DownloadAdmits("DATA")
    /\ down # NoSession
    /\ job.text.seq = Len(down.data)
    /\ Len(down.data) < Len(down.file)
    /\ \/ /\ file = down.file
          /\ down' = [Touched(down) EXCEPT !.data = Append(@, Piece(job.text.seq).chunk)]
          /\ Answer(Piece(job.text.seq))
       \/ /\ Faults \/ file # down.file
          /\ down' = NoSession
          /\ Answer(Error("DOWNLOAD"))
    /\ UNCHANGED <<file, up, seen>>

DownloadEnd ==
    /\ DownloadAdmits("END")
    /\ down # NoSession
    /\ IF Len(down.data) = Len(down.file)
       THEN /\ down' = NoSession
            /\ Answer([Line("DOWNLOAD", "END") EXCEPT !.file = down.file])
       ELSE /\ down' = Touched(down)
            /\ Answer(Error("DOWNLOAD"))
    /\ UNCHANGED <<file, up, seen>>

\* Mutant: only uploads are spared.
HostTransferActive_Uploads == up # NoSession

\* DeleteGuards::host_transfer_active
HostTransferActive == up # NoSession \/ down # NoSession

StorageDelete ==
    /\ Handles("STORAGE", "DELETE")
    /\ file' = IF HostTransferActive THEN file ELSE NoFile
    /\ Answer(Line("STORAGE", "DELETE"))
    /\ UNCHANGED <<up, down, seen>>

Handler ==
    \/ UploadRefused \/ UploadBegin \/ UploadCancel \/ UploadDataAgain
    \/ UploadDataUnexpected \/ UploadData \/ UploadEnd
    \/ DownloadRefused \/ DownloadBegin \/ DownloadCancel \/ DownloadAgain
    \/ DownloadUnexpected \/ DownloadData \/ DownloadEnd \/ StorageDelete

-----------------------------------------------------------------------------
(* The PC: serial_device.py                                                *)

Post(p, text) == line' = [line EXCEPT ![p] = Append(@, [text |-> text, epoch |-> Epoch(p)])]

\* _send_host_command: the command is remembered for a retry.
Send(p, session, text) ==
    /\ pc' = [pc EXCEPT ![p] = [session EXCEPT !.last = text, !.retries = 0]]
    /\ Post(p, text)

NextUpload(p, n) ==
    IF n = Len(Source[p]) THEN Line("UPLOAD", "END")
    ELSE [Line("UPLOAD", "DATA") EXCEPT !.seq = n, !.chunk = Source[p][n + 1]]

NextDownload(session) ==
    IF Len(session.got) >= Len(session.meta) THEN Line("DOWNLOAD", "END")
    ELSE [Line("DOWNLOAD", "DATA") EXCEPT !.seq = session.n]

\* What was stored and held counts from here, unless p has answers to read.
Remember(p) ==
    IF answer[p] = <<>>
    THEN /\ published' = [published EXCEPT ![p] = {}]
         /\ held' = [held EXCEPT ![p] = {file} \ {NoFile}]
    ELSE UNCHANGED seen

BeginUpload(p) == [Line("UPLOAD", "BEGIN") EXCEPT !.file = Source[p]]

Start(p) ==
    /\ pc[p].op = "idle"
    /\ Attached(p)
    /\ begun[p] < MaxWork
    /\ begun' = [begun EXCEPT ![p] = @ + 1]
    /\ \/ /\ "upload" \in Work[p]
          /\ Send(p, [Quiet EXCEPT !.op = "upload"], BeginUpload(p))
          /\ Remember(p)
       \/ /\ "download" \in Work[p]
          /\ Send(p, [Quiet EXCEPT !.op = "download"], Line("DOWNLOAD", "BEGIN"))
          /\ Remember(p)
       \/ /\ "delete" \in Work[p]
          /\ Post(p, Line("STORAGE", "DELETE"))
          /\ UNCHANGED <<pc, seen>>
    /\ UNCHANGED <<board, answer, link, mishaps>>

Stop(p, result) ==
    pc' = [pc EXCEPT ![p].op = "idle", ![p].result = result]

\* _fail_host_transfer: the board is told, and its answer not waited for.
Fail(p) ==
    /\ Stop(p, "failed")
    /\ Post(p, Line(pc[p].last.dir, "CANCEL"))

\* Mutant: the timer is started for chunks only.
Due_Chunks(p) ==
    /\ pc[p].op # "idle"
    /\ pc[p].last.verb = "DATA"
    /\ UNCHANGED mishaps

\* HOST_TRANSFER_TIMEOUT_MS without an answer: nothing is on its way any more,
\* or it is late.
Due(p) ==
    /\ pc[p].op # "idle"
    /\ IF line[p] = <<>> /\ answer[p] = <<>> /\ job = NoSession
       THEN UNCHANGED mishaps ELSE Mishap("late")

\* A timeout of a PC is a period of silence.
Aged(s) ==
    IF s = NoSession \/ s.age = SessionLife THEN s ELSE [s EXCEPT !.age = @ + 1]

MayRetry(p) == pc[p].last.verb = "DATA" /\ pc[p].retries < HostTransferMaxRetries

Timeout(p) ==
    /\ Due(p)
    /\ up' = Aged(up)
    /\ down' = Aged(down)
    /\ \/ /\ MayRetry(p)
          /\ pc' = [pc EXCEPT ![p].retries = @ + 1]
          /\ Post(p, pc[p].last)
       \/ /\ ~ MayRetry(p)
          /\ Fail(p)
    /\ UNCHANGED <<file, job, answer, link, begun, seen>>

Receives(p) ==
    /\ answer[p] # <<>>
    /\ answer' = [answer EXCEPT ![p] = Tail(@)]
    /\ UNCHANGED <<board, link, begun, seen, mishaps>>

\* An answer is for the pending command when that has its direction and verb.
Pending(p, a) == pc[p].op # "idle" /\ pc[p].last.dir = a.dir /\ pc[p].last.verb = a.verb

\* An ERROR ends the operation that waits in its direction.
ReceiveError(p) ==
    LET a == Head(answer[p]) IN
    /\ Receives(p)
    /\ a.verb = "ERROR"
    /\ pc[p].op # "idle"
    /\ pc[p].last.dir = a.dir
    /\ Fail(p)

ReceiveReady(p) ==
    LET a == Head(answer[p]) IN
    /\ Receives(p)
    /\ a.dir = "UPLOAD" /\ a.verb = "BEGIN" /\ Pending(p, a)
    /\ IF a.file = Source[p] THEN Send(p, pc[p], NextUpload(p, 0)) ELSE Fail(p)

\* An acknowledgement of an earlier chunk is no answer to this one.
ReceiveAck(p) ==
    LET a == Head(answer[p])
        advanced == [pc[p] EXCEPT !.n = @ + 1]
    IN
    /\ Receives(p)
    /\ a.dir = "UPLOAD" /\ a.verb = "DATA" /\ Pending(p, a)
    /\ a.seq = pc[p].n
    /\ IF a.total = pc[p].n + 1
       THEN Send(p, advanced, NextUpload(p, advanced.n))
       ELSE Fail(p)

\* COMPLETE ends an upload; a validation upload is read back.
ReceiveComplete(p) ==
    LET a == Head(answer[p]) IN
    /\ Receives(p)
    /\ a.dir = "UPLOAD" /\ a.verb = "END" /\ Pending(p, a)
    /\ IF a.file # Source[p] THEN Fail(p)
       ELSE IF "readback" \in Work[p]
       THEN Send(p, [Quiet EXCEPT !.op = "readback"], Line("DOWNLOAD", "BEGIN"))
       ELSE Stop(p, "stored") /\ UNCHANGED line

\* READY gives size and CRC, which for a readback are those of the source.
ReceiveDownloadReady(p) ==
    LET a == Head(answer[p])
        opened == [pc[p] EXCEPT !.meta = a.file]
    IN
    /\ Receives(p)
    /\ a.dir = "DOWNLOAD" /\ a.verb = "BEGIN" /\ pc[p].op \in {"readback", "download"}
    /\ IF ~ Pending(p, a) THEN pc' = [pc EXCEPT ![p] = opened] /\ UNCHANGED line
       ELSE IF pc[p].op = "readback" /\ a.file # Source[p] THEN Fail(p)
       ELSE Send(p, opened, NextDownload(opened))

ReceivePiece(p) ==
    LET a == Head(answer[p])
        longer == [pc[p] EXCEPT !.got = Append(@, a.chunk), !.n = @ + 1]
    IN
    /\ Receives(p)
    /\ a.dir = "DOWNLOAD" /\ a.verb = "DATA" /\ Pending(p, a)
    /\ a.seq >= pc[p].n
    /\ IF a.seq = pc[p].n /\ Len(pc[p].got) < Len(pc[p].meta)
       THEN Send(p, longer, NextDownload(longer))
       ELSE Fail(p)

\* Mutant: the CRC is not compared.
Intact_SizeOnly(p) == Len(pc[p].got) = Len(pc[p].meta)

\* Size and CRC of what was written against READY, and the bytes on a readback.
Intact(p) == pc[p].got = pc[p].meta

ReceiveDownloadComplete(p) ==
    LET a == Head(answer[p]) IN
    /\ Receives(p)
    /\ a.dir = "DOWNLOAD" /\ a.verb = "END" /\ Pending(p, a)
    /\ IF \/ a.file # pc[p].meta
          \/ ~ Intact(p)
          \/ pc[p].op = "readback" /\ pc[p].got # Source[p]
       THEN Fail(p)
       ELSE /\ Stop(p, IF pc[p].op = "readback" THEN "verified" ELSE "downloaded")
            /\ UNCHANGED line

\* CANCELLED, DELETED, repetitions and answers to an operation given up.
ReceiveOther(p) ==
    LET a == Head(answer[p]) IN
    /\ Receives(p)
    /\ CASE a.verb = "ERROR" -> pc[p].op = "idle" \/ pc[p].last.dir # a.dir
         [] a.dir = "DOWNLOAD" /\ a.verb = "BEGIN" -> pc[p].op \notin {"readback", "download"}
         [] a.verb = "DATA" -> ~ Pending(p, a) \/ a.seq < pc[p].n
         [] OTHER -> ~ Pending(p, a)
    /\ UNCHANGED <<pc, line>>

Receive(p) ==
    \/ ReceiveError(p) \/ ReceiveReady(p) \/ ReceiveAck(p) \/ ReceiveComplete(p)
    \/ ReceiveDownloadReady(p) \/ ReceivePiece(p) \/ ReceiveDownloadComplete(p)
    \/ ReceiveOther(p)

-----------------------------------------------------------------------------
(* The links                                                               *)

\* handleSppEvent: one client at a time, every connection a new epoch.
Connect(p) ==
    /\ p \in Wireless
    /\ link.client = NoHost
    /\ link.epoch < 2 * Mishaps["break"] + 2
    /\ link' = [client |-> p, epoch |-> link.epoch + 1]
    /\ UNCHANGED <<board, line, answer, pcs, seen, mishaps>>

\* A PC closes its port, or loses it: answers on their way are gone, lines
\* on their way are not.  A wired PC's lines stay valid.
Break(p) ==
    /\ Attached(p)
    /\ Mishap("break")
    /\ link' = IF p \in Wireless THEN [client |-> NoHost, epoch |-> link.epoch + 1] ELSE link
    /\ answer' = [answer EXCEPT ![p] = <<>>]
    /\ pc' = [pc EXCEPT ![p].op = "idle",
                        ![p].result = IF pc[p].op = "idle" THEN @ ELSE "failed"]
    /\ UNCHANGED <<board, line, begun, seen>>

LoseLine(p) ==
    /\ line[p] # <<>>
    /\ Head(line[p]).text.verb \in LossyVerbs
    /\ Mishap("line")
    /\ line' = [line EXCEPT ![p] = Tail(@)]
    /\ UNCHANGED <<board, answer, link, pcs, seen>>

LoseAnswer(p) ==
    /\ answer[p] # <<>>
    /\ Head(answer[p]).verb \in LossyVerbs
    /\ Mishap("answer")
    /\ answer' = [answer EXCEPT ![p] = Tail(@)]
    /\ UNCHANGED <<board, line, link, pcs, seen>>

\* The hex digits of a chunk arrive as those of another chunk.
DamageLine(p) ==
    /\ line[p] # <<>>
    /\ Head(line[p]).text.dir = "UPLOAD" /\ Head(line[p]).text.verb = "DATA"
    /\ Mishap("damage")
    /\ \E c \in Chunks \ {Head(line[p]).text.chunk} :
          line' = [line EXCEPT ![p][1].text.chunk = c]
    /\ UNCHANGED <<board, answer, link, pcs, seen>>

DamageAnswer(p) ==
    /\ answer[p] # <<>>
    /\ Head(answer[p]).dir = "DOWNLOAD" /\ Head(answer[p]).verb = "DATA"
    /\ Mishap("damage")
    /\ \E c \in Chunks \ {Head(answer[p]).chunk} :
          answer' = [answer EXCEPT ![p][1].chunk = c]
    /\ UNCHANGED <<board, line, link, pcs, seen>>

-----------------------------------------------------------------------------
Board == (\E p \in Hosts : Dispatch(p)) \/ ExpireOnDispatch \/ Handler

Next ==
    \/ Board \/ ExpireInMaintenance
    \/ \E p \in Hosts :
          \/ Start(p) \/ Timeout(p) \/ Receive(p)
          \/ Connect(p) \/ Break(p)
          \/ LoseLine(p) \/ LoseAnswer(p) \/ DamageLine(p) \/ DamageAnswer(p)

Spec == Init /\ [][Next]_vars

\* Nothing more can come for the session: its connection has ended, or no PC
\* has anything to send, so that the silence lasts.
Abandoned ==
    \/ \E s \in {up, down} \ {NoSession} : ~ Alive(s, FALSE)
    \/ \A p \in Hosts : pc[p].op = "idle" /\ line[p] = <<>>

\* The board's tasks run, and the PC's timer fires.  Nothing makes a PC start
\* an operation or connect.
FairSpec ==
    /\ Spec
    /\ WF_vars(Board)
    /\ WF_vars(ExpireInMaintenance /\ Abandoned)
    /\ \A p \in Hosts : WF_vars(Receive(p)) /\ WF_vars(Timeout(p))

-----------------------------------------------------------------------------
(* Properties                                                              *)

SessionOK(s) ==
    \/ s = NoSession
    \/ /\ s \in Sessions
       /\ s.wireless <=> s.epoch > 0
       /\ Len(s.data) <= Len(s.file)

PCs == [op : {"idle", "upload", "readback", "download"}, last : Lines,
        retries : 0..HostTransferMaxRetries, n : Nat, got : Seq(Chunks),
        meta : Files \union {NoFile},
        result : {"none", "failed", "stored", "verified", "downloaded"}]

\* Every variable has its type: no more chunks in a session than its file
\* has, no more retries than the PC allows itself.
TypeOK ==
    /\ file \in Files \union {NoFile}
    /\ SessionOK(up) /\ SessionOK(down)
    /\ link \in [client : Wireless \union {NoHost}, epoch : Nat]
    /\ job \in Jobs \union {NoSession}
    /\ line \in [Hosts -> Seq([text : Lines, epoch : Nat])]
    /\ answer \in [Hosts -> Seq(Lines)]
    /\ pc \in [Hosts -> PCs]
    /\ begun \in [Hosts -> 0..MaxWork]
    /\ published \in [Hosts -> SUBSET Files]
    /\ held \in [Hosts -> SUBSET Files]
    /\ mishaps \in [DOMAIN Mishaps -> Nat]

IsPrefixOf(s, t) == Len(s) <= Len(t) /\ \A i \in 1..Len(s) : s[i] = t[i]

\* As long as no bytes are damaged, what an upload has written is the
\* beginning of the file it announced, however often its lines are repeated,
\* lost, or mixed with those of another PC or of an earlier connection.
StagedInOrder ==
    mishaps["damage"] = 0 /\ up # NoSession => IsPrefixOf(up.data, up.file)

\* What a PC has taken of a download stands at that place in a file which the
\* name has held, although requests and answers are repeated and answers come
\* late.  Whether all of it is of one file shows at the end (ReportTrue).
ReceivedInOrder ==
    \A p \in Hosts :
        mishaps["damage"] = 0 /\ pc[p].op \in {"readback", "download"}
            => \A i \in 1..Len(pc[p].got) :
                  \E f \in held[p] : i <= Len(f) /\ pc[p].got[i] = f[i]

\* A PC that reports success is right: the board has published the upload
\* since the PC began it, a readback is the source, and a downloaded file is
\* one that the name has held since the PC asked for it.  If answers to an
\* earlier operation were still to be read when it began, they may be taken
\* for its own, and what they say counts.
ReportTrue ==
    \A p \in Hosts :
        /\ pc[p].result \in {"stored", "verified"} => Source[p] \in published[p]
        /\ pc[p].result = "downloaded" => pc[p].got \in held[p]
        /\ pc[p].result = "verified" => pc[p].got = Source[p]

\* The file of an open download is neither replaced nor removed.
OpenFileStays == down # NoSession => file = down.file

\* A transfer is of one file and in order from its first chunk to its last, at the
\* board as at the PC, whoever else has a transfer going.
TransfersSteady == TypeOK /\ StagedInOrder /\ ReceivedInOrder /\ OpenFileStays

\* Every operation of a PC ends, whatever is lost: with success or failure.
OperationsEnd == \A p \in Hosts : pc[p].op # "idle" ~> pc[p].op = "idle"

\* A session that its PC has left does not keep the others out for ever.
SessionsEnd == up # NoSession \/ down # NoSession ~> up = NoSession /\ down = NoSession

\* Neither side waits for the other for ever.
SessionsSettle == OperationsEnd /\ SessionsEnd

Staging == INSTANCE FileStaging WITH
    Owners <- BOOLEAN \X (0..(2 * Mishaps["break"] + 2)),
    NoStage <- NoSession,
    stage <- IF up = NoSession THEN NoSession
             ELSE [owner |-> <<up.wireless, up.epoch>>, announced |-> up.file,
                   chunks |-> Len(up.data), intact |-> IsPrefixOf(up.data, up.file)]

\* The upload commands implement the staging of one announced file at a time.
ImplementsStaging == Staging!Spec
=============================================================================
