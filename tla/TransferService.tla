---------------------------- MODULE TransferService ----------------------------
(***************************************************************************)
(* What a transmission reads: the sender's side of FileTransfer::Service.  *)
(*                                                                         *)
(* A source is read twice.  inspectSource reads it in pieces of its buffer *)
(* and announces size and CRC; then the session reads it again, packet by  *)
(* packet, for as long as the peer acknowledges.  A source may give less   *)
(* than it is asked for, tell its end with the last bytes or after them,   *)
(* fail, and be another one by the time of the second reading.             *)
(*                                                                         *)
(* The session is here what it asks of its source and reports to its       *)
(* facade: packets are acknowledged in order, or it ends in another way    *)
(* (ReliableTransfer has the frames).  CRC32 is taken to tell contents     *)
(* apart.                                                                  *)
(***************************************************************************)
EXTENDS Integers, Sequences

CONSTANTS
    ServiceCapacity,    \* kDataPayloadCapacity
    BufferSize,         \* the buffer of inspectSource
    MaxFileSize,        \* kMaxFileSize
    Kinds,              \* sources there are: "file", "memory", "stream"
    MaxTransfers,       \* calls of startTransfer
    MaxFaults           \* readings that fail, and changes of a source in use

ServiceAssumption ==
    /\ ServiceCapacity \in Nat \ {0} /\ BufferSize \in Nat \ {0} /\ MaxFileSize \in Nat
    /\ Kinds \subseteq {"file", "memory", "stream"}
    /\ MaxTransfers \in Nat /\ MaxFaults \in Nat

VARIABLES
    source,     \* the source: its kind, contents and position
    active,     \* active_source_ is set
    step,       \* what startTransfer or the session is at
    metadata,   \* wire_metadata and metadata_: the contents stand for size and CRC
    session,    \* sender_
    reading,    \* the bytes of the packet that is being read
    packets,    \* the packets that were read, the last one unacknowledged
    status,     \* sender_status_
    code,       \* what the last startTransfer has returned
    lastId,     \* last_transfer_id_
    truth,      \* history: what became of the transfer with each id
    calls,      \* calls of startTransfer so far
    faults      \* faults so far, and those since the last startTransfer

serviceVars == <<source, active, step, metadata, session, reading, packets, status, code,
                 lastId, truth, calls, faults>>

-----------------------------------------------------------------------------
Terminal == {"Completed", "Cancelled", "Failed"}
NoSession == [state |-> "Idle", id |-> 0, sequence |-> 0, error |-> "None"]
NoStatus == [id |-> 0, state |-> "Idle", sequence |-> 0, error |-> "None"]
Ids == 0..MaxTransfers + 1

\* Bytes that tell which source they come from, and where they were in it.
Contents(name, size) == [i \in 1..size |-> <<name, i>>]
NoSource == [kind |-> "none", data |-> <<>>, position |-> 0, length |-> 0]

ServiceInit ==
    /\ source = NoSource /\ active = FALSE /\ step = "idle"
    /\ metadata = <<>> /\ session = NoSession /\ reading = <<>> /\ packets = <<>>
    /\ status = NoStatus /\ code = "none" /\ lastId = 0
    /\ truth = [i \in Ids |-> "none"]
    /\ calls = 0 /\ faults = [all |-> 0, since |-> 0]

Fault == /\ faults.all < MaxFaults
         /\ faults' = [all |-> faults.all + 1, since |-> faults.since + 1]

-----------------------------------------------------------------------------
(* The source.                                                             *)

Rest == SubSeq(source.data, source.position + 1, Len(source.data))
AtMost(n) == IF n < Len(Rest) THEN n ELSE Len(Rest)

\* How many bytes a read may give.
Counts(capacity) ==
    IF source.kind = "stream" /\ Rest # <<>> THEN 1..AtMost(capacity) ELSE {AtMost(capacity)}

\* fread notices the end when it gets less than it asks for, the memory source
\* with the last byte, a stream with it or later.
EndTold(capacity, n) ==
    CASE Rest = <<>> -> {TRUE}
      [] Rest # <<>> /\ source.kind = "file" -> {n < capacity}
      [] Rest # <<>> /\ source.kind = "memory" -> {n = Len(Rest)}
      [] OTHER -> IF n = Len(Rest) THEN BOOLEAN ELSE {FALSE}

Results(capacity) ==
    UNION {{[bytes |-> SubSeq(Rest, 1, n), ended |-> e] : e \in EndTold(capacity, n)} :
              n \in Counts(capacity)}

\* A source that is read moves on, one that is reset begins anew.
Moved(result) == source' = [source EXCEPT !.position = @ + Len(result.bytes)]
Rewound == source' = [source EXCEPT !.position = 0]

\* Somebody else puts other contents in its place, or takes some away.
SourceChanges ==
    /\ active /\ Fault
    /\ \E size \in 0..MaxFileSize :
          source' = [source EXCEPT !.data = Contents("other", size)]
    /\ UNCHANGED <<active, step, metadata, session, reading, packets, status, code, lastId,
                   truth, calls>>

-----------------------------------------------------------------------------
(* startTransfer.                                                          *)

\* A start that fails before there is an id.
Reject(begun, reason, error) ==
    /\ code' = reason
    /\ active' = FALSE /\ step' = "idle"
    /\ status' = [begun EXCEPT !.state = "Failed", !.error = error]

\* Faulty: the status of the transfer before is kept.
StatusBegun_Keeps == [status EXCEPT !.state = "Preparing"]

StatusBegun == [NoStatus EXCEPT !.state = "Preparing"]

StartBusy ==
    /\ calls < MaxTransfers /\ step = "idle"
    /\ session.state \notin Terminal \cup {"Idle"}
    /\ code' = "Busy" /\ calls' = calls + 1
    /\ UNCHANGED <<source, active, step, metadata, session, reading, packets, status, lastId,
                   truth, faults>>

\* The application has seen the end of a transfer before it starts the next.
StartTransfer ==
    /\ calls < MaxTransfers /\ step = "idle" /\ ~active
    /\ session.state \in Terminal \cup {"Idle"}
    /\ calls' = calls + 1 /\ faults' = [faults EXCEPT !.since = 0]
    /\ \E kind \in Kinds, size \in 0..MaxFileSize + 1 :
          source' = [kind |-> kind, data |-> Contents("first", size), position |-> 0,
                     length |-> size]
    /\ \/ /\ active' = TRUE /\ step' = "inspecting"
          /\ status' = StatusBegun /\ code' = "none"
       \/ Reject(StatusBegun, "InvalidExtension", "InvalidMetadata")
    /\ metadata' = <<>> /\ reading' = <<>> /\ packets' = <<>>
    /\ UNCHANGED <<session, lastId, truth>>

\* Faulty: bytes that come with the end are not counted.
Counted_WithoutLast(result) == IF result.ended THEN metadata ELSE metadata \o result.bytes

Counted(result) == metadata \o result.bytes

TooLong(m) == Len(m) > MaxFileSize

\* A piece more; the source says where it ends, or is at its end.
InspectRead ==
    /\ step = "inspecting"
    /\ \E result \in Results(BufferSize) :
          IF TooLong(Counted(result))
          THEN /\ Reject(status, "UnsupportedSize", "UnsupportedSize")
               /\ Rewound /\ UNCHANGED metadata
          ELSE /\ metadata' = Counted(result)
               /\ Moved(result)
               /\ step' = IF result.ended THEN "inspected" ELSE step
               /\ UNCHANGED <<active, status, code>>
    /\ UNCHANGED <<session, reading, packets, lastId, truth, calls, faults>>

\* The source cannot be read or reset, or gives nothing and has not ended.
InspectFails ==
    /\ step \in {"inspecting", "inspected"} /\ Fault
    /\ Reject(status, "ReadFailed", "SourceRead")
    /\ UNCHANGED <<source, metadata, session, reading, packets, lastId, truth, calls>>

\* What stat has said of a file is not what was read; of other sources the
\* application need not say a length.
Mismatch == source.kind = "file" /\ Len(metadata) # source.length

LengthDiffers ==
    /\ step = "inspected" /\ Mismatch
    /\ Reject(status, "LengthMismatch", "InvalidMetadata")
    /\ Rewound
    /\ UNCHANGED <<metadata, session, reading, packets, lastId, truth, calls, faults>>

\* Faulty: an id that the source of ids repeats is taken.
NextTransferId_Repeats(candidate) == candidate

\* Ids wrap around, and 0 is none.
NextTransferId(candidate) ==
    IF candidate # lastId THEN candidate
    ELSE IF candidate = MaxTransfers + 1 THEN 1 ELSE candidate + 1

\* Faulty: the source is read on from where the inspection has ended.
Begun_NoReset == UNCHANGED source

\* inspectSource resets the source when it is done, and begin once more.
Begun == Rewound

\* refreshSenderStatus: the session as applications see it.
MapSenderState(state) ==
    CASE state = "WaitingForReady" -> "Handshaking"
      [] state = "WaitingForDataAck" -> "Transferring"
      [] state = "WaitingForComplete" -> "Verifying"
      [] OTHER -> state

StatusOf(s) ==
    [id |-> s.id, state |-> MapSenderState(s.state), sequence |-> s.sequence, error |-> s.error]

Begin ==
    /\ step = "inspected" /\ ~Mismatch
    /\ \E candidate \in Ids \ {0} :
          LET id == NextTransferId(candidate)
          IN  /\ lastId' = id
              /\ session' = [NoSession EXCEPT !.state = "WaitingForReady", !.id = id]
              /\ truth' = [truth EXCEPT ![id] = "running"]
    /\ status' = StatusOf(session')
    /\ step' = "idle" /\ code' = "Started"
    /\ Begun
    /\ UNCHANGED <<active, metadata, reading, packets, calls, faults>>

\* The second reset fails: the id is gone and the session has none.
BeginFails ==
    /\ step = "inspected" /\ ~Mismatch /\ Fault
    /\ \E candidate \in Ids \ {0} :
          /\ lastId' = NextTransferId(candidate)
          /\ truth' = [truth EXCEPT ![lastId'] = "Failed"]
    /\ session' = [NoSession EXCEPT !.state = "Failed", !.error = "SourceRead"]
    /\ status' = [status EXCEPT !.id = lastId', !.state = "Failed", !.error = "SourceRead"]
    /\ step' = "idle" /\ code' = "SessionRejected" /\ active' = FALSE
    /\ UNCHANGED <<source, metadata, reading, packets, calls>>

-----------------------------------------------------------------------------
(* The session reads.                                                      *)

\* Contents cut into packets: each full, and the last one with what is left.
PacketsOf(contents) == (Len(contents) + ServiceCapacity - 1) \div ServiceCapacity

Pieces(contents) ==
    [n \in 1..PacketsOf(contents) |->
        SubSeq(contents, (n - 1) * ServiceCapacity + 1,
               IF n * ServiceCapacity < Len(contents) THEN n * ServiceCapacity
                                                      ELSE Len(contents))]

TotalPackets == PacketsOf(metadata)

\* The last packet has what the others leave.
Expected ==
    IF session.sequence + 1 < TotalPackets THEN ServiceCapacity
    ELSE Len(metadata) - session.sequence * ServiceCapacity

Ends(state, error) ==
    /\ session' = [session EXCEPT !.state = state, !.error = error]
    /\ truth' = [truth EXCEPT ![session.id] = state]
    /\ step' = "idle"

\* READY or an ACK is taken: to the next packet, or to END.
Acknowledged ==
    /\ step = "idle" /\ session.state \in {"WaitingForReady", "WaitingForDataAck"}
    /\ LET n == IF session.state = "WaitingForReady" THEN 0 ELSE session.sequence + 1
       IN  IF n >= TotalPackets
           THEN /\ session' = [session EXCEPT !.state = "WaitingForComplete", !.sequence = n]
                /\ UNCHANGED step
           ELSE /\ session' = [session EXCEPT !.sequence = n]
                /\ step' = "reading"
    /\ reading' = <<>>
    /\ UNCHANGED <<source, active, metadata, packets, status, code, lastId, truth, calls, faults>>

\* Faulty: the end of the source fails the packet that it comes with.
Cut_AnyEnd(result) == result.ended

\* The source has ended and the packet is not full.
Cut(result) == result.ended /\ Len(reading) + Len(result.bytes) < Expected

ReadPacket ==
    /\ step = "reading"
    /\ \E result \in Results(Expected - Len(reading)) :
          /\ Moved(result)
          /\ IF result.bytes = <<>> \/ Cut(result)
             THEN Ends("Failed", "SourceRead") /\ UNCHANGED <<reading, packets>>
             ELSE /\ reading' = reading \o result.bytes
                  /\ UNCHANGED truth
                  /\ IF Len(reading') < Expected
                     THEN UNCHANGED <<session, step, packets>>
                     ELSE /\ packets' = Append(packets, reading')
                          /\ session' = [session EXCEPT !.state = "WaitingForDataAck"]
                          /\ step' = "idle"
    /\ UNCHANGED <<active, metadata, status, code, lastId, calls, faults>>

ReadFails ==
    /\ step = "reading" /\ Fault
    /\ Ends("Failed", "SourceRead")
    /\ UNCHANGED <<source, active, metadata, reading, packets, status, code, lastId, calls>>

\* The peer has published what it was sent: each packet has the length that START
\* tells of it, and they all have its CRC.
PeerCompletes ==
    /\ step = "idle" /\ session.state = "WaitingForComplete"
    /\ packets = Pieces(metadata)
    /\ Ends("Completed", "None")
    /\ UNCHANGED <<source, active, metadata, reading, packets, status, code, lastId, calls, faults>>

\* ERROR, retries that are used up, and the inactivity timeout.
PeerFails ==
    /\ step = "idle" /\ session.state \notin Terminal \cup {"Idle"}
    /\ \/ Ends("Failed", "Peer")
       \/ session.state = "Cancelling" /\ Ends("Cancelled", "Cancelled")
    /\ UNCHANGED <<source, active, metadata, reading, packets, status, code, lastId, calls, faults>>

-----------------------------------------------------------------------------
(* The facade.                                                             *)

CancelTransfer ==
    /\ step = "idle" /\ session.state \notin Terminal \cup {"Idle", "Cancelling"}
    /\ session' = [session EXCEPT !.state = "Cancelling", !.error = "Cancelled"]
    /\ status' = StatusOf(session')
    /\ UNCHANGED <<source, active, step, metadata, reading, packets, code, lastId, truth, calls,
                   faults>>

\* Faulty: the source is kept.
Released_Keeps == active

\* A session that has ended reads no more.
Released == active /\ session.state \notin Terminal

\* The application calls it until it has seen the end.
RefreshSenderStatus ==
    /\ step = "idle" /\ active
    /\ status' = StatusOf(session)
    /\ active' = Released
    /\ UNCHANGED <<source, step, metadata, session, reading, packets, code, lastId, truth, calls,
                   faults>>

-----------------------------------------------------------------------------
Starting == InspectRead \/ LengthDiffers \/ Begin
Sending == Acknowledged \/ ReadPacket \/ PeerCompletes \/ PeerFails

ServiceNext ==
    \/ StartTransfer \/ StartBusy \/ Starting \/ InspectFails \/ BeginFails
    \/ Sending \/ ReadFails \/ CancelTransfer \/ RefreshSenderStatus
    \/ SourceChanges

ServiceSpec == ServiceInit /\ [][ServiceNext]_serviceVars

-----------------------------------------------------------------------------
(* Properties.                                                             *)

States == {"Idle", "WaitingForReady", "WaitingForDataAck", "WaitingForComplete", "Cancelling"}
          \cup Terminal

ServiceTypeOK ==
    /\ source.position \in 0..MaxFileSize + 1 /\ active \in BOOLEAN
    /\ step \in {"idle", "inspecting", "inspected", "reading"}
    /\ Len(metadata) <= MaxFileSize /\ Len(reading) <= ServiceCapacity
    /\ session.state \in States /\ session.id \in Ids
    /\ status.id \in Ids /\ lastId \in Ids
    /\ step = "reading" => active

\* The packets are the source, in order, each as full as it can be and nothing
\* twice, however the source cuts what it gives.
PacketsAreTheSource ==
    faults.since = 0 /\ session.state \in {"WaitingForDataAck", "WaitingForComplete"} =>
        /\ Len(packets) <= Len(Pieces(source.data))
        /\ packets = SubSeq(Pieces(source.data), 1, Len(packets))
        /\ session.state = "WaitingForComplete" => packets = Pieces(source.data)

\* A source that neither fails nor changes is never refused or failed for what it
\* gives: only for its length, and only when it is too long.
SoundSourceIsSent ==
    faults.since = 0 =>
        /\ code \notin {"ReadFailed", "LengthMismatch", "SessionRejected"}
        /\ code = "UnsupportedSize" => Len(source.data) > MaxFileSize
        /\ code = "Started" => Len(source.data) <= MaxFileSize /\ session.error # "SourceRead"

\* What getTransferStatus says of the end of a transfer is what became of the
\* transfer with that id: not of the one before, and not of a start that failed.
StatusTruthful == status.id # 0 /\ status.state \in Terminal => status.state = truth[status.id]

\* A transfer that the application sees ended has let go of its source, and only a
\* source that is held is read: the application may take its buffer back when it is
\* told of the end, and not when it has cancelled.
SourceFree ==
    /\ step = "idle" /\ status.state \in Terminal => ~active
    /\ step = "reading" => active

\* Two transfers in a row never have the same id, whatever ids are proposed: a
\* peer would take the second for a retransmission of the first.
IdsDiffer ==
    [][code # "Started" /\ code' = "Started" =>
          session'.id \notin {0, lastId, session.id}]_serviceVars

\* What is sent is the source, what is said of a transfer is about that transfer,
\* and the source is its own again when the application is told of the end
\* (file_transfer_service.hpp startTransfer, refreshSenderStatus).
ServiceTrue ==
    /\ [](ServiceTypeOK /\ PacketsAreTheSource /\ SoundSourceIsSent /\ StatusTruthful /\ SourceFree)
    /\ IdsDiffer

=============================================================================
