---------------------------- MODULE LegacyTransfer ----------------------------
(***************************************************************************)
(* The one-way file stream the repository keeps beside protocol v2:        *)
(* file_segmenter.hpp cuts a file into packets while it reads one piece    *)
(* ahead, and file_receiver.hpp writes the packets of one session to a     *)
(* partial file and publishes it with the packet that carries LAST.        *)
(* audio_reassembler.cpp listens to the same packets and keeps what it can *)
(* of a stream with holes.                                                 *)
(*                                                                         *)
(* The radio loses and repeats packets.  Every storage callback may fail,  *)
(* and a read may be short, may report the end of the file with the last   *)
(* bytes or after them, and may fail.  The sender may disappear within a   *)
(* stream.  A byte is the pair of its file and its place in it.            *)
(***************************************************************************)
EXTENDS Integers, Sequences, FiniteSets, Functions

CONSTANTS
    Streams,     \* the files sent, one stream each, in this order
    Size,        \* Size[f]: bytes of file f
    LegacyCap,   \* kAudioBytesPerPacket
    MaxSeq,      \* UINT16_MAX
    Waits,       \* TRUE: a stream begins when the last session has timed out
    MaxGap,      \* kMaxToleratedSequenceGap
    MaxLegacyMishaps   \* bound: packets lost or repeated, reads and storage callbacks
                 \* that fail, streams the sender leaves, timeouts within a stream,
                 \* malformed packets and operator's calls, all together

LegacyAssumption ==
    /\ Streams \in Seq(STRING) /\ IsInjective(Streams)
    /\ \A f \in Range(Streams) : Size[f] \in Nat
    /\ Waits \in BOOLEAN
    /\ {LegacyCap, MaxSeq, MaxGap, MaxLegacyMishaps} \subseteq Nat
    /\ LegacyCap > 0 /\ MaxGap < MaxSeq

VARIABLES
    stream,     \* number of the stream being sent; 0 before the first
    segmenter,  \* Segmenter of the current file
    returned,   \* bytes its callback has returned
    air,        \* frames on their way
    rx,         \* FileReceiver::Transfer
    partial,    \* the partial file, or Absent
    published,  \* history: the contents published
    audio,      \* AudioReassembler
    legacyMishaps   \* mishaps so far

legacyVars == <<stream, segmenter, returned, air, rx, partial, published, audio,
                legacyMishaps>>

Mishap(n) == legacyMishaps + n <= MaxLegacyMishaps /\ legacyMishaps' = legacyMishaps + n

Bytes(f, from, n) == [i \in 1..n |-> <<f, from + i>>]
Content(f) == Bytes(f, 0, Size[f])

-----------------------------------------------------------------------------
(* The segmenter.                                                          *)

Fresh == [next |-> 0, pending |-> <<>>, atEnd |-> FALSE, finished |-> FALSE]

\* What one call of the read callback may return: the bytes behind those
\* already returned, fewer than asked for or none at the end.
Reads(f, at) ==
    {[data |-> Bytes(f, at, n), state |-> s] :
        n \in {k \in 0..LegacyCap : at + k <= Size[f]}, s \in {"more", "end", "error"}}

Honest(f, at, r) ==
    /\ r.state = "more" => r.data # <<>>
    /\ r.state = "end" => at + Len(r.data) = Size[f]
    /\ r.state = "error" => legacyMishaps < MaxLegacyMishaps

\* The two reads of a call: the piece itself, unless it was read ahead, and the
\* one behind it, unless the piece ends the file.
Ahead == segmenter.pending # <<>>

FirstRead(f) ==
    IF Ahead THEN {[data |-> segmenter.pending,
                    state |-> IF segmenter.atEnd THEN "end" ELSE "more"]}
             ELSE {r \in Reads(f, returned) : Honest(f, returned, r)}

SecondRead(f, r) ==
    LET at == IF Ahead THEN returned ELSE returned + Len(r.data)
    IN  IF r.state = "more" THEN {l \in Reads(f, at) : Honest(f, at, l)}
                            ELSE {[data |-> <<>>, state |-> "end"]}

\* Faulty: an error of the read-ahead is not looked at.
Broken_First(r, l) == r.state = "error"

Broken(r, l) == "error" \in {r.state, l.state}

IsLast(r, l) == r.state = "end" \/ l.data = <<>>

BrokenOff == [segmenter EXCEPT !.finished = TRUE, !.pending = <<>>]

-----------------------------------------------------------------------------
(* The receiver.                                                           *)

NoTransfer == [state |-> "Idle", failure |-> "None", stream |-> 0, expected |-> 0,
         open |-> FALSE, present |-> FALSE, cleanupFailed |-> FALSE]
Absent == <<"absent">>
Active == rx.state \in {"AwaitingFirst", "Receiving"}

\* cleanupStorage of session r, with the outcomes of close and remove_partial;
\* a callback that is not made has no bad outcome.
MayClean(r, ok) == (~r.open => ok[1]) /\ (~r.present => ok[2])

\* Faulty: a partial file that could not be removed is forgotten.
Cleaned_Forgets(r, ok) == [r EXCEPT !.open = FALSE, !.present = FALSE,
                                    !.cleanupFailed = FALSE]

Cleaned(r, ok) == [r EXCEPT !.open = FALSE, !.present = @ /\ ~ok[2],
                            !.cleanupFailed = ~(ok[1] /\ ok[2])]

RemovedPartial(r, ok) == IF r.present /\ ok[2] THEN Absent ELSE partial

\* cleanupStorage of session r: callbacks that fail are counted against the bound
\* beside the n that have failed before.
Outcomes == BOOLEAN \X BOOLEAN
CleansUp(r, n, ok) ==
    /\ MayClean(r, ok)
    /\ Mishap(n + Cardinality({k \in 1..2 : ~ok[k]}))
    /\ partial' = RemovedPartial(r, ok)

\* fail: the session ends and its partial file goes.
FailsAfter(r, why, n) ==
    /\ LET failed == [r EXCEPT !.state = "Failed", !.failure = why]
       IN  \E ok \in Outcomes :
               CleansUp(failed, n, ok) /\ rx' = Cleaned(failed, ok)
    /\ UNCHANGED published

Fail(why) == FailsAfter(rx, why, 0)

-----------------------------------------------------------------------------
NoAudio == [data |-> <<>>, next |-> 0, missing |-> 0, started |-> FALSE,
            complete |-> FALSE]

LegacyInit ==
    /\ stream = 0 /\ segmenter = [Fresh EXCEPT !.finished = TRUE] /\ returned = 0
    /\ air = <<>>
    /\ rx = NoTransfer /\ partial = Absent /\ published = <<>>
    /\ audio = NoAudio
    /\ legacyMishaps = 0

Control(kind, id) == [kind |-> kind, stream |-> id]
Data(seq, payload, first, last) ==
    [kind |-> "DATA", seq |-> seq, payload |-> payload, first |-> first,
     last |-> last]

\* The driver of the tests: a new stream begins when the one before is through.
BeginStream ==
    /\ segmenter.finished /\ stream < Len(Streams) /\ air = <<>>
    /\ Waits => ~Active
    /\ stream' = stream + 1
    /\ segmenter' = Fresh /\ returned' = 0
    /\ air' = <<Control("START", stream')>>
    /\ UNCHANGED <<rx, partial, published, audio, legacyMishaps>>

\* Segmenter::next and the frame it leads to.  Whatever keeps the stream from
\* its LAST packet is followed by STOP.
Segment ==
    /\ ~segmenter.finished /\ Len(air) < 2 /\ segmenter.next <= MaxSeq
    /\ LET f == Streams[stream]
       IN \E r \in FirstRead(f) : \E l \in SecondRead(f, r) :
          /\ Mishap(IF "error" \in {r.state, l.state} THEN 1 ELSE 0)
          /\ returned' = returned + (IF Ahead THEN 0 ELSE Len(r.data)) + Len(l.data)
          /\ IF Broken(r, l) \/ r.data = <<>>
             THEN /\ segmenter' = BrokenOff
                  /\ air' = Append(air, Control("STOP", stream))
             ELSE /\ segmenter' = [next |-> segmenter.next + 1, pending |-> l.data,
                                   atEnd |-> l.state = "end",
                                   finished |-> IsLast(r, l)]
                  /\ air' = Append(air, Data(segmenter.next, r.data,
                                             segmenter.next = 0, IsLast(r, l)))
    /\ UNCHANGED <<stream, rx, partial, published, audio>>

\* A file of more packets than there are sequence numbers ends unsupported.
TooManyPackets ==
    /\ ~segmenter.finished /\ Len(air) < 2 /\ segmenter.next > MaxSeq
    /\ segmenter' = BrokenOff
    /\ air' = Append(air, Control("STOP", stream))
    /\ UNCHANGED <<stream, returned, rx, partial, published, audio,
                   legacyMishaps>>

GivesUp ==
    /\ ~segmenter.finished /\ Mishap(1)
    /\ segmenter' = BrokenOff
    /\ UNCHANGED <<stream, returned, air, rx, partial, published, audio>>

Lost ==
    /\ air # <<>> /\ Mishap(1)
    /\ air' = Tail(air)
    /\ UNCHANGED <<stream, segmenter, returned, rx, partial, published, audio>>

Repeated ==
    /\ air # <<>> /\ Mishap(1)
    /\ air' = <<Head(air)>> \o air
    /\ UNCHANGED <<stream, segmenter, returned, rx, partial, published, audio>>

-----------------------------------------------------------------------------
(* The calls of FileReceiver::Transfer.                                    *)

Keeps == UNCHANGED <<rx, partial, published, legacyMishaps>>

\* prepare opens a new partial file; a failed one may leave the old behind.
Prepares(id) ==
    \/ /\ rx' = [NoTransfer EXCEPT !.state = "AwaitingFirst", !.stream = id,
                             !.open = TRUE, !.present = TRUE]
       /\ partial' = <<>>
       /\ UNCHANGED legacyMishaps
    \/ /\ Mishap(1)
       /\ \/ /\ rx' = [NoTransfer EXCEPT !.state = "Failed", !.failure = "OpenFailed"]
             /\ partial' = Absent
          \/ /\ rx' = [NoTransfer EXCEPT !.state = "Failed", !.failure = "CleanupFailed",
                                   !.present = TRUE]
             /\ partial' = <<>>

\* start: a partial file left over must go first.
Start(id) ==
    \/ Active /\ Keeps
    \/ /\ ~Active /\ UNCHANGED published
       /\ \/ /\ ~rx.open /\ ~rx.present
             /\ Prepares(id)
          \/ /\ rx.open \/ rx.present
             /\ \/ /\ Mishap(1)
                   /\ rx' = [Cleaned(rx, <<TRUE, FALSE>>) EXCEPT !.state = "Failed",
                                !.failure = "CleanupFailed"]
                   /\ UNCHANGED partial
                \/ Prepares(id)

Stop(id) ==
    \/ (~Active \/ id # rx.stream) /\ Keeps
    \/ Active /\ id = rx.stream /\ Fail("Cancelled")

\* Faulty: an old packet is not told from the next one.
IsOldPacket_Never(p) == FALSE

IsOldPacket(p) == rx.state = "Receiving" /\ p.seq < rx.expected
Skips(p) == rx.state = "Receiving" /\ p.seq > rx.expected

\* The packet is refused and the session with it.
Refusal(p) ==
    IF rx.state = "AwaitingFirst"
    THEN IF p.seq = 0 /\ p.first THEN "None" ELSE "MissingFirst"
    ELSE IF Skips(p) THEN "SequenceGap"
    ELSE IF p.first THEN "UnexpectedFirst" ELSE "None"

Limit(p) == p.seq = MaxSeq /\ ~p.last

\* The last packet of a file: close, then publish, each with its failure.
Publishes(r, longer) ==
    \/ /\ rx' = [r EXCEPT !.state = "Completed", !.present = FALSE, !.open = FALSE]
       /\ partial' = Absent
       /\ published' = Append(published, longer)
       /\ UNCHANGED legacyMishaps
    \/ \E why \in {"CloseFailed", "PublicationFailed"} :
          FailsAfter([r EXCEPT !.open = FALSE], why, 1)

AcceptData(p) ==
    \/ (~Active \/ IsOldPacket(p)) /\ Keeps
    \/ /\ Active /\ ~IsOldPacket(p) /\ Refusal(p) # "None"
       /\ Fail(Refusal(p))
    \/ /\ Active /\ ~IsOldPacket(p) /\ Refusal(p) = "None" /\ Limit(p)
       /\ Fail("SequenceLimit")
    \/ /\ Active /\ ~IsOldPacket(p) /\ Refusal(p) = "None" /\ ~Limit(p)
       /\ \/ FailsAfter(rx, "WriteFailed", 1)
          \/ /\ ~p.last
             /\ rx' = [rx EXCEPT !.state = "Receiving", !.expected = p.seq + 1]
             /\ partial' = partial \o p.payload
             /\ UNCHANGED <<published, legacyMishaps>>
          \/ /\ p.last
             /\ Publishes([rx EXCEPT !.expected = p.seq + 1], partial \o p.payload)

-----------------------------------------------------------------------------
(* AudioReassembler::acceptPacket.                                         *)

AudioTaken(p) ==
    [data |-> audio.data \o p.payload, next |-> (p.seq + 1) % (MaxSeq + 1),
     missing |-> audio.missing + (p.seq - audio.next), started |-> TRUE,
     complete |-> p.last]

\* Faulty: an old packet is taken again.
AudioRefuses_New(p) ==
    \/ audio.complete
    \/ ~audio.started /\ ~(p.first /\ p.seq = 0)
    \/ audio.started /\ p.first

\* Packets of a stream that is complete or has not begun, old ones, and a
\* second first one.
AudioRefuses(p) ==
    \/ audio.complete
    \/ ~audio.started /\ ~(p.first /\ p.seq = 0)
    \/ audio.started /\ (p.seq < audio.next \/ p.first)

\* Too many packets missing throw the stream away.
AcceptAudio(p) ==
    audio' = IF AudioRefuses(p) THEN audio
             ELSE IF p.seq - audio.next > MaxGap THEN NoAudio
             ELSE AudioTaken(p)

\* A consumer that has its file begins anew.
ResetAudio ==
    /\ audio.complete
    /\ audio' = NoAudio
    /\ UNCHANGED <<stream, segmenter, returned, air, rx, partial, published,
                   legacyMishaps>>

-----------------------------------------------------------------------------
Arrives ==
    /\ air # <<>>
    /\ air' = Tail(air)
    /\ LET p == Head(air)
       IN  \/ p.kind = "START" /\ Start(p.stream) /\ UNCHANGED audio
           \/ p.kind = "STOP" /\ Stop(p.stream) /\ UNCHANGED audio
           \/ p.kind = "DATA" /\ AcceptData(p) /\ AcceptAudio(p)
    /\ UNCHANGED <<stream, segmenter, returned>>

\* checkTimeout when nothing has come for timeoutMs.
CheckTimeout ==
    /\ Active /\ air = <<>> /\ segmenter.finished
    /\ Fail("Timeout")
    /\ UNCHANGED <<stream, segmenter, returned, air, audio>>

\* The same within a stream, rejectMalformedPacket, and abort of a session that
\* runs.
Upset ==
    /\ Active
    /\ \E why \in {"Timeout", "InvalidPacket", "Cancelled"} : FailsAfter(rx, why, 1)
    /\ UNCHANGED <<stream, segmenter, returned, air, audio>>

\* abort of a session that has failed tries the clean-up again.
AbortAgain ==
    /\ rx.state = "Failed"
    /\ \E ok \in Outcomes : CleansUp(rx, 0, ok) /\ rx' = Cleaned(rx, ok)
    /\ UNCHANGED <<stream, segmenter, returned, air, published, audio>>

\* reset clears the session's record also where the clean-up fails.
ResetState(r, ok) ==
    IF ok[1] /\ ok[2] THEN NoTransfer
    ELSE [NoTransfer EXCEPT !.state = "Failed", !.failure = "CleanupFailed",
                      !.present = Cleaned(r, ok).present]

Reset ==
    /\ rx # NoTransfer
    /\ \E ok \in Outcomes : CleansUp(rx, 1, ok) /\ rx' = ResetState(rx, ok)
    /\ UNCHANGED <<stream, segmenter, returned, air, published, audio>>

LegacyNext ==
    \/ BeginStream \/ Segment \/ TooManyPackets \/ GivesUp
    \/ Lost \/ Repeated \/ Arrives
    \/ CheckTimeout \/ Upset \/ AbortAgain \/ Reset \/ ResetAudio

LegacySpec == LegacyInit /\ [][LegacyNext]_legacyVars

-----------------------------------------------------------------------------
(* Properties.                                                             *)

LegacyTypeOK ==
    /\ stream \in 0..Len(Streams)
    /\ segmenter.next \in 0..(MaxSeq + 1)
    /\ rx.state \in {"Idle", "AwaitingFirst", "Receiving", "Completed", "Failed"}
    /\ rx.expected \in 0..(MaxSeq + 1)
    /\ audio.next \in 0..MaxSeq /\ audio.missing \in Nat

\* What is published is a whole file: every byte of it, once, in order, and
\* nothing else, whatever was lost, repeated or read in small pieces, and never
\* a file that has more packets than sequence numbers (Segmenter::next with
\* Transfer::accept).  It holds only where Waits is TRUE: then no packet of the
\* next stream meets a session of the last one.  Nothing in the code enforces
\* that, and with Waits FALSE the packets of two streams, which are told apart by
\* their numbers only, end up in one file.
PublishedIsWhole ==
    \A k \in DOMAIN published :
        \E f \in Range(Streams) : published[k] = Content(f)

\* A partial file that is on the storage with no session running is one the
\* receiver knows of and reports, so that the next start or abort removes it.
OrphanIsReported ==
    partial # Absent /\ ~Active =>
        rx.present /\ (rx.cleanupFailed \/ rx.failure = "CleanupFailed")

\* The reassembler keeps a file's bytes in their order and none of them twice,
\* over packets lost and repeated (no file is sent twice).
AudioIsOrdered ==
    \A i, j \in DOMAIN audio.data :
        i < j /\ audio.data[i][1] = audio.data[j][1] =>
            audio.data[i][2] < audio.data[j][2]

\* What the stream leaves: whole files (where Waits is TRUE), partial ones that are
\* known of, and audio in its order.
LegacyTrue == LegacyTypeOK /\ PublishedIsWhole /\ OrphanIsReported /\ AudioIsOrdered

=============================================================================
