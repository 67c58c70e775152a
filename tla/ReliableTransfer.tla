-------------------------- MODULE ReliableTransfer --------------------------
(***************************************************************************)
(* RF3 Protocol v2: stop-and-wait file transfer between boards that share  *)
(* one nRF24L01+ radio channel.                                            *)
(*                                                                         *)
(* A sending board runs SenderSession driven by the loop of sendDataFile;  *)
(* the receiving board runs ReceiverSession driven by the RX task, with    *)
(* the SPIFFS sink of main.cpp behind it.  The radio is half duplex:       *)
(* a sender hears only between its transmissions, and entering RX mode     *)
(* flushes the receive FIFO of the chip.                                   *)
(*                                                                         *)
(* Abstractions.  The content of a file is the sequence of its DATA        *)
(* payloads; payload k of transfer i is <<i, k>>.  A CRC32 is compared by  *)
(* comparing the contents (no collision).  Clocks are abstracted to "the   *)
(* deadline has passed"; a deadline that passes while the answer is still  *)
(* on its way counts as a "slow" fault.  Everything the environment does   *)
(* to the boards (lost frames, failing files, operators, resets) is drawn  *)
(* from FaultKinds and bounded by MaxFaults.                               *)
(***************************************************************************)
EXTENDS Naturals, Sequences

CONSTANTS
    Senders,        \* sending boards; a single board receives
    MaxPackets,     \* longest file, in DATA packets
    MaxTransfers,   \* transfer ids 1..MaxTransfers are ever started
    MaxRetries,     \* kMaximumRetries: retransmissions of one frame
    FifoDepth,      \* receive FIFO of the radio (3 on the chip)
    FaultKinds,     \* what the environment may do in this instance
    MaxFaults       \* how many times, all kinds together

ASSUME BoundsAssumption ==
    /\ MaxPackets \in Nat
    /\ MaxTransfers \in Nat
    /\ MaxRetries \in Nat
    /\ FifoDepth \in Nat \ {0}
    /\ MaxFaults \in Nat

VARIABLES
    snd,         \* snd[s]: the SenderSession of board s
    total,       \* total[i]: DATA packets of transfer i (its START metadata)
    nextId,      \* the next unused transfer id
    rcv,         \* the ReceiverSession
    listening,   \* the receiving board is in RadioState::RxListening
    air,         \* RX FIFO of the receiving board
    answers,     \* answers[s]: RX FIFO of sending board s
    partials,    \* transfers that have a .part file on the receiver's SPIFFS
    published,   \* completed files, in the order they were renamed
    apiId,       \* active_api_receive_id_
    report,      \* receiver_status_ of FileTransfer::Service: id and state
    faults       \* environment events so far

senderVars  == <<snd, total, nextId>>
storageVars == <<partials, published>>
radioVars   == <<listening, air, answers>>
appVars     == <<apiId, report>>
vars == <<senderVars, rcv, radioVars, storageVars, appVars, faults>>

-----------------------------------------------------------------------------
Ids == 1 .. MaxTransfers

Payload == Nat \X Nat
NoBody  == <<0, 0>>
Damaged == <<0, 1>>     \* payload bytes changed on the way
Short   == <<0, 2>>     \* payload length field changed on the way

Errors == {"None", "Busy", "InvalidFrame", "InvalidMetadata",
           "UnexpectedSequence", "RetryExhausted", "Timeout", "Cancelled", "SourceRead", "SinkOpen",
           "SinkWrite", "SinkClose", "CrcMismatch", "PublicationFailed",
           "CleanupFailed", "ByteCountMismatch", "PacketCountMismatch"}

FrameTypes == {"START", "READY", "DATA", "ACK", "NACK", "END", "COMPLETE",
               "ERROR", "CANCEL", "GARBLED"}

\* One decoded 32-byte frame.  num is the total, sequence or next expected
\* sequence its type carries; a READY is accepted iff its error is None;
\* GARBLED does not decode but its marker and transfer id can be read.
Frames == [type : FrameTypes, id : Nat, num : Nat, body : Payload, error : Errors]

Frame(type, id, num) ==
    [type |-> type, id |-> id, num |-> num, body |-> NoBody, error |-> "None"]
Refusal(type, id, num, error) == [Frame(type, id, num) EXCEPT !.error = error]

SenderStates == {"Idle", "WaitingForReady", "WaitingForDataAck",
                 "WaitingForComplete", "Completed", "Cancelling", "Cancelled",
                 "Failed"}
Terminal == {"Completed", "Cancelled", "Failed"}

\* phase: "send" while a frame is outbound, "resend" between the two attempts
\* of transmitOnce, "wait" while the board listens for the answer.
Phases == {"off", "send", "resend", "wait"}

SenderSession == [state : SenderStates, id : Nat, cur : Nat,
                  retry : 0 .. MaxRetries, phase : Phases, error : Errors]
NoTransfer == [state |-> "Idle", id |-> 0, cur |-> 0, retry |-> 0,
               phase |-> "off", error |-> "None"]

ReceiverStates == {"Idle", "Receiving", "WaitingForEnd", "Completed",
                   "Cancelled", "Failed"}
ActiveStates == {"Receiving", "WaitingForEnd"}

ReceiverSession == [state : ReceiverStates, id : Nat, total : Nat, exp : Nat,
                    data : Seq(Payload), open : BOOLEAN, present : BOOLEAN,
                    error : Errors, cleanupFailed : BOOLEAN]
NoSession == [state |-> "Idle", id |-> 0, total |-> 0, exp |-> 0,
              data |-> <<>>, open |-> FALSE, present |-> FALSE,
              error |-> "None", cleanupFailed |-> FALSE]

ReportStates == {"Idle", "Handshaking", "Transferring", "Completed",
                 "Cancelled", "Failed"}

FileOf(i) == [k \in 1 .. total[i] |-> <<i, k - 1>>]
PublishedIds == {published[n].id : n \in 1 .. Len(published)}

\* An environment event of the given kind happens in this step.
Inject(kind) ==
    /\ kind \in FaultKinds
    /\ faults < MaxFaults
    /\ faults' = faults + 1
NoFault == UNCHANGED faults

-----------------------------------------------------------------------------
(* The sender session: what each transition does to its record.            *)

Halt(r, error) == [r EXCEPT !.state = "Failed", !.error = error, !.phase = "off"]
Withdraw(r) == [r EXCEPT !.state = "Cancelled", !.error = "Cancelled", !.phase = "off"]

\* Mutants: one retransmission too many; retries that are never counted.
ScheduleRetry_OneMore(r) ==
    IF r.retry <= MaxRetries
    THEN [r EXCEPT !.retry = @ + 1, !.phase = "send"]
    ELSE IF r.state = "Cancelling" THEN Withdraw(r) ELSE Halt(r, "RetryExhausted")
ScheduleRetry_Uncounted(r) == [r EXCEPT !.phase = "send"]

ScheduleRetry(r) ==
    IF r.retry < MaxRetries
    THEN [r EXCEPT !.retry = @ + 1, !.phase = "send"]
    ELSE IF r.state = "Cancelling" THEN Withdraw(r) ELSE Halt(r, "RetryExhausted")

\* Mutant: the last ACK is taken for success.
PrepareNext_NoEnd(s, r) ==
    /\ snd' = [snd EXCEPT ![s] =
          IF r.cur >= total[r.id]
          THEN [r EXCEPT !.state = "Completed", !.phase = "off"]
          ELSE [r EXCEPT !.state = "WaitingForDataAck", !.phase = "send"]]
    /\ NoFault

\* The session r goes on to its next DATA packet, or to END when every packet
\* is acknowledged; reading the source may fail.
PrepareNext(s, r) ==
    IF r.cur >= total[r.id]
    THEN /\ snd' = [snd EXCEPT ![s] = [r EXCEPT !.state = "WaitingForComplete",
                                                 !.phase = "send"]]
         /\ NoFault
    ELSE \/ /\ snd' = [snd EXCEPT ![s] = [r EXCEPT !.state = "WaitingForDataAck",
                                                    !.phase = "send"]]
            /\ NoFault
         \/ /\ Inject("source")
            /\ snd' = [snd EXCEPT ![s] = Halt(r, "SourceRead")]

\* Mutant: cancelling retransmits the START left in the buffer.
Outbound_StaleStart(r) ==
    CASE r.state = "WaitingForDataAck"  -> [Frame("DATA", r.id, r.cur)
                                            EXCEPT !.body = <<r.id, r.cur>>]
      [] r.state = "WaitingForComplete" -> Frame("END", r.id, total[r.id])
      [] OTHER                          -> Frame("START", r.id, total[r.id])

\* The frame in outbound_, a function of the state that encoded it.
Outbound(r) ==
    CASE r.state = "WaitingForReady"    -> Frame("START", r.id, total[r.id])
      [] r.state = "WaitingForDataAck"  -> [Frame("DATA", r.id, r.cur)
                                            EXCEPT !.body = <<r.id, r.cur>>]
      [] r.state = "WaitingForComplete" -> Frame("END", r.id, total[r.id])
      [] OTHER                          -> Frame("CANCEL", r.id, 0)

\* What the receiving radio may make of frame f when noise that the radio's
\* own 16-bit CRC misses has hit it: a frame that does not decode, or DATA with
\* another payload, another length or another sequence.
Garbled(f) ==
    {Frame("GARBLED", f.id, 0)} \cup
    (IF f.type = "DATA"
     THEN {[f EXCEPT !.body = Damaged], [f EXCEPT !.body = Short],
           [f EXCEPT !.num = @ + 1]}
     ELSE {})

\* Frame f is radiated by a sending board.
Radiate(f) ==
    /\ UNCHANGED listening
    /\ IF listening /\ Len(air) < FifoDepth
       THEN \/ air' = Append(air, f) /\ NoFault
            \/ Inject("loss") /\ UNCHANGED air
            \/ /\ Inject("noise")
               /\ \E g \in Garbled(f) : air' = Append(air, g)
       ELSE UNCHANGED air /\ NoFault

ToReceiver == UNCHANGED <<total, nextId, rcv, storageVars, appVars>>

-----------------------------------------------------------------------------
(* The sending board: startTransfer and the loop of sendDataFile.          *)

\* startTransfer inspects the source, draws a fresh id and begins the session.
Begin(s) ==
    /\ snd[s].state \in Terminal \cup {"Idle"}
    /\ nextId \in Ids
    /\ \/ /\ \E n \in 0 .. MaxPackets : total' = [total EXCEPT ![nextId] = n]
          /\ snd' = [snd EXCEPT ![s] = [NoTransfer EXCEPT
                        !.state = "WaitingForReady", !.id = nextId, !.phase = "send"]]
          /\ nextId' = nextId + 1
          /\ NoFault
       \/ /\ Inject("source")
          /\ snd' = [snd EXCEPT ![s] = Halt(NoTransfer, "SourceRead")]
          /\ UNCHANGED <<total, nextId>>
    /\ UNCHANGED <<rcv, radioVars, storageVars, appVars>>

\* sendPayload reports success; the loop then enters RX, which flushes the FIFO.
Transmit(s) ==
    /\ snd[s].phase \in {"send", "resend"}
    /\ Radiate(Outbound(snd[s]))
    /\ snd' = [snd EXCEPT ![s].phase = "wait"]
    /\ answers' = [answers EXCEPT ![s] = <<>>]
    /\ ToReceiver

\* The first attempt of transmitOnce ends without TX_DS although the frame may
\* have been on the air: the driver re-arms the radio and transmits it again.
FirstAttemptUnseen(s) ==
    /\ snd[s].phase = "send"
    /\ "radio" \in FaultKinds
    /\ faults < MaxFaults
    /\ listening
    /\ Len(air) < FifoDepth
    /\ air' = Append(air, Outbound(snd[s]))
    /\ faults' = faults + 1
    /\ snd' = [snd EXCEPT ![s].phase = "resend"]
    /\ UNCHANGED <<listening, answers>>
    /\ ToReceiver

\* sendPayload reports failure: onTransportFailure.
TransmitFails(s) ==
    /\ snd[s].phase \in {"send", "resend"}
    /\ Inject("radio")
    /\ snd' = [snd EXCEPT ![s] = ScheduleRetry(@)]
    /\ UNCHANGED radioVars
    /\ ToReceiver

\* The waiting sender takes the next frame from its FIFO.
Heard(s) == Head(answers[s])
Hears(s) ==
    /\ snd[s].phase = "wait"
    /\ answers[s] # <<>>
    /\ answers' = [answers EXCEPT ![s] = Tail(@)]
    /\ UNCHANGED <<listening, air>>
    /\ ToReceiver

\* Mutant: the transfer id of an answer is not compared.
Awaited_AnyTransfer(r, f) ==
    \/ f.type = "ERROR"
    \/ r.state = "WaitingForReady" /\ f.type = "READY"
    \/ r.state = "WaitingForDataAck" /\ f.type = "NACK"
    \/ r.state = "WaitingForDataAck" /\ f.type = "ACK" /\ f.num >= r.cur
    \/ r.state = "WaitingForComplete" /\ f.type = "COMPLETE"

\* Frames of other transfers, and those the state does not wait for, are ignored.
Awaited(r, f) ==
    /\ f.id = r.id
    /\ \/ f.type = "ERROR"
       \/ r.state = "WaitingForReady" /\ f.type = "READY"
       \/ r.state = "WaitingForDataAck" /\ f.type = "NACK"
       \/ r.state = "WaitingForDataAck" /\ f.type = "ACK" /\ f.num >= r.cur
       \/ r.state = "WaitingForComplete" /\ f.type = "COMPLETE"

HearsAwaited(s, type) ==
    /\ Hears(s)
    /\ Awaited(snd[s], Heard(s))
    /\ Heard(s).type = type

SenderIgnores(s) ==
    /\ Hears(s)
    /\ ~ Awaited(snd[s], Heard(s))
    /\ UNCHANGED snd
    /\ NoFault

SenderHearsError(s) ==
    /\ HearsAwaited(s, "ERROR")
    /\ snd' = [snd EXCEPT ![s] =
                  IF @.state = "Cancelling" /\ Heard(s).error = "Cancelled"
                  THEN Withdraw(@) ELSE Halt(@, Heard(s).error)]
    /\ NoFault

SenderHearsReady(s) ==
    /\ HearsAwaited(s, "READY")
    /\ IF Heard(s).error = "None" /\ Heard(s).num = 0
       THEN PrepareNext(s, [snd[s] EXCEPT !.retry = 0])
       ELSE /\ snd' = [snd EXCEPT ![s] =
                Halt(@, IF Heard(s).error # "None" THEN Heard(s).error
                                                  ELSE "UnexpectedSequence")]
            /\ NoFault

SenderHearsAck(s) ==
    /\ HearsAwaited(s, "ACK")
    /\ IF Heard(s).num = snd[s].cur
       THEN PrepareNext(s, [snd[s] EXCEPT !.retry = 0, !.cur = @ + 1])
       ELSE /\ snd' = [snd EXCEPT ![s] = Halt(@, "UnexpectedSequence")]
            /\ NoFault

SenderHearsNack(s) ==
    /\ HearsAwaited(s, "NACK")
    /\ snd' = [snd EXCEPT ![s] =
                  IF Heard(s).num = @.cur THEN ScheduleRetry(@)
                                          ELSE Halt(@, "UnexpectedSequence")]
    /\ NoFault

SenderHearsComplete(s) ==
    /\ HearsAwaited(s, "COMPLETE")
    /\ snd' = [snd EXCEPT ![s] =
                  IF Heard(s).num = total[@.id]
                  THEN [@ EXCEPT !.state = "Completed", !.phase = "off"]
                  ELSE Halt(@, "InvalidMetadata")]
    /\ NoFault

\* The receiver may still answer what this sender has transmitted.
AnswerOnTheWay(s) ==
    \/ answers[s] # <<>>
    \/ listening /\ \E n \in 1 .. Len(air) : air[n].id = snd[s].id

ResponseTimeout(s) ==
    /\ snd[s].phase = "wait"
    /\ IF AnswerOnTheWay(s) THEN Inject("slow") ELSE NoFault
    /\ snd' = [snd EXCEPT ![s] = ScheduleRetry(@)]
    /\ UNCHANGED radioVars
    /\ ToReceiver

\* Ten seconds without an answer, longer than all retries of one frame take.
SenderInactivity(s) ==
    /\ snd[s].phase = "wait"
    /\ Inject("slow")
    /\ snd' = [snd EXCEPT ![s] = IF @.state = "Cancelling" THEN Withdraw(@)
                                                           ELSE Halt(@, "Timeout")]
    /\ UNCHANGED radioVars
    /\ ToReceiver

\* The loop sees stop_requested: cancelTransfer, once per transfer.
Cancel(s) ==
    /\ snd[s].state \in {"WaitingForReady", "WaitingForDataAck", "WaitingForComplete"}
    /\ snd[s].phase # "resend"
    /\ Inject("cancel")
    /\ snd' = [snd EXCEPT ![s] = [@ EXCEPT !.state = "Cancelling",
                  !.error = "Cancelled", !.retry = 0, !.phase = "send"]]
    /\ UNCHANGED radioVars
    /\ ToReceiver

RebootSender(s) ==
    /\ Inject("reboot")
    /\ snd' = [snd EXCEPT ![s] = NoTransfer]
    /\ answers' = [answers EXCEPT ![s] = <<>>]
    /\ UNCHANGED <<listening, air>>
    /\ ToReceiver

-----------------------------------------------------------------------------
(* The receiving board: ReceiverSession behind processRxPayload.           *)

Active == rcv.state \in ActiveStates

ToSender == UNCHANGED <<senderVars, listening>>

\* The RX task takes the next frame while the radio listens.
Received == Head(air)
Receives(type) ==
    /\ listening
    /\ air # <<>>
    /\ Received.type = type
    /\ ToSender

\* sendProtocolResponseLocked: leave RX, transmit, enter RX again.  The sending
\* boards that listen hear the frame, and the flush empties the FIFO.  A second
\* copy from a repeated attempt finds the sender gone or is ignored again.
Respond(f) ==
    /\ air' = <<>>
    /\ answers' = [s \in Senders |->
           IF snd[s].phase = "wait" /\ Len(answers[s]) < FifoDepth
           THEN Append(answers[s], f) ELSE answers[s]]
ResponseLost ==
    /\ air' = <<>>
    /\ UNCHANGED answers

\* Answer: the response may be lost.  AnswerToo: the same for a handler that
\* has already met a fault in this step.
Answer(f) == \/ Respond(f) /\ NoFault
             \/ ResponseLost /\ Inject("loss")
AnswerToo(f) == \/ Respond(f)
                \/ ResponseLost /\ "loss" \in FaultKinds

\* ReceiverEvent::Ignored: nothing is sent, the FIFO keeps its other frames.
Drop ==
    /\ air' = Tail(air)
    /\ UNCHANGED <<answers, rcv, storageVars, appVars, faults>>

\* Mutant: storage_present_ is cleared although the removal failed.
Abort_Forgets(r, state, error) ==
    /\ rcv' = [r EXCEPT !.state = state, !.error = error, !.open = FALSE,
                        !.present = FALSE]
    /\ \/ partials' = partials \ {r.id}
       \/ UNCHANGED partials

\* abortStorage on session r: the partial is closed and removed, or it is
\* removed although closing failed, or it cannot be removed and stays present.
Abort(r, state, error) ==
    \/ /\ rcv' = [r EXCEPT !.state = state, !.error = error, !.open = FALSE,
                           !.present = FALSE, !.cleanupFailed = FALSE]
       /\ partials' = IF r.present THEN partials \ {r.id} ELSE partials
    \/ /\ "cleanup" \in FaultKinds
       /\ r.present
       /\ \E left \in BOOLEAN :
            /\ r.open \/ left
            /\ rcv' = [r EXCEPT !.state = state, !.error = "CleanupFailed",
                          !.open = FALSE, !.present = left, !.cleanupFailed = TRUE]
            /\ partials' = IF left THEN partials ELSE partials \ {r.id}

\* reportReceiveStarted for a START whose id the session now holds, and
\* reportReceiveFailed, which leaves the status of another transfer alone.
StartedReport ==
    IF rcv'.id = Received.id /\ apiId # Received.id
    THEN [id |-> Received.id, state |-> "Handshaking"] ELSE report
FailedReport(rep, r) ==
    IF rep.id # r.id THEN rep
    ELSE [rep EXCEPT !.state = IF r.error = "Cancelled" THEN "Cancelled" ELSE "Failed"]

\* failWithResponse, and processRxPayload on ReceiverEvent::Failed.
Fails(r, error) ==
    /\ Abort(r, "Failed", error)
    /\ report' = FailedReport(report, rcv')
    /\ apiId' = 0
    /\ UNCHANGED published
ErrorFrame(error) == Refusal("ERROR", rcv.id, rcv.exp, error)

\* processRxPayload after a START that did not end in ReceiverEvent::Failed.
Admit ==
    /\ report' = StartedReport
    /\ apiId' = IF rcv'.id = Received.id THEN Received.id ELSE apiId

\* START of another transfer while one is active, or of this transfer with
\* other metadata: rejected READY, the session is not touched.
ReceiveStartBusy ==
    /\ Receives("START")
    /\ \/ Received.id = rcv.id /\ rcv.state # "Idle" /\ Received.num # rcv.total
       \/ Received.id # rcv.id /\ Active
    /\ UNCHANGED <<rcv, storageVars>>
    /\ Answer(Refusal("READY", Received.id, 0, "Busy"))
    /\ Admit

\* A duplicate START of the active transfer repeats READY.
ReceiveStartAgain ==
    /\ Receives("START")
    /\ Active
    /\ Received.id = rcv.id
    /\ Received.num = rcv.total
    /\ UNCHANGED <<rcv, storageVars>>
    /\ Answer(Frame("READY", rcv.id, rcv.exp))
    /\ Admit

\* Any other START opens a session, after removing a partial left behind.
Opens ==
    /\ Receives("START")
    /\ ~ Active
    /\ ~ (Received.id = rcv.id /\ rcv.state # "Idle" /\ Received.num # rcv.total)

Cleaned == IF rcv.present THEN partials \ {rcv.id} ELSE partials

NewSession == [NoSession EXCEPT !.id = Received.id, !.total = Received.num]

ReceiveStartOpens ==
    /\ Opens
    /\ rcv' = [NewSession EXCEPT !.open = TRUE, !.present = TRUE,
                  !.state = IF Received.num = 0 THEN "WaitingForEnd" ELSE "Receiving"]
    /\ partials' = Cleaned \cup {Received.id}
    /\ UNCHANGED published
    /\ Answer(Frame("READY", Received.id, 0))
    /\ Admit

\* The session cannot be opened: the old partial cannot be removed, no name is
\* free or the partial cannot be opened (a stale one may be gone already), or a
\* stale partial of the same name cannot be removed.
ReceiveStartFails ==
    /\ Opens
    /\ \/ /\ rcv.present
          /\ Inject("cleanup")
          /\ rcv' = [rcv EXCEPT !.state = "Failed", !.error = "CleanupFailed",
                                !.cleanupFailed = TRUE]
          /\ UNCHANGED partials
       \/ /\ Inject("sink")
          /\ rcv' = [NewSession EXCEPT !.state = "Failed", !.error = "SinkOpen"]
          /\ partials' \in {Cleaned, Cleaned \ {Received.id}}
       \/ /\ Received.id \in Cleaned
          /\ Inject("cleanup")
          /\ rcv' = [NewSession EXCEPT !.state = "Failed", !.present = TRUE,
                                       !.error = "CleanupFailed"]
          /\ partials' = Cleaned
    /\ UNCHANGED published
    /\ AnswerToo(Refusal("READY", Received.id, 0, rcv'.error))
    /\ report' = FailedReport(StartedReport, rcv')
    /\ apiId' = 0

\* DATA, END and CANCEL of a transfer the session does not hold, or no longer
\* works on (a repeated END or CANCEL of a finished transfer is answered).
ReceiverIgnores ==
    /\ \E type \in {"DATA", "END", "CANCEL"} : Receives(type)
    /\ \/ Received.id # rcv.id
       \/ /\ ~ Active
          /\ ~ (Received.type = "END" /\ rcv.state = "Completed"
                                      /\ Received.num = rcv.total)
          /\ ~ (Received.type = "CANCEL" /\ rcv.state = "Cancelled")
    /\ Drop

Handles(type) == Receives(type) /\ Received.id = rcv.id

\* Mutants: a duplicate is answered with NACK; a duplicate is not answered.
ReceiveDataDuplicate_Nack ==
    /\ Handles("DATA")
    /\ Active
    /\ Received.num < rcv.exp
    /\ Answer(Refusal("NACK", rcv.id, rcv.exp, "UnexpectedSequence"))
    /\ UNCHANGED <<rcv, storageVars, appVars>>
\* DATA below the expected sequence is acknowledged again and not written.
ReceiveDataDuplicate ==
    /\ Handles("DATA")
    /\ Active
    /\ Received.num < rcv.exp
    /\ Answer(Frame("ACK", rcv.id, Received.num))
    /\ UNCHANGED <<rcv, storageVars, appVars>>

\* DATA above the expected sequence, or END before all DATA: NACK.
ReceiveAhead ==
    /\ Active
    /\ \/ Handles("DATA") /\ Received.num > rcv.exp
       \/ Handles("END") /\ rcv.state # "WaitingForEnd"
    /\ Answer(Refusal("NACK", rcv.id, rcv.exp, "UnexpectedSequence"))
    /\ UNCHANGED <<rcv, storageVars, appVars>>

\* Mutant: a repeated DATA is written again.
NextData_OrEarlier ==
    /\ Handles("DATA")
    /\ Active
    /\ Received.num <= rcv.exp

NextData ==
    /\ Handles("DATA")
    /\ Active
    /\ Received.num = rcv.exp

ReceiveDataAccepted ==
    /\ NextData
    /\ rcv.state = "Receiving"
    /\ Received.body # Short
    /\ rcv' = [rcv EXCEPT !.exp = @ + 1, !.data = Append(@, Received.body),
                  !.state = IF rcv.exp + 1 = rcv.total THEN "WaitingForEnd" ELSE @]
    /\ Answer(Frame("ACK", rcv.id, Received.num))
    /\ report' = IF report.id = rcv.id THEN [report EXCEPT !.state = "Transferring"]
                                       ELSE report
    /\ UNCHANGED <<storageVars, apiId>>

\* DATA after the last packet, or of the wrong length.
ReceiveDataInvalid ==
    /\ NextData
    /\ rcv.state = "WaitingForEnd" \/ Received.body = Short
    /\ LET error == IF rcv.state = "WaitingForEnd" THEN "PacketCountMismatch"
                                                    ELSE "ByteCountMismatch"
       IN Fails(rcv, error) /\ Answer(ErrorFrame(error))

ReceiveDataWriteFails ==
    /\ NextData
    /\ rcv.state = "Receiving"
    /\ Received.body # Short
    /\ Inject("sink")
    /\ Fails(rcv, "SinkWrite")
    /\ AnswerToo(ErrorFrame("SinkWrite"))

\* A duplicate END of a completed transfer repeats COMPLETE.
ReceiveEndAgain ==
    /\ Handles("END")
    /\ rcv.state = "Completed"
    /\ Received.num = rcv.total
    /\ Answer(Frame("COMPLETE", rcv.id, rcv.total))
    /\ UNCHANGED <<rcv, storageVars, appVars>>

\* Mutant: a repeated END finds a completed session and publishes again.
EndsTransfer_Again ==
    /\ Handles("END")
    /\ rcv.state \in {"WaitingForEnd", "Completed"}

EndsTransfer ==
    /\ Handles("END")
    /\ rcv.state = "WaitingForEnd"

CountsMatch == Received.num = rcv.total /\ Received.num = Len(rcv.data)
\* Mutant: the CRC of what was written is not compared.
CrcMatches_Unchecked == Len(rcv.data) = total[rcv.id]

CrcMatches == rcv.data = FileOf(rcv.id)

\* handleEnd closes the file before it compares the CRC.
ReceiveEndMismatch ==
    /\ EndsTransfer
    /\ ~ CountsMatch \/ ~ CrcMatches
    /\ IF CountsMatch
       THEN /\ Fails([rcv EXCEPT !.open = FALSE], "CrcMismatch")
            /\ Answer(ErrorFrame("CrcMismatch"))
       ELSE /\ Fails(rcv, "PacketCountMismatch")
            /\ Answer(ErrorFrame("PacketCountMismatch"))

ReceiveEndSinkFails ==
    /\ EndsTransfer
    /\ CountsMatch
    /\ Inject("sink")
    /\ \E error \in {"SinkClose"} \cup (IF CrcMatches THEN {"PublicationFailed"} ELSE {}) :
         /\ Fails([rcv EXCEPT !.open = FALSE], error)
         /\ AnswerToo(ErrorFrame(error))

\* The verified partial is renamed to a free name: publication.
ReceiveEndPublishes ==
    /\ EndsTransfer
    /\ CountsMatch
    /\ CrcMatches
    /\ rcv' = [rcv EXCEPT !.state = "Completed", !.error = "None", !.open = FALSE,
                          !.present = FALSE]
    /\ published' = Append(published, [id |-> rcv.id, data |-> rcv.data])
    /\ partials' = partials \ {rcv.id}
    /\ Answer(Frame("COMPLETE", rcv.id, rcv.total))
    /\ report' = IF report.id = rcv.id THEN [report EXCEPT !.state = "Completed"]
                                       ELSE report
    /\ apiId' = 0

\* Mutant: a CANCEL that arrives after publication is confirmed.
ReceiveCancel_AfterAll ==
    /\ Handles("CANCEL")
    /\ \/ Active /\ Abort(rcv, "Cancelled", "Cancelled")
       \/ ~ Active /\ UNCHANGED <<rcv, partials>>
    /\ UNCHANGED published
    /\ Answer(ErrorFrame("Cancelled"))
    /\ UNCHANGED report
    /\ apiId' = 0

ReceiveCancel ==
    /\ Handles("CANCEL")
    /\ \/ Active /\ Abort(rcv, "Cancelled", "Cancelled")
       \/ rcv.state = "Cancelled" /\ UNCHANGED <<rcv, partials>>
    /\ UNCHANGED published
    /\ Answer(ErrorFrame("Cancelled"))
    /\ report' = FailedReport(report, rcv')
    /\ apiId' = 0

\* A frame that does not decode fails the active transfer it names; otherwise
\* it is answered without touching any session.
ReceiveGarbled ==
    /\ Receives("GARBLED")
    /\ IF Active /\ Received.id = rcv.id
       THEN /\ Fails(rcv, "InvalidFrame")
            /\ Answer(ErrorFrame("InvalidFrame"))
       ELSE /\ Answer(Refusal("ERROR", Received.id, 0, "InvalidFrame"))
            /\ UNCHANGED <<rcv, storageVars, appVars>>

\* receiver_.tick: ten silent seconds end an active session.  While its sender
\* is still at work that takes a slow board.
SenderAtWork == \E s \in Senders : snd[s].id = rcv.id /\ snd[s].phase # "off"

\* Mutants: the timer is checked only while frames are pending; a timeout leaves
\* the receive marked as active.
ReceiverInactivity_WhileBusy ==
    /\ air # <<>>
    /\ Active
    /\ Inject("slow")
    /\ Abort(rcv, "Failed", "Timeout")
    /\ report' = FailedReport(report, rcv')
    /\ apiId' = 0
    /\ AnswerToo(ErrorFrame("Timeout"))
    /\ UNCHANGED published
    /\ ToSender
ReceiverInactivity_Flagged ==
    /\ Active
    /\ IF SenderAtWork \/ air # <<>> THEN Inject("slow") ELSE NoFault
    /\ Abort(rcv, "Failed", "Timeout")
    /\ report' = FailedReport(report, rcv')
    /\ AnswerToo(ErrorFrame("Timeout"))
    /\ UNCHANGED <<published, apiId>>
    /\ ToSender

ReceiverInactivity ==
    /\ Active
    /\ IF SenderAtWork \/ air # <<>> THEN Inject("slow") ELSE NoFault
    /\ Abort(rcv, "Failed", "Timeout")
    /\ report' = FailedReport(report, rcv')
    /\ apiId' = 0
    /\ AnswerToo(ErrorFrame("Timeout"))
    /\ UNCHANGED published
    /\ ToSender

\* Mutant: STOP reports whatever the session last held as failed.
ReceiverStop_ReportsAll ==
    /\ listening
    /\ Inject("stop")
    /\ IF Active THEN Abort(rcv, "Cancelled", "Cancelled") ELSE UNCHANGED <<rcv, partials>>
    /\ report' = FailedReport(report, rcv')
    /\ apiId' = 0
    /\ listening' = FALSE
    /\ air' = <<>>
    /\ UNCHANGED <<senderVars, answers, published>>

\* STOP, or another command that leaves RX: discardIncomingFileTransfer, standby.
\* The FIFO is not read again before the next flush.
ReceiverStop ==
    /\ listening
    /\ Inject("stop")
    /\ IF Active \/ (rcv.state = "Failed" /\ rcv.present)
       THEN Abort(rcv, "Cancelled", "Cancelled")
       ELSE UNCHANGED <<rcv, partials>>
    /\ report' = IF Active \/ rcv.state = "Failed" THEN FailedReport(report, rcv')
                                                   ELSE report
    /\ apiId' = 0
    /\ listening' = FALSE
    /\ air' = <<>>
    /\ UNCHANGED <<senderVars, answers, published>>

\* RX: accepted only while no receive is active; flushes and resets the session.
ReceiverListen ==
    /\ ~ listening
    /\ ~ Active
    /\ apiId = 0
    /\ \/ /\ rcv' = NoSession
          /\ partials' = Cleaned
          /\ NoFault
       \/ /\ rcv.present
          /\ Inject("cleanup")
          /\ rcv' = [rcv EXCEPT !.state = "Failed", !.error = "CleanupFailed",
                                !.cleanupFailed = TRUE]
          /\ UNCHANGED partials
    /\ listening' = TRUE
    /\ air' = <<>>
    /\ UNCHANGED <<senderVars, answers, published, appVars>>

\* A reset of the receiving board: boot removes stale partials if it can.
RebootReceiver ==
    /\ Inject("reboot")
    /\ rcv' = NoSession
    /\ listening' = FALSE
    /\ air' = <<>>
    /\ partials' \in {{}} \cup (IF "cleanup" \in FaultKinds THEN {partials} ELSE {})
    /\ apiId' = 0
    /\ report' = [id |-> 0, state |-> "Idle"]
    /\ UNCHANGED <<senderVars, answers, published>>

-----------------------------------------------------------------------------
Init ==
    /\ snd = [s \in Senders |-> NoTransfer]
    /\ total = [i \in Ids |-> 0]
    /\ nextId = 1
    /\ rcv = NoSession
    /\ listening = TRUE
    /\ air = <<>>
    /\ answers = [s \in Senders |-> <<>>]
    /\ partials = {}
    /\ published = <<>>
    /\ apiId = 0
    /\ report = [id |-> 0, state |-> "Idle"]
    /\ faults = 0

\* One round of the loop of sendDataFile.
SenderLoop(s) ==
    \/ Transmit(s) \/ FirstAttemptUnseen(s) \/ TransmitFails(s)
    \/ SenderIgnores(s) \/ SenderHearsError(s) \/ SenderHearsReady(s)
    \/ SenderHearsAck(s) \/ SenderHearsNack(s) \/ SenderHearsComplete(s)
    \/ ResponseTimeout(s) \/ SenderInactivity(s)

\* One frame handled, or the timer checked, by the RX task.
RxTask ==
    \/ ReceiveStartBusy \/ ReceiveStartAgain \/ ReceiveStartOpens
    \/ ReceiveStartFails \/ ReceiverIgnores \/ ReceiveDataDuplicate
    \/ ReceiveAhead \/ ReceiveDataAccepted \/ ReceiveDataInvalid
    \/ ReceiveDataWriteFails \/ ReceiveEndAgain \/ ReceiveEndMismatch
    \/ ReceiveEndSinkFails \/ ReceiveEndPublishes \/ ReceiveCancel
    \/ ReceiveGarbled \/ ReceiverInactivity

Next ==
    \/ \E s \in Senders : Begin(s) \/ SenderLoop(s) \/ Cancel(s) \/ RebootSender(s)
    \/ RxTask
    \/ ReceiverStop \/ ReceiverListen \/ RebootReceiver

Spec == Init /\ [][Next]_vars

\* Both tasks keep running; operators and the environment owe nothing.
FairSpec ==
    /\ Spec
    /\ \A s \in Senders : WF_vars(SenderLoop(s))
    /\ WF_vars(RxTask)

-----------------------------------------------------------------------------
(* Properties.                                                             *)

TypeOK ==
    /\ snd \in [Senders -> SenderSession]
    /\ total \in [Ids -> Nat]
    /\ nextId \in Nat
    /\ rcv \in ReceiverSession
    /\ listening \in BOOLEAN
    /\ air \in Seq(Frames)
    /\ answers \in [Senders -> Seq(Frames)]
    /\ partials \subseteq Nat
    /\ published \in Seq([id : Nat, data : Seq(Payload)])
    /\ apiId \in Nat
    /\ report \in [id : Nat, state : ReportStates]
    /\ faults \in Nat

\* A published file is the file its sender announced, packet for packet.
PublishedIsIntact ==
    \A n \in 1 .. Len(published) : published[n].data = FileOf(published[n].id)

\* However often START and END are repeated, a transfer is published once.
PublishedOnce ==
    \A m, n \in 1 .. Len(published) : published[m].id = published[n].id => m = n

\* A sender that reports success is right: the file is on the other board.
CompletedMeansPublished ==
    \A s \in Senders : snd[s].state = "Completed" => snd[s].id \in PublishedIds

\* Without undetected noise the endpoints never drift apart: while a DATA is
\* outstanding the receiver expects it or the next one, and when END is
\* outstanding it has everything.
SequenceAgreement ==
    "noise" \notin FaultKinds =>
    \A s \in Senders :
        Active /\ rcv.id = snd[s].id =>
        /\ snd[s].state = "WaitingForReady" => rcv.exp = 0
        /\ snd[s].state = "WaitingForDataAck" => rcv.exp \in {snd[s].cur, snd[s].cur + 1}
        /\ snd[s].state = "WaitingForComplete" => rcv.state = "WaitingForEnd"

\* Without undetected noise no loss, delay, repetition, reset or cancellation
\* makes an endpoint accuse its peer of breaking the protocol.
Accusations == {"InvalidFrame", "InvalidMetadata", "UnexpectedSequence", "CrcMismatch",
                "ByteCountMismatch", "PacketCountMismatch"}
NoProtocolBreakdown ==
    "noise" \notin FaultKinds =>
    /\ rcv.error \notin Accusations
    /\ \A s \in Senders : snd[s].error \notin Accusations

\* The endpoints agree about where the transfer is, and accuse each other of
\* nothing, however frames and answers are lost, repeated and late.
EndpointsAgree == SequenceAgreement /\ NoProtocolBreakdown

\* The flag that makes the board refuse other commands names the active
\* receive, and is set exactly while one is active.
ReceiveFlagExact == apiId = IF Active THEN rcv.id ELSE 0

\* What the transfer service reports of a receive agrees with the flash.
ReportTruthful ==
    /\ report.state = "Completed" => report.id \in PublishedIds
    /\ report.state \in {"Cancelled", "Failed"} => report.id \notin PublishedIds
    /\ report.state \in {"Handshaking", "Transferring"} => Active /\ report.id = rcv.id

\* The board's bookkeeping beside the session, for its commands and for its
\* client, agrees with session and flash (main.cpp:4847, 2465).
BoardTruthful == ReceiveFlagExact /\ ReportTruthful

\* A cancellation the receiver confirms, or is about to confirm, is final: no
\* file of that transfer is published.
CancelConfirmedIsFinal ==
    /\ rcv.state = "Cancelled" => rcv.id \notin PublishedIds
    /\ \A s \in Senders : \A n \in 1 .. Len(answers[s]) :
          answers[s][n].error = "Cancelled" => answers[s][n].id \notin PublishedIds

\* Except after a reset, every .part file on the flash is one the session knows
\* it still has to remove, so the next START or RX removes it.
Known == IF rcv.present THEN {rcv.id} ELSE {}
NoOrphanedPartial ==
    [][~ RebootReceiver => partials' \ Known' \subseteq partials \ Known]_vars

\* A repeated START never reopens a transfer that was completed or cancelled.
NotReopened ==
    [][rcv.state \in {"Completed", "Cancelled"} /\ Active' => rcv'.id # rcv.id]_vars

\* Every transfer ends at its sender, and every active receive ends.
SenderTerminates ==
    \A s \in Senders : snd[s].phase # "off" ~> snd[s].phase = "off"
ReceiverSettles == Active ~> ~ Active

\* Every transfer comes to its end on both boards, whatever is lost, delayed,
\* reset or cancelled: neither sendDataFile, which holds the radio mutex, nor
\* the receive whose sender has vanished goes on for ever.
TransfersEnd == SenderTerminates /\ ReceiverSettles

\* The protocol implements FileDelivery: a completed sender is a claim.
Delivery == INSTANCE FileDelivery WITH
    Boards <- Senders,
    Transfers <- Ids,
    Sizes <- 0 .. MaxPackets,
    offered <- total,
    count <- nextId - 1,
    files <- published,
    current <- [s \in Senders |-> snd[s].id],
    claimed <- [s \in Senders |-> snd[s].state = "Completed"]
ImplementsDelivery == Delivery!Init /\ [][Delivery!Next]_(Delivery!vars)

-----------------------------------------------------------------------------
(* The inductive invariant behind the safety properties.                   *)

Live(s) == snd[s].state \notin Terminal \cup {"Idle"}
Used == 1 .. nextId - 1

\* No board will send START of transfer i any more, and none is on the air.
NoMoreStart(i) ==
    /\ \A s \in Senders : snd[s].id = i => snd[s].state # "WaitingForReady"
    /\ \A n \in 1 .. Len(air) : air[n].id = i => air[n].type # "START"

\* Transfer ids: a live session has one of its own; frames, files and active
\* receives only name ids that were drawn.
IdsInv ==
    /\ nextId \in 1 .. MaxTransfers + 1
    /\ \A s \in Senders :
          /\ snd[s].id < nextId
          /\ Live(s) <=> snd[s].phase # "off"
          /\ Live(s) => snd[s].id \in Used
    /\ \A s, t \in Senders : snd[s].id = snd[t].id => s = t \/ snd[s].id = 0
    /\ \A n \in 1 .. Len(air) : air[n].id \in Used
    /\ Active => rcv.id \in Used
    /\ \A n \in 1 .. Len(published) : published[n].id \in Used

\* END and CANCEL are sent after the last START of their transfer.
OrderInv ==
    \A n \in 1 .. Len(air) : air[n].type \in {"END", "CANCEL"} =>
        \A s \in Senders : snd[s].id = air[n].id => snd[s].state # "WaitingForReady"

\* A published transfer cannot be received once more.
PublishedInv ==
    /\ \A i \in PublishedIds : NoMoreStart(i)
    /\ Active => rcv.id \notin PublishedIds

\* Whoever says that a transfer is complete can point to its file.
ClaimInv ==
    /\ rcv.state = "Completed" => rcv.id \in PublishedIds
    /\ \A s \in Senders : \A n \in 1 .. Len(answers[s]) :
          answers[s][n].type = "COMPLETE" => answers[s][n].id \in PublishedIds
    /\ CompletedMeansPublished

DeliveryInv ==
    /\ TypeOK
    /\ IdsInv
    /\ OrderInv
    /\ PublishedInv
    /\ ClaimInv
    /\ PublishedOnce
    /\ PublishedIsIntact

-----------------------------------------------------------------------------
\* docs/protocol_v2.md, "Partial-file and publication policy": a cancelled
\* transfer cannot appear as completed.  The code does not ensure it.
CancelledIsNotPublished ==
    \A s \in Senders : snd[s].state = "Cancelled" => snd[s].id \notin PublishedIds
=============================================================================
