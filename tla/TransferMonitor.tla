---------------------------- MODULE TransferMonitor ----------------------------
(***************************************************************************)
(* How a PC learns what became of a transmission it has asked for.         *)
(*                                                                         *)
(* TXHEX is answered as soon as it is queued.  The rest the PC concludes   *)
(* from the report of the last transmission that every STATUS carries:     *)
(* it must tell its own transmission from an earlier one and from those of *)
(* other operators (serial_device.py _apply_transfer_status).  On the      *)
(* board the report is written by commands and by the loop worker, and     *)
(* STATUS copies it, adds the radio's state and writes it back.            *)
(*                                                                         *)
(* The PC's link is the Bluetooth one: commands and answers stay in order  *)
(* and die with the connection (BluetoothLink).  A pass is WaitingForReady *)
(* to Cancelling of the sender in one state, Sending; RadioArbitration has *)
(* the details of stopping, and of what else may have the radio.           *)
(***************************************************************************)
EXTENDS Integers, Sequences, FiniteSets

CONSTANTS
    Files,            \* names of stored files
    MaxRequests,      \* transmissions this PC asks for
    MaxOthers,        \* transmissions and STOPs of other operators, and passes that
                      \* are made and not counted
    MaxStops,         \* STOPs of this PC
    MaxDisconnects    \* connections of this PC that break

MonitorAssumption ==
    {MaxRequests, MaxOthers, MaxStops, MaxDisconnects} \subseteq Nat

VARIABLES
    report,     \* last_tx_report_; by is a ghost: the request, or 0 of others
    loop,       \* loop_config_ in mode Tx, or NoLoop
    stop,       \* loop_stop_requested_
    worker,     \* where runTxLoopIteration is
    radio,      \* who holds radio_mutex_
    command,    \* the command that holds command_mutex_, and its copies
    ids,        \* ids given out
    toBoard,    \* commands on their way from the PC
    toPc,       \* answers on their way to the PC
    request,    \* the PC's _rf_tx_name, _rf_tx_baseline_id and _rf_tx_id
    lastTxId,   \* _last_tx_id
    pending,    \* _pending_commands
    shown,      \* confirmed_radio_state
    busy,       \* connection_state is BUSY
    verdict,    \* what the PC has said of each request
    sent,       \* history: passes the peer has confirmed
    spent       \* environment events so far

board == <<report, loop, stop, worker, radio, command, ids, sent>>
pc    == <<request, lastTxId, pending, shown, busy, verdict>>
monitorVars == <<board, toBoard, toPc, pc, spent>>

-----------------------------------------------------------------------------
Final == {"Completed", "Failed", "Cancelled"}
Running == {"Preparing", "Sending"}
Requests == 1..MaxRequests

NoReport == [id |-> 0, state |-> "Idle", file |-> "none", by |-> 0]
NoLoop == [file |-> "none", left |-> 0, by |-> 0]
NoCommand == [name |-> "none", mine |-> FALSE]
NoVerdict == [outcome |-> "none", id |-> 0, file |-> "none", baseline |-> 0]
NoRequest == [number |-> 0, file |-> "none", baseline |-> 0, id |-> 0, heard |-> FALSE]

Spend(kind, limit) == spent[kind] < limit /\ spent' = [spent EXCEPT ![kind] = @ + 1]

MonitorInit ==
    /\ report = NoReport /\ loop = NoLoop /\ stop = FALSE
    /\ worker = "idle" /\ radio = "none" /\ command = NoCommand /\ ids = 0
    /\ toBoard = <<>> /\ toPc = <<>>
    /\ request = NoRequest /\ lastTxId = 0 /\ pending = {}
    /\ shown = "Unknown" /\ busy = FALSE
    /\ verdict = [n \in Requests |-> NoVerdict]
    /\ sent = {}
    /\ spent = [requests |-> 0, others |-> 0, stops |-> 0, disconnects |-> 0]

-----------------------------------------------------------------------------
(* The board: commands.                                                    *)

\* prepareTransferReport
Prepared(file, by) == [id |-> ids + 1, state |-> "Preparing", file |-> file, by |-> by]

\* A loop is queued, under both mutexes, and its first report with it.
Queue(file, left, by) ==
    /\ loop = NoLoop /\ radio = "none"
    /\ loop' = [file |-> file, left |-> left, by |-> by]
    /\ stop' = FALSE
    /\ report' = Prepared(file, by) /\ ids' = ids + 1
    /\ UNCHANGED <<worker, radio, command, sent>>

Dispatch(name) ==
    /\ command = NoCommand
    /\ toBoard # <<>> /\ Head(toBoard).name = name
    /\ toBoard' = Tail(toBoard)

Answer(line) == toPc' = Append(toPc, line)

\* The connection a command came over may be gone when it is done.
Reply(line) == IF command.mine THEN Answer(line) ELSE UNCHANGED toPc

AcceptTx ==
    /\ Dispatch("TXHEX")
    /\ Queue(Head(toBoard).file, 1, Head(toBoard).number)
    /\ Answer([name |-> "OkTxHex"])
    /\ UNCHANGED <<pc, spent>>

\* A loop is active, the radio is busy or not ready, the file is gone.
RefuseTx ==
    /\ Dispatch("TXHEX")
    /\ Answer([name |-> "ErrTxHex"])
    /\ UNCHANGED <<board, pc, spent>>

\* captureHttpStatus takes the radio for as long as it has the report in hand,
\* or does without it.
CopyLock == IF radio = "none" THEN "status" ELSE radio

BeginStatus ==
    /\ Dispatch("STATUS")
    /\ command' = [name |-> "STATUS", mine |-> TRUE, copy |-> report, free |-> radio = "none",
                   looping |-> loop # NoLoop]
    /\ radio' = CopyLock
    /\ UNCHANGED <<report, loop, stop, worker, ids, sent, toPc, pc, spent>>

\* A sender at work is shown as TxBusy; another holder of the radio leaves its
\* state unknown.
Shown ==
    IF command.free THEN "Standby"
    ELSE IF command.copy.state \in Running THEN "TxBusy" ELSE "Unavailable"

EndStatus ==
    /\ command.name = "STATUS"
    /\ command' = NoCommand
    /\ IF command.free
       THEN report' = command.copy /\ radio' = IF radio = "status" THEN "none" ELSE radio
       ELSE UNCHANGED <<report, radio>>
    /\ Reply([name |-> "status", tx |-> command.copy, state |-> Shown,
              looping |-> command.looping])
    /\ UNCHANGED <<loop, stop, worker, ids, sent, toBoard, pc, spent>>

\* STOP waits for the worker with command_mutex_ held.
BeginStop ==
    /\ Dispatch("STOP")
    /\ command' = [name |-> "STOP", mine |-> TRUE]
    /\ stop' = (loop # NoLoop)
    /\ UNCHANGED <<report, loop, worker, radio, ids, sent, toPc, pc, spent>>

EndStop ==
    /\ command.name = "STOP" /\ loop = NoLoop
    /\ command' = NoCommand /\ stop' = FALSE
    /\ Reply([name |-> "OkStop"])
    /\ UNCHANGED <<report, loop, worker, radio, ids, sent, toBoard, pc, spent>>

\* Another operator: TX or TX LOOP, which stop a loop of theirs first, and STOP.
OtherTx ==
    /\ command = NoCommand /\ Spend("others", MaxOthers)
    /\ \E f \in Files, n \in 1..2 : Queue(f, n, 0)
    /\ UNCHANGED <<toBoard, toPc, pc>>

OtherStop ==
    /\ command = NoCommand /\ loop # NoLoop /\ Spend("others", MaxOthers)
    /\ command' = [name |-> "STOP", mine |-> FALSE] /\ stop' = TRUE
    /\ UNCHANGED <<report, loop, worker, radio, ids, sent, toBoard, toPc, pc>>

-----------------------------------------------------------------------------
(* The board: the loop worker.                                             *)

\* Faulty: every pass takes the report as it is.
NeedsReport_Never == FALSE

\* The first pass finds the report its command has prepared.
NeedsReport == report.state # "Preparing" \/ report.file # loop.file

TakeRadio ==
    /\ worker = "idle" /\ loop # NoLoop /\ radio = "none"
    /\ radio' = "worker" /\ worker' = "taken"
    /\ IF NeedsReport
       THEN report' = Prepared(loop.file, loop.by) /\ ids' = ids + 1
       ELSE UNCHANGED <<report, ids>>
    /\ UNCHANGED <<loop, stop, command, sent, toBoard, toPc, pc, spent>>

\* startTransfer takes the queued id; the radio or the file may fail it.
StartPass ==
    /\ worker = "taken"
    /\ \/ report' = [report EXCEPT !.state = "Sending"] /\ worker' = "sending"
       \/ report' = [report EXCEPT !.state = "Failed"] /\ worker' = "failed"
    /\ UNCHANGED <<loop, stop, radio, command, ids, sent, toBoard, toPc, pc, spent>>

EndPass ==
    /\ worker = "sending"
    /\ \E s \in IF stop THEN Final ELSE Final \ {"Cancelled"} :
          /\ report' = [report EXCEPT !.state = s]
          /\ worker' = IF s = "Completed" THEN "done" ELSE "failed"
          /\ sent' = IF s = "Completed" THEN sent \cup {report} ELSE sent
    /\ UNCHANGED <<loop, stop, radio, command, ids, toBoard, toPc, pc, spent>>

GiveRadio ==
    /\ worker \in {"done", "failed"} /\ radio = "worker"
    /\ radio' = "none"
    /\ UNCHANGED <<report, loop, stop, worker, command, ids, sent, toBoard, toPc, pc, spent>>

\* The pass is counted; loop_mutex_ may not be had in time, and it is not.
Account ==
    /\ worker \in {"done", "failed"} /\ radio # "worker"
    /\ worker' = "idle"
    /\ \/ /\ loop' = IF worker = "failed" \/ stop \/ loop.left = 1 THEN NoLoop
                     ELSE [loop EXCEPT !.left = @ - 1]
          /\ UNCHANGED spent
       \/ Spend("others", MaxOthers) /\ UNCHANGED loop
    /\ UNCHANGED <<report, stop, radio, command, ids, sent, toBoard, toPc, pc>>

-----------------------------------------------------------------------------
(* The PC.                                                                 *)

Send(c) ==
    /\ toBoard' = Append(toBoard, c)
    /\ pending' = pending \cup {c.name}

\* start_stored_tx, and the end of an upload that is to be transmitted.
RequestTx ==
    /\ request = NoRequest /\ shown = "Standby" /\ ~busy /\ pending \subseteq {"STATUS"}
    /\ Spend("requests", MaxRequests)
    /\ \E f \in Files :
          /\ request' = [number |-> spent.requests + 1, file |-> f, baseline |-> lastTxId, id |-> 0,
                         heard |-> FALSE]
          /\ Send([name |-> "TXHEX", file |-> f, number |-> spent.requests + 1])
    /\ busy' = TRUE
    /\ UNCHANGED <<board, toPc, lastTxId, shown, verdict>>

Poll ==
    /\ "STATUS" \notin pending
    /\ Send([name |-> "STATUS"])
    /\ UNCHANGED <<board, toPc, request, lastTxId, shown, busy, verdict, spent>>

AskStop ==
    /\ "STOP" \notin pending /\ request # NoRequest
    /\ Spend("stops", MaxStops)
    /\ Send([name |-> "STOP"])
    /\ UNCHANGED <<board, toPc, request, lastTxId, shown, busy, verdict>>

\* _finish_rf_transfer
Conclude(outcome, id) ==
    /\ verdict' = [verdict EXCEPT ![request.number] =
                      [outcome |-> outcome, id |-> id, file |-> request.file,
                       baseline |-> request.baseline]]
    /\ request' = NoRequest
    /\ busy' = (shown' = "TxBusy")

Read(name) == toPc # <<>> /\ Head(toPc).name = name /\ toPc' = Tail(toPc)

ReadAccepted ==
    /\ Read("OkTxHex") \/ Read("OkStop")
    /\ pending' = pending \ {IF Head(toPc).name = "OkStop" THEN "STOP" ELSE "TXHEX"}
    /\ UNCHANGED <<board, toBoard, request, lastTxId, shown, busy, verdict, spent>>

ReadRefused ==
    /\ Read("ErrTxHex")
    /\ pending' = pending \ {"TXHEX"}
    /\ UNCHANGED shown
    /\ IF request # NoRequest THEN Conclude("Failed", 0)
       ELSE UNCHANGED <<request, verdict, busy>>
    /\ UNCHANGED <<board, toBoard, lastTxId, spent>>

\* Faulty: the id the last status has shown is not remembered.
IsEarlier_NoBaseline(tx) ==
    tx.state = "Idle" \/ (tx.file # request.file /\ tx.state \in Final)

\* A status that was queued before TXHEX, as far as the PC can tell.
IsEarlier(tx) ==
    \/ tx.id = request.baseline \/ tx.state = "Idle"
    \/ tx.file # request.file /\ tx.state \in Final

\* Faulty: only the id is compared.
IsAnother_IdOnly(tx) == request.id # 0 /\ tx.id # request.id

IsAnother(tx) == tx.file # request.file \/ (request.id # 0 /\ tx.id # request.id)

\* A status that was made after TXHEX has been read: answers stay in order.
Heard == IF request = NoRequest THEN NoRequest
         ELSE [request EXCEPT !.heard = "TXHEX" \notin pending]

\* A status without the state of the radio says nothing of transmissions.
ReadUnavailable ==
    /\ Read("status") /\ Head(toPc).state = "Unavailable"
    /\ pending' = pending \ {"STATUS"}
    /\ shown' = "Unknown" /\ busy' = (request # NoRequest)
    /\ request' = Heard
    /\ UNCHANGED <<board, toBoard, lastTxId, verdict, spent>>

ReadStatus ==
    /\ Read("status") /\ Head(toPc).state # "Unavailable"
    /\ pending' = pending \ {"STATUS"}
    /\ shown' = Head(toPc).state
    /\ LET tx == Head(toPc).tx
       IN  /\ lastTxId' = tx.id
           /\ CASE request = NoRequest ->
                      /\ busy' = (tx.state \in Running \/ Head(toPc).looping)
                      /\ UNCHANGED <<request, verdict>>
                [] request # NoRequest /\ request.id = 0 /\ IsEarlier(tx) ->
                      busy' = TRUE /\ request' = Heard /\ UNCHANGED verdict
                [] OTHER ->
                      IF IsAnother(tx) THEN Conclude("Failed", 0)
                      ELSE IF tx.state \in Final THEN Conclude(tx.state, tx.id)
                      ELSE /\ request' = [Heard EXCEPT !.id = tx.id]
                           /\ busy' = TRUE /\ UNCHANGED verdict
    /\ UNCHANGED <<board, toBoard, spent>>

\* 30 s without progress.  A poll every 3 s, and 15 s for an answer before the
\* connection is given up, put a status between TXHEX and this.
ProgressTimeout ==
    /\ request.heard
    /\ UNCHANGED shown
    /\ Conclude("Failed", 0)
    /\ UNCHANGED <<board, toBoard, toPc, lastTxId, pending, spent>>

\* The connection ends, with what is on its way, and the next one begins.
Disconnect ==
    /\ Spend("disconnects", MaxDisconnects)
    /\ toBoard' = <<>> /\ toPc' = <<>> /\ pending' = {}
    /\ lastTxId' = 0 /\ shown' = "Unknown"
    /\ IF request # NoRequest THEN Conclude("Failed", 0)
       ELSE busy' = FALSE /\ UNCHANGED <<request, verdict>>
    /\ command' = [command EXCEPT !.mine = FALSE]
    /\ UNCHANGED <<report, loop, stop, worker, radio, ids, sent>>

-----------------------------------------------------------------------------
Commands == AcceptTx \/ RefuseTx \/ BeginStatus \/ EndStatus \/ BeginStop \/ EndStop
Worker == TakeRadio \/ StartPass \/ EndPass \/ GiveRadio \/ Account
Reading == ReadAccepted \/ ReadRefused \/ ReadUnavailable \/ ReadStatus

MonitorNext ==
    \/ Commands \/ Worker \/ Reading
    \/ OtherTx \/ OtherStop
    \/ RequestTx \/ Poll \/ AskStop \/ ProgressTimeout \/ Disconnect

MonitorSpec == MonitorInit /\ [][MonitorNext]_monitorVars

-----------------------------------------------------------------------------
(* Properties.                                                             *)

Reports == [id : Nat, state : {"Idle"} \cup Running \cup Final,
            file : Files \cup {"none"}, by : {0} \cup Requests]

\* Every variable keeps its type; one answer of each kind is awaited at most.
MonitorTypeOK ==
    /\ report \in Reports /\ sent \subseteq Reports
    /\ loop \in [file : Files \cup {"none"}, left : 0..2, by : {0} \cup Requests]
    /\ stop \in BOOLEAN /\ busy \in BOOLEAN
    /\ worker \in {"idle", "taken", "sending", "done", "failed"}
    /\ radio \in {"none", "status", "worker"}
    /\ pending \subseteq {"STATUS", "STOP", "TXHEX"}
    /\ shown \in {"Unknown", "Standby", "TxBusy"}
    /\ Len(toBoard) + Len(toPc) + (IF command.mine THEN 1 ELSE 0) = Cardinality(pending)

Told(n) == verdict[n].outcome = "Completed"

\* A PC that says its transmission is complete, peer confirmed, is right as far
\* as the file goes: a receiver has confirmed a pass with that file, and the one
\* with the id the PC names.
CompletedIsDelivered ==
    \A n \in Requests : Told(n) =>
        \E s \in sent : s.id = verdict[n].id /\ s.file = verdict[n].file

\* It is not a pass whose end the PC had been shown before it asked.
CompletedIsNews == \A n \in Requests : Told(n) => verdict[n].id > verdict[n].baseline

\* While nobody else transmits, the pass is the one the PC has asked for with
\* this very request, whatever status was on its way and however often the
\* connection broke.
CompletedIsOwn ==
    \A n \in Requests : Told(n) => \E s \in sent : s.id = verdict[n].id /\ s.by = n

\* "Complete, peer confirmed" is true, new and, where that can be known, the PC's
\* own, however statuses were queued, repeated and overtaken by the loop.
CompletedIsTrue ==
    MonitorTypeOK /\ CompletedIsDelivered /\ CompletedIsNews /\ (spent.others = 0 => CompletedIsOwn)

\* The report never goes back: not to an earlier transmission, and not from its
\* end to its course, although STATUS writes back what it has read.
ReportGoesForward ==
    [][/\ report'.id >= report.id
       /\ report'.id = report.id /\ report.state \in Final => report' = report]_monitorVars

=============================================================================
