--------------------------- MODULE BluetoothLink ----------------------------
(***************************************************************************)
(* The Bluetooth SPP control plane of the board: three tasks that share    *)
(* atomics, two queues and the flow state of BluetoothTx::Flow.            *)
(*                                                                         *)
(*   callback  the stack's events: open, close, data, write completed,     *)
(*             congestion; handled one after the other                     *)
(*   command   takes a line from the command queue, dispatches it, answers *)
(*   tx        takes a message from the TX queue and writes it in pieces   *)
(*                                                                         *)
(* Every step of the command and the TX task is one load or store that the *)
(* others can see; the callbacks are split where another task may look in  *)
(* between.  Clients come and go as they like, a second one may try while  *)
(* the first is there, writes fail, complete late or never, and the stack  *)
(* may report congestion.                                                  *)
(*                                                                         *)
(* Abstractions.  A client is its SPP handle, which the stack does not use *)
(* twice.  A command line is one data event, an answer one message of      *)
(* Pieces pieces, and handling a command is one step (its effects are in   *)
(* the other modules).  bluetooth_epoch_ is 32 bits wide and the model     *)
(* does not wrap it.                                                       *)
(***************************************************************************)
EXTENDS Naturals, Sequences, FiniteSets

CONSTANTS
    Clients,       \* SPP handles, in the order of connection: 1..n
    LinesEach,     \* lines a client sends
    CommandDepth,  \* kBluetoothCommandQueueDepth
    TxDepth,       \* kBluetoothTxQueueDepth
    Pieces,        \* writes that a message takes
    MaxTroubles    \* failed writes, expired deadlines and congestions

ASSUME LinkAssumption ==
    /\ IsFiniteSet(Clients) /\ Clients = 1..Cardinality(Clients)
    /\ LinesEach \in Nat
    /\ CommandDepth \in Nat \ {0}
    /\ TxDepth \in Nat \ {0}
    /\ Pieces \in Nat \ {0}
    /\ MaxTroubles \in Nat

None == 0                   \* no handle

VARIABLES
    connected,   \* bluetooth_client_connected_
    handle,      \* bluetooth_spp_handle_
    epoch,       \* bluetooth_epoch_
    flow,        \* bluetooth_tx_flow_
    commandQueue, txQueue,
    callback, command, tx,   \* where the tasks are, with their locals
    peer,        \* peer[h]: "new", "open", "closing" (by the board) or "closed"
    events,      \* events of the stack that wait for the callback
    owed,        \* pieces of client h that the stack still has to complete
    sent,        \* lines that client h has sent
    accepted,    \* messages for h that the TX queue has taken
    written,     \* pieces that the stack has taken for h: whose, message, piece
    cause,       \* clients whose link had a reason to fail
    troubles

link   == <<connected, handle, epoch, flow>>
queues == <<commandQueue, txQueue>>
stack  == <<peer, events, owed, sent>>
ghosts == <<accepted, written, cause>>
vars   == <<link, queues, callback, command, tx, stack, ghosts, troubles>>

NoLine == [from |-> None, epoch |-> 0]
NoMessage == [to |-> None, epoch |-> 0, from |-> None, number |-> 0]

Init ==
    /\ connected = FALSE /\ handle = None /\ epoch = 0
    /\ flow = [handle |-> None, epoch |-> 0, pending |-> FALSE,
               congested |-> FALSE, failed |-> FALSE]
    /\ commandQueue = <<>> /\ txQueue = <<>>
    /\ callback = [pc |-> "idle", client |-> None]
    /\ command = [pc |-> "idle", line |-> NoLine, handle |-> None]
    /\ tx = [pc |-> "idle", message |-> NoMessage, offset |-> 0]
    /\ peer = [h \in Clients |-> "new"]
    /\ events = <<>>
    /\ owed = [h \in Clients |-> 0]
    /\ sent = [h \in Clients |-> 0]
    /\ accepted = [h \in Clients |-> 0]
    /\ written = [h \in Clients |-> <<>>]
    /\ cause = {}
    /\ troubles = 0

Trouble ==
    /\ troubles < MaxTroubles
    /\ troubles' = troubles + 1

-----------------------------------------------------------------------------
(* BluetoothTx::Flow                                                       *)

Matches(h, e) == h # None /\ flow.handle = h /\ flow.epoch = e

\* reset() clears the handle before and sets it after everything else.
ResetBegins == flow' = [flow EXCEPT !.handle = None, !.pending = FALSE,
                                    !.congested = FALSE, !.failed = FALSE]
ResetEnds(h, e) == flow' = [flow EXCEPT !.epoch = e, !.handle = h]

\* What esp_spp_disconnect(h) does to the stack's connection.
Disconnect(h) ==
    peer' = IF peer[h] = "open" THEN [peer EXCEPT ![h] = "closing"] ELSE peer

-----------------------------------------------------------------------------
(* sendBluetoothText in the callback: the callbacks are the only ones to   *)
(* change the client, so nothing can come between its steps.               *)

Message(h, e, from) == [to |-> h, epoch |-> e, from |-> from, number |-> accepted[h] + 1]

CallbackSends(h, e) ==
    IF Len(txQueue) < TxDepth
    THEN /\ txQueue' = Append(txQueue, Message(h, e, h))
         /\ accepted' = [accepted EXCEPT ![h] = @ + 1]
         /\ connected' = TRUE
         /\ UNCHANGED <<cause, peer>>
    ELSE /\ connected' = FALSE
         /\ Disconnect(h)
         /\ cause' = cause \union {h}
         /\ UNCHANGED <<txQueue, accepted>>

-----------------------------------------------------------------------------
(* The callback task: handleSppEvent                                       *)

Event(kind) ==
    /\ callback.pc = "idle"
    /\ events # <<>>
    /\ Head(events).kind = kind
    /\ events' = Tail(events)

\* ESP_SPP_SRV_OPEN_EVT: a second client is sent away.
OpenRefused ==
    /\ Event("open")
    /\ connected
    /\ Disconnect(Head(events).client)
    /\ cause' = cause \union {Head(events).client}
    /\ UNCHANGED <<link, queues, callback, command, tx, owed, sent, accepted, written, troubles>>

\* Mutant: only the loss of a client ends its epoch.
OpenBegins_SameEpoch ==
    /\ Event("open")
    /\ ~ connected
    /\ epoch' = IF epoch = 0 THEN 1 ELSE epoch
    /\ ResetBegins
    /\ callback' = [pc |-> "flow", client |-> Head(events).client]
    /\ UNCHANGED <<connected, handle, queues, command, tx, peer, owed, sent, ghosts, troubles>>

OpenBegins ==
    /\ Event("open")
    /\ ~ connected
    /\ epoch' = epoch + 1
    /\ ResetBegins
    /\ callback' = [pc |-> "flow", client |-> Head(events).client]
    /\ UNCHANGED <<connected, handle, queues, command, tx, peer, owed, sent, ghosts, troubles>>

OpenFlow ==
    /\ callback.pc = "flow"
    /\ ResetEnds(callback.client, epoch)
    /\ callback' = [callback EXCEPT !.pc = "handle"]
    /\ UNCHANGED <<connected, handle, epoch, queues, command, tx, stack, ghosts, troubles>>

OpenHandle ==
    /\ callback.pc = "handle"
    /\ handle' = callback.client
    /\ callback' = [callback EXCEPT !.pc = "connected"]
    /\ UNCHANGED <<connected, epoch, flow, queues, command, tx, stack, ghosts, troubles>>

\* The client is announced last, then greeted.
OpenConnected ==
    /\ callback.pc = "connected"
    /\ CallbackSends(handle, epoch)
    /\ callback' = [pc |-> "idle", client |-> None]
    /\ UNCHANGED <<handle, epoch, flow, commandQueue, command, tx, events, owed, sent, written, troubles>>

\* ESP_SPP_CLOSE_EVT of another client changes nothing.
CloseOfAnother ==
    /\ Event("close")
    /\ Head(events).client # handle
    /\ UNCHANGED <<link, queues, callback, command, tx, peer, owed, sent, ghosts, troubles>>

CloseBegins ==
    /\ Event("close")
    /\ Head(events).client = handle
    /\ connected' = FALSE
    /\ callback' = [pc |-> "close", client |-> handle]
    /\ UNCHANGED <<handle, epoch, flow, queues, command, tx, peer, owed, sent, ghosts, troubles>>

CloseEnds ==
    /\ callback.pc = "close"
    /\ handle' = None
    /\ epoch' = epoch + 1
    /\ flow' = [handle |-> None, epoch |-> epoch + 1, pending |-> FALSE,
                congested |-> FALSE, failed |-> FALSE]
    /\ callback' = [pc |-> "idle", client |-> None]
    /\ UNCHANGED <<connected, queues, command, tx, stack, ghosts, troubles>>

\* Lines of the current client are queued with its epoch; a full queue is
\* answered with ERR, if there is still a client to answer.
DataQueued ==
    /\ Event("data")
    /\ Head(events).client = handle
    /\ Len(commandQueue) < CommandDepth
    /\ commandQueue' = Append(commandQueue, [from |-> handle, epoch |-> epoch])
    /\ UNCHANGED <<link, txQueue, callback, command, tx, peer, owed, sent, ghosts, troubles>>

DataRefused ==
    /\ Event("data")
    /\ Head(events).client = handle
    /\ Len(commandQueue) = CommandDepth
    /\ IF connected THEN CallbackSends(handle, epoch)
       ELSE UNCHANGED <<connected, txQueue, accepted, cause, peer>>
    /\ UNCHANGED <<handle, epoch, flow, commandQueue, callback, command, tx, owed, sent, written, troubles>>

DataOfAnother ==
    /\ Event("data")
    /\ Head(events).client # handle
    /\ UNCHANGED <<link, queues, callback, command, tx, peer, owed, sent, ghosts, troubles>>

\* ESP_SPP_WRITE_EVT and ESP_SPP_CONG_EVT count for the current client only.
Written ==
    /\ Event("written")
    /\ flow' = IF flow.handle # Head(events).client THEN flow
               ELSE [flow EXCEPT !.congested = Head(events).congested,
                                 !.failed = ~ Head(events).ok, !.pending = FALSE]
    /\ UNCHANGED <<connected, handle, epoch, queues, callback, command, tx, peer, owed, sent, ghosts, troubles>>

Decongested ==
    /\ Event("decongested")
    /\ flow' = IF flow.handle # Head(events).client THEN flow
               ELSE [flow EXCEPT !.congested = FALSE]
    /\ UNCHANGED <<connected, handle, epoch, queues, callback, command, tx, peer, owed, sent, ghosts, troubles>>

Callback ==
    \/ OpenRefused \/ OpenBegins \/ OpenFlow \/ OpenHandle \/ OpenConnected
    \/ CloseOfAnother \/ CloseBegins \/ CloseEnds
    \/ DataQueued \/ DataRefused \/ DataOfAnother \/ Written \/ Decongested

-----------------------------------------------------------------------------
(* The command task: bluetoothCommandTask, dispatchCommand and             *)
(* sendBluetoothText with the epoch of the command                         *)

Current(e) == connected /\ e = epoch

CommandGoes(label) == command' = [command EXCEPT !.pc = label]

CommandEnds == command' = [pc |-> "idle", line |-> NoLine, handle |-> None]

TakeCommand ==
    /\ command.pc = "idle"
    /\ commandQueue # <<>>
    /\ commandQueue' = Tail(commandQueue)
    /\ command' = [command EXCEPT !.pc = "dispatch", !.line = Head(commandQueue)]
    /\ UNCHANGED <<link, txQueue, callback, tx, stack, ghosts, troubles>>

\* The line is for the connection it came over, or for nobody.
DispatchCommand ==
    /\ command.pc = "dispatch"
    /\ IF Current(command.line.epoch) THEN CommandGoes("answer") ELSE CommandEnds
    /\ UNCHANGED <<link, queues, callback, tx, stack, ghosts, troubles>>

AnswerCommand ==
    /\ command.pc = "answer"
    /\ IF Current(command.line.epoch) THEN CommandGoes("load") ELSE CommandEnds
    /\ UNCHANGED <<link, queues, callback, tx, stack, ghosts, troubles>>

\* Mutant: the answer goes to whoever is connected now.
LoadHandle_NoMatch ==
    /\ command.pc = "load"
    /\ IF connected /\ handle # None
       THEN command' = [command EXCEPT !.pc = "send", !.handle = handle, !.line.epoch = epoch]
       ELSE CommandEnds
    /\ UNCHANGED <<link, queues, callback, tx, stack, ghosts, troubles>>

LoadHandle ==
    /\ command.pc = "load"
    /\ IF connected /\ Matches(handle, command.line.epoch)
       THEN command' = [command EXCEPT !.pc = "send", !.handle = handle]
       ELSE CommandEnds
    /\ UNCHANGED <<link, queues, callback, tx, stack, ghosts, troubles>>

\* Mutant: an answer that does not fit is left out, and the link goes on.
QueueAnswer_Drops ==
    /\ command.pc = "send"
    /\ IF Len(txQueue) < TxDepth
       THEN /\ txQueue' = Append(txQueue, Message(command.handle, command.line.epoch, command.line.from))
            /\ accepted' = [accepted EXCEPT ![command.handle] = @ + 1]
            /\ UNCHANGED cause
       ELSE /\ cause' = cause \union {command.handle}
            /\ UNCHANGED <<txQueue, accepted>>
    /\ CommandEnds
    /\ UNCHANGED <<link, commandQueue, callback, tx, stack, written, troubles>>

QueueAnswer ==
    /\ command.pc = "send"
    /\ IF Len(txQueue) < TxDepth
       THEN /\ txQueue' = Append(txQueue, Message(command.handle, command.line.epoch, command.line.from))
            /\ accepted' = [accepted EXCEPT ![command.handle] = @ + 1]
            /\ CommandEnds
            /\ UNCHANGED cause
       ELSE /\ CommandGoes("fail")
            /\ cause' = cause \union {command.handle}
            /\ UNCHANGED <<txQueue, accepted>>
    /\ UNCHANGED <<link, commandQueue, callback, tx, stack, written, troubles>>

\* failBluetoothLink, in two steps: the check, and what follows from it.
CommandFails ==
    /\ command.pc = "fail"
    /\ IF Matches(command.handle, command.line.epoch) THEN CommandGoes("disconnect") ELSE CommandEnds
    /\ UNCHANGED <<link, queues, callback, tx, stack, ghosts, troubles>>

CommandDisconnects ==
    /\ command.pc = "disconnect"
    /\ connected' = FALSE
    /\ Disconnect(command.handle)
    /\ CommandEnds
    /\ UNCHANGED <<handle, epoch, flow, queues, callback, tx, events, owed, sent, ghosts, troubles>>

CommandTask ==
    \/ TakeCommand \/ DispatchCommand \/ AnswerCommand \/ LoadHandle \/ QueueAnswer
    \/ CommandFails \/ CommandDisconnects

-----------------------------------------------------------------------------
(* The TX task: bluetoothTxTask                                            *)

To == tx.message.to
Ours == Matches(To, tx.message.epoch)

TxGoes(label) == tx' = [tx EXCEPT !.pc = label]

TxEnds == tx' = [pc |-> "idle", message |-> NoMessage, offset |-> 0]

TakeMessage ==
    /\ tx.pc = "idle"
    /\ txQueue # <<>>
    /\ txQueue' = Tail(txQueue)
    /\ tx' = [pc |-> "loop", message |-> Head(txQueue), offset |-> 0]
    /\ UNCHANGED <<link, commandQueue, callback, command, stack, ghosts, troubles>>

\* A message for a client that has gone, or is being closed, is dropped.
NextPiece ==
    /\ tx.pc = "loop"
    /\ IF tx.offset < Pieces /\ connected /\ Ours THEN TxGoes("congested") ELSE TxEnds
    /\ UNCHANGED <<link, queues, callback, command, stack, ghosts, troubles>>

\* The wait for the congestion to clear ends by that, by its deadline, or
\* when the client has gone.
AwaitClear ==
    /\ tx.pc = "congested"
    /\ \/ /\ ~ flow.congested \/ ~ Ours
          /\ UNCHANGED <<cause, troubles>>
       \/ /\ flow.congested /\ Ours
          /\ Trouble
          /\ cause' = cause \union {To}
    /\ TxGoes("begin")
    /\ UNCHANGED <<link, queues, callback, command, stack, accepted, written>>

\* Flow::begin
BeginChecks ==
    /\ tx.pc = "begin"
    /\ IF Ours /\ ~ flow.pending /\ ~ flow.congested /\ ~ flow.failed
       THEN TxGoes("pending")
       ELSE TxGoes("fail")
    /\ cause' = IF Ours /\ (flow.congested \/ flow.failed) THEN cause \union {To} ELSE cause
    /\ UNCHANGED <<link, queues, callback, command, stack, accepted, written, troubles>>

BeginPending ==
    /\ tx.pc = "pending"
    /\ flow' = [flow EXCEPT !.pending = TRUE]
    /\ TxGoes("recheck")
    /\ UNCHANGED <<connected, handle, epoch, queues, callback, command, stack, ghosts, troubles>>

\* Mutant: the claim on a connection that has just been replaced stays.
BeginRechecks_Keeps ==
    /\ tx.pc = "recheck"
    /\ IF Ours THEN TxGoes("write") ELSE TxGoes("fail")
    /\ UNCHANGED <<link, queues, callback, command, stack, ghosts, troubles>>

\* A claim on a connection that has just been replaced is undone.
BeginRechecks ==
    /\ tx.pc = "recheck"
    /\ IF Ours
       THEN TxGoes("write") /\ UNCHANGED flow
       ELSE TxGoes("fail") /\ flow' = [flow EXCEPT !.pending = FALSE]
    /\ UNCHANGED <<connected, handle, epoch, queues, callback, command, stack, ghosts, troubles>>

\* esp_spp_write: the stack takes the piece and will complete it, or fails.
Write ==
    /\ tx.pc = "write"
    /\ \/ /\ peer[To] = "open"
          /\ written' = [written EXCEPT ![To] =
                           Append(@, <<tx.message.from, tx.message.number, tx.offset>>)]
          /\ owed' = [owed EXCEPT ![To] = @ + 1]
          /\ TxGoes("wait")
          /\ UNCHANGED <<cause, troubles>>
       \/ /\ \/ peer[To] # "open" /\ UNCHANGED troubles
             \/ Trouble
          /\ cause' = cause \union {To}
          /\ TxGoes("fail")
          /\ UNCHANGED <<written, owed>>
    /\ UNCHANGED <<link, queues, callback, command, peer, events, sent, accepted>>

\* The wait for the completion ends by it, by the deadline, or when the
\* client has gone.
AwaitCompletion ==
    /\ tx.pc = "wait"
    /\ \/ ~ flow.pending /\ UNCHANGED troubles
       \/ ~ Ours /\ UNCHANGED troubles
       \/ Trouble
    /\ IF flow.pending \/ flow.failed
       THEN TxGoes("fail") /\ cause' = cause \union {To}
       ELSE tx' = [tx EXCEPT !.pc = "loop", !.offset = @ + 1] /\ UNCHANGED cause
    /\ UNCHANGED <<link, queues, callback, command, stack, accepted, written>>

\* Mutant: after a failure the next message is tried.
TxFails_GoesOn ==
    /\ tx.pc = "fail"
    /\ TxEnds
    /\ flow' = [flow EXCEPT !.pending = FALSE, !.failed = FALSE]
    /\ UNCHANGED <<connected, handle, epoch, queues, callback, command, stack, ghosts, troubles>>

\* Mutant: the piece that has failed is tried again.
TxFails_Retries ==
    /\ tx.pc = "fail"
    /\ TxGoes("loop")
    /\ UNCHANGED <<link, queues, callback, command, stack, ghosts, troubles>>

TxFails ==
    /\ tx.pc = "fail"
    /\ IF Ours THEN TxGoes("disconnect") ELSE TxEnds
    /\ UNCHANGED <<link, queues, callback, command, stack, ghosts, troubles>>

TxDisconnects ==
    /\ tx.pc = "disconnect"
    /\ connected' = FALSE
    /\ Disconnect(To)
    /\ TxEnds
    /\ UNCHANGED <<handle, epoch, flow, queues, callback, command, events, owed, sent, ghosts, troubles>>

TxTask ==
    \/ TakeMessage \/ NextPiece \/ AwaitClear \/ BeginChecks \/ BeginPending
    \/ BeginRechecks \/ Write \/ AwaitCompletion \/ TxFails \/ TxDisconnects

-----------------------------------------------------------------------------
(* The stack and the clients                                               *)

Raise(event) == events' = Append(events, event)
Quiet == UNCHANGED <<link, queues, callback, command, tx, ghosts>>

ClientOpens(h) ==
    /\ peer[h] = "new"
    /\ \A g \in Clients : g < h => peer[g] # "new"
    /\ peer' = [peer EXCEPT ![h] = "open"]
    /\ Raise([kind |-> "open", client |-> h])
    /\ Quiet /\ UNCHANGED <<owed, sent, troubles>>

ClientSends(h) ==
    /\ peer[h] = "open"
    /\ sent[h] < LinesEach
    /\ sent' = [sent EXCEPT ![h] = @ + 1]
    /\ Raise([kind |-> "data", client |-> h])
    /\ Quiet /\ UNCHANGED <<peer, owed, troubles>>

\* The client hangs up, or the stack closes the link as asked.
Closes(h) ==
    /\ peer[h] \in {"open", "closing"}
    /\ peer' = [peer EXCEPT ![h] = "closed"]
    /\ owed' = [owed EXCEPT ![h] = 0]
    /\ Raise([kind |-> "close", client |-> h])
    /\ Quiet /\ UNCHANGED <<sent, troubles>>

Completes(h) ==
    /\ owed[h] > 0
    /\ owed' = [owed EXCEPT ![h] = @ - 1]
    /\ \/ /\ Raise([kind |-> "written", client |-> h, ok |-> TRUE, congested |-> FALSE])
          /\ UNCHANGED troubles
       \/ /\ Trouble
          /\ \/ Raise([kind |-> "written", client |-> h, ok |-> FALSE, congested |-> FALSE])
             \/ events' = events \o
                    <<[kind |-> "written", client |-> h, ok |-> TRUE, congested |-> TRUE],
                      [kind |-> "decongested", client |-> h]>>
    /\ Quiet /\ UNCHANGED <<peer, sent>>

Environment ==
    \E h \in Clients : ClientOpens(h) \/ ClientSends(h) \/ Closes(h) \/ Completes(h)

Next == Callback \/ CommandTask \/ TxTask \/ Environment

Spec == Init /\ [][Next]_vars

Stack == \E h \in Clients : Completes(h) \/ (peer[h] = "closing" /\ Closes(h))

\* The three tasks run, and the stack's own, which completes writes and closes
\* what it was asked to close.  No client need connect, send or hang up.
FairSpec ==
    /\ Spec
    /\ WF_vars(Callback) /\ WF_vars(CommandTask) /\ WF_vars(TxTask)
    /\ WF_vars(Stack)

-----------------------------------------------------------------------------
(* Properties                                                              *)

FlowType == [handle : Clients \union {None}, epoch : Nat, pending : BOOLEAN,
             congested : BOOLEAN, failed : BOOLEAN]
LineType == [from : Clients \union {None}, epoch : Nat]
MessageType == [to : Clients \union {None}, epoch : Nat,
                from : Clients \union {None}, number : Nat]

\* Every variable has its type, the queues their depth.
TypeOK ==
    /\ connected \in BOOLEAN /\ handle \in Clients \union {None} /\ epoch \in Nat
    /\ flow \in FlowType
    /\ commandQueue \in Seq(LineType) /\ Len(commandQueue) <= CommandDepth
    /\ txQueue \in Seq(MessageType) /\ Len(txQueue) <= TxDepth
    /\ callback.client \in Clients \union {None}
    /\ command.line \in LineType /\ command.handle \in Clients \union {None}
    /\ tx.message \in MessageType /\ tx.offset \in 0..Pieces
    /\ peer \in [Clients -> {"new", "open", "closing", "closed"}]
    /\ owed \in [Clients -> Nat] /\ sent \in [Clients -> 0..LinesEach]

\* No client is sent what another client's command was answered with.
NoCrossTalk ==
    \A h \in Clients : \A i \in 1..Len(written[h]) : written[h][i][1] = h

\* A client receives the messages that were accepted for it in that order,
\* whole and without a gap, as far as it receives them: nothing is skipped
\* however writes fail, and nothing of a message is repeated.
WrittenInOrder ==
    \A h \in Clients : \A i \in 1..Len(written[h]) :
        /\ written[h][i][2] = ((i - 1) \div Pieces) + 1
        /\ written[h][i][3] = (i - 1) % Pieces

\* A command that passes the checks of the dispatch is one of the client
\* that is connected, not one that a former client has left in the queue.
CommandsAreTheClients ==
    \A line \in {commandQueue[i] : i \in 1..Len(commandQueue)} \union {command.line} :
        Current(line.epoch) => line.from = handle

\* What is queued under one connection is never used under another, neither a
\* command of a former client nor an answer meant for it, and each client's
\* answers come whole and in order.
ClientsApart == TypeOK /\ NoCrossTalk /\ CommandsAreTheClients /\ WrittenInOrder

\* The board ends a link only because something went wrong with that link:
\* its queue was full, a write failed, was late, or was never completed, or
\* there was another client.  What is left of a former client is no reason.
FailureHasCause == \A h \in Clients : peer[h] = "closing" => h \in cause

\* Everything that is queued for a client is written or dropped in the end:
\* the TX task is stuck on no connection.
QueueDrains == txQueue # <<>> ~> txQueue = <<>>

\* A client that an answer could not be queued for, or whose write failed, is
\* disconnected: it does not go on with a gap in what it reads.
FailedLinkEnds == \A h \in Clients : h \in cause ~> peer[h] = "closed"

\* The tasks come back to their work: the queue empties, and a link with a gap
\* in it ends.
LinkServes == QueueDrains /\ FailedLinkEnds
=============================================================================
