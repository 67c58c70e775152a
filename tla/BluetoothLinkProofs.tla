------------------------- MODULE BluetoothLinkProofs -------------------------
(***************************************************************************)
(* Proofs about BluetoothLink, for every number of clients, every depth of *)
(* the queues and every number of troubles: clients are kept apart, and no *)
(* link ends without a cause.                                              *)
(***************************************************************************)
EXTENDS BluetoothLink, FiniteSetTheorems, TLAPS

\* What the stack reports.
Events ==
    [kind : {"open", "close", "data", "decongested"}, client : Clients]
    \union [kind : {"written"}, client : Clients, ok : BOOLEAN, congested : BOOLEAN]

\* Where the three tasks may be, with their locals.
CallbackType == [pc : {"idle", "flow", "handle", "connected", "close"},
                 client : Clients \union {None}]
CommandType == [pc : {"idle", "dispatch", "answer", "load", "send", "fail", "disconnect"},
                line : LineType, handle : Clients \union {None}]
TxType == [pc : {"idle", "loop", "congested", "begin", "pending", "recheck", "write",
                 "wait", "fail", "disconnect"},
           message : MessageType, offset : 0..Pieces]

\* TypeOK with the types of what only the proofs look at.
LinkTypes ==
    /\ connected \in BOOLEAN /\ handle \in Clients \union {None} /\ epoch \in Nat
    /\ flow \in FlowType
QueueTypes ==
    /\ commandQueue \in Seq(LineType) /\ Len(commandQueue) <= CommandDepth
    /\ txQueue \in Seq(MessageType) /\ Len(txQueue) <= TxDepth
TaskTypes == callback \in CallbackType /\ command \in CommandType /\ tx \in TxType
StackTypes ==
    /\ peer \in [Clients -> {"new", "open", "closing", "closed"}]
    /\ events \in Seq(Events)
    /\ owed \in [Clients -> Nat] /\ sent \in [Clients -> 0..LinesEach]
GhostTypes ==
    /\ accepted \in [Clients -> Nat]
    /\ written \in [Clients -> Seq((Clients \union {None}) \X Nat \X Nat)]
    /\ cause \subseteq Clients

TypeInv == LinkTypes /\ QueueTypes /\ TaskTypes /\ StackTypes /\ GhostTypes

\* A client is announced when everything about it has been stored.
LinkInv ==
    /\ connected => /\ callback.pc = "idle" /\ handle # None
                    /\ flow.handle = handle /\ flow.epoch = epoch
    /\ callback.pc \in {"flow", "handle", "connected"} => callback.client # None
    /\ callback.pc = "flow" => flow.handle = None
    /\ callback.pc \in {"handle", "connected"} =>
          flow.handle = callback.client /\ flow.epoch = epoch
    /\ callback.pc = "connected" => handle = callback.client
    /\ epoch = 0 => handle = None /\ callback.pc = "idle"

\* A line bears the epoch of the connection it came over.
Timely(line) ==
    /\ line.epoch <= epoch
    /\ line.epoch = epoch => line.from = handle /\ callback.pc \notin {"flow", "handle"}

LineInv ==
    /\ \A i \in 1..Len(commandQueue) : Timely(commandQueue[i])
    /\ Timely(command.line)

\* Client h is the one that is connected.
Served(h) == connected /\ handle = h

\* A message to client h in epoch e is for the connection of h.
Meant(h, e) == h # None /\ (Served(h) => e = epoch)

\* Messages answer the client that they are for.
AnswerInv ==
    /\ command.pc = "send" =>
          command.handle = command.line.from /\ Meant(command.handle, command.line.epoch)
    /\ command.pc \in {"fail", "disconnect"} => command.handle # None
    /\ \A i \in 1..Len(txQueue) :
          txQueue[i].from = txQueue[i].to /\ Meant(txQueue[i].to, txQueue[i].epoch)
    /\ tx.pc # "idle" => tx.message.from = To /\ Meant(To, tx.message.epoch)

\* The open event of client h waits, or is being handled.
Opens(i, h) == events[i].kind = "open" /\ events[i].client = h
Announced(h) == \E i \in 1..Len(events) : Opens(i, h)
Expected(h) == callback.pc \in {"flow", "handle", "connected"} /\ callback.client = h

\* Nothing has been said to client h yet, nor will be by those who speak now.
Untouched(h) ==
    /\ accepted[h] = 0 /\ written[h] = <<>>
    /\ command.handle # h /\ To # h
    /\ \A i \in 1..Len(txQueue) : txQueue[i].to # h

\* A client opens once.
FreshInv ==
    \A h \in Clients :
        /\ peer[h] = "new" => ~ Announced(h) /\ ~ Expected(h)
        /\ Expected(h) => ~ Announced(h)
        /\ \A i, j \in 1..Len(events) : Opens(i, h) /\ Opens(j, h) => i = j
        /\ peer[h] = "new" \/ Announced(h) \/ Expected(h) => Untouched(h)
        /\ \/ peer[h] = "new" \/ Announced(h)
           \/ Expected(h) /\ callback.pc # "connected"
           => handle # h

\* Message number n to h and all that follow it are in the queue, in order.
Follow(h, n) ==
    /\ n <= accepted[h] + 1
    /\ n <= accepted[h] => \E i \in 1..Len(txQueue) : txQueue[i].to = h /\ txQueue[i].number = n
    /\ \A i \in 1..Len(txQueue) : txQueue[i].to = h => txQueue[i].number >= n

\* The queue holds the messages of each client without a gap.
QueueInv ==
    \A i \in 1..Len(txQueue) :
        LET m == txQueue[i] IN
        /\ m.number >= 1 /\ m.number <= accepted[m.to]
        /\ m.number < accepted[m.to] =>
              \E j \in i + 1 .. Len(txQueue) : txQueue[j].to = m.to /\ txQueue[j].number = m.number + 1
        /\ \A j \in i + 1 .. Len(txQueue) : txQueue[j].to = m.to => m.number < txQueue[j].number

\* Pieces written for the message the TX task is at.
Before == (tx.message.number - 1) * Pieces + tx.offset

\* The TX task is at a message for client h.
InWork(h) == tx.pc # "idle" /\ To = h

\* The pieces up to there are written, and the messages after it are queued.
WorkOrder(h) ==
    /\ tx.pc = "loop" => Len(written[h]) = Before
    /\ tx.pc = "wait" => Len(written[h]) = Before + 1
    /\ Follow(h, tx.message.number + 1)

\* All of the messages up to one is written, and those after it are queued.
RestOrder(h) ==
    \E k \in 0..accepted[h] : Len(written[h]) = k * Pieces /\ Follow(h, k + 1)

\* The piece that is about to be written is the next one of its client, and as
\* long as a client is served everything it is still to get is there.
OrderInv ==
    /\ tx.pc \in {"congested", "begin", "pending", "recheck", "write"} =>
          Len(written[To]) = Before /\ tx.offset < Pieces
    /\ tx.pc = "wait" => tx.offset < Pieces
    /\ tx.pc # "idle" => tx.message.number >= 1
    /\ \A h \in Clients : Served(h) => IF InWork(h) THEN WorkOrder(h) ELSE RestOrder(h)

\* The claim of the TX task on the link is its own, or left by a link that failed.
PendingInv ==
    flow.pending =>
        \/ tx.pc = "recheck"
        \/ tx.pc \in {"write", "wait", "fail", "disconnect"} /\ Ours
        \/ tx.pc \in {"idle", "loop"} /\ ~ connected /\ callback.pc \in {"idle", "close"}

\* Who is about to end a link has a cause.
CauseInv ==
    /\ FailureHasCause
    /\ command.pc \in {"fail", "disconnect"} => command.handle \in cause
    /\ tx.pc = "fail" => To \in cause \/ ~ Ours
    /\ tx.pc = "disconnect" => To \in cause

LinkInvariant ==
    /\ TypeInv /\ LinkInv /\ LineInv /\ AnswerInv /\ FreshInv
    /\ QueueInv /\ OrderInv /\ NoCrossTalk /\ WrittenInOrder
    /\ PendingInv /\ CauseInv

-----------------------------------------------------------------------------
(* Types.                                                                  *)

USE DEF link, queues, stack, ghosts

\* A handle is positive.
LEMMA Handles == \A h \in Clients : h \in Nat /\ h # None
BY LinkAssumption, FS_CardinalityType DEF None

\* What is in a queue, and what is left of it, has its type.
LEMMA QueueParts ==
    ASSUME NEW S, NEW q \in Seq(S), q # <<>>
    PROVE  /\ Head(q) \in S /\ Tail(q) \in Seq(S) /\ Len(Tail(q)) = Len(q) - 1
           /\ Head(q) = q[1] /\ \A i \in 1..Len(q) - 1 : Tail(q)[i] = q[i + 1]
OBVIOUS

\* A sequence with one more element.
LEMMA OneMore ==
    ASSUME NEW S, NEW q \in Seq(S), NEW e \in S
    PROVE  /\ Append(q, e) \in Seq(S) /\ Len(Append(q, e)) = Len(q) + 1 /\ Len(q) \in Nat
           /\ \A i \in 1..Len(q) : Append(q, e)[i] = q[i]
           /\ Append(q, e)[Len(q) + 1] = e
OBVIOUS

\* A sequence with two more elements.
LEMMA TwoMore ==
    ASSUME NEW S, NEW q \in Seq(S), NEW e \in S, NEW f \in S
    PROVE  /\ q \o <<e, f>> \in Seq(S) /\ Len(q \o <<e, f>>) = Len(q) + 2
           /\ \A i \in 1..Len(q) : (q \o <<e, f>>)[i] = q[i]
           /\ (q \o <<e, f>>)[Len(q) + 1] = e /\ (q \o <<e, f>>)[Len(q) + 2] = f
OBVIOUS

\* What the fields of the tasks hold.
LEMMA Fields ==
    ASSUME LinkTypes, TaskTypes
    PROVE  /\ flow.handle \in Clients \union {None} /\ flow.epoch \in Nat
           /\ flow.pending \in BOOLEAN /\ flow.congested \in BOOLEAN /\ flow.failed \in BOOLEAN
           /\ callback.client \in Clients \union {None}
           /\ command.handle \in Clients \union {None} /\ command.line \in LineType
           /\ command.line.from \in Clients \union {None} /\ command.line.epoch \in Nat
           /\ tx.message \in MessageType /\ To \in Clients \union {None}
           /\ tx.message.from \in Clients \union {None}
           /\ tx.message.epoch \in Nat /\ tx.message.number \in Nat
           /\ tx.offset \in 0..Pieces
<1>1. /\ command.line \in LineType /\ command.handle \in Clients \union {None}
      /\ tx.message \in MessageType /\ tx.offset \in 0..Pieces
      /\ callback.client \in Clients \union {None}
  BY DEF TaskTypes, CommandType, TxType, CallbackType
<1>2. flow \in FlowType
  BY DEF LinkTypes
<1> QED BY <1>1, <1>2 DEF LineType, MessageType, To, FlowType

\* What the callback task takes from its queue.
LEMMA HeadEvent ==
    ASSUME StackTypes, events # <<>>
    PROVE  /\ Head(events).client \in Clients /\ Tail(events) \in Seq(Events)
           /\ Head(events).kind = "written" =>
                 Head(events).ok \in BOOLEAN /\ Head(events).congested \in BOOLEAN
<1>1. Head(events) \in Events /\ Tail(events) \in Seq(Events)
  BY QueueParts DEF StackTypes
<1> QED BY <1>1 DEF Events

\* The atomics of the link keep their types.
LEMMA LinkTypesStep ==
    ASSUME TypeInv, LinkInv, Next
    PROVE  LinkTypes'
<1>1. /\ connected \in BOOLEAN /\ handle \in Clients \union {None} /\ epoch \in Nat
      /\ flow \in FlowType /\ StackTypes /\ callback.client \in Clients \union {None}
  BY Fields DEF TypeInv, LinkTypes
<1>2. CASE OpenBegins
  <2>1. flow' \in FlowType
    BY <1>1, <1>2 DEF OpenBegins, ResetBegins, FlowType
  <2> QED BY <1>1, <1>2, <2>1 DEF OpenBegins, LinkTypes
<1>3. CASE OpenFlow
  BY <1>1, <1>3 DEF OpenFlow, ResetEnds, LinkTypes, FlowType
<1>4. CASE OpenHandle \/ CloseBegins \/ CommandDisconnects \/ TxDisconnects
  BY <1>1, <1>4 DEF OpenHandle, CloseBegins, CommandDisconnects, TxDisconnects, LinkTypes
<1>5. CASE OpenConnected \/ DataRefused
  BY <1>1, <1>5 DEF OpenConnected, DataRefused, CallbackSends, LinkTypes
<1>6. CASE CloseEnds
  BY <1>1, <1>6 DEF CloseEnds, LinkTypes, FlowType
<1>7. CASE Written \/ Decongested
  <2>1. flow' \in FlowType
    BY <1>1, <1>7, HeadEvent DEF Written, Decongested, Event, FlowType
  <2> QED BY <1>1, <1>7, <2>1 DEF Written, Decongested, LinkTypes
<1>8. CASE BeginPending \/ BeginRechecks
  <2>1. flow' \in FlowType
    BY <1>1, <1>8 DEF BeginPending, BeginRechecks, FlowType
  <2> QED BY <1>1, <1>8, <2>1 DEF BeginPending, BeginRechecks, LinkTypes
<1>9. CASE UNCHANGED link
  BY <1>1, <1>9 DEF LinkTypes
<1> QED
  BY <1>2, <1>3, <1>4, <1>5, <1>6, <1>7, <1>8, <1>9
  DEF Next, Callback, CommandTask, TxTask, Environment, OpenRefused, CloseOfAnother,
      DataQueued, DataOfAnother, TakeCommand, DispatchCommand, AnswerCommand, LoadHandle,
      QueueAnswer, CommandFails, TakeMessage, NextPiece, AwaitClear, BeginChecks, Write,
      AwaitCompletion, TxFails, ClientOpens, ClientSends, Closes, Completes, Quiet

\* sendBluetoothText in the callback queues a message.
LEMMA CallbackMessage ==
    ASSUME LinkTypes, GhostTypes, NEW h \in Clients
    PROVE  Message(h, epoch, h) \in MessageType /\ accepted[h] + 1 \in Nat
<1>1. epoch \in Nat /\ accepted \in [Clients -> Nat]
  BY DEF LinkTypes, GhostTypes
<1> QED BY <1>1 DEF Message, MessageType

\* So does sendBluetoothText in the command task.
LEMMA AnswerMessage ==
    ASSUME TypeInv, AnswerInv, command.pc = "send"
    PROVE  /\ command.handle \in Clients /\ accepted[command.handle] + 1 \in Nat
           /\ Message(command.handle, command.line.epoch, command.line.from) \in MessageType
<1>1. /\ command.handle \in Clients /\ accepted \in [Clients -> Nat]
      /\ command.line.epoch \in Nat /\ command.line.from \in Clients \union {None}
  BY Fields DEF TypeInv, GhostTypes, AnswerInv, Meant
<1> QED BY <1>1 DEF Message, MessageType

\* The client that the callback sends to is a client.
LEMMA Greeted ==
    ASSUME TypeInv, LinkInv, OpenConnected \/ DataRefused
    PROVE  handle \in Clients
BY HeadEvent DEF TypeInv, LinkTypes, LinkInv, OpenConnected, DataRefused, Event

\* The queues keep their types and their depths.
LEMMA QueueTypesStep ==
    ASSUME TypeInv, LinkInv, AnswerInv, Next
    PROVE  QueueTypes'
<1>1. /\ commandQueue \in Seq(LineType) /\ Len(commandQueue) <= CommandDepth
      /\ txQueue \in Seq(MessageType) /\ Len(txQueue) <= TxDepth
      /\ CommandDepth \in Nat /\ TxDepth \in Nat
      /\ LinkTypes /\ GhostTypes
  BY LinkAssumption DEF TypeInv, QueueTypes
<1>2. CASE UNCHANGED queues
  BY <1>1, <1>2 DEF QueueTypes
<1>3. CASE OpenConnected \/ DataRefused
  <2>1. Message(handle, epoch, handle) \in MessageType
    BY <1>1, <1>3, Greeted, CallbackMessage
  <2>2. /\ UNCHANGED commandQueue
        /\ \/ UNCHANGED txQueue
           \/ Len(txQueue) < TxDepth /\ txQueue' = Append(txQueue, Message(handle, epoch, handle))
    BY <1>3 DEF OpenConnected, DataRefused, CallbackSends
  <2> QED BY <1>1, <2>1, <2>2 DEF QueueTypes
<1>4. CASE DataQueued
  <2>1. [from |-> handle, epoch |-> epoch] \in LineType
    BY <1>1 DEF LinkTypes, LineType
  <2> QED BY <1>1, <1>4, <2>1 DEF DataQueued, QueueTypes
<1>5. CASE TakeCommand
  BY <1>1, <1>5, QueueParts DEF TakeCommand, QueueTypes
<1>6. CASE QueueAnswer
  <2> DEFINE m == Message(command.handle, command.line.epoch, command.line.from)
  <2>1. /\ UNCHANGED commandQueue
        /\ \/ UNCHANGED txQueue
           \/ Len(txQueue) < TxDepth /\ txQueue' = Append(txQueue, m)
    BY <1>6 DEF QueueAnswer
  <2>2. m \in MessageType
    BY <1>6, AnswerMessage DEF QueueAnswer
  <2> HIDE DEF m
  <2> QED BY <1>1, <2>1, <2>2 DEF QueueTypes
<1>7. CASE TakeMessage
  BY <1>1, <1>7, QueueParts DEF TakeMessage, QueueTypes
<1> QED
  BY <1>2, <1>3, <1>4, <1>5, <1>6, <1>7
  DEF Next, Callback, CommandTask, TxTask, Environment, OpenRefused, OpenBegins, OpenFlow,
      OpenHandle, CloseOfAnother, CloseBegins, CloseEnds, DataOfAnother, Written,
      Decongested, DispatchCommand, AnswerCommand, LoadHandle, CommandFails,
      CommandDisconnects, NextPiece, AwaitClear, BeginChecks, BeginPending, BeginRechecks,
      Write, AwaitCompletion, TxFails, TxDisconnects, ClientOpens, ClientSends, Closes,
      Completes, Quiet

\* The tasks keep their types.
LEMMA TaskTypesStep ==
    ASSUME TypeInv, LinkInv, OrderInv, Next
    PROVE  TaskTypes'
<1>1. LinkTypes /\ QueueTypes /\ TaskTypes /\ StackTypes /\ Pieces \in Nat
      /\ callback \in CallbackType /\ command \in CommandType /\ tx \in TxType
  BY LinkAssumption DEF TypeInv, TaskTypes
<1>2. callback' \in CallbackType
  <2>1. CASE OpenBegins
    BY <1>1, <2>1, HeadEvent DEF OpenBegins, Event, CallbackType
  <2>2. CASE CloseBegins
    BY <1>1, <2>2 DEF CloseBegins, CallbackType, LinkTypes
  <2>3. CASE OpenFlow \/ OpenHandle \/ OpenConnected \/ CloseEnds
    BY <1>1, <2>3 DEF OpenFlow, OpenHandle, OpenConnected, CloseEnds, CallbackType
  <2>4. CASE UNCHANGED callback
    BY <1>1, <2>4
  <2> QED
    BY <2>1, <2>2, <2>3, <2>4
    DEF Next, Callback, CommandTask, TxTask, Environment, OpenRefused, CloseOfAnother,
        DataQueued, DataRefused, DataOfAnother, Written, Decongested, TakeCommand,
        DispatchCommand, AnswerCommand, LoadHandle, QueueAnswer, CommandFails,
        CommandDisconnects, TakeMessage, NextPiece, AwaitClear, BeginChecks, BeginPending,
        BeginRechecks, Write, AwaitCompletion, TxFails, TxDisconnects, ClientOpens,
        ClientSends, Closes, Completes, Quiet
<1>3. command' \in CommandType
  <2>1. CASE CommandTask
    <3>1. NoLine \in LineType
      BY DEF NoLine, LineType
    <3>2. CASE TakeCommand
      <4>1. Head(commandQueue) \in LineType
        BY <1>1, <3>2, QueueParts DEF TakeCommand, QueueTypes
      <4> QED BY <1>1, <3>2, <4>1 DEF TakeCommand, CommandType
    <3>3. CASE LoadHandle
      <4>1. handle \in Clients \union {None}
        BY <1>1 DEF LinkTypes
      <4>2. \/ CommandEnds
            \/ command' = [command EXCEPT !.pc = "send", !.handle = handle]
        BY <3>3 DEF LoadHandle
      <4>3. CASE command' = [command EXCEPT !.pc = "send", !.handle = handle]
        BY <1>1, <4>1, <4>3 DEF CommandType
      <4> QED BY <3>1, <4>2, <4>3 DEF CommandEnds, CommandType
    <3>4. CASE \/ DispatchCommand \/ AnswerCommand \/ QueueAnswer \/ CommandFails
               \/ CommandDisconnects
      BY <1>1, <3>1, <3>4
      DEF DispatchCommand, AnswerCommand, QueueAnswer, CommandFails, CommandDisconnects,
          CommandGoes, CommandEnds, CommandType
    <3> QED BY <2>1, <3>2, <3>3, <3>4 DEF CommandTask
  <2>2. CASE UNCHANGED command
    BY <1>1, <2>2
  <2> QED
    BY <2>1, <2>2
    DEF Next, Callback, TxTask, Environment, OpenRefused, OpenBegins, OpenFlow, OpenHandle,
        OpenConnected, CloseOfAnother, CloseBegins, CloseEnds, DataQueued, DataRefused,
        DataOfAnother, Written, Decongested, TakeMessage, NextPiece, AwaitClear,
        BeginChecks, BeginPending, BeginRechecks, Write, AwaitCompletion, TxFails,
        TxDisconnects, ClientOpens, ClientSends, Closes, Completes, Quiet
<1>4. tx' \in TxType
  <2>1. CASE TxTask
    <3>1. NoMessage \in MessageType /\ 0 \in 0..Pieces
      BY <1>1 DEF NoMessage, MessageType
    <3>2. CASE TakeMessage
      <4>1. Head(txQueue) \in MessageType
        BY <1>1, <3>2, QueueParts DEF TakeMessage, QueueTypes
      <4> QED BY <1>1, <3>1, <3>2, <4>1 DEF TakeMessage, TxType
    <3>3. CASE AwaitCompletion
      <4>1. tx.offset + 1 \in 0..Pieces
        BY <1>1, <3>3, Fields DEF AwaitCompletion, OrderInv
      <4> QED BY <1>1, <3>3, <4>1 DEF AwaitCompletion, TxGoes, TxType
    <3>4. CASE \/ NextPiece \/ AwaitClear \/ BeginChecks \/ BeginPending \/ BeginRechecks
               \/ Write \/ TxFails \/ TxDisconnects
      BY <1>1, <3>1, <3>4
      DEF NextPiece, AwaitClear, BeginChecks, BeginPending, BeginRechecks, Write, TxFails,
          TxDisconnects, TxGoes, TxEnds, TxType
    <3> QED BY <2>1, <3>2, <3>3, <3>4 DEF TxTask
  <2>2. CASE UNCHANGED tx
    BY <1>1, <2>2
  <2> QED
    BY <2>1, <2>2
    DEF Next, Callback, CommandTask, Environment, OpenRefused, OpenBegins, OpenFlow,
        OpenHandle, OpenConnected, CloseOfAnother, CloseBegins, CloseEnds, DataQueued,
        DataRefused, DataOfAnother, Written, Decongested, TakeCommand, DispatchCommand,
        AnswerCommand, LoadHandle, QueueAnswer, CommandFails, CommandDisconnects,
        ClientOpens, ClientSends, Closes, Completes, Quiet
<1> QED BY <1>2, <1>3, <1>4 DEF TaskTypes

\* Who hangs up, and who is disconnected, is a client.
LEMMA DisconnectTypes ==
    ASSUME StackTypes, NEW h \in Clients, Disconnect(h)
    PROVE  peer' \in [Clients -> {"new", "open", "closing", "closed"}]
BY DEF Disconnect, StackTypes

\* The stack keeps its types.
LEMMA StackTypesStep ==
    ASSUME TypeInv, LinkInv, AnswerInv, Next
    PROVE  StackTypes'
<1>1. /\ peer \in [Clients -> {"new", "open", "closing", "closed"}]
      /\ events \in Seq(Events)
      /\ owed \in [Clients -> Nat] /\ sent \in [Clients -> 0..LinesEach]
      /\ LinesEach \in Nat /\ StackTypes /\ LinkTypes
  BY LinkAssumption DEF TypeInv, StackTypes
<1>2. events # <<>> => Tail(events) \in Seq(Events)
  BY <1>1, HeadEvent
<1>3. CASE OpenRefused
  BY <1>1, <1>2, <1>3, HeadEvent, DisconnectTypes DEF OpenRefused, Event, StackTypes
<1>4. CASE OpenConnected \/ DataRefused
  <2>1. UNCHANGED peer \/ Disconnect(handle)
    BY <1>4 DEF OpenConnected, DataRefused, CallbackSends
  <2>2. peer' \in [Clients -> {"new", "open", "closing", "closed"}]
    BY <1>1, <1>4, <2>1, Greeted, DisconnectTypes
  <2> QED BY <1>1, <1>2, <1>4, <2>2 DEF OpenConnected, DataRefused, Event, StackTypes
<1>5. CASE CommandDisconnects
  <2>1. command.handle \in Clients
    BY <1>5, Fields DEF CommandDisconnects, AnswerInv, TypeInv
  <2> QED BY <1>1, <1>5, <2>1, DisconnectTypes DEF CommandDisconnects, StackTypes
<1>6. CASE TxDisconnects
  <2>1. To \in Clients
    BY <1>6, Fields DEF TxDisconnects, AnswerInv, Meant, TypeInv
  <2> QED BY <1>1, <1>6, <2>1, DisconnectTypes DEF TxDisconnects, StackTypes
<1>7. CASE Write
  BY <1>1, <1>7 DEF Write, StackTypes
<1>8. CASE Environment
  <2>1. PICK h \in Clients : ClientOpens(h) \/ ClientSends(h) \/ Closes(h) \/ Completes(h)
    BY <1>8 DEF Environment
  <2>2. \A kind \in {"open", "data", "close", "decongested"} :
           [kind |-> kind, client |-> h] \in Events
    BY DEF Events
  <2>3. \A ok, congested \in BOOLEAN :
           [kind |-> "written", client |-> h, ok |-> ok, congested |-> congested] \in Events
    BY DEF Events
  <2>4. events' \in Seq(Events)
    <3>1. CASE ClientOpens(h) \/ ClientSends(h) \/ Closes(h)
      <4>1. \E kind \in {"open", "data", "close"} :
               events' = Append(events, [kind |-> kind, client |-> h])
        BY <3>1 DEF ClientOpens, ClientSends, Closes, Raise
      <4> QED BY <1>1, <2>2, <4>1
    <3>2. CASE Completes(h)
      <4> DEFINE done == [kind |-> "written", client |-> h, ok |-> TRUE, congested |-> FALSE]
                 failed == [kind |-> "written", client |-> h, ok |-> FALSE, congested |-> FALSE]
                 full == [kind |-> "written", client |-> h, ok |-> TRUE, congested |-> TRUE]
                 clear == [kind |-> "decongested", client |-> h]
      <4>1. \/ events' = Append(events, done) \/ events' = Append(events, failed)
            \/ events' = events \o <<full, clear>>
        BY <3>2 DEF Completes, Raise
      <4>2. done \in Events /\ failed \in Events /\ full \in Events /\ clear \in Events
        BY <2>2, <2>3
      <4> HIDE DEF done, failed, full, clear
      <4>3. \A e, f \in Events :
               Append(events, e) \in Seq(Events) /\ events \o <<e, f>> \in Seq(Events)
        BY <1>1, TwoMore
      <4>4. Append(events, done) \in Seq(Events) /\ Append(events, failed) \in Seq(Events)
        BY <4>2, <4>3
      <4>5. events \o <<full, clear>> \in Seq(Events)
        BY <4>2, <4>3
      <4> QED BY <4>1, <4>4, <4>5
    <3> QED BY <2>1, <3>1, <3>2
  <2>5. peer' \in [Clients -> {"new", "open", "closing", "closed"}]
    BY <1>1, <2>1 DEF ClientOpens, ClientSends, Closes, Completes
  <2>6. owed' \in [Clients -> Nat]
    BY <1>1, <2>1 DEF ClientOpens, ClientSends, Closes, Completes
  <2>7. sent' \in [Clients -> 0..LinesEach]
    <3>1. sent[h] < LinesEach => sent[h] + 1 \in 0..LinesEach
      BY <1>1
    <3> QED BY <1>1, <2>1, <3>1 DEF ClientOpens, ClientSends, Closes, Completes
  <2> QED BY <2>4, <2>5, <2>6, <2>7 DEF StackTypes
<1>9. CASE UNCHANGED stack \/ (UNCHANGED <<peer, owed, sent>> /\ events # <<>> /\ events' = Tail(events))
  BY <1>1, <1>2, <1>9 DEF StackTypes
<1> QED
  BY <1>3, <1>4, <1>5, <1>6, <1>7, <1>8, <1>9
  DEF Next, Callback, CommandTask, TxTask, Event, OpenBegins, OpenFlow, OpenHandle,
      CloseOfAnother, CloseBegins, CloseEnds, DataQueued, DataOfAnother, Written,
      Decongested, TakeCommand, DispatchCommand, AnswerCommand, LoadHandle, QueueAnswer,
      CommandFails, TakeMessage, NextPiece, AwaitClear, BeginChecks, BeginPending,
      BeginRechecks, AwaitCompletion, TxFails

\* The histories keep their types.
LEMMA GhostTypesStep ==
    ASSUME TypeInv, LinkInv, AnswerInv, Next
    PROVE  GhostTypes'
<1>1. /\ accepted \in [Clients -> Nat]
      /\ written \in [Clients -> Seq((Clients \union {None}) \X Nat \X Nat)]
      /\ cause \subseteq Clients /\ StackTypes
  BY DEF TypeInv, GhostTypes
<1>2. tx.pc # "idle" => To \in Clients
  BY Fields DEF TypeInv, AnswerInv, Meant
<1>3. CASE OpenRefused
  BY <1>1, <1>3, HeadEvent DEF OpenRefused, Event, GhostTypes
<1>4. CASE OpenConnected \/ DataRefused
  <2>1. handle \in Clients /\ UNCHANGED written
    BY <1>4, Greeted DEF OpenConnected, DataRefused
  <2>2. accepted' \in [Clients -> Nat]
    <3>1. accepted' = accepted \/ accepted' = [accepted EXCEPT ![handle] = @ + 1]
      BY <1>4 DEF OpenConnected, DataRefused, CallbackSends
    <3> QED BY <1>1, <2>1, <3>1
  <2>3. cause' \subseteq Clients
    BY <1>1, <1>4, <2>1 DEF OpenConnected, DataRefused, CallbackSends
  <2> QED BY <1>1, <2>1, <2>2, <2>3 DEF GhostTypes
<1>5. CASE QueueAnswer
  <2>1. command.handle \in Clients
    BY <1>5, AnswerMessage DEF QueueAnswer
  <2>2. accepted' \in [Clients -> Nat]
    BY <1>1, <1>5, <2>1 DEF QueueAnswer
  <2>3. cause' \subseteq Clients /\ UNCHANGED written
    BY <1>1, <1>5, <2>1 DEF QueueAnswer
  <2> QED BY <1>1, <2>2, <2>3 DEF GhostTypes
<1>6. CASE AwaitClear \/ BeginChecks \/ AwaitCompletion
  BY <1>1, <1>2, <1>6 DEF AwaitClear, BeginChecks, AwaitCompletion, GhostTypes
<1>7. CASE Write
  <2>1. To \in Clients /\ UNCHANGED accepted
    BY <1>2, <1>7 DEF Write
  <2>2. <<tx.message.from, tx.message.number, tx.offset>>
            \in (Clients \union {None}) \X Nat \X Nat
    BY Fields, LinkAssumption DEF TypeInv
  <2>3. written' \in [Clients -> Seq((Clients \union {None}) \X Nat \X Nat)]
    <3> DEFINE piece == <<tx.message.from, tx.message.number, tx.offset>>
    <3>1. written' = written \/ written' = [written EXCEPT ![To] = Append(@, piece)]
      BY <1>7 DEF Write
    <3>2. piece \in (Clients \union {None}) \X Nat \X Nat
      BY <2>2
    <3> HIDE DEF piece
    <3>3. Append(written[To], piece) \in Seq((Clients \union {None}) \X Nat \X Nat)
      BY <1>1, <2>1, <3>2
    <3> QED BY <1>1, <2>1, <3>1, <3>3
  <2>4. cause' \subseteq Clients
    BY <1>1, <1>7, <2>1 DEF Write
  <2> QED BY <1>1, <2>1, <2>3, <2>4 DEF GhostTypes
<1>8. CASE UNCHANGED ghosts
  BY <1>1, <1>8 DEF GhostTypes
<1> QED
  BY <1>3, <1>4, <1>5, <1>6, <1>7, <1>8
  DEF Next, Callback, CommandTask, TxTask, Environment, OpenBegins, OpenFlow, OpenHandle,
      CloseOfAnother, CloseBegins, CloseEnds, DataQueued, DataOfAnother, Written,
      Decongested, TakeCommand, DispatchCommand, AnswerCommand, LoadHandle, CommandFails,
      CommandDisconnects, TakeMessage, NextPiece, BeginPending, BeginRechecks, TxFails,
      TxDisconnects, ClientOpens, ClientSends, Closes, Completes, Quiet

\* Every variable keeps its type.
LEMMA TypesStep ==
    ASSUME TypeInv, LinkInv, AnswerInv, OrderInv, Next
    PROVE  TypeInv'
BY LinkTypesStep, QueueTypesStep, TaskTypesStep, StackTypesStep, GhostTypesStep DEF TypeInv

-----------------------------------------------------------------------------
(* What a step does to the link, to the stack's events and to the messages. *)

\* The client stays, or is lost.
LinkStays ==
    /\ UNCHANGED <<handle, epoch, callback>>
    /\ flow'.handle = flow.handle /\ flow'.epoch = flow.epoch
    /\ connected' => connected

\* A step leaves the link as it is or is one of the callback that opens or closes it.
LEMMA LinkKinds ==
    ASSUME TypeInv, Next
    PROVE  \/ LinkStays \/ OpenBegins \/ OpenFlow \/ OpenHandle \/ OpenConnected
           \/ CloseBegins \/ CloseEnds
<1>1. flow \in FlowType
  BY DEF TypeInv, LinkTypes
<1>2. CASE Written \/ Decongested \/ BeginPending \/ BeginRechecks
  BY <1>1, <1>2
  DEF Written, Decongested, BeginPending, BeginRechecks, LinkStays, FlowType
<1>3. CASE DataRefused \/ CommandDisconnects \/ TxDisconnects
  BY <1>3 DEF DataRefused, CallbackSends, CommandDisconnects, TxDisconnects, LinkStays
<1>4. CASE UNCHANGED <<link, callback>>
  BY <1>4 DEF LinkStays
<1> QED
  BY <1>2, <1>3, <1>4
  DEF Next, Callback, CommandTask, TxTask, Environment, OpenRefused, CloseOfAnother,
      DataQueued, DataOfAnother, TakeCommand, DispatchCommand, AnswerCommand, LoadHandle,
      QueueAnswer, CommandFails, TakeMessage, NextPiece, AwaitClear, BeginChecks, Write,
      AwaitCompletion, TxFails, ClientOpens, ClientSends, Closes, Completes, Quiet

\* Client h has yet to be served.
Waiting(h) == peer[h] = "new" \/ Announced(h) \/ Expected(h)

\* Nobody connects.
PeersStay == \A h \in Clients : peer'[h] = "new" <=> peer[h] = "new"

NothingHappens == UNCHANGED events /\ PeersStay

EventTaken == events # <<>> /\ events' = Tail(events) /\ PeersStay

EventsAdded ==
    /\ UNCHANGED callback /\ PeersStay
    /\ Len(events) <= Len(events')
    /\ \A i \in 1..Len(events') :
          (i <= Len(events) /\ events'[i] = events[i]) \/ events'[i].kind # "open"

\* Disconnecting a client makes nobody new, nor anybody known.
LEMMA DisconnectStays ==
    ASSUME TypeInv, NEW h, Disconnect(h)
    PROVE  PeersStay
BY DEF Disconnect, TypeInv, StackTypes, PeersStay

\* What a step does to the events: nothing, takes one, opens a client, adds others.
LEMMA StackKinds ==
    ASSUME TypeInv, Next
    PROVE  \/ NothingHappens /\ (UNCHANGED callback \/ OpenFlow \/ OpenHandle
                                 \/ OpenConnected \/ CloseEnds)
           \/ EventTaken /\ (UNCHANGED callback \/ OpenBegins \/ CloseBegins)
           \/ \E h \in Clients : ClientOpens(h)
           \/ EventsAdded
<1>1. UNCHANGED peer => PeersStay
  BY DEF PeersStay
<1>2. CASE OpenRefused \/ DataRefused
  BY <1>1, <1>2, DisconnectStays
  DEF OpenRefused, DataRefused, Event, CallbackSends, EventTaken
<1>3. CASE OpenConnected \/ CommandDisconnects \/ TxDisconnects
  BY <1>1, <1>3, DisconnectStays
  DEF OpenConnected, CommandDisconnects, TxDisconnects, CallbackSends, NothingHappens
<1>4. CASE \/ OpenBegins \/ CloseOfAnother \/ CloseBegins \/ DataQueued \/ DataOfAnother
           \/ Written \/ Decongested
  BY <1>1, <1>4
  DEF OpenBegins, CloseOfAnother, CloseBegins, DataQueued, DataOfAnother, Written,
      Decongested, Event, EventTaken
<1>5. CASE Environment
  <2>1. PICK h \in Clients : ClientOpens(h) \/ ClientSends(h) \/ Closes(h) \/ Completes(h)
    BY <1>5 DEF Environment
  <2>2. CASE ClientSends(h) \/ Closes(h)
    <3>1. PICK e : events' = Append(events, e) /\ e.kind # "open"
      BY <2>2 DEF ClientSends, Closes, Raise
    <3>2. PeersStay
      BY <1>1, <2>2 DEF ClientSends, Closes, PeersStay, TypeInv, StackTypes
    <3>3. events \in Seq(Events)
      BY DEF TypeInv, StackTypes
    <3> QED BY <2>2, <3>1, <3>2, <3>3 DEF ClientSends, Closes, Quiet, EventsAdded
  <2>3. CASE Completes(h)
    <3>1. UNCHANGED <<callback, peer>> /\ events \in Seq(Events)
      BY <2>3 DEF Completes, Quiet, TypeInv, StackTypes
    <3>2. CASE \E ok \in BOOLEAN :
                  events' = Append(events, [kind |-> "written", client |-> h, ok |-> ok,
                                            congested |-> FALSE])
      <4>1. PICK e : events' = Append(events, e) /\ e.kind # "open"
        BY <3>2
      <4> QED BY <1>1, <3>1, <4>1 DEF EventsAdded
    <3> DEFINE full == [kind |-> "written", client |-> h, ok |-> TRUE, congested |-> TRUE]
               clear == [kind |-> "decongested", client |-> h]
    <3>3. CASE events' = events \o <<full, clear>>
      <4>1. full \in Events /\ clear \in Events /\ full.kind # "open" /\ clear.kind # "open"
        BY DEF Events
      <4> HIDE DEF full, clear
      <4>2. /\ Len(events') = Len(events) + 2
            /\ \A i \in 1..Len(events) : events'[i] = events[i]
            /\ events'[Len(events) + 1] = full /\ events'[Len(events) + 2] = clear
        BY <3>1, <3>3, <4>1, TwoMore
      <4>3. Len(events) \in Nat
        BY <3>1
      <4> QED BY <1>1, <3>1, <4>1, <4>2, <4>3 DEF EventsAdded
    <3> QED BY <2>3, <3>2, <3>3 DEF Completes, Raise
  <2> QED BY <2>1, <2>2, <2>3
<1> QED
  BY <1>1, <1>2, <1>3, <1>4, <1>5
  DEF Next, Callback, CommandTask, TxTask, OpenFlow, OpenHandle, CloseEnds, TakeCommand,
      DispatchCommand, AnswerCommand, LoadHandle, QueueAnswer, CommandFails, TakeMessage,
      NextPiece, AwaitClear, BeginChecks, BeginPending, BeginRechecks, Write,
      AwaitCompletion, TxFails, NothingHappens

-----------------------------------------------------------------------------
(* The link and the lines.                                                 *)

\* A client is announced when everything about it has been stored.
LEMMA LinkStep ==
    ASSUME TypeInv, LinkInv, Next
    PROVE  LinkInv'
<1>1. /\ epoch \in Nat /\ handle \in Clients \union {None} /\ flow \in FlowType
      /\ callback \in CallbackType
  BY DEF TypeInv, LinkTypes, TaskTypes
<1>2. CASE LinkStays
  BY <1>2 DEF LinkStays, LinkInv
<1>3. CASE OpenBegins
  <2>1. Head(events).client # None
    BY <1>3, HeadEvent, Handles DEF TypeInv, OpenBegins, Event
  <2> QED BY <1>1, <1>3, <2>1 DEF OpenBegins, ResetBegins, LinkInv, FlowType
<1>4. CASE OpenFlow
  BY <1>1, <1>4 DEF OpenFlow, ResetEnds, LinkInv, FlowType, CallbackType
<1>5. CASE OpenHandle
  BY <1>1, <1>5 DEF OpenHandle, LinkInv, CallbackType
<1>6. CASE OpenConnected
  <2>1. /\ callback'.pc = "idle" /\ UNCHANGED <<handle, epoch, flow>> /\ handle # None
        /\ flow.handle = handle /\ flow.epoch = epoch
    BY <1>6 DEF OpenConnected, LinkInv
  <2> QED BY <1>6, <2>1 DEF LinkInv
<1>7. CASE CloseBegins
  <2>1. epoch # 0
    BY <1>7, HeadEvent, Handles DEF TypeInv, CloseBegins, Event, LinkInv
  <2> QED BY <1>1, <1>7, <2>1 DEF CloseBegins, LinkInv
<1>8. CASE CloseEnds
  BY <1>1, <1>8 DEF CloseEnds, LinkInv
<1> QED BY <1>2, <1>3, <1>4, <1>5, <1>6, <1>7, <1>8, LinkKinds

\* A line stays timely.
LEMMA TimelyStays ==
    ASSUME TypeInv, LinkInv, Next, NEW l \in LineType, Timely(l)
    PROVE  Timely(l)'
<1>1. epoch \in Nat /\ l.epoch \in Nat /\ callback \in CallbackType
  BY DEF TypeInv, LinkTypes, TaskTypes, LineType
<1>2. CASE LinkStays
  BY <1>2 DEF LinkStays, Timely
<1>3. CASE OpenBegins
  BY <1>1, <1>3 DEF OpenBegins, Timely
<1>4. CASE OpenFlow \/ OpenHandle
  BY <1>1, <1>4 DEF OpenFlow, OpenHandle, Timely, CallbackType
<1>5. CASE OpenConnected \/ CloseBegins
  BY <1>1, <1>5 DEF OpenConnected, CloseBegins, Timely, CallbackType
<1>6. CASE CloseEnds
  BY <1>1, <1>6 DEF CloseEnds, Timely
<1> QED BY <1>2, <1>3, <1>4, <1>5, <1>6, LinkKinds

\* Lines that wait bear the epoch of the connection they came over.
LEMMA LineStep ==
    ASSUME TypeInv, LinkInv, LineInv, Next, LinkInv', TypeInv'
    PROVE  LineInv'
<1>1. /\ commandQueue \in Seq(LineType) /\ command.line \in LineType
      /\ commandQueue' \in Seq(LineType) /\ epoch' \in Nat
  BY Fields DEF TypeInv, QueueTypes, LinkTypes
<1>2. Timely(NoLine)'
  BY <1>1 DEF Timely, NoLine, LinkInv, None
<1>3. \A i \in 1..Len(commandQueue) : commandQueue[i] \in LineType
  BY <1>1
<1>4. CASE DataQueued
  <2> DEFINE l == [from |-> handle, epoch |-> epoch]
  <2>1. /\ commandQueue' = Append(commandQueue, l)
        /\ UNCHANGED command
        /\ UNCHANGED link /\ UNCHANGED callback /\ callback.pc = "idle"
    BY <1>4 DEF DataQueued, Event
  <2>2. Timely(l)
    BY <1>1, <2>1 DEF Timely
  <2>3. l \in LineType
    BY <1>1 DEF TypeInv, LinkTypes, LineType
  <2> HIDE DEF l
  <2>4. ASSUME NEW i \in 1..Len(commandQueue'), NEW k, k = commandQueue'[i]
        PROVE  Timely(k)'
    BY <1>1, <1>3, <2>1, <2>2, <2>3, <2>4, TimelyStays DEF LineInv
  <2>5. ASSUME NEW k, k = command'.line PROVE Timely(k)'
    BY <1>1, <2>1, <2>5, TimelyStays DEF LineInv
  <2> QED BY <2>4, <2>5 DEF LineInv, Timely
<1>5. CASE TakeCommand
  <2>1. /\ commandQueue # <<>> /\ commandQueue' = Tail(commandQueue)
        /\ command'.line = Head(commandQueue)
    BY <1>5 DEF TakeCommand, TypeInv, TaskTypes, CommandType
  <2>2. ASSUME NEW i \in 1..Len(commandQueue'), NEW k, k = commandQueue'[i]
        PROVE  Timely(k)'
    <3>1. i + 1 \in 1..Len(commandQueue) /\ k = commandQueue[i + 1]
      BY <1>1, <2>1, <2>2, QueueParts
    <3> QED BY <1>3, <3>1, TimelyStays DEF LineInv
  <2>3. ASSUME NEW k, k = command'.line PROVE Timely(k)'
    <3>1. 1 \in 1..Len(commandQueue) /\ k = commandQueue[1]
      BY <1>1, <2>1, <2>3, QueueParts
    <3> QED BY <1>3, <3>1, TimelyStays DEF LineInv
  <2> QED BY <2>2, <2>3 DEF LineInv, Timely
<1>6. CASE UNCHANGED commandQueue /\ command'.line \in {command.line, NoLine}
  <2>1. ASSUME NEW i \in 1..Len(commandQueue'), NEW k, k = commandQueue'[i]
        PROVE  Timely(k)'
    BY <1>3, <1>6, <2>1, TimelyStays DEF LineInv
  <2>2. ASSUME NEW k, k = command'.line PROVE Timely(k)'
    <3>1. CASE k = NoLine
      BY <1>2, <3>1 DEF Timely
    <3>2. CASE k = command.line
      BY <1>1, <3>2, TimelyStays DEF LineInv
    <3> QED BY <1>6, <2>2, <3>1, <3>2
  <2> QED BY <2>1, <2>2 DEF LineInv, Timely
<1>7. CASE \/ DispatchCommand \/ AnswerCommand \/ LoadHandle \/ QueueAnswer
           \/ CommandFails \/ CommandDisconnects
  <2>1. command \in CommandType
    BY DEF TypeInv, TaskTypes
  <2>2. \A label : [command EXCEPT !.pc = label].line = command.line
    BY <2>1 DEF CommandType
  <2>3. [command EXCEPT !.pc = "send", !.handle = handle].line = command.line
    BY <2>1 DEF CommandType
  <2>4. UNCHANGED commandQueue
    BY <1>7
    DEF DispatchCommand, AnswerCommand, LoadHandle, QueueAnswer, CommandFails,
        CommandDisconnects
  <2>5. \/ \E label : command' = [command EXCEPT !.pc = label]
        \/ command' = [command EXCEPT !.pc = "send", !.handle = handle]
        \/ CommandEnds
    BY <1>7
    DEF DispatchCommand, AnswerCommand, LoadHandle, QueueAnswer, CommandFails,
        CommandDisconnects, CommandGoes
  <2>6. CommandEnds => command'.line = NoLine
    BY DEF CommandEnds
  <2>7. command'.line = command.line \/ command'.line = NoLine
    BY <2>2, <2>3, <2>5, <2>6
  <2> QED BY <1>6, <2>4, <2>7
<1> QED
  BY <1>4, <1>5, <1>6, <1>7
  DEF Next, Callback, CommandTask, TxTask, Environment, OpenRefused, OpenBegins, OpenFlow,
      OpenHandle, OpenConnected, CallbackSends, CloseOfAnother, CloseBegins, CloseEnds,
      DataRefused, DataOfAnother, Written, Decongested, TakeMessage, NextPiece,
      AwaitClear, BeginChecks, BeginPending, BeginRechecks, Write, AwaitCompletion,
      TxFails, TxDisconnects, ClientOpens, ClientSends, Closes, Completes, Quiet

-----------------------------------------------------------------------------
(* Messages.                                                               *)

\* A message is queued for client h, who is not waiting to be served.
Sends(h, e) ==
    /\ h \in Clients /\ e \in Nat
    /\ txQueue' = Append(txQueue, Message(h, e, h))
    /\ accepted' = [accepted EXCEPT ![h] = @ + 1]
    /\ UNCHANGED <<tx, written>>
    /\ Served(h)' => e = epoch'
    /\ (OpenConnected /\ handle = h) \/ ~ Waiting(h)

\* What a step does to the TX queue: nothing, takes a message, queues one.
LEMMA MessageKinds ==
    ASSUME TypeInv, LinkInv, AnswerInv, FreshInv, Next
    PROVE  \/ UNCHANGED <<txQueue, accepted>> /\ ~ TakeMessage
           \/ TakeMessage
           \/ \E h, e : Sends(h, e)
<1>1. /\ epoch \in Nat /\ \A h \in Clients : h # None
      /\ command.line.epoch \in Nat
  BY Handles, Fields DEF TypeInv, LinkTypes
<1>2. CASE OpenConnected
  <2>1. handle \in Clients /\ UNCHANGED <<handle, epoch, tx, written>>
    BY <1>2, Greeted DEF OpenConnected
  <2>2. CASE Len(txQueue) < TxDepth
    <3>1. Sends(handle, epoch)
      BY <1>1, <1>2, <2>1, <2>2 DEF OpenConnected, CallbackSends, Sends, Served
    <3> QED BY <3>1
  <2>3. CASE ~ (Len(txQueue) < TxDepth)
    BY <1>2, <2>3 DEF OpenConnected, CallbackSends, TakeMessage
  <2> QED BY <2>2, <2>3
<1>3. CASE DataRefused
  <2>1. /\ handle \in Clients /\ UNCHANGED <<handle, epoch, tx, written>>
        /\ callback.pc = "idle" /\ tx' = tx
    BY <1>3, Greeted DEF DataRefused, Event
  <2>2. CASE connected /\ Len(txQueue) < TxDepth
    <3>1. ~ Waiting(handle)
      BY <2>1 DEF FreshInv, Waiting, Expected
    <3>2. Sends(handle, epoch)
      BY <1>1, <1>3, <2>1, <2>2, <3>1 DEF DataRefused, CallbackSends, Sends, Served
    <3> QED BY <3>2
  <2>3. CASE ~ (connected /\ Len(txQueue) < TxDepth)
    <3>1. UNCHANGED <<txQueue, accepted>>
      BY <1>3, <2>3 DEF DataRefused, CallbackSends
    <3>2. ~ TakeMessage
      BY <1>3 DEF DataRefused, Event, TakeMessage, TypeInv, StackTypes
    <3> QED BY <3>1, <3>2
  <2> QED BY <2>2, <2>3
<1>4. CASE QueueAnswer
  <2> PICK h, e : h = command.handle /\ e = command.line.epoch
    OBVIOUS
  <2>1. /\ h \in Clients /\ h = command.line.from /\ e \in Nat
        /\ Served(h) => e = epoch
        /\ UNCHANGED <<connected, handle, epoch, tx, written>>
    BY <1>1, <1>4, AnswerMessage DEF QueueAnswer, AnswerInv, Meant
  <2>2. ~ Waiting(h)
    BY <2>1 DEF FreshInv, Waiting, Untouched
  <2>3. CASE Len(txQueue) < TxDepth
    <3>1. /\ txQueue' = Append(txQueue, Message(h, e, h))
          /\ accepted' = [accepted EXCEPT ![h] = @ + 1]
      BY <1>4, <2>1, <2>3 DEF QueueAnswer
    <3>2. Sends(h, e)
      BY <1>1, <2>1, <2>2, <3>1 DEF Sends, Served
    <3> QED BY <3>2
  <2>4. CASE ~ (Len(txQueue) < TxDepth)
    BY <1>4, <2>4 DEF QueueAnswer, TakeMessage
  <2> QED BY <2>3, <2>4
<1>5. CASE TakeMessage
  BY <1>5
<1>6. CASE UNCHANGED <<txQueue, accepted>>
  BY <1>6
<1> QED
  BY <1>2, <1>3, <1>4, <1>5, <1>6
  DEF Next, Callback, CommandTask, TxTask, Environment, OpenRefused, OpenBegins, OpenFlow,
      OpenHandle, CloseOfAnother, CloseBegins, CloseEnds, DataQueued, DataOfAnother,
      Written, Decongested, TakeCommand, DispatchCommand, AnswerCommand, LoadHandle,
      CommandFails, CommandDisconnects, NextPiece, AwaitClear, BeginChecks, BeginPending,
      BeginRechecks, Write, AwaitCompletion, TxFails, TxDisconnects, ClientOpens,
      ClientSends, Closes, Completes, Quiet

-----------------------------------------------------------------------------
(* Clients open once, and nothing is said to them before.                  *)

\* Client h has not been stored as the one that is served.
Early(h) ==
    \/ peer[h] = "new" \/ Announced(h)
    \/ Expected(h) /\ callback.pc # "connected"

\* FreshInv without what is said to the client.
OpensOnce(h) ==
    /\ peer[h] = "new" => ~ Announced(h) /\ ~ Expected(h)
    /\ Expected(h) => ~ Announced(h)
    /\ \A i, j \in 1..Len(events) : Opens(i, h) /\ Opens(j, h) => i = j
    /\ Early(h) => handle # h

\* Who waits after a step did so before, and is announced by one event.
LEMMA WaitingStep ==
    ASSUME TypeInv, LinkInv, FreshInv, Next, NEW h \in Clients
    PROVE  /\ OpensOnce(h)'
           /\ Waiting(h)' => Waiting(h) /\ (OpenConnected => handle # h)
<1>1. /\ events \in Seq(Events) /\ callback \in CallbackType /\ Len(events) \in Nat
      /\ peer \in [Clients -> {"new", "open", "closing", "closed"}]
  BY DEF TypeInv, StackTypes, TaskTypes
<1>2. OpensOnce(h)
  BY DEF FreshInv, OpensOnce, Early
<1>3. handle' = handle \/ OpenHandle \/ CloseEnds
  BY LinkKinds DEF LinkStays, OpenBegins, OpenFlow, OpenConnected, CloseBegins
<1>4. h # None
  BY Handles
<1>5. CASE NothingHappens /\ (UNCHANGED callback \/ OpenFlow \/ OpenHandle
                                \/ OpenConnected \/ CloseEnds)
  <2>1. /\ Announced(h)' <=> Announced(h)
        /\ peer'[h] = "new" <=> peer[h] = "new"
        /\ \A i, j \in 1..Len(events') : Opens(i, h)' /\ Opens(j, h)' => i = j
    BY <1>2, <1>5 DEF NothingHappens, PeersStay, OpensOnce, Announced, Opens
  <2>2. CASE UNCHANGED callback
    <3>1. handle' = handle /\ ~ OpenConnected
      BY <1>1, <1>3, <2>2 DEF OpenHandle, CloseEnds, OpenConnected, CallbackType
    <3> QED BY <1>2, <2>1, <2>2, <3>1 DEF OpensOnce, Waiting, Expected, Early
  <2>3. CASE OpenFlow
    <3>1. /\ callback.pc = "flow" /\ callback'.pc = "handle"
          /\ callback'.client = callback.client /\ handle' = handle
      BY <1>1, <2>3 DEF OpenFlow, CallbackType
    <3> QED BY <1>2, <2>1, <3>1 DEF OpensOnce, Waiting, Expected, Early, OpenConnected
  <2>4. CASE OpenHandle
    <3>1. /\ callback.pc = "handle" /\ callback'.pc = "connected"
          /\ callback'.client = callback.client /\ handle' = callback.client
      BY <1>1, <2>4 DEF OpenHandle, CallbackType
    <3> QED BY <1>2, <2>1, <3>1 DEF OpensOnce, Waiting, Expected, Early, OpenConnected
  <2>5. CASE OpenConnected
    <3>1. /\ callback.pc = "connected" /\ callback'.pc = "idle"
          /\ handle = callback.client /\ handle' = handle
      BY <2>5 DEF OpenConnected, LinkInv
    <3> QED BY <1>2, <2>1, <3>1 DEF OpensOnce, Waiting, Expected, Early
  <2>6. CASE CloseEnds
    <3>1. callback.pc = "close" /\ callback'.pc = "idle" /\ handle' = None
      BY <2>6 DEF CloseEnds
    <3> QED BY <1>2, <1>4, <2>1, <3>1 DEF OpensOnce, Waiting, Expected, Early, OpenConnected
  <2> QED BY <1>5, <2>2, <2>3, <2>4, <2>5, <2>6
<1>6. CASE EventTaken /\ (UNCHANGED callback \/ OpenBegins \/ CloseBegins)
  <2>1. /\ peer'[h] = "new" <=> peer[h] = "new"
        /\ events # <<>> /\ events' = Tail(events)
        /\ Len(events') = Len(events) - 1 /\ Len(events) >= 1 /\ Head(events) = events[1]
        /\ \A i \in 1..Len(events') : events'[i] = events[i + 1] /\ i + 1 \in 1..Len(events)
    BY <1>1, <1>6, QueueParts DEF EventTaken, PeersStay
  <2>2. /\ Announced(h)' => Announced(h)
        /\ \A i, j \in 1..Len(events') : Opens(i, h)' /\ Opens(j, h)' => i = j
        /\ Opens(1, h) => ~ Announced(h)'
    BY <1>1, <1>2, <2>1 DEF OpensOnce, Announced, Opens
  <2>3. CASE UNCHANGED callback
    <3>1. handle' = handle /\ ~ OpenConnected
      BY <1>1, <1>3, <2>3 DEF OpenHandle, CloseEnds, OpenConnected, CallbackType
    <3> QED BY <1>2, <2>1, <2>2, <2>3, <3>1 DEF OpensOnce, Waiting, Expected, Early
  <2>4. CASE OpenBegins
    <3>1. /\ callback.pc = "idle" /\ callback'.pc = "flow"
          /\ callback'.client = Head(events).client /\ Head(events).kind = "open"
          /\ handle' = handle
      BY <2>4 DEF OpenBegins, Event
    <3>2. Expected(h)' => Opens(1, h) /\ Announced(h)
      BY <1>1, <2>1, <3>1 DEF Expected, Opens, Announced
    <3> QED BY <1>2, <2>1, <2>2, <3>1, <3>2 DEF OpensOnce, Waiting, Early, OpenConnected
  <2>5. CASE CloseBegins
    <3>1. callback.pc = "idle" /\ callback'.pc = "close" /\ handle' = handle
      BY <2>5 DEF CloseBegins, Event
    <3> QED BY <1>2, <2>1, <2>2, <3>1 DEF OpensOnce, Waiting, Expected, Early, OpenConnected
  <2> QED BY <1>6, <2>3, <2>4, <2>5
<1>7. CASE \E g \in Clients : ClientOpens(g)
  <2> DEFINE open(g) == [kind |-> "open", client |-> g]
  <2>1. PICK g \in Clients :
           /\ peer[g] = "new" /\ peer' = [peer EXCEPT ![g] = "open"]
           /\ events' = Append(events, open(g))
           /\ UNCHANGED <<callback, handle, accepted>>
    BY <1>7 DEF ClientOpens, Raise, Quiet
  <2>2. open(g).kind = "open" /\ open(g).client = g
    OBVIOUS
  <2>3. ~ OpenConnected
    <3>1. callback' = callback
      BY <2>1
    <3> QED BY <3>1 DEF OpenConnected
  <2> HIDE DEF open
  <2>4. /\ Len(events') = Len(events) + 1 /\ events'[Len(events) + 1] = open(g)
        /\ \A i \in 1..Len(events) : events'[i] = events[i]
    BY <1>1, <2>1
  <2>5. Announced(h)' => Announced(h) \/ h = g
    BY <1>1, <2>2, <2>4 DEF Announced, Opens
  <2>6. ASSUME NEW i \in 1..Len(events'), NEW j \in 1..Len(events'), Opens(i, h)', Opens(j, h)'
        PROVE  i = j
    <3>1. CASE h = g
      BY <1>1, <1>2, <2>1, <2>4, <2>6, <3>1 DEF OpensOnce, Announced, Opens
    <3>2. CASE h # g
      BY <1>1, <1>2, <2>2, <2>4, <2>6, <3>2 DEF OpensOnce, Opens
    <3> QED BY <3>1, <3>2
  <2>7. peer'[h] = IF h = g THEN "open" ELSE peer[h]
    BY <1>1, <2>1
  <2> QED BY <1>2, <2>1, <2>3, <2>5, <2>6, <2>7 DEF OpensOnce, Waiting, Expected, Early
<1>8. CASE EventsAdded
  <2>1. /\ Announced(h)' => Announced(h)
        /\ peer'[h] = "new" <=> peer[h] = "new"
        /\ \A i, j \in 1..Len(events') : Opens(i, h)' /\ Opens(j, h)' => i = j
    BY <1>1, <1>2, <1>8 DEF EventsAdded, PeersStay, OpensOnce, Announced, Opens
  <2>2. UNCHANGED callback /\ handle' = handle /\ ~ OpenConnected
    BY <1>1, <1>3, <1>8 DEF EventsAdded, OpenHandle, CloseEnds, OpenConnected, CallbackType
  <2> QED BY <1>2, <2>1, <2>2 DEF OpensOnce, Waiting, Expected, Early
<1> QED BY <1>5, <1>6, <1>7, <1>8, StackKinds

\* Nothing is said to a client that waits.
LEMMA UntouchedStep ==
    ASSUME TypeInv, LinkInv, AnswerInv, FreshInv, Next, NEW h \in Clients, Waiting(h)'
    PROVE  Untouched(h)'
<1>1. /\ txQueue \in Seq(MessageType) /\ accepted \in [Clients -> Nat]
      /\ written \in [Clients -> Seq((Clients \union {None}) \X Nat \X Nat)]
      /\ command \in CommandType /\ tx \in TxType /\ h # None
  BY Handles DEF TypeInv, QueueTypes, GhostTypes, TaskTypes
<1>2. Waiting(h) /\ Untouched(h) /\ (OpenConnected => handle # h)
  BY WaitingStep DEF FreshInv, Waiting
<1>3. accepted'[h] = 0 /\ \A i \in 1..Len(txQueue') : txQueue'[i].to # h
  <2>1. CASE UNCHANGED <<txQueue, accepted>>
    BY <1>2, <2>1 DEF Untouched
  <2>2. CASE TakeMessage
    BY <1>1, <1>2, <2>2, QueueParts DEF TakeMessage, Untouched
  <2>3. ASSUME NEW g, NEW e, Sends(g, e)
        PROVE  accepted'[h] = 0 /\ \A i \in 1..Len(txQueue') : txQueue'[i].to # h
    <3>1. g # h
      BY <1>2, <2>3 DEF Sends
    <3>2. accepted'[h] = accepted[h]
      BY <1>1, <2>3, <3>1 DEF Sends
    <3>3. Message(g, e, g).to # h
      BY <3>1 DEF Message
    <3>4. txQueue' = Append(txQueue, Message(g, e, g))
      BY <2>3 DEF Sends
    <3> HIDE DEF Message
    <3>5. \A i \in 1..Len(txQueue') : txQueue'[i].to # h
      BY <1>1, <1>2, <3>3, <3>4 DEF Untouched
    <3> QED BY <1>2, <3>2, <3>5 DEF Untouched
  <2> QED BY <2>1, <2>2, <2>3, MessageKinds
<1>4. written'[h] = <<>> /\ To' # h
  <2>1. CASE TxTask
    <3>1. CASE TakeMessage
      <4>1. txQueue # <<>> /\ To' = Head(txQueue).to /\ UNCHANGED written
        BY <3>1 DEF TakeMessage, To
      <4>2. Head(txQueue).to # h
        BY <1>1, <1>2, <4>1, QueueParts DEF Untouched
      <4> QED BY <1>2, <4>1, <4>2 DEF Untouched
    <3>2. CASE Write
      <4>1. tx'.message = tx.message
        BY <1>1, <3>2 DEF Write, TxGoes, TxType
      <4>2. written'[h] = written[h]
        BY <1>1, <1>2, <3>2 DEF Write, Untouched
      <4> QED BY <1>2, <4>1, <4>2 DEF Untouched, To
    <3>3. CASE \/ NextPiece \/ AwaitClear \/ BeginChecks \/ BeginPending \/ BeginRechecks
               \/ AwaitCompletion \/ TxFails \/ TxDisconnects
      <4>1. UNCHANGED written
        BY <3>3
        DEF NextPiece, AwaitClear, BeginChecks, BeginPending, BeginRechecks,
            AwaitCompletion, TxFails, TxDisconnects
      <4>2. \/ \E label : TxGoes(label)
            \/ TxEnds
            \/ tx' = [tx EXCEPT !.pc = "loop", !.offset = @ + 1]
        BY <3>3
        DEF NextPiece, AwaitClear, BeginChecks, BeginPending, BeginRechecks,
            AwaitCompletion, TxFails, TxDisconnects
      <4>3. TxEnds => tx'.message = NoMessage
        BY DEF TxEnds
      <4>4. tx'.message = tx.message \/ tx'.message = NoMessage
        BY <1>1, <4>2, <4>3 DEF TxGoes, TxType
      <4> QED BY <1>1, <1>2, <4>1, <4>4 DEF Untouched, To, NoMessage
    <3> QED BY <2>1, <3>1, <3>2, <3>3 DEF TxTask
  <2>2. CASE UNCHANGED <<tx, written>>
    BY <1>2, <2>2 DEF Untouched, To
  <2> QED
    BY <2>1, <2>2
    DEF Next, Callback, CommandTask, Environment, OpenRefused, OpenBegins, OpenFlow,
        OpenHandle, OpenConnected, CloseOfAnother, CloseBegins, CloseEnds, DataQueued,
        DataRefused, DataOfAnother, Written, Decongested, TakeCommand, DispatchCommand,
        AnswerCommand, LoadHandle, QueueAnswer, CommandFails, CommandDisconnects,
        ClientOpens, ClientSends, Closes, Completes, Quiet
<1>5. command'.handle # h
  <2>1. CASE LoadHandle
    <3>1. CASE connected /\ Matches(handle, command.line.epoch)
      <4>1. handle # h
        <5>1. callback.pc = "idle"
          BY <3>1 DEF LinkInv
        <5> QED BY <1>2, <5>1 DEF FreshInv, Waiting, Expected
      <4>2. command' = [command EXCEPT !.pc = "send", !.handle = handle]
        BY <2>1, <3>1 DEF LoadHandle
      <4> QED BY <1>1, <4>1, <4>2 DEF CommandType
    <3>2. CASE ~ (connected /\ Matches(handle, command.line.epoch))
      <4>1. CommandEnds
        BY <2>1, <3>2 DEF LoadHandle
      <4> QED BY <1>1, <4>1 DEF CommandEnds
    <3> QED BY <3>1, <3>2
  <2>2. CASE \/ TakeCommand \/ DispatchCommand \/ AnswerCommand \/ QueueAnswer
             \/ CommandFails \/ CommandDisconnects
    <3>1. \/ \E label : command' = [command EXCEPT !.pc = label]
          \/ command' = [command EXCEPT !.pc = "dispatch", !.line = Head(commandQueue)]
          \/ CommandEnds
      BY <2>2
      DEF TakeCommand, DispatchCommand, AnswerCommand, QueueAnswer, CommandFails,
          CommandDisconnects, CommandGoes
    <3>2. CommandEnds => command'.handle = None
      BY DEF CommandEnds
    <3>3. command'.handle = command.handle \/ command'.handle = None
      BY <1>1, <3>1, <3>2 DEF CommandType
    <3> QED BY <1>1, <1>2, <3>3 DEF Untouched
  <2>3. CASE UNCHANGED command
    BY <1>2, <2>3 DEF Untouched
  <2> QED
    BY <2>1, <2>2, <2>3
    DEF Next, Callback, CommandTask, TxTask, Environment, OpenRefused, OpenBegins,
        OpenFlow, OpenHandle, OpenConnected, CloseOfAnother, CloseBegins, CloseEnds,
        DataQueued, DataRefused, DataOfAnother, Written, Decongested, TakeMessage,
        NextPiece, AwaitClear, BeginChecks, BeginPending, BeginRechecks, Write,
        AwaitCompletion, TxFails, TxDisconnects, ClientOpens, ClientSends, Closes,
        Completes, Quiet
<1> QED BY <1>3, <1>4, <1>5 DEF Untouched

\* A client opens once, and nothing is said to it before.
LEMMA FreshStep ==
    ASSUME TypeInv, LinkInv, AnswerInv, FreshInv, Next
    PROVE  FreshInv'
<1> SUFFICES ASSUME NEW h \in Clients
             PROVE  OpensOnce(h)' /\ (Waiting(h)' => Untouched(h)')
  BY DEF FreshInv, OpensOnce, Early, Waiting
<1> QED BY WaitingStep, UntouchedStep

-----------------------------------------------------------------------------
(* Answers reach the client whose command they answer.                     *)

\* Who is served was so before, with the same epoch, or has just been opened.
LEMMA ServedStep ==
    ASSUME TypeInv, LinkInv, Next, NEW h \in Clients, Served(h)'
    PROVE  \/ Served(h) /\ epoch' = epoch
           \/ OpenConnected /\ handle = h /\ Expected(h)
<1>1. CASE LinkStays
  BY <1>1 DEF LinkStays, Served
<1>2. CASE OpenConnected
  BY <1>2 DEF OpenConnected, LinkInv, Served, Expected
<1>3. CASE OpenBegins \/ OpenFlow \/ OpenHandle \/ CloseBegins \/ CloseEnds
  BY <1>3
  DEF OpenBegins, OpenFlow, OpenHandle, CloseBegins, CloseEnds, Event, LinkInv, Served
<1> QED BY <1>1, <1>2, <1>3, LinkKinds

\* What is meant for a client stays so: it is not sent to one that waits.
LEMMA MeantStays ==
    ASSUME TypeInv, LinkInv, FreshInv, Next, NEW h, NEW e, Meant(h, e),
           h \in Clients => ~ Untouched(h)
    PROVE  Meant(h, e)'
<1>1. CASE h \in Clients
  BY <1>1, ServedStep DEF Meant, FreshInv
<1>2. CASE h \notin Clients
  BY <1>2, LinkTypesStep DEF Meant, Served, LinkTypes
<1> QED BY <1>1, <1>2

\* Only the command task changes where it is, only the TX task what it writes.
LEMMA OwnSteps ==
    ASSUME Next
    PROVE  (CommandTask \/ UNCHANGED command) /\ (TxTask \/ UNCHANGED <<tx, written>>)
BY DEF Next, Callback, CommandTask, TxTask, Environment, OpenRefused, OpenBegins, OpenFlow,
       OpenHandle, OpenConnected, CloseOfAnother, CloseBegins, CloseEnds, DataQueued,
       DataRefused, DataOfAnother, Written, Decongested, TakeCommand, DispatchCommand,
       AnswerCommand, LoadHandle, QueueAnswer, CommandFails, CommandDisconnects,
       TakeMessage, NextPiece, AwaitClear, BeginChecks, BeginPending, BeginRechecks,
       Write, AwaitCompletion, TxFails, TxDisconnects, ClientOpens, ClientSends, Closes,
       Completes, Quiet

\* The TX task keeps its message, takes the next one or has none.
LEMMA TxKinds ==
    ASSUME TypeInv, Next
    PROVE  \/ TakeMessage
           \/ tx'.message = tx.message /\ (tx'.pc = "idle" <=> tx.pc = "idle")
           \/ TxEnds /\ UNCHANGED written
<1>1. tx \in TxType
  BY DEF TypeInv, TaskTypes
<1>2. CASE TxTask
  <2>1. \/ TakeMessage
        \/ TxEnds /\ UNCHANGED written
        \/ /\ tx.pc # "idle"
           /\ \/ \E label : label # "idle" /\ tx' = [tx EXCEPT !.pc = label]
              \/ tx' = [tx EXCEPT !.pc = "loop", !.offset = @ + 1]
    BY <1>2
    DEF TxTask, NextPiece, AwaitClear, BeginChecks, BeginPending, BeginRechecks, Write,
        AwaitCompletion, TxFails, TxDisconnects, TxGoes
  <2>2. \A label : /\ [tx EXCEPT !.pc = label].message = tx.message
                   /\ [tx EXCEPT !.pc = label].pc = label
    BY <1>1 DEF TxType
  <2>3. /\ [tx EXCEPT !.pc = "loop", !.offset = @ + 1].message = tx.message
        /\ [tx EXCEPT !.pc = "loop", !.offset = @ + 1].pc = "loop"
    BY <1>1 DEF TxType
  <2> QED BY <2>1, <2>2, <2>3
<1>3. CASE UNCHANGED <<tx, written>>
  BY <1>3
<1> QED BY <1>2, <1>3, OwnSteps

\* The command task is at the end of its work by a few steps only.
LEMMA CommandKinds ==
    ASSUME TypeInv, Next
    PROVE  /\ command'.pc = "send" => UNCHANGED command \/ LoadHandle
           /\ command'.pc \in {"fail", "disconnect"} =>
                 UNCHANGED command \/ QueueAnswer \/ CommandFails
<1>1. command \in CommandType
  BY DEF TypeInv, TaskTypes
<1>2. \A label : [command EXCEPT !.pc = label].pc = label
  BY <1>1 DEF CommandType
<1>3. /\ [command EXCEPT !.pc = "dispatch", !.line = Head(commandQueue)].pc = "dispatch"
      /\ [command EXCEPT !.pc = "send", !.handle = handle].pc = "send"
  BY <1>1 DEF CommandType
<1>4. CommandEnds => command'.pc = "idle"
  BY DEF CommandEnds
<1>5. CommandTask =>
         \/ LoadHandle /\ command'.pc \in {"send", "idle"}
         \/ QueueAnswer /\ command'.pc \in {"fail", "idle"}
         \/ CommandFails /\ command'.pc \in {"disconnect", "idle"}
         \/ command'.pc \in {"dispatch", "answer", "load", "idle"}
  BY <1>2, <1>3, <1>4
  DEF CommandTask, TakeCommand, DispatchCommand, AnswerCommand, LoadHandle, QueueAnswer,
      CommandFails, CommandDisconnects, CommandGoes
<1> QED BY <1>5, OwnSteps

\* A message answers the client that it is for.
LEMMA AnswerStep ==
    ASSUME TypeInv, LinkInv, LineInv, AnswerInv, FreshInv, Next
    PROVE  AnswerInv'
<1>1. /\ txQueue \in Seq(MessageType) /\ command \in CommandType /\ tx \in TxType
      /\ epoch \in Nat /\ \A h \in Clients : h # None
  BY Handles DEF TypeInv, QueueTypes, TaskTypes, LinkTypes
<1>2. ASSUME NEW i \in 1..Len(txQueue), NEW m, m = txQueue[i]
      PROVE  m.from = m.to /\ Meant(m.to, m.epoch)'
  <2>1. m.from = m.to /\ Meant(m.to, m.epoch)
    BY <1>2 DEF AnswerInv
  <2>2. m.to \in Clients => ~ Untouched(m.to)
    BY <1>2 DEF Untouched
  <2> QED BY <2>1, <2>2, MeantStays
<1>3. ASSUME NEW i \in 1..Len(txQueue'), NEW m, m = txQueue'[i]
      PROVE  m.from = m.to /\ Meant(m.to, m.epoch)'
  <2>1. CASE UNCHANGED txQueue
    BY <1>2, <1>3, <2>1
  <2>2. CASE TakeMessage
    <3>1. i + 1 \in 1..Len(txQueue) /\ m = txQueue[i + 1]
      BY <1>1, <1>3, <2>2, QueueParts DEF TakeMessage
    <3> QED BY <1>2, <3>1
  <2>3. ASSUME NEW h, NEW e, Sends(h, e)
        PROVE  m.from = m.to /\ Meant(m.to, m.epoch)'
    <3> DEFINE n == Message(h, e, h)
    <3>1. n.from = h /\ n.to = h /\ n.epoch = e /\ h # None
      BY <1>1, <2>3 DEF Message, Sends
    <3>2. Meant(h, e)'
      BY <2>3, <3>1 DEF Sends, Meant
    <3>3. txQueue' = Append(txQueue, n)
      BY <2>3 DEF Sends
    <3> HIDE DEF n
    <3>4. m = n \/ (i \in 1..Len(txQueue) /\ m = txQueue[i])
      BY <1>1, <1>3, <3>3
    <3> QED BY <1>2, <3>1, <3>2, <3>4
  <2> QED BY <2>1, <2>2, <2>3, MessageKinds
<1>4. ASSUME NEW h, h = To', NEW e, e = tx'.message.epoch, tx'.pc # "idle"
      PROVE  tx'.message.from = h /\ Meant(h, e)'
  <2>1. CASE TakeMessage
    <3> PICK m : m = txQueue[1]
      OBVIOUS
    <3>1. 1 \in 1..Len(txQueue) /\ tx'.message = m
      BY <1>1, <2>1, QueueParts DEF TakeMessage
    <3>2. m.from = m.to /\ Meant(m.to, m.epoch)'
      BY <1>2, <3>1
    <3>3. h = m.to /\ e = m.epoch
      BY <1>4, <3>1 DEF To
    <3> QED BY <3>1, <3>2, <3>3
  <2>2. CASE tx'.message = tx.message /\ tx.pc # "idle"
    <3>1. h = To /\ e = tx.message.epoch /\ tx.message.from = h /\ Meant(h, e)
      BY <1>4, <2>2 DEF AnswerInv, To
    <3>2. h \in Clients => ~ Untouched(h)
      BY <3>1 DEF Untouched
    <3> QED BY <2>2, <3>1, <3>2, MeantStays
  <2> QED BY <1>4, <2>1, <2>2, TxKinds DEF TxEnds
<1>5. ASSUME NEW h, h = command'.handle, NEW e, e = command'.line.epoch, command'.pc = "send"
      PROVE  h = command'.line.from /\ Meant(h, e)'
  <2>1. CASE LoadHandle
    <3>1. /\ connected /\ Matches(handle, command.line.epoch)
          /\ command' = [command EXCEPT !.pc = "send", !.handle = handle]
      BY <1>1, <1>5, <2>1 DEF LoadHandle, CommandEnds
    <3>2. h = handle /\ command'.line = command.line
      BY <1>1, <1>5, <3>1 DEF CommandType
    <3>3. /\ e = epoch /\ h # None /\ h = command.line.from
      BY <1>5, <3>1, <3>2 DEF Matches, LinkInv, LineInv, Timely
    <3>4. epoch' = epoch
      BY <2>1 DEF LoadHandle
    <3> QED BY <3>2, <3>3, <3>4 DEF Meant
  <2>2. CASE UNCHANGED command
    <3>1. h = command.handle /\ h = command'.line.from /\ Meant(h, e)
      BY <1>5, <2>2 DEF AnswerInv
    <3>2. h \in Clients => ~ Untouched(h)
      BY <3>1 DEF Untouched
    <3> QED BY <3>1, <3>2, MeantStays
  <2> QED BY <1>5, <2>1, <2>2, CommandKinds
<1>6. command'.pc \in {"fail", "disconnect"} => command'.handle # None
  <2>1. CASE QueueAnswer
    BY <1>1, <2>1 DEF QueueAnswer, AnswerInv, Meant, CommandGoes, CommandEnds, CommandType
  <2>2. CASE CommandFails
    BY <1>1, <2>2 DEF CommandFails, AnswerInv, CommandGoes, CommandEnds, CommandType
  <2>3. CASE UNCHANGED command
    BY <2>3 DEF AnswerInv
  <2> QED BY <2>1, <2>2, <2>3, CommandKinds
<1> QED BY <1>3, <1>4, <1>5, <1>6 DEF AnswerInv, Meant, Served

-----------------------------------------------------------------------------
(* The order of the messages.                                              *)

\* What QueueInv says of the message at i, for a queue and its counters.
InOrder(q, a, i) ==
    /\ q[i].number >= 1 /\ q[i].number <= a[q[i].to]
    /\ q[i].number < a[q[i].to] =>
          \E j \in i + 1 .. Len(q) : q[j].to = q[i].to /\ q[j].number = q[i].number + 1
    /\ \A j \in i + 1 .. Len(q) : q[j].to = q[i].to => q[i].number < q[j].number

\* The messages of the queue are for clients.
LEMMA Queued ==
    ASSUME TypeInv, AnswerInv
    PROVE  /\ txQueue \in Seq(MessageType)
           /\ \A i \in 1..Len(txQueue) : txQueue[i].to \in Clients /\ txQueue[i].number \in Nat
<1>1. txQueue \in Seq(MessageType)
  BY DEF TypeInv, QueueTypes
<1>2. ASSUME NEW i \in 1..Len(txQueue)
      PROVE  txQueue[i].to \in Clients /\ txQueue[i].number \in Nat
  <2>1. txQueue[i] \in MessageType /\ txQueue[i].to # None
    BY <1>1, <1>2 DEF AnswerInv, Meant
  <2> QED BY <2>1 DEF MessageType
<1> QED BY <1>1, <1>2

\* A message is queued behind all the others, with the next number.
LEMMA SendsLast ==
    ASSUME TypeInv, AnswerInv, NEW h, NEW e, Sends(h, e)
    PROVE  /\ Len(txQueue') = Len(txQueue) + 1 /\ Len(txQueue) \in Nat
           /\ \A i \in 1..Len(txQueue) : txQueue'[i] = txQueue[i]
           /\ txQueue'[Len(txQueue) + 1].to = h
           /\ txQueue'[Len(txQueue) + 1].number = accepted[h] + 1
           /\ h \in Clients /\ accepted[h] \in Nat /\ accepted'[h] = accepted[h] + 1
           /\ \A g \in Clients : g # h => accepted'[g] = accepted[g]
<1>1. txQueue \in Seq(MessageType) /\ accepted \in [Clients -> Nat] /\ h \in Clients
  BY DEF TypeInv, QueueTypes, GhostTypes, Sends
<1> DEFINE n == Message(h, e, h)
<1>2. n.to = h /\ n.number = accepted[h] + 1
  BY DEF Message
<1>3. txQueue' = Append(txQueue, n) /\ accepted' = [accepted EXCEPT ![h] = @ + 1]
  BY DEF Sends
<1> HIDE DEF n
<1> QED BY <1>1, <1>2, <1>3

\* The messages of a client wait in order and without a gap.
LEMMA QueueStep ==
    ASSUME TypeInv, LinkInv, AnswerInv, FreshInv, QueueInv, Next
    PROVE  QueueInv'
<1>1. \A i \in 1..Len(txQueue) : InOrder(txQueue, accepted, i)
  BY DEF QueueInv, InOrder
<1> SUFFICES ASSUME NEW i \in 1..Len(txQueue')
             PROVE  InOrder(txQueue', accepted', i)
  BY DEF QueueInv, InOrder
<1>2. CASE UNCHANGED <<txQueue, accepted>>
  BY <1>1, <1>2
<1>3. CASE TakeMessage
  <2>1. /\ Len(txQueue') = Len(txQueue) - 1 /\ Len(txQueue) \in Nat
        /\ \A j \in 1..Len(txQueue') : txQueue'[j] = txQueue[j + 1]
        /\ UNCHANGED accepted
    BY <1>3, Queued, QueueParts DEF TakeMessage
  <2>2. i + 1 \in 1..Len(txQueue) /\ InOrder(txQueue, accepted, i + 1)
    BY <1>1, <2>1
  <2>3. PICK m : m = txQueue[i + 1] /\ m = txQueue'[i]
    BY <2>1
  <2>4. /\ m.number >= 1 /\ m.number <= accepted[m.to]
        /\ m.number < accepted[m.to] =>
              \E j \in i + 2 .. Len(txQueue) : txQueue[j].to = m.to /\ txQueue[j].number = m.number + 1
        /\ \A j \in i + 2 .. Len(txQueue) : txQueue[j].to = m.to => m.number < txQueue[j].number
    BY <2>2, <2>3 DEF InOrder
  <2>5. ASSUME m.number < accepted[m.to]
        PROVE  \E j \in i + 1 .. Len(txQueue') :
                  txQueue'[j].to = m.to /\ txQueue'[j].number = m.number + 1
    <3>1. PICK j \in i + 2 .. Len(txQueue) :
             txQueue[j].to = m.to /\ txQueue[j].number = m.number + 1
      BY <2>4, <2>5
    <3>2. j - 1 \in i + 1 .. Len(txQueue') /\ txQueue'[j - 1] = txQueue[j]
      BY <2>1
    <3> QED BY <3>1, <3>2
  <2>6. ASSUME NEW j \in i + 1 .. Len(txQueue'), txQueue'[j].to = m.to
        PROVE  m.number < txQueue'[j].number
    <3>1. j + 1 \in i + 2 .. Len(txQueue) /\ txQueue'[j] = txQueue[j + 1]
      BY <2>1
    <3> QED BY <2>4, <2>6, <3>1
  <2> QED BY <2>1, <2>3, <2>4, <2>5, <2>6 DEF InOrder
<1>4. ASSUME NEW h, NEW e, Sends(h, e)
      PROVE  InOrder(txQueue', accepted', i)
  <2> DEFINE n == Len(txQueue)
  <2>1. /\ Len(txQueue') = n + 1 /\ n \in Nat
        /\ \A j \in 1..n : txQueue'[j] = txQueue[j]
        /\ txQueue'[n + 1].to = h /\ txQueue'[n + 1].number = accepted[h] + 1
        /\ accepted[h] \in Nat /\ accepted'[h] = accepted[h] + 1
        /\ \A g \in Clients : g # h => accepted'[g] = accepted[g]
    BY <1>4, SendsLast
  <2> HIDE DEF n
  <2>2. CASE i = n + 1
    BY <2>1, <2>2 DEF InOrder
  <2>3. CASE i \in 1..n
    <3>1. PICK m : m = txQueue[i] /\ m = txQueue'[i]
      BY <2>1, <2>3
    <3>2. /\ m.number >= 1 /\ m.number <= accepted[m.to]
          /\ m.number < accepted[m.to] =>
                \E j \in i + 1 .. n : txQueue[j].to = m.to /\ txQueue[j].number = m.number + 1
          /\ \A j \in i + 1 .. n : txQueue[j].to = m.to => m.number < txQueue[j].number
      BY <1>1, <2>3, <3>1 DEF InOrder, n
    <3>3. m.to \in Clients /\ m.number \in Nat
      BY <2>3, <3>1, Queued DEF n
    <3>4. m.number <= accepted'[m.to]
      BY <2>1, <3>2, <3>3
    <3>5. ASSUME m.number < accepted'[m.to]
          PROVE  \E j \in i + 1 .. n + 1 :
                    txQueue'[j].to = m.to /\ txQueue'[j].number = m.number + 1
      <4>1. CASE m.number < accepted[m.to]
        <5>1. PICK j \in i + 1 .. n : txQueue[j].to = m.to /\ txQueue[j].number = m.number + 1
          BY <3>2, <4>1
        <5>2. j \in i + 1 .. n + 1 /\ txQueue'[j] = txQueue[j]
          BY <2>1, <2>3
        <5> QED BY <5>1, <5>2
      <4>2. CASE m.to = h /\ m.number = accepted[h]
        <5>1. n + 1 \in i + 1 .. n + 1
          BY <2>1, <2>3
        <5> QED BY <2>1, <4>2, <5>1
      <4> QED BY <2>1, <3>2, <3>3, <3>5, <4>1, <4>2
    <3>6. ASSUME NEW j \in i + 1 .. n + 1, txQueue'[j].to = m.to
          PROVE  m.number < txQueue'[j].number
      <4>1. CASE j = n + 1
        BY <2>1, <3>2, <3>3, <3>6, <4>1
      <4>2. CASE j \in i + 1 .. n
        <5>1. txQueue'[j] = txQueue[j]
          BY <2>1, <2>3, <4>2
        <5> QED BY <3>2, <3>6, <4>2, <5>1
      <4> QED BY <2>1, <4>1, <4>2
    <3> QED BY <2>1, <3>1, <3>2, <3>4, <3>5, <3>6 DEF InOrder
  <2> QED BY <2>1, <2>2, <2>3
<1> QED BY <1>2, <1>3, <1>4, MessageKinds

\* What is to follow is not passed over.
LEMMA FollowStays ==
    ASSUME TypeInv, LinkInv, AnswerInv, FreshInv, Next,
           NEW h \in Clients, NEW n \in Nat, Follow(h, n),
           TakeMessage => Head(txQueue).to # h
    PROVE  Follow(h, n)' /\ accepted[h] <= accepted'[h]
<1>1. accepted[h] \in Nat /\ txQueue \in Seq(MessageType)
  BY Queued DEF TypeInv, GhostTypes
<1>2. CASE UNCHANGED <<txQueue, accepted>>
  BY <1>1, <1>2 DEF Follow
<1>3. CASE TakeMessage
  <2>1. /\ Len(txQueue') = Len(txQueue) - 1 /\ Len(txQueue) \in Nat
        /\ \A j \in 1..Len(txQueue') : txQueue'[j] = txQueue[j + 1] /\ j + 1 \in 1..Len(txQueue)
        /\ UNCHANGED accepted /\ txQueue[1].to # h
    BY <1>1, <1>3, QueueParts DEF TakeMessage
  <2>2. ASSUME n <= accepted[h]
        PROVE  \E i \in 1..Len(txQueue') : txQueue'[i].to = h /\ txQueue'[i].number = n
    <3>1. PICK j \in 1..Len(txQueue) : txQueue[j].to = h /\ txQueue[j].number = n
      BY <2>2 DEF Follow
    <3>2. j - 1 \in 1..Len(txQueue') /\ txQueue'[j - 1] = txQueue[j]
      BY <2>1, <3>1
    <3> QED BY <3>1, <3>2
  <2>3. ASSUME NEW i \in 1..Len(txQueue'), txQueue'[i].to = h
        PROVE  txQueue'[i].number >= n
    BY <2>1, <2>3 DEF Follow
  <2> QED BY <1>1, <2>1, <2>2, <2>3 DEF Follow
<1>4. ASSUME NEW g, NEW e, Sends(g, e)
      PROVE  Follow(h, n)' /\ accepted[h] <= accepted'[h]
  <2> DEFINE l == Len(txQueue)
  <2>1. /\ Len(txQueue') = l + 1 /\ l \in Nat
        /\ \A j \in 1..l : txQueue'[j] = txQueue[j]
        /\ txQueue'[l + 1].to = g /\ txQueue'[l + 1].number = accepted[g] + 1
        /\ accepted[g] \in Nat /\ accepted'[g] = accepted[g] + 1
        /\ g # h => accepted'[h] = accepted[h]
    BY <1>4, SendsLast
  <2> HIDE DEF l
  <2>2. /\ n <= accepted[h] + 1 /\ accepted[h] <= accepted'[h] /\ n <= accepted'[h] + 1
        /\ g = h => accepted'[h] = accepted[h] + 1
    BY <1>1, <2>1 DEF Follow
  <2>3. ASSUME n <= accepted'[h]
        PROVE  \E i \in 1..l + 1 : txQueue'[i].to = h /\ txQueue'[i].number = n
    <3>1. CASE n <= accepted[h]
      <4>1. PICK j \in 1..l : txQueue[j].to = h /\ txQueue[j].number = n
        BY <3>1 DEF Follow, l
      <4>2. j \in 1..l + 1 /\ txQueue'[j] = txQueue[j]
        BY <2>1
      <4> QED BY <4>1, <4>2
    <3>2. CASE g = h /\ n = accepted[h] + 1
      <4>1. l + 1 \in 1..l + 1
        BY <2>1
      <4> QED BY <2>1, <3>2, <4>1
    <3> QED BY <1>1, <2>1, <2>2, <2>3, <3>1, <3>2
  <2>4. ASSUME NEW i \in 1..l + 1, txQueue'[i].to = h
        PROVE  txQueue'[i].number >= n
    <3>1. CASE i = l + 1
      BY <1>1, <2>1, <2>2, <2>4, <3>1
    <3>2. CASE i \in 1..l
      BY <2>1, <2>4, <3>2 DEF Follow, l
    <3> QED BY <2>1, <3>1, <3>2
  <2> QED BY <2>1, <2>2, <2>3, <2>4 DEF Follow
<1> QED BY <1>2, <1>3, <1>4, MessageKinds

\* The next message of a client whose messages follow from n is message n.
LEMMA FollowTaken ==
    ASSUME TypeInv, AnswerInv, QueueInv, TakeMessage,
           NEW h \in Clients, NEW n \in Nat, Follow(h, n), Head(txQueue).to = h
    PROVE  /\ tx'.message.number = n /\ tx'.offset = 0 /\ tx'.pc = "loop" /\ To' = h
           /\ Follow(h, n + 1)'
<1>1. /\ accepted[h] \in Nat /\ txQueue \in Seq(MessageType)
      /\ \A i \in 1..Len(txQueue) : txQueue[i].number \in Nat
  BY Queued DEF TypeInv, GhostTypes
<1>2. /\ Len(txQueue') = Len(txQueue) - 1 /\ Len(txQueue) \in Nat /\ Len(txQueue) >= 1
      /\ \A j \in 1..Len(txQueue') : txQueue'[j] = txQueue[j + 1] /\ j + 1 \in 2..Len(txQueue)
      /\ UNCHANGED accepted /\ txQueue[1].to = h /\ tx'.message = txQueue[1]
      /\ tx'.offset = 0 /\ tx'.pc = "loop"
  BY <1>1, QueueParts DEF TakeMessage
<1>3. InOrder(txQueue, accepted, 1)
  BY <1>2 DEF QueueInv, InOrder
<1>4. \A j \in 2..Len(txQueue) : j \in 1..Len(txQueue)
                                 /\ j - 1 \in 1..Len(txQueue') /\ txQueue'[j - 1] = txQueue[j]
  BY <1>2
<1>5. txQueue[1].number = n
  <2>1. txQueue[1].number >= n /\ txQueue[1].number <= accepted[h] /\ 1 \in 1..Len(txQueue)
    BY <1>2, <1>3 DEF Follow, InOrder
  <2>2. PICK i \in 1..Len(txQueue) : txQueue[i].to = h /\ txQueue[i].number = n
    BY <1>1, <2>1 DEF Follow
  <2>3. i # 1 => i \in 2..Len(txQueue)
    BY <1>2
  <2>4. i # 1 => txQueue[1].number < n
    BY <1>2, <1>3, <2>2, <2>3 DEF InOrder
  <2>5. txQueue[1].number \in Nat
    BY <1>1, <2>1
  <2> QED BY <2>1, <2>2, <2>4, <2>5
<1>6. n <= accepted[h] /\ (n < accepted[h] =>
         \E j \in 2..Len(txQueue) : txQueue[j].to = h /\ txQueue[j].number = n + 1)
      /\ \A j \in 2..Len(txQueue) : txQueue[j].to = h => n < txQueue[j].number
  BY <1>2, <1>3, <1>5 DEF InOrder
<1>7. ASSUME n + 1 <= accepted[h]
      PROVE  \E i \in 1..Len(txQueue') : txQueue'[i].to = h /\ txQueue'[i].number = n + 1
  <2>1. PICK j \in 2..Len(txQueue) : txQueue[j].to = h /\ txQueue[j].number = n + 1
    BY <1>1, <1>6, <1>7
  <2> QED BY <1>4, <2>1
<1>8. ASSUME NEW i \in 1..Len(txQueue'), txQueue'[i].to = h
      PROVE  txQueue'[i].number >= n + 1
  <2>1. i + 1 \in 2..Len(txQueue) /\ i + 1 \in 1..Len(txQueue) /\ txQueue'[i] = txQueue[i + 1]
    BY <1>2
  <2>2. n < txQueue'[i].number /\ txQueue'[i].number \in Nat
    BY <1>1, <1>6, <1>8, <2>1
  <2> QED BY <2>2
<1> QED BY <1>1, <1>2, <1>5, <1>6, <1>7, <1>8 DEF Follow, To

\* Where a message is being written.
Writing == {"congested", "begin", "pending", "recheck", "write"}

\* What the TX task does with its message.
SameMessage == tx.pc # "idle" /\ tx'.message = tx.message
MessageEnds ==
    /\ tx.pc # "idle" /\ TxEnds /\ UNCHANGED written
    /\ ~ connected' \/ ~ Ours \/ ~ connected \/ (tx.pc = "loop" /\ tx.offset >= Pieces)
PieceGoesOn ==
    /\ SameMessage /\ tx'.offset = tx.offset /\ UNCHANGED written
    /\ tx'.pc \in Writing \union {"fail", "disconnect"}
    /\ tx'.pc \in Writing =>
          tx.pc \in Writing \/ (tx.pc = "loop" /\ tx.offset < Pieces /\ connected /\ Ours)
PieceTaken ==
    /\ SameMessage /\ tx'.offset = tx.offset /\ tx.pc = "write" /\ tx'.pc = "wait"
    /\ written' = [written EXCEPT ![To] =
                     Append(@, <<tx.message.from, tx.message.number, tx.offset>>)]
PieceDone ==
    /\ SameMessage /\ tx'.offset = tx.offset + 1 /\ UNCHANGED written
    /\ tx.pc = "wait" /\ tx'.pc = "loop"

\* What a step does to the message that is being written.
LEMMA TxMoves ==
    ASSUME TypeInv, Next
    PROVE  \/ UNCHANGED <<tx, written>> \/ TakeMessage
           \/ MessageEnds \/ PieceGoesOn \/ PieceTaken \/ PieceDone
<1>1. tx \in TxType
  BY DEF TypeInv, TaskTypes
<1>2. \A label : /\ [tx EXCEPT !.pc = label].message = tx.message
                 /\ [tx EXCEPT !.pc = label].offset = tx.offset
                 /\ [tx EXCEPT !.pc = label].pc = label
  BY <1>1 DEF TxType
<1>3. /\ [tx EXCEPT !.pc = "loop", !.offset = @ + 1].message = tx.message
      /\ [tx EXCEPT !.pc = "loop", !.offset = @ + 1].offset = tx.offset + 1
      /\ [tx EXCEPT !.pc = "loop", !.offset = @ + 1].pc = "loop"
  BY <1>1 DEF TxType
<1>4. tx.offset \in Nat /\ Pieces \in Nat
  BY <1>1, LinkAssumption DEF TxType
<1>5. CASE NextPiece
  <2>1. CASE tx.offset < Pieces /\ connected /\ Ours
    BY <1>2, <1>5, <2>1 DEF NextPiece, TxGoes, PieceGoesOn, SameMessage, Writing
  <2>2. CASE ~ (tx.offset < Pieces /\ connected /\ Ours)
    BY <1>4, <1>5, <2>2 DEF NextPiece, MessageEnds
  <2> QED BY <2>1, <2>2
<1>6. CASE AwaitClear \/ BeginChecks \/ BeginPending \/ BeginRechecks
  <2>1. /\ tx.pc \in Writing /\ UNCHANGED written
        /\ \E label \in Writing \union {"fail"} : tx' = [tx EXCEPT !.pc = label]
    BY <1>6
    DEF AwaitClear, BeginChecks, BeginPending, BeginRechecks, TxGoes, Writing
  <2> QED BY <1>2, <2>1 DEF PieceGoesOn, SameMessage, Writing
<1>7. CASE Write
  <2>1. \/ /\ tx.pc = "write" /\ tx' = [tx EXCEPT !.pc = "wait"]
           /\ written' = [written EXCEPT ![To] =
                            Append(@, <<tx.message.from, tx.message.number, tx.offset>>)]
        \/ tx.pc = "write" /\ tx' = [tx EXCEPT !.pc = "fail"] /\ UNCHANGED written
    BY <1>7 DEF Write, TxGoes
  <2> QED BY <1>2, <2>1 DEF PieceGoesOn, PieceTaken, SameMessage, Writing
<1>8. CASE AwaitCompletion
  <2>1. /\ tx.pc = "wait" /\ UNCHANGED written
        /\ \/ tx' = [tx EXCEPT !.pc = "fail"]
           \/ tx' = [tx EXCEPT !.pc = "loop", !.offset = @ + 1]
    BY <1>8 DEF AwaitCompletion, TxGoes
  <2>2. CASE tx' = [tx EXCEPT !.pc = "fail"]
    BY <1>2, <2>1, <2>2 DEF PieceGoesOn, SameMessage, Writing
  <2>3. CASE tx' = [tx EXCEPT !.pc = "loop", !.offset = @ + 1]
    <3>1. /\ tx'.message = tx.message /\ tx'.offset = tx.offset + 1 /\ tx'.pc = "loop"
      BY <1>3, <2>3
    <3> QED BY <2>1, <3>1 DEF PieceDone, SameMessage
  <2> QED BY <2>1, <2>2, <2>3
<1>9. CASE TxFails
  <2>1. /\ tx.pc = "fail" /\ UNCHANGED written
        /\ (tx' = [tx EXCEPT !.pc = "disconnect"]) \/ (~ Ours /\ TxEnds)
    BY <1>9 DEF TxFails, TxGoes
  <2> QED BY <1>2, <2>1 DEF PieceGoesOn, MessageEnds, SameMessage, Writing
<1>10. CASE TxDisconnects
  BY <1>10 DEF TxDisconnects, MessageEnds
<1> QED
  BY <1>5, <1>6, <1>7, <1>8, <1>9, <1>10, OwnSteps DEF TxTask

\* A message for the client that is served is for its connection.
LEMMA ServedIsOurs ==
    ASSUME LinkInv, AnswerInv, tx.pc # "idle", To \in Clients
    PROVE  Served(To) <=> connected /\ Ours
<1>1. Meant(To, tx.message.epoch)
  BY DEF AnswerInv
<1> QED BY <1>1 DEF Meant, Served, LinkInv, Matches, Ours

\* The next piece to be written is the one after those that are.
LEMMA PlaceStep ==
    ASSUME TypeInv, LinkInv, AnswerInv, QueueInv, OrderInv, Next
    PROVE  /\ tx'.pc \in Writing => Len(written'[To']) = Before' /\ tx'.offset < Pieces
           /\ tx'.pc = "wait" => tx'.offset < Pieces
           /\ tx'.pc # "idle" => tx'.message.number >= 1
<1>1. tx.pc # "idle" => To \in Clients
  BY Fields DEF TypeInv, AnswerInv, Meant
<1>2. CASE UNCHANGED <<tx, written>>
  BY <1>2 DEF OrderInv, Before, To, Writing
<1>3. CASE TakeMessage
  <2>1. tx'.pc = "loop" /\ tx'.message = Head(txQueue) /\ txQueue # <<>>
    BY <1>3 DEF TakeMessage
  <2>2. Head(txQueue) = txQueue[1] /\ 1 \in 1..Len(txQueue)
    BY <2>1, QueueParts DEF TypeInv, QueueTypes
  <2> QED BY <2>1, <2>2 DEF QueueInv, Writing
<1>4. CASE MessageEnds
  BY <1>4 DEF MessageEnds, TxEnds, Writing
<1>5. CASE PieceGoesOn
  <2>1. /\ To' = To /\ Before' = Before /\ tx'.offset = tx.offset /\ written' = written
        /\ tx'.message = tx.message /\ tx.pc # "idle" /\ tx'.pc # "wait"
    BY <1>5 DEF PieceGoesOn, SameMessage, To, Before, Writing
  <2>2. CASE tx.pc \in Writing
    BY <2>1, <2>2 DEF OrderInv, Writing
  <2>3. CASE tx.pc = "loop" /\ tx.offset < Pieces /\ connected /\ Ours
    <3>1. Served(To) /\ InWork(To)
      BY <1>1, <2>3, ServedIsOurs DEF InWork
    <3> QED BY <1>1, <2>1, <2>3, <3>1 DEF OrderInv, WorkOrder
  <2>4. CASE tx'.pc \notin Writing
    BY <2>1, <2>4 DEF OrderInv
  <2> QED BY <1>5, <2>2, <2>3, <2>4 DEF PieceGoesOn
<1>6. CASE PieceTaken
  <2>1. /\ tx'.pc = "wait" /\ tx.pc \in Writing /\ tx'.offset = tx.offset
        /\ tx'.message = tx.message
    BY <1>6 DEF PieceTaken, SameMessage, Writing
  <2>2. tx.offset < Pieces /\ tx.message.number >= 1
    BY <2>1 DEF OrderInv, Writing
  <2>3. tx'.pc \notin Writing
    BY <2>1 DEF Writing
  <2> QED BY <2>1, <2>2, <2>3
<1>7. CASE PieceDone
  <2>1. tx'.pc = "loop" /\ tx.pc # "idle" /\ tx'.message = tx.message
    BY <1>7 DEF PieceDone, SameMessage
  <2>2. tx'.pc \notin Writing /\ tx'.pc # "wait"
    BY <2>1 DEF Writing
  <2>3. tx.message.number >= 1
    BY <2>1 DEF OrderInv
  <2> QED BY <2>1, <2>2, <2>3
<1> QED BY <1>2, <1>3, <1>4, <1>5, <1>6, <1>7, TxMoves

\* The place of the next piece.
LEMMA NextPlace ==
    ASSUME NEW n \in Nat, NEW P \in Nat, NEW o \in Nat
    PROVE  (n - 1) * P + (o + 1) = (n - 1) * P + o + 1
OBVIOUS

\* What a served client is still to get is there after a step.
LEMMA ServedOrderStep ==
    ASSUME TypeInv, LinkInv, AnswerInv, FreshInv, QueueInv, OrderInv, Next,
           NEW h \in Clients, Served(h)'
    PROVE  IF InWork(h)' THEN WorkOrder(h)' ELSE RestOrder(h)'
<1>1. /\ accepted[h] \in Nat /\ accepted \in [Clients -> Nat]
      /\ written \in [Clients -> Seq((Clients \union {None}) \X Nat \X Nat)]
      /\ Pieces \in Nat \ {0} /\ h # None
      /\ tx.message.number \in Nat /\ tx.offset \in 0..Pieces /\ tx.offset \in Nat
      /\ Len(written[h]) \in Nat /\ accepted'[h] \in Nat
  <2>1. /\ accepted \in [Clients -> Nat] /\ accepted' \in [Clients -> Nat]
        /\ written \in [Clients -> Seq((Clients \union {None}) \X Nat \X Nat)]
    BY GhostTypesStep DEF TypeInv, GhostTypes
  <2>2. tx.message.number \in Nat /\ tx.offset \in 0..Pieces /\ Pieces \in Nat \ {0}
    BY Fields, LinkAssumption DEF TypeInv
  <2> QED BY <2>1, <2>2, Handles
\* Its messages follow from the first.
<1>2. CASE OpenConnected /\ handle = h /\ Expected(h)
  <2>1. Untouched(h) /\ UNCHANGED <<tx, written>>
    BY <1>2 DEF FreshInv, OpenConnected
  <2>2. Follow(h, 1)
    BY <2>1 DEF Untouched, Follow
  <2>3. ~ TakeMessage
    BY <2>1 DEF TakeMessage
  <2>4. Follow(h, 1)'
    BY <2>2, <2>3, FollowStays
  <2>5. Len(written'[h]) = 0 * Pieces /\ 0 \in 0..accepted'[h] /\ 0 + 1 = 1
    BY <1>1, <2>1 DEF Untouched
  <2>6. RestOrder(h)'
    BY <2>4, <2>5 DEF RestOrder
  <2>7. ~ InWork(h)'
    BY <2>1 DEF Untouched, InWork, To
  <2> QED BY <2>6, <2>7
<1>3. CASE Served(h)
  <2>1. IF InWork(h) THEN WorkOrder(h) ELSE RestOrder(h)
    BY <1>3 DEF OrderInv
  \* The TX task is not at a message of h, and does not take one.
  <2>2. ASSUME ~ InWork(h), TakeMessage => Head(txQueue).to # h, written'[h] = written[h]
        PROVE  RestOrder(h)'
    <3>1. PICK k \in 0..accepted[h] : Len(written[h]) = k * Pieces /\ Follow(h, k + 1)
      BY <2>1, <2>2 DEF RestOrder
    <3>2. k + 1 \in Nat
      BY <1>1
    <3>3. Follow(h, k + 1)' /\ accepted[h] <= accepted'[h]
      BY <2>2, <3>1, <3>2, FollowStays
    <3>4. k \in 0..accepted'[h]
      BY <1>1, <3>3
    <3> QED BY <2>2, <3>1, <3>3, <3>4 DEF RestOrder
  \* It stays at a message of h.
  <2>3. ASSUME InWork(h), ~ TakeMessage, tx'.message = tx.message
        PROVE  Follow(h, tx.message.number + 1)'
    <3> PICK n : n = tx.message.number + 1
      OBVIOUS
    <3>1. Follow(h, n) /\ n \in Nat
      BY <1>1, <2>1, <2>3 DEF WorkOrder
    <3>2. Follow(h, n)'
      BY <2>3, <3>1, FollowStays
    <3>3. n = tx'.message.number + 1
      BY <2>3
    <3> QED BY <3>2, <3>3 DEF Follow
  <2>4. CASE UNCHANGED <<tx, written>>
    <3>1. ~ TakeMessage /\ (InWork(h)' <=> InWork(h))
      BY <2>4 DEF TakeMessage, InWork, To
    <3>2. CASE InWork(h)
      <4>1. Before' = Before /\ WorkOrder(h) /\ Follow(h, tx.message.number + 1)'
        BY <2>1, <2>3, <2>4, <3>1, <3>2 DEF Before
      <4> QED BY <2>4, <3>1, <3>2, <4>1 DEF WorkOrder
    <3> QED BY <2>2, <2>4, <3>1, <3>2
  <2>5. CASE TakeMessage
    <3>1. tx.pc = "idle" /\ written' = written
      BY <2>5 DEF TakeMessage
    <3>2. ~ InWork(h)
      BY <3>1 DEF InWork
    <3>3. CASE Head(txQueue).to # h
      <4>1. ~ InWork(h)'
        BY <2>5, <3>3 DEF TakeMessage, InWork, To
      <4> QED BY <2>2, <3>1, <3>2, <3>3, <4>1
    <3>4. CASE Head(txQueue).to = h
      <4>1. PICK k \in 0..accepted[h] : Len(written[h]) = k * Pieces /\ Follow(h, k + 1)
        BY <2>1, <3>2 DEF RestOrder
      <4>2. k + 1 \in Nat /\ k \in Nat /\ (k + 1) - 1 = k /\ k * Pieces + 0 = k * Pieces
        BY <1>1
      <4>3. PICK n : n = k + 1
        OBVIOUS
      <4>4. /\ tx'.message.number = n /\ tx'.offset = 0 /\ tx'.pc = "loop" /\ To' = h
            /\ Follow(h, n + 1)'
        BY <2>5, <3>4, <4>1, <4>2, <4>3, FollowTaken
      <4>5. Len(written'[h]) = Before'
        BY <3>1, <4>1, <4>2, <4>3, <4>4 DEF Before
      <4>6. InWork(h)' /\ WorkOrder(h)'
        BY <4>4, <4>5 DEF InWork, WorkOrder
      <4> QED BY <4>6
    <3> QED BY <3>3, <3>4
  <2>6. CASE MessageEnds
    <3>1. /\ tx.pc # "idle" /\ tx'.pc = "idle" /\ written' = written
          /\ ~ connected' \/ ~ Ours \/ ~ connected \/ (tx.pc = "loop" /\ tx.offset >= Pieces)
      BY <2>6 DEF MessageEnds, TxEnds
    <3>2. ~ InWork(h)' /\ ~ TakeMessage
      BY <3>1 DEF InWork, TakeMessage
    <3>3. CASE InWork(h)
      <4>1. connected' /\ connected /\ Ours
        BY <1>3, <3>1, <3>3, ServedIsOurs DEF InWork, Served
      <4>2. Len(written[h]) = Before /\ tx.offset = Pieces /\ tx.pc = "loop"
        BY <1>1, <2>1, <3>1, <3>3, <4>1 DEF WorkOrder
      <4> PICK n : n = tx.message.number
        OBVIOUS
      <4>3. n \in Nat /\ n >= 1
        BY <1>1, <3>1 DEF OrderInv
      <4>4. Len(written[h]) = n * Pieces
        <5>1. (n - 1) * Pieces + Pieces = n * Pieces
          BY <1>1, <4>3
        <5> QED BY <4>2, <5>1 DEF Before
      <4>5. Follow(h, n + 1) /\ Follow(h, n + 1)' /\ accepted[h] <= accepted'[h]
        <5>1. Follow(h, n + 1) /\ n + 1 \in Nat
          BY <2>1, <3>3, <4>3 DEF WorkOrder
        <5> QED BY <3>2, <5>1, FollowStays
      <4>6. n \in 0..accepted'[h]
        BY <1>1, <4>3, <4>5 DEF Follow
      <4> QED BY <3>1, <3>2, <4>4, <4>5, <4>6 DEF RestOrder
    <3> QED BY <2>2, <3>1, <3>2, <3>3
  <2>7. CASE PieceGoesOn \/ PieceTaken \/ PieceDone
    <3>1. /\ tx.pc # "idle" /\ tx'.pc # "idle" /\ tx'.message = tx.message
          /\ ~ TakeMessage
      BY <2>7 DEF PieceGoesOn, PieceTaken, PieceDone, SameMessage, TakeMessage, Writing
    <3>2. InWork(h)' <=> InWork(h)
      BY <3>1 DEF InWork, To
    <3>3. CASE ~ InWork(h)
      <4>1. written'[h] = written[h]
        BY <1>1, <2>7, <3>1, <3>3 DEF PieceGoesOn, PieceTaken, PieceDone, InWork
      <4> QED BY <2>2, <3>1, <3>2, <3>3, <4>1
    <3>4. CASE InWork(h)
      <4>1. Follow(h, tx.message.number + 1)' /\ WorkOrder(h)
        BY <2>1, <2>3, <3>1, <3>4
      <4>2. CASE PieceGoesOn
        <5>1. tx'.pc # "loop" /\ tx'.pc # "wait"
          BY <4>2 DEF PieceGoesOn, Writing
        <5> QED BY <3>1, <3>2, <3>4, <4>1, <5>1 DEF WorkOrder
      <4>3. CASE PieceTaken
        <5>1. /\ tx.pc \in Writing /\ tx'.pc = "wait" /\ Before' = Before
              /\ written' = [written EXCEPT ![h] =
                               Append(@, <<tx.message.from, tx.message.number, tx.offset>>)]
          BY <3>4, <4>3 DEF PieceTaken, SameMessage, Writing, Before, InWork
        <5>2. Len(written[h]) = Before
          BY <3>4, <5>1 DEF OrderInv, InWork, Writing
        <5>3. Len(written'[h]) = Len(written[h]) + 1
          <6> PICK piece : piece = <<tx.message.from, tx.message.number, tx.offset>>
            OBVIOUS
          <6>1. written'[h] = Append(written[h], piece)
            BY <1>1, <5>1
          <6>2. piece \in (Clients \union {None}) \X Nat \X Nat
            <7>1. <<tx.message.from, tx.message.number, tx.offset>>
                     \in (Clients \union {None}) \X Nat \X Nat
              BY Fields, LinkAssumption DEF TypeInv
            <7> QED BY <7>1
          <6>3. written[h] \in Seq((Clients \union {None}) \X Nat \X Nat)
            BY <1>1
          <6> HIDE DEF None
          <6> QED BY <6>1, <6>2, <6>3
        <5> QED BY <3>2, <3>4, <4>1, <5>1, <5>2, <5>3 DEF WorkOrder
      <4>4. CASE PieceDone
        <5>1. /\ tx.pc = "wait" /\ tx'.pc = "loop" /\ tx'.offset = tx.offset + 1
              /\ tx'.message = tx.message /\ written' = written
          BY <4>4 DEF PieceDone, SameMessage
        <5>2. Before' = Before + 1
          <6>1. Before' = (tx.message.number - 1) * Pieces + (tx.offset + 1)
            BY <5>1 DEF Before
          <6> QED BY <1>1, <6>1, NextPlace DEF Before
        <5> QED BY <3>2, <3>4, <4>1, <5>1, <5>2 DEF WorkOrder
      <4> QED BY <2>7, <4>2, <4>3, <4>4
    <3> QED BY <3>3, <3>4
  <2> QED BY <2>4, <2>5, <2>6, <2>7, TxMoves
<1> QED BY <1>2, <1>3, ServedStep

\* What is written, the message in work and the queue make one sequence.
LEMMA OrderStep ==
    ASSUME TypeInv, LinkInv, AnswerInv, FreshInv, QueueInv, OrderInv, Next
    PROVE  OrderInv'
<1>1. ASSUME NEW h \in Clients
      PROVE  Served(h)' => IF InWork(h)' THEN WorkOrder(h)' ELSE RestOrder(h)'
  BY ServedOrderStep
<1> QED BY <1>1, PlaceStep DEF OrderInv, Writing

-----------------------------------------------------------------------------
(* What the clients read.                                                  *)

\* The piece with number o of message k + 1.
LEMMA PieceNumber ==
    ASSUME NEW P \in Nat \ {0}, NEW k \in Nat, NEW o \in Nat, o < P
    PROVE  (k * P + o) \div P = k /\ (k * P + o) % P = o
OBVIOUS

\* A piece that is written is for its client, and comes after the others.
LEMMA WrittenStep ==
    ASSUME TypeInv, AnswerInv, OrderInv, NoCrossTalk, WrittenInOrder, Next
    PROVE  NoCrossTalk' /\ WrittenInOrder'
<1>1. /\ written \in [Clients -> Seq((Clients \union {None}) \X Nat \X Nat)]
      /\ Pieces \in Nat \ {0} /\ tx.message.number \in Nat /\ tx.offset \in Nat
  BY Fields, LinkAssumption DEF TypeInv, GhostTypes
<1>2. CASE UNCHANGED written
  BY <1>2 DEF NoCrossTalk, WrittenInOrder
<1>3. CASE PieceTaken
  <2> PICK piece : piece = <<tx.message.from, tx.message.number, tx.offset>>
    OBVIOUS
  <2>1. /\ tx.pc = "write" /\ written' = [written EXCEPT ![To] = Append(@, piece)]
    BY <1>3 DEF PieceTaken
  <2>2. piece \in (Clients \union {None}) \X Nat \X Nat
    <3>1. <<tx.message.from, tx.message.number, tx.offset>>
             \in (Clients \union {None}) \X Nat \X Nat
      BY Fields, LinkAssumption DEF TypeInv
    <3> QED BY <3>1
  <2>3. /\ tx.message.from = To /\ To \in Clients
        /\ Len(written[To]) = Before /\ tx.offset < Pieces /\ tx.message.number >= 1
    BY <2>1, Fields DEF TypeInv, AnswerInv, Meant, OrderInv
  <2>4. piece[1] = To /\ piece[2] = tx.message.number /\ piece[3] = tx.offset
    BY <2>3
  <2>5. /\ Before \div Pieces = tx.message.number - 1 /\ Before % Pieces = tx.offset
    <3> PICK k : k = tx.message.number - 1
      OBVIOUS
    <3>1. k \in Nat /\ Before = k * Pieces + tx.offset
      BY <1>1, <2>3 DEF Before
    <3>2. (k * Pieces + tx.offset) \div Pieces = k /\ (k * Pieces + tx.offset) % Pieces = tx.offset
      BY <1>1, <2>3, <3>1, PieceNumber
    <3> QED BY <3>1, <3>2
  <2>6. ASSUME NEW h \in Clients, NEW i \in 1..Len(written'[h])
        PROVE  /\ written'[h][i][1] = h
               /\ written'[h][i][2] = ((i - 1) \div Pieces) + 1
               /\ written'[h][i][3] = (i - 1) % Pieces
    <3>1. written[To] \in Seq((Clients \union {None}) \X Nat \X Nat)
      BY <1>1, <2>3
    <3>2. written'[To] = Append(written[To], piece)
      BY <1>1, <2>1, <2>3
    <3>3. /\ Len(written'[To]) = Len(written[To]) + 1 /\ Len(written[To]) \in Nat
          /\ \A j \in 1..Len(written[To]) : written'[To][j] = written[To][j]
          /\ written'[To][Len(written[To]) + 1] = piece
      BY <2>2, <3>1, <3>2, OneMore
    <3>4. h # To => written'[h] = written[h]
      BY <1>1, <2>1, <2>3
    <3>5. CASE i \in 1..Len(written[h])
      <4>1. written'[h][i] = written[h][i]
        BY <3>3, <3>4, <3>5
      <4> QED BY <3>5, <4>1 DEF NoCrossTalk, WrittenInOrder
    <3>6. CASE h = To /\ i = Len(written[To]) + 1
      <4>1. i - 1 = Before /\ tx.message.number = (tx.message.number - 1) + 1
        BY <1>1, <2>3, <3>3, <3>6
      <4> QED BY <2>4, <2>5, <3>3, <3>6, <4>1
    <3> QED BY <2>6, <3>3, <3>4, <3>5, <3>6
  <2> QED BY <2>6 DEF NoCrossTalk, WrittenInOrder
<1>4. UNCHANGED written \/ PieceTaken
  BY TxMoves DEF TakeMessage, MessageEnds, PieceGoesOn, PieceDone
<1> QED BY <1>2, <1>3, <1>4

-----------------------------------------------------------------------------
(* Claims and causes.                                                      *)

\* The TX task does not change whom the link serves.
LEMMA TxLeavesLink ==
    ASSUME TypeInv, TxTask
    PROVE  /\ UNCHANGED <<handle, epoch, callback, command>>
           /\ flow'.handle = flow.handle /\ flow'.epoch = flow.epoch
           /\ connected' => connected
<1>1. flow \in FlowType
  BY DEF TypeInv, LinkTypes
<1>2. CASE BeginPending \/ BeginRechecks
  BY <1>1, <1>2 DEF BeginPending, BeginRechecks, FlowType
<1> QED
  BY <1>2
  DEF TxTask, TakeMessage, NextPiece, AwaitClear, BeginChecks, Write, AwaitCompletion,
      TxFails, TxDisconnects

\* A claim is new, or was there and its connection has not been replaced.
LEMMA ClaimKinds ==
    ASSUME TypeInv, Next, flow'.pending
    PROVE  \/ BeginPending
           \/ flow.pending /\ ~ OpenBegins /\ ~ CloseEnds /\ (BeginRechecks => Ours)
<1>1. flow \in FlowType
  BY DEF TypeInv, LinkTypes
<1>2. CASE OpenBegins
  BY <1>1, <1>2 DEF OpenBegins, ResetBegins, FlowType
<1>3. CASE CloseEnds
  BY <1>3 DEF CloseEnds
<1>4. CASE BeginRechecks
  <2>1. callback' = callback
    BY <1>4 DEF BeginRechecks
  <2>2. Ours /\ flow' = flow
    BY <1>1, <1>4 DEF BeginRechecks, FlowType
  <2>3. flow.pending /\ tx.pc = "recheck"
    BY <1>4, <2>2 DEF BeginRechecks
  <2>4. ~ OpenBegins /\ ~ CloseEnds
    BY <2>1 DEF OpenBegins, CloseEnds, Event
  <2> QED BY <2>2, <2>3, <2>4
<1>5. CASE Written \/ Decongested
  BY <1>1, <1>5, <1>2, <1>3, <1>4 DEF Written, Decongested, FlowType
<1>6. CASE OpenFlow
  BY <1>1, <1>6, <1>2, <1>3, <1>4 DEF OpenFlow, ResetEnds, FlowType
<1>7. CASE UNCHANGED flow
  BY <1>7, <1>2, <1>3, <1>4
<1> QED
  BY <1>2, <1>3, <1>4, <1>5, <1>6, <1>7
  DEF Next, Callback, CommandTask, TxTask, Environment, OpenRefused, OpenHandle,
      OpenConnected, CloseOfAnother, CloseBegins, DataQueued, DataRefused, DataOfAnother,
      TakeCommand, DispatchCommand, AnswerCommand, LoadHandle, QueueAnswer, CommandFails,
      CommandDisconnects, TakeMessage, NextPiece, AwaitClear, BeginChecks, Write,
      AwaitCompletion, TxFails, TxDisconnects, ClientOpens, ClientSends, Closes, Completes,
      Quiet

\* The client whose flow is being set is not the one the TX task writes to.
LEMMA NewIsNotOurs ==
    ASSUME TypeInv, LinkInv, FreshInv, Expected(To)
    PROVE  FALSE
<1>1. To \in Clients
  BY Fields DEF TypeInv, Expected, LinkInv
<1> QED BY <1>1 DEF FreshInv, Untouched

\* A claim on the link belongs to the TX task, or to a link that has failed.
LEMMA PendingStep ==
    ASSUME TypeInv, LinkInv, FreshInv, PendingInv, Next
    PROVE  PendingInv'
<1> SUFFICES ASSUME flow'.pending
             PROVE  \/ tx'.pc = "recheck"
                    \/ tx'.pc \in {"write", "wait", "fail", "disconnect"} /\ Ours'
                    \/ tx'.pc \in {"idle", "loop"} /\ ~ connected' /\ callback'.pc \in {"idle", "close"}
  BY DEF PendingInv
<1>1. tx \in TxType /\ callback \in CallbackType
  BY DEF TypeInv, TaskTypes
<1>2. \A label : [tx EXCEPT !.pc = label].pc = label /\ [tx EXCEPT !.pc = label].message = tx.message
  BY <1>1 DEF TxType
<1>3. CASE BeginPending
  BY <1>2, <1>3 DEF BeginPending, TxGoes
<1>4. CASE flow.pending /\ ~ OpenBegins /\ ~ CloseEnds /\ (BeginRechecks => Ours)
  <2>1. CASE TxTask
    <3>1. /\ callback' = callback /\ (connected' => connected)
          /\ flow'.handle = flow.handle /\ flow'.epoch = flow.epoch
      BY <2>1, TxLeavesLink
    <3>2. tx'.message = tx.message /\ Ours => Ours'
      BY <3>1 DEF Ours, Matches, To
    <3>3. CASE TakeMessage
      BY <1>4, <3>1, <3>3 DEF TakeMessage, PendingInv
    <3>4. CASE NextPiece
      BY <1>4, <3>1, <3>4 DEF NextPiece, PendingInv, TxEnds
    <3>5. CASE BeginRechecks
      BY <1>2, <1>4, <3>2, <3>5 DEF BeginRechecks, TxGoes
    <3>6. CASE Write \/ AwaitCompletion \/ TxFails
      <4>1. tx.pc \in {"write", "wait", "fail"} /\ Ours
        BY <1>4, <3>6 DEF Write, AwaitCompletion, TxFails, PendingInv
      <4>2. TxGoes("wait") \/ TxGoes("fail") \/ TxGoes("disconnect")
        BY <1>4, <3>6, <4>1 DEF Write, AwaitCompletion, TxFails
      <4>3. tx'.message = tx.message /\ tx'.pc \in {"wait", "fail", "disconnect"}
        BY <1>2, <4>2 DEF TxGoes
      <4> QED BY <3>2, <4>1, <4>3
    <3>7. CASE TxDisconnects
      <4>1. tx.pc = "disconnect" /\ tx'.pc = "idle" /\ ~ connected'
        BY <3>7 DEF TxDisconnects, TxEnds
      <4>2. flow.handle = To /\ To # None
        BY <1>4, <4>1 DEF PendingInv, Ours, Matches
      <4>3. callback.pc \in {"idle", "close"}
        <5>1. callback.pc \notin {"flow", "handle", "connected"}
          BY <4>2, NewIsNotOurs DEF LinkInv, Expected
        <5> QED BY <1>1, <5>1 DEF CallbackType
      <4> QED BY <3>1, <4>1, <4>3
    <3>8. ~ AwaitClear /\ ~ BeginChecks /\ (BeginPending => tx'.pc = "recheck")
      BY <1>2, <1>4 DEF AwaitClear, BeginChecks, BeginPending, PendingInv, TxGoes
    <3> QED BY <2>1, <3>3, <3>4, <3>5, <3>6, <3>7, <3>8 DEF TxTask
  <2>2. CASE UNCHANGED tx
    <3>1. CASE LinkStays
      BY <1>4, <2>2, <3>1 DEF LinkStays, PendingInv, Ours, Matches, To
    <3>2. CASE OpenFlow \/ OpenHandle \/ OpenConnected
      <4>1. callback.pc \in {"flow", "handle", "connected"}
        BY <3>2 DEF OpenFlow, OpenHandle, OpenConnected
      <4>2. ~ Ours
        BY <4>1, NewIsNotOurs DEF LinkInv, Expected, Ours, Matches
      <4>3. tx.pc = "recheck"
        BY <1>4, <4>1, <4>2 DEF PendingInv
      <4> QED BY <2>2, <4>3
    <3>3. CASE CloseBegins
      BY <1>4, <2>2, <3>3 DEF CloseBegins, PendingInv, Ours, Matches, To
    <3> QED BY <1>4, <3>1, <3>2, <3>3, LinkKinds
  <2> QED BY <2>1, <2>2, OwnSteps
<1> QED BY <1>3, <1>4, ClaimKinds

\* A client that the board is to disconnect has a cause, and keeps it.
LEMMA DisconnectCause ==
    ASSUME TypeInv, FailureHasCause, NEW g, Disconnect(g), g \in cause', cause \subseteq cause'
    PROVE  FailureHasCause'
BY DEF Disconnect, FailureHasCause, TypeInv, StackTypes

\* Who is disconnected has a cause, and causes are not taken back.
LEMMA FailureHasCauseStep ==
    ASSUME TypeInv, AnswerInv, CauseInv, Next
    PROVE  FailureHasCause' /\ cause \subseteq cause'
<1>1. CASE OpenRefused \/ OpenConnected \/ DataRefused \/ CommandDisconnects \/ TxDisconnects
  <2>1. cause \subseteq cause'
    BY <1>1
    DEF OpenRefused, OpenConnected, DataRefused, CallbackSends, CommandDisconnects,
        TxDisconnects
  <2>2. UNCHANGED peer \/ \E g : Disconnect(g) /\ g \in cause'
    BY <1>1
    DEF OpenRefused, OpenConnected, DataRefused, CallbackSends, CommandDisconnects,
        TxDisconnects, CauseInv
  <2> QED BY <2>1, <2>2, DisconnectCause DEF CauseInv, FailureHasCause
<1>2. CASE Environment
  <2>1. UNCHANGED cause /\ \A h \in Clients : peer'[h] = "closing" => peer[h] = "closing"
    BY <1>2
    DEF Environment, ClientOpens, ClientSends, Closes, Completes, Quiet, TypeInv, StackTypes
  <2> QED BY <2>1 DEF CauseInv, FailureHasCause
<1>3. CASE UNCHANGED peer /\ cause \subseteq cause'
  BY <1>3 DEF CauseInv, FailureHasCause
<1> QED
  BY <1>1, <1>2, <1>3
  DEF Next, Callback, CommandTask, TxTask, OpenBegins, OpenFlow, OpenHandle,
      CloseOfAnother, CloseBegins, CloseEnds, DataQueued, DataOfAnother, Written,
      Decongested, TakeCommand, DispatchCommand, AnswerCommand, LoadHandle, QueueAnswer,
      CommandFails, TakeMessage, NextPiece, AwaitClear, BeginChecks, BeginPending,
      BeginRechecks, Write, AwaitCompletion, TxFails

\* Who is about to end a link has a cause.
LEMMA CauseStep ==
    ASSUME TypeInv, LinkInv, AnswerInv, FreshInv, PendingInv, CauseInv, Next
    PROVE  CauseInv'
<1>1. FailureHasCause' /\ cause \subseteq cause'
  BY FailureHasCauseStep
<1>2. tx \in TxType /\ command \in CommandType
  BY DEF TypeInv, TaskTypes
<1>3. command'.pc \in {"fail", "disconnect"} => command'.handle \in cause'
  <2>1. \A label : [command EXCEPT !.pc = label].handle = command.handle
    BY <1>2 DEF CommandType
  <2>2. CASE QueueAnswer
    <3>1. \/ command' = [command EXCEPT !.pc = "fail"] /\ command.handle \in cause'
          \/ CommandEnds
      BY <2>2 DEF QueueAnswer, CommandGoes
    <3>2. CommandEnds => command'.pc = "idle"
      BY DEF CommandEnds
    <3> QED BY <2>1, <3>1, <3>2
  <2>3. CASE CommandFails
    <3>1. command.handle \in cause
      BY <2>3 DEF CommandFails, CauseInv
    <3>2. command' = [command EXCEPT !.pc = "disconnect"] \/ CommandEnds
      BY <2>3 DEF CommandFails, CommandGoes
    <3>3. CommandEnds => command'.pc = "idle"
      BY DEF CommandEnds
    <3> QED BY <1>1, <2>1, <3>1, <3>2, <3>3
  <2>4. CASE UNCHANGED command
    BY <1>1, <2>4 DEF CauseInv
  <2> QED BY <2>2, <2>3, <2>4, CommandKinds
<1>4. /\ tx'.pc = "fail" => To' \in cause' \/ ~ Ours'
      /\ tx'.pc = "disconnect" => To' \in cause'
  <2>1. \A label : /\ [tx EXCEPT !.pc = label].pc = label
                   /\ [tx EXCEPT !.pc = label].message = tx.message
    BY <1>2 DEF TxType
  <2>2. CASE TxTask
    <3>1. flow'.handle = flow.handle /\ flow'.epoch = flow.epoch
      BY <2>2, TxLeavesLink
    <3>2. tx'.message = tx.message => To' = To /\ (Ours' <=> Ours)
      BY <3>1 DEF Ours, Matches, To
    <3>3. CASE BeginChecks
      <4>1. Ours => flow.congested \/ flow.failed \/ ~ flow.pending
        BY <3>3 DEF BeginChecks, PendingInv
      <4>2. TxGoes("pending") \/ (TxGoes("fail") /\ (~ Ours \/ To \in cause'))
        BY <3>3, <4>1 DEF BeginChecks
      <4> QED BY <2>1, <3>2, <4>2 DEF TxGoes
    <3>4. CASE BeginRechecks
      <4>1. TxGoes("write") \/ (TxGoes("fail") /\ ~ Ours)
        BY <3>4 DEF BeginRechecks
      <4> QED BY <2>1, <3>2, <4>1 DEF TxGoes
    <3>5. CASE Write
      <4>1. TxGoes("wait") \/ (TxGoes("fail") /\ To \in cause')
        BY <3>5 DEF Write
      <4> QED BY <2>1, <3>2, <4>1 DEF TxGoes
    <3>6. CASE AwaitCompletion
      <4>1. \/ TxGoes("fail") /\ To \in cause'
            \/ tx' = [tx EXCEPT !.pc = "loop", !.offset = @ + 1]
        BY <3>6 DEF AwaitCompletion
      <4>2. [tx EXCEPT !.pc = "loop", !.offset = @ + 1].pc = "loop"
        BY <1>2 DEF TxType
      <4> QED BY <2>1, <3>2, <4>1, <4>2 DEF TxGoes
    <3>7. CASE TxFails
      <4>1. (TxGoes("disconnect") /\ To \in cause) \/ TxEnds
        BY <3>7 DEF TxFails, CauseInv
      <4>2. TxEnds => tx'.pc = "idle"
        BY DEF TxEnds
      <4>3. TxGoes("disconnect") => tx'.pc = "disconnect" /\ tx'.message = tx.message
        BY <2>1 DEF TxGoes
      <4> QED BY <1>1, <3>2, <4>1, <4>2, <4>3
    <3>8. CASE TakeMessage \/ NextPiece \/ AwaitClear \/ BeginPending \/ TxDisconnects
      <4>1. tx'.pc \notin {"fail", "disconnect"}
        <5>1. \/ \E label \in {"congested", "begin", "recheck"} : TxGoes(label)
              \/ TakeMessage \/ TxEnds
          BY <3>8 DEF NextPiece, AwaitClear, BeginPending, TxDisconnects
        <5>2. TakeMessage => tx'.pc = "loop"
          BY DEF TakeMessage
        <5>3. TxEnds => tx'.pc = "idle"
          BY DEF TxEnds
        <5> QED BY <2>1, <5>1, <5>2, <5>3 DEF TxGoes
      <4> QED BY <4>1
    <3> QED BY <2>2, <3>3, <3>4, <3>5, <3>6, <3>7, <3>8 DEF TxTask
  <2>3. CASE UNCHANGED tx
    <3>1. To' = To /\ tx'.pc = tx.pc
      BY <2>3 DEF To
    <3>2. tx.pc = "fail" /\ ~ Ours => ~ Ours'
      <4>1. CASE flow'.handle = flow.handle /\ flow'.epoch = flow.epoch
        BY <2>3, <4>1 DEF Ours, Matches, To
      <4>2. CASE OpenBegins \/ CloseEnds
        <5>1. flow'.handle = None
          <6>1. flow \in FlowType
            BY DEF TypeInv, LinkTypes
          <6>2. CASE OpenBegins
            BY <6>1, <6>2 DEF OpenBegins, ResetBegins, FlowType
          <6>3. CASE CloseEnds
            BY <6>3 DEF CloseEnds
          <6> QED BY <4>2, <6>2, <6>3
        <5> QED BY <5>1 DEF Ours, Matches
      <4>3. CASE OpenFlow
        <5>1. flow'.handle = callback.client /\ callback.pc = "flow"
          <6>1. flow \in FlowType
            BY DEF TypeInv, LinkTypes
          <6> QED BY <4>3, <6>1 DEF OpenFlow, ResetEnds, FlowType
        <5>2. callback.client # To
          BY <5>1, NewIsNotOurs DEF Expected
        <5> QED BY <3>1, <5>1, <5>2 DEF Ours, Matches
      <4> QED
        BY <4>1, <4>2, <4>3, LinkKinds DEF LinkStays, OpenHandle, OpenConnected, CloseBegins
    <3> QED BY <1>1, <3>1, <3>2 DEF CauseInv
  <2> QED BY <2>2, <2>3, OwnSteps
<1> QED BY <1>1, <1>3, <1>4 DEF CauseInv

-----------------------------------------------------------------------------
(* The invariant.                                                          *)

\* The invariant holds before anybody has connected.
LEMMA LinkInit == Init => LinkInvariant
<1> SUFFICES ASSUME Init
             PROVE  LinkInvariant
  OBVIOUS
<1>1. TypeInv
  <2>1. LinkTypes
    BY DEF Init, LinkTypes, FlowType
  <2>2. QueueTypes
    BY LinkAssumption DEF Init, QueueTypes
  <2>3. TaskTypes
    <3>1. NoLine \in LineType /\ NoMessage \in MessageType
      BY DEF NoLine, LineType, NoMessage, MessageType
    <3> QED
      BY <3>1, LinkAssumption DEF Init, TaskTypes, CallbackType, CommandType, TxType
  <2>4. StackTypes
    BY LinkAssumption DEF Init, StackTypes
  <2>5. GhostTypes
    BY DEF Init, GhostTypes
  <2> QED BY <2>1, <2>2, <2>3, <2>4, <2>5 DEF TypeInv
<1>2. /\ connected = FALSE /\ handle = None /\ epoch = 0
      /\ callback.pc = "idle" /\ callback.client = None
      /\ flow.pending = FALSE
      /\ commandQueue = <<>> /\ txQueue = <<>> /\ events = <<>>
      /\ command.pc = "idle" /\ command.line = NoLine /\ command.handle = None
      /\ tx.pc = "idle" /\ To = None
      /\ \A h \in Clients : /\ h # None /\ peer[h] = "new" /\ accepted[h] = 0
                            /\ written[h] = <<>>
  BY Handles DEF Init, To, NoMessage
<1>3. Len(commandQueue) = 0 /\ Len(txQueue) = 0 /\ Len(events) = 0
  BY <1>2
<1>4. LinkInv
  BY <1>2 DEF LinkInv
<1>5. LineInv
  BY <1>2, <1>3 DEF LineInv, Timely, NoLine
<1>6. AnswerInv
  BY <1>2, <1>3 DEF AnswerInv
<1>7. FreshInv
  BY <1>2, <1>3 DEF FreshInv, Announced, Expected, Opens, Untouched
<1>8. QueueInv
  BY <1>3 DEF QueueInv
<1>9. OrderInv
  BY <1>2 DEF OrderInv, Served
<1>10. NoCrossTalk /\ WrittenInOrder
  BY <1>2 DEF NoCrossTalk, WrittenInOrder
<1>11. PendingInv
  BY <1>2 DEF PendingInv
<1>12. CauseInv
  BY <1>2 DEF CauseInv, FailureHasCause
<1> QED
  BY <1>1, <1>4, <1>5, <1>6, <1>7, <1>8, <1>9, <1>10, <1>11, <1>12 DEF LinkInvariant

\* The invariant depends on the variables alone.
LEMMA LinkStutter ==
    ASSUME LinkInvariant, UNCHANGED vars
    PROVE  LinkInvariant'
<1>1. TypeInv' /\ LinkInv' /\ LineInv'
  BY DEF LinkInvariant, vars, TypeInv, LinkTypes, QueueTypes, TaskTypes, StackTypes,
         GhostTypes, LinkInv, LineInv, Timely
<1>2. AnswerInv' /\ FreshInv'
  BY DEF LinkInvariant, vars, AnswerInv, Meant, Served, To, FreshInv, Announced, Opens,
         Expected, Untouched
<1>3. QueueInv' /\ OrderInv'
  BY DEF LinkInvariant, vars, QueueInv, OrderInv, Served, InWork, WorkOrder, RestOrder,
         Follow, Before, To
<1>4. NoCrossTalk' /\ WrittenInOrder' /\ PendingInv' /\ CauseInv'
  BY DEF LinkInvariant, vars, NoCrossTalk, WrittenInOrder, PendingInv, CauseInv,
         FailureHasCause, Ours, Matches, To
<1> QED BY <1>1, <1>2, <1>3, <1>4 DEF LinkInvariant

\* Every step keeps the invariant.
LEMMA LinkInvariantStep ==
    ASSUME LinkInvariant, Next
    PROVE  LinkInvariant'
<1>1. /\ TypeInv /\ LinkInv /\ LineInv /\ AnswerInv /\ FreshInv /\ QueueInv /\ OrderInv
      /\ NoCrossTalk /\ WrittenInOrder /\ PendingInv /\ CauseInv
  BY DEF LinkInvariant
<1>2. TypeInv' /\ LinkInv'
  BY <1>1, TypesStep, LinkStep
<1>3. LineInv' /\ AnswerInv' /\ FreshInv'
  BY <1>1, <1>2, LineStep, AnswerStep, FreshStep
<1>4. QueueInv' /\ OrderInv'
  BY <1>1, QueueStep, OrderStep
<1>5. NoCrossTalk' /\ WrittenInOrder'
  BY <1>1, WrittenStep
<1>6. PendingInv' /\ CauseInv'
  BY <1>1, PendingStep, CauseStep
<1> QED BY <1>2, <1>3, <1>4, <1>5, <1>6 DEF LinkInvariant

\* Everything above holds of every state of the link.
THEOREM LinkIsSound == Spec => []LinkInvariant
<1>1. LinkInvariant /\ [Next]_vars => LinkInvariant'
  BY LinkInvariantStep, LinkStutter
<1> QED BY <1>1, LinkInit, PTL DEF Spec

\* What is queued under one connection is never used under another, neither a
\* command of a former client nor an answer meant for it, and every client's
\* answers come whole and in order: sendBluetoothText, bluetoothCommandTask and
\* bluetoothTxTask with the epochs of the connections.
THEOREM ClientsAreApart == Spec => []ClientsApart
<1>1. LinkInvariant => ClientsApart
  <2> SUFFICES ASSUME LinkInvariant
               PROVE  ClientsApart
    OBVIOUS
  <2>1. TypeOK
    <3>1. LinkTypes /\ QueueTypes /\ TaskTypes /\ StackTypes
      BY DEF LinkInvariant, TypeInv
    <3>2. /\ callback.client \in Clients \union {None} /\ command.line \in LineType
          /\ command.handle \in Clients \union {None}
          /\ tx.message \in MessageType /\ tx.offset \in 0..Pieces
      BY <3>1, Fields
    <3> QED BY <3>1, <3>2 DEF TypeOK, LinkTypes, QueueTypes, StackTypes
  <2>2. CommandsAreTheClients
    <3>1. LineInv
      BY DEF LinkInvariant
    <3> SUFFICES ASSUME NEW line \in {commandQueue[i] : i \in 1..Len(commandQueue)} \union {command.line},
                        Current(line.epoch)
                 PROVE  line.from = handle
      BY DEF CommandsAreTheClients
    <3>2. Timely(line)
      BY <3>1 DEF LineInv
    <3> QED BY <3>2 DEF Timely, Current
  <2> QED BY <2>1, <2>2 DEF ClientsApart, LinkInvariant
<1> QED BY <1>1, LinkIsSound, PTL

\* The board ends a link only because something went wrong with that link, and
\* not for what a former client has left behind: failBluetoothLink and
\* BluetoothTx::Flow.
THEOREM FailuresHaveCauses == Spec => []FailureHasCause
<1>1. LinkInvariant => FailureHasCause
  BY DEF LinkInvariant, CauseInv
<1> QED BY <1>1, LinkIsSound, PTL
=============================================================================
