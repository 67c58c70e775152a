----------------------------- MODULE DesktopProofs -----------------------------
(***************************************************************************)
(* Proofs about the two halves of the desktop, which share no state.       *)
(*                                                                         *)
(* TransferMonitor: what a PC says of its transmissions is true, and the   *)
(* board's report never goes back, for every number of files, requests,    *)
(* other operators, STOPs and broken connections.                          *)
(*                                                                         *)
(* StorageListing: what the PC shows of the storage, and the board's       *)
(* selection, are true, for every number of files, page size, operation,   *)
(* timeout and change made by others.                                      *)
(***************************************************************************)
EXTENDS TransferMonitor, StorageListing, FiniteSetTheorems, SequenceTheorems, TLAPS

-----------------------------------------------------------------------------
(* Transmissions: the inductive invariant.                                 *)

Kinds == {"STATUS", "STOP", "TXHEX"}
Asked == {[name |-> "STATUS"], [name |-> "STOP"]}
         \cup [name : {"TXHEX"}, file : Files, number : Requests]
Results == {[name |-> n] : n \in {"OkTxHex", "ErrTxHex", "OkStop"}}
Statuses == [name : {"status"}, tx : Reports, state : {"Standby", "TxBusy", "Unavailable"},
             looping : BOOLEAN]
Lines == Results \cup Statuses
Holders == [name : {"none"}, mine : {FALSE}] \cup [name : {"STOP"}, mine : BOOLEAN]
           \cup [name : {"STATUS"}, mine : BOOLEAN, copy : Reports, free : BOOLEAN,
                 looping : BOOLEAN]
Verdicts == [outcome : {"none"} \cup Final, id : Nat, file : Files \cup {"none"},
             baseline : Nat]
Asking == [number : Requests, file : Files, baseline : Nat, id : Nat, heard : BOOLEAN]

Events == [requests : 0..MaxRequests, others : 0..MaxOthers, stops : 0..MaxStops,
           disconnects : 0..MaxDisconnects]

BoardTypes ==
    /\ report \in Reports /\ sent \subseteq Reports
    /\ loop \in [file : Files \cup {"none"}, left : 0..2, by : {0} \cup Requests]
    /\ stop \in BOOLEAN
    /\ worker \in {"idle", "taken", "sending", "done", "failed"}
    /\ radio \in {"none", "status", "worker"}
    /\ command \in Holders /\ ids \in Nat

LinkTypes == toBoard \in Seq(Asked) /\ toPc \in Seq(Lines)

PcTypes ==
    /\ request \in {NoRequest} \cup Asking
    /\ lastTxId \in Nat
    /\ pending \subseteq Kinds
    /\ shown \in {"Unknown", "Standby", "TxBusy"}
    /\ busy \in BOOLEAN
    /\ verdict \in [Requests -> Verdicts]

Types == BoardTypes /\ LinkTypes /\ PcTypes /\ spent \in Events

\* The command an answer belongs to.
Kind(line) == CASE line.name = "status" -> "STATUS"
                [] line.name = "OkStop" -> "STOP"
                [] OTHER -> "TXHEX"

\* What is awaited is on its way, once: as a command, at the board, or as an
\* answer.
OneOfEach ==
    /\ \A i \in 1..Len(toBoard) : /\ toBoard[i].name \in pending
                                  /\ command.mine => command.name # toBoard[i].name
    /\ \A i, j \in 1..Len(toBoard) : toBoard[j].name = toBoard[i].name => j = i
    /\ \A i \in 1..Len(toBoard), j \in 1..Len(toPc) : Kind(toPc[j]) # toBoard[i].name
    /\ \A i \in 1..Len(toPc) : /\ Kind(toPc[i]) \in pending
                               /\ command.mine => command.name # Kind(toPc[i])
    /\ \A i, j \in 1..Len(toPc) : Kind(toPc[j]) = Kind(toPc[i]) => j = i
    /\ command.mine => command.name \in pending

Counted ==
    Len(toBoard) + Len(toPc) + (IF command.mine THEN 1 ELSE 0) = Cardinality(pending)

\* The radio is held by the worker within a pass, and by a STATUS that has the
\* report in hand; nobody else writes the report then.
OneWriter ==
    /\ loop # NoLoop => loop.left > 0
    /\ worker # "idle" => loop # NoLoop
    /\ worker \in {"taken", "sending"} => radio = "worker"
    /\ worker = "idle" => radio # "worker"
    /\ radio = "status" <=> command.name = "STATUS" /\ command.free
    /\ radio = "status" => command.copy = report
    /\ worker = "taken" => report.state = "Preparing"
    /\ worker = "sending" => report.state = "Sending"

\* A copy of the report is of this transmission or of one before, and is true.
Backed(r, confirmed) ==
    r.state = "Completed" =>
        \E s \in confirmed : s.id = r.id /\ s.file = r.file /\ s.by = r.by
Past(r, now, confirmed) ==
    /\ r.id <= now.id
    /\ r.id = now.id => r.file = now.file /\ r.by = now.by
    /\ Backed(r, confirmed)
    /\ r.id = 0 => r.state = "Idle"

Copies ==
    /\ report.id = ids /\ Past(report, report, sent)
    /\ command.name = "STATUS" =>
          /\ Past(command.copy, report, sent)
          /\ command.mine => lastTxId <= command.copy.id
    /\ \A i \in 1..Len(toPc) : toPc[i].name = "status" =>
          Past(toPc[i].tx, report, sent) /\ lastTxId <= toPc[i].tx.id
    /\ lastTxId <= report.id

\* What the PC asks about is newer than what it had been shown.
News ==
    /\ request # NoRequest => request.baseline <= lastTxId
    /\ request # NoRequest /\ request.id # 0 => request.id > request.baseline

Alone == spent.others = 0

\* Nobody else transmits: every loop is one pass, with the report of its command.
OwnLoop ==
    Alone /\ loop # NoLoop =>
        /\ loop.left = 1 /\ loop.file = report.file /\ loop.by = report.by
        /\ worker = "idle" => report.state = "Preparing"

Accepted == \E i \in 1..Len(toPc) : toPc[i].name = "OkTxHex"
AcceptedBehind(i) == \E j \in i + 1..Len(toPc) : toPc[j].name = "OkTxHex"

\* Every status on its way is of the present transmission, or the answer that
\* tells of it is behind.
Current ==
    Alone =>
        /\ command.name = "STATUS" => command.copy.id = report.id
        /\ \A i \in 1..Len(toPc) : toPc[i].name = "status" =>
              IF AcceptedBehind(i) THEN toPc[i].tx.id = request.baseline
                                   ELSE toPc[i].tx.id = report.id

\* What the PC shows is the present transmission, or it will be told.
UpToDate ==
    Alone /\ shown # "Unknown" =>
        \/ lastTxId = report.id
        \/ Accepted
        \/ request # NoRequest /\ ~request.heard /\ "TXHEX" \notin pending

\* The transmission is the one before the request or the request's own.
OwnRequest ==
    Alone =>
        /\ request # NoRequest =>
              report.id = request.baseline \/ report.by = request.number
        /\ "TXHEX" \in pending =>
              /\ request # NoRequest /\ ~request.heard /\ request.id = 0
              /\ report.id = request.baseline \/ Accepted
        /\ \A i \in 1..Len(toBoard) : toBoard[i].name = "TXHEX" =>
              toBoard[i].number = request.number

Verdict ==
    \A n \in Requests : Told(n) =>
        /\ verdict[n].id > verdict[n].baseline
        /\ \E s \in sent : /\ s.id = verdict[n].id /\ s.file = verdict[n].file
                           /\ Alone => s.by = n

MonitorInv ==
    /\ Types /\ OneOfEach /\ Counted /\ OneWriter /\ Copies /\ News
    /\ OwnLoop /\ Current /\ UpToDate /\ OwnRequest /\ Verdict

-----------------------------------------------------------------------------
(* Facts about the types.                                                  *)

\* The elements of a sequence that is longer by one, or shorter by its head.
LEMMA AppendOf ==
    ASSUME NEW S, NEW s \in Seq(S), NEW x \in S
    PROVE  /\ Append(s, x) \in Seq(S) /\ Len(Append(s, x)) = Len(s) + 1
           /\ \A i \in 1..Len(s) : Append(s, x)[i] = s[i]
           /\ Append(s, x)[Len(s) + 1] = x
  OBVIOUS

LEMMA TailOf ==
    ASSUME NEW S, NEW s \in Seq(S), s # <<>>
    PROVE  /\ Tail(s) \in Seq(S) /\ Len(Tail(s)) = Len(s) - 1 /\ Len(s) \in Nat \ {0}
           /\ \A i \in 1..Len(s) - 1 : Tail(s)[i] = s[i + 1]
           /\ Head(s) = s[1] /\ Head(s) \in S
  OBVIOUS

LEMMA AskedNames ==
    ASSUME NEW c \in Asked
    PROVE  /\ c.name \in Kinds
           /\ c.name = "TXHEX" => c.file \in Files /\ c.number \in Requests
  BY DEF Asked, Kinds

LEMMA LineNames ==
    ASSUME NEW l \in Lines
    PROVE  /\ l.name \in {"OkTxHex", "ErrTxHex", "OkStop", "status"}
           /\ Kind(l) \in Kinds
           /\ l.name = "status" => l \in Statuses /\ l.tx \in Reports /\ Kind(l) = "STATUS"
           /\ Kind(l) = "STATUS" => l.name = "status"
           /\ Kind(l) = "TXHEX" => l.name \in {"OkTxHex", "ErrTxHex"}
           /\ l.name \in {"OkTxHex", "ErrTxHex"} => Kind(l) = "TXHEX"
           /\ l.name = "OkStop" => Kind(l) = "STOP"
  BY DEF Lines, Results, Statuses, Kinds, Kind

\* A command that is at the board keeps its fields when its connection breaks.
LEMMA HolderFields ==
    ASSUME NEW h \in Holders
    PROVE  /\ h.name \in {"none", "STOP", "STATUS"}
           /\ h.mine \in BOOLEAN
           /\ h.name = "none" => h.mine = FALSE
           /\ h.name = "STATUS" =>
                 h.copy \in Reports /\ h.free \in BOOLEAN /\ h.looping \in BOOLEAN
  <1>1. CASE h \in [name : {"none"}, mine : {FALSE}]
    BY <1>1
  <1>2. CASE h \in [name : {"STOP"}, mine : BOOLEAN]
    BY <1>2
  <1>3. CASE h \in [name : {"STATUS"}, mine : BOOLEAN, copy : Reports, free : BOOLEAN,
                    looping : BOOLEAN]
    BY <1>3
  <1> QED BY <1>1, <1>2, <1>3 DEF Holders

LEMMA NoHolder == NoCommand.name = "none" /\ NoCommand.mine = FALSE /\ NoCommand \in Holders
  BY DEF NoCommand, Holders

LEMMA OrphanFields ==
    ASSUME NEW h \in Holders
    PROVE  /\ [h EXCEPT !.mine = FALSE] \in Holders
           /\ [h EXCEPT !.mine = FALSE].mine = FALSE
           /\ [h EXCEPT !.mine = FALSE].name = h.name
           /\ h.name = "STATUS" => /\ [h EXCEPT !.mine = FALSE].copy = h.copy
                                   /\ [h EXCEPT !.mine = FALSE].free = h.free
  <1>1. CASE h \in [name : {"none"}, mine : {FALSE}]
    <2>1. [h EXCEPT !.mine = FALSE] \in [name : {"none"}, mine : {FALSE}]
      BY <1>1
    <2> QED BY <1>1, <2>1 DEF Holders
  <1>2. CASE h \in [name : {"STOP"}, mine : BOOLEAN]
    <2>1. [h EXCEPT !.mine = FALSE] \in [name : {"STOP"}, mine : BOOLEAN]
      BY <1>2
    <2> QED BY <1>2, <2>1 DEF Holders
  <1>3. CASE h \in [name : {"STATUS"}, mine : BOOLEAN, copy : Reports, free : BOOLEAN,
                    looping : BOOLEAN]
    <2>1. [h EXCEPT !.mine = FALSE] \in [name : {"STATUS"}, mine : BOOLEAN, copy : Reports,
                                         free : BOOLEAN, looping : BOOLEAN]
      BY <1>3
    <2> QED BY <1>3, <2>1 DEF Holders
  <1> QED BY <1>1, <1>2, <1>3 DEF Holders

LEMMA RequestFields ==
    ASSUME NEW r \in {NoRequest} \cup Asking
    PROVE  /\ r # NoRequest => r \in Asking /\ r.number \in Requests /\ r.file \in Files
           /\ r.number \in {0} \cup Requests /\ r.baseline \in Nat /\ r.id \in Nat
           /\ r.heard \in BOOLEAN
           /\ r.file \in Files \cup {"none"}
  <1>1. CASE r = NoRequest
    BY <1>1 DEF NoRequest
  <1>2. CASE r \in Asking
    BY <1>2 DEF Asking
  <1> QED BY <1>1, <1>2

LEMMA NoRequestFields ==
    NoRequest.number = 0 /\ NoRequest.id = 0 /\ NoRequest.heard = FALSE
  BY DEF NoRequest

LEMMA ReportFields ==
    ASSUME NEW r \in Reports
    PROVE  /\ r.id \in Nat /\ r.state \in {"Idle"} \cup Running \cup Final
           /\ r.file \in Files \cup {"none"} /\ r.by \in {0} \cup Requests
  BY DEF Reports

-----------------------------------------------------------------------------
(* The types.                                                              *)

LEMMA TypesInit ==
    ASSUME MonitorAssumption, MonitorInit
    PROVE  Types
  <1> USE DEF MonitorInit, MonitorAssumption
  <1>1. report \in Reports /\ sent \subseteq Reports
    BY DEF NoReport, Reports
  <1>2. loop \in [file : Files \cup {"none"}, left : 0..2, by : {0} \cup Requests]
    BY DEF NoLoop
  <1>3. command \in Holders
    BY NoHolder
  <1>4. verdict \in [Requests -> Verdicts]
    BY DEF NoVerdict, Verdicts
  <1>5. spent \in Events
    BY DEF Events
  <1>6. toBoard \in Seq(Asked) /\ toPc \in Seq(Lines)
    OBVIOUS
  <1> QED BY <1>1, <1>2, <1>3, <1>4, <1>5, <1>6 DEF Types, BoardTypes, LinkTypes, PcTypes

\* An event of the environment is counted.
LEMMA Spending ==
    ASSUME MonitorAssumption, Types
    PROVE  /\ Spend("requests", MaxRequests) =>
                 /\ spent' \in Events /\ spent'.others = spent.others
                 /\ spent.requests + 1 \in Requests
           /\ Spend("others", MaxOthers) =>
                 spent' \in Events /\ spent'.others = spent.others + 1
           /\ Spend("stops", MaxStops) =>
                 spent' \in Events /\ spent'.others = spent.others
           /\ Spend("disconnects", MaxDisconnects) =>
                 spent' \in Events /\ spent'.others = spent.others
           /\ spent.others \in Nat
  <1>1. /\ spent \in Events
        /\ MaxRequests \in Nat /\ MaxOthers \in Nat /\ MaxStops \in Nat
        /\ MaxDisconnects \in Nat
    BY DEF Types, BoardTypes, LinkTypes, PcTypes, MonitorAssumption, Events
  <1>2. ASSUME Spend("requests", MaxRequests)
        PROVE  /\ spent' \in Events /\ spent'.others = spent.others
               /\ spent.requests + 1 \in Requests
    <2>1. spent' = [spent EXCEPT !.requests = spent.requests + 1]
          /\ spent.requests < MaxRequests
      BY <1>2 DEF Spend
    <2> QED BY <1>1, <2>1 DEF Events, Requests
  <1>3. ASSUME Spend("others", MaxOthers)
        PROVE  spent' \in Events /\ spent'.others = spent.others + 1
    <2>1. spent' = [spent EXCEPT !.others = spent.others + 1] /\ spent.others < MaxOthers
      BY <1>3 DEF Spend
    <2> QED BY <1>1, <2>1 DEF Events
  <1>4. ASSUME Spend("stops", MaxStops)
        PROVE  spent' \in Events /\ spent'.others = spent.others
    <2>1. spent' = [spent EXCEPT !.stops = spent.stops + 1] /\ spent.stops < MaxStops
      BY <1>4 DEF Spend
    <2> QED BY <1>1, <2>1 DEF Events
  <1>5. ASSUME Spend("disconnects", MaxDisconnects)
        PROVE  spent' \in Events /\ spent'.others = spent.others
    <2>1. /\ spent' = [spent EXCEPT !.disconnects = spent.disconnects + 1]
          /\ spent.disconnects < MaxDisconnects
      BY <1>5 DEF Spend
    <2> QED BY <1>1, <2>1 DEF Events
  <1>6. spent.others \in Nat
    BY <1>1 DEF Events
  <1> QED BY <1>2, <1>3, <1>4, <1>5, <1>6

\* A new report.
LEMMA PreparedType ==
    ASSUME Types, NEW file \in Files \cup {"none"}, NEW by \in {0} \cup Requests
    PROVE  /\ Prepared(file, by) \in Reports
           /\ Prepared(file, by).id = ids + 1 /\ Prepared(file, by).state = "Preparing"
           /\ Prepared(file, by).file = file /\ Prepared(file, by).by = by
  BY DEF Types, BoardTypes, LinkTypes, PcTypes, Prepared, Reports, Running

\* What the PC has said of a request.
LEMMA ConcludeType ==
    ASSUME Types, NEW outcome \in Final, NEW id \in Nat, request # NoRequest,
           Conclude(outcome, id)
    PROVE  /\ verdict' \in [Requests -> Verdicts]
           /\ request' = NoRequest
           /\ busy' \in BOOLEAN
           /\ verdict'[request.number] = [outcome |-> outcome, id |-> id,
                    file |-> request.file, baseline |-> request.baseline]
           /\ \A n \in Requests : n # request.number => verdict'[n] = verdict[n]
  <1>1. request.number \in Requests /\ request.file \in Files /\ request.baseline \in Nat
    BY RequestFields DEF Types, BoardTypes, LinkTypes, PcTypes
  <1>2. [outcome |-> outcome, id |-> id, file |-> request.file,
         baseline |-> request.baseline] \in Verdicts
    BY <1>1 DEF Verdicts
  <1>3. verdict \in [Requests -> Verdicts]
    BY DEF Types, BoardTypes, LinkTypes, PcTypes
  <1>4. busy' \in BOOLEAN
    BY DEF Conclude
  <1> QED BY <1>1, <1>2, <1>3, <1>4 DEF Conclude

\* Every line the board answers with is one the PC knows.
LEMMA ResultLines ==
    /\ [name |-> "OkTxHex"] \in Lines /\ Kind([name |-> "OkTxHex"]) = "TXHEX"
    /\ [name |-> "ErrTxHex"] \in Lines /\ Kind([name |-> "ErrTxHex"]) = "TXHEX"
    /\ [name |-> "OkStop"] \in Lines /\ Kind([name |-> "OkStop"]) = "STOP"
  BY DEF Lines, Results, Kind

LEMMA StatusLine ==
    ASSUME Types, command.name = "STATUS"
    PROVE  LET line == [name |-> "status", tx |-> command.copy, state |-> Shown,
                        looping |-> command.looping]
           IN  line \in Lines /\ Kind(line) = "STATUS" /\ line.tx = command.copy
               /\ line.name = "status"
  <1>1. command.copy \in Reports /\ command.looping \in BOOLEAN
    BY HolderFields DEF Types, BoardTypes, LinkTypes, PcTypes
  <1>2. Shown \in {"Standby", "TxBusy", "Unavailable"}
    BY DEF Shown
  <1> QED BY <1>1, <1>2 DEF Lines, Statuses, Kind

LEMMA QueueTypes ==
    ASSUME Types, NEW file \in Files, NEW left \in 1..2, NEW by \in {0} \cup Requests,
           Queue(file, left, by)
    PROVE  BoardTypes'
  <1>1. loop' = [file |-> file, left |-> left, by |-> by] /\ report' = Prepared(file, by)
        /\ ids' = ids + 1 /\ stop' = FALSE /\ UNCHANGED <<worker, radio, command, sent>>
    BY DEF Queue
  <1>2. report' \in Reports
    BY <1>1, PreparedType
  <1>3. loop' \in [file : Files \cup {"none"}, left : 0..2, by : {0} \cup Requests]
    BY <1>1
  <1>4. stop' \in BOOLEAN
    BY <1>1
  <1>5. ids' \in Nat
    <2>1. ids \in Nat /\ ids' = ids + 1
      BY <1>1 DEF Types, BoardTypes
    <2> QED BY <2>1
  <1> QED BY <1>1, <1>2, <1>3, <1>4, <1>5 DEF Types, BoardTypes

LEMMA BoardTypesNext ==
    ASSUME Types, OneWriter, MonitorNext
    PROVE  BoardTypes'
  <1> USE DEF Types
  <1>1. CASE AcceptTx
    <2>1. toBoard \in Seq(Asked) /\ toBoard # <<>> /\ Head(toBoard).name = "TXHEX"
      BY <1>1 DEF AcceptTx, Dispatch, LinkTypes
    <2>2. Head(toBoard).file \in Files /\ Head(toBoard).number \in {0} \cup Requests
      BY <2>1, TailOf, AskedNames
    <2>3. \E f \in Files, n \in 1..2, b \in {0} \cup Requests : Queue(f, n, b)
      <3>1. Queue(Head(toBoard).file, 1, Head(toBoard).number)
        BY <1>1 DEF AcceptTx
      <3>2. 1 \in 1..2
        OBVIOUS
      <3> QED BY <2>2, <3>1, <3>2, Zenon
    <2> QED BY <2>3, QueueTypes
  <1>2. CASE OtherTx
    <2>1. PICK f \in Files, n \in 1..2 : Queue(f, n, 0)
      BY <1>2 DEF OtherTx
    <2> QED BY <2>1, QueueTypes
  <1>3. CASE BeginStatus
    <2>1. /\ radio' = CopyLock
          /\ command' = [name |-> "STATUS", mine |-> TRUE, copy |-> report,
                         free |-> radio = "none", looping |-> loop # NoLoop]
          /\ UNCHANGED <<report, loop, stop, worker, ids, sent>>
      BY <1>3 DEF BeginStatus
    <2>2. command' \in Holders
      BY <2>1 DEF BoardTypes, Holders
    <2>3. radio' \in {"none", "status", "worker"}
      BY <2>1 DEF BoardTypes, CopyLock
    <2> QED BY <2>1, <2>2, <2>3 DEF BoardTypes
  <1>4. CASE EndStatus
    <2>1. command.name = "STATUS" /\ command' = NoCommand /\ command \in Holders
          /\ UNCHANGED <<loop, stop, worker, ids, sent>>
      BY <1>4 DEF EndStatus, BoardTypes
    <2>2. \/ report' = command.copy \/ report' = report
      BY <1>4 DEF EndStatus
    <2>3. radio' = radio \/ radio' = "none"
      BY <1>4 DEF EndStatus
    <2>4. report' \in Reports
      BY <2>1, <2>2, HolderFields DEF BoardTypes
    <2> QED BY <2>1, <2>3, <2>4, NoHolder DEF BoardTypes
  <1>5. CASE BeginStop \/ OtherStop
    <2>1. /\ stop' \in BOOLEAN
          /\ \E m \in BOOLEAN : command' = [name |-> "STOP", mine |-> m]
          /\ UNCHANGED <<report, loop, worker, radio, ids, sent>>
      BY <1>5 DEF BeginStop, OtherStop
    <2>2. command' \in Holders
      BY <2>1 DEF Holders
    <2> QED BY <2>1, <2>2 DEF BoardTypes
  <1>6. CASE EndStop
    BY <1>6, NoHolder DEF EndStop, BoardTypes
  <1>7. CASE TakeRadio
    <2>1. /\ radio' = "worker" /\ worker' = "taken"
          /\ UNCHANGED <<loop, stop, command, sent>>
      BY <1>7 DEF TakeRadio
    <2>2. loop.file \in Files \cup {"none"} /\ loop.by \in {0} \cup Requests
      BY DEF BoardTypes
    <2>3. \/ report' = Prepared(loop.file, loop.by) /\ ids' = ids + 1
          \/ report' = report /\ ids' = ids
      BY <1>7 DEF TakeRadio
    <2>4. report' \in Reports
      <3>1. report \in Reports
        BY DEF BoardTypes
      <3>2. Prepared(loop.file, loop.by) \in Reports
        BY <2>2, PreparedType
      <3> QED BY <2>3, <3>1, <3>2
    <2>5. ids' \in Nat
      <3>1. ids \in Nat /\ (ids' = ids + 1 \/ ids' = ids)
        BY <2>3 DEF BoardTypes
      <3> QED BY <3>1
    <2> QED BY <2>1, <2>4, <2>5 DEF BoardTypes
  <1>8. CASE StartPass
    <2>1. /\ \/ report' = [report EXCEPT !.state = "Sending"] /\ worker' = "sending"
             \/ report' = [report EXCEPT !.state = "Failed"] /\ worker' = "failed"
          /\ UNCHANGED <<loop, stop, radio, command, ids, sent>>
      BY <1>8 DEF StartPass
    <2>2. report' \in Reports
      BY <2>1 DEF BoardTypes, Reports, Running, Final
    <2> QED BY <2>1, <2>2 DEF BoardTypes
  <1>9. CASE EndPass
    <2>1. PICK s \in Final : /\ report' = [report EXCEPT !.state = s]
                             /\ worker' = IF s = "Completed" THEN "done" ELSE "failed"
                             /\ sent' = IF s = "Completed" THEN sent \cup {report} ELSE sent
      BY <1>9 DEF EndPass
    <2>2. UNCHANGED <<loop, stop, radio, command, ids>>
      BY <1>9 DEF EndPass
    <2>3. report' \in Reports
      BY <2>1 DEF BoardTypes, Reports
    <2> QED BY <2>1, <2>2, <2>3 DEF BoardTypes
  <1>10. CASE GiveRadio
    BY <1>10 DEF GiveRadio, BoardTypes
  <1>11. CASE Account
    <2>1. worker' = "idle" /\ UNCHANGED <<report, stop, radio, command, ids, sent>>
      BY <1>11 DEF Account
    <2>2. \/ loop' = NoLoop \/ loop' = loop
          \/ loop.left # 1 /\ loop' = [loop EXCEPT !.left = loop.left - 1]
      BY <1>11 DEF Account
    <2>3. loop.left # 0
      BY <1>11 DEF Account, OneWriter
    <2>4. loop' \in [file : Files \cup {"none"}, left : 0..2, by : {0} \cup Requests]
      BY <2>2, <2>3 DEF BoardTypes, NoLoop
    <2> QED BY <2>1, <2>4 DEF BoardTypes
  <1>12. CASE Disconnect
    <2>1. command' = [command EXCEPT !.mine = FALSE]
          /\ UNCHANGED <<report, loop, stop, worker, radio, ids, sent>>
      BY <1>12 DEF Disconnect
    <2>2. command' \in Holders
      BY <2>1, OrphanFields DEF BoardTypes
    <2> QED BY <2>1, <2>2 DEF BoardTypes
  <1>13. CASE RefuseTx \/ Reading \/ RequestTx \/ Poll \/ AskStop \/ ProgressTimeout
    <2>1. UNCHANGED board
      BY <1>13 DEF RefuseTx, Reading, ReadAccepted, ReadRefused, ReadUnavailable, ReadStatus,
                   RequestTx, Poll, AskStop, ProgressTimeout
    <2> QED BY <2>1 DEF board, BoardTypes
  <1> QED BY <1>1, <1>2, <1>3, <1>4, <1>5, <1>6, <1>7, <1>8, <1>9, <1>10, <1>11, <1>12, <1>13
          DEF MonitorNext, Commands, Worker

-----------------------------------------------------------------------------
(* What a step does to the traffic.                                        *)

\* A command is taken up, and may be answered at once.
Fetches ==
    /\ toBoard # <<>> /\ ~command.mine
    /\ toBoard' = Tail(toBoard) /\ pending' = pending
    /\ \/ toPc' = toPc /\ command'.mine /\ command'.name = Head(toBoard).name
       \/ /\ ~command'.mine
          /\ \E l \in Lines : Kind(l) = Head(toBoard).name /\ toPc' = Append(toPc, l)

\* A command is done, and answered if it can be.
Answers ==
    /\ toBoard' = toBoard /\ pending' = pending /\ ~command'.mine
    /\ \/ ~command.mine /\ toPc' = toPc
       \/ /\ command.mine
          /\ \E l \in Lines : Kind(l) = command.name /\ toPc' = Append(toPc, l)

\* A command is sent whose like is not under way.
Asks ==
    /\ toPc' = toPc /\ command' = command
    /\ \E c \in Asked : /\ c.name \notin pending
                        /\ toBoard' = Append(toBoard, c) /\ pending' = pending \cup {c.name}

\* An answer is read.
Reads ==
    /\ toPc # <<>> /\ toPc' = Tail(toPc) /\ pending' = pending \ {Kind(Head(toPc))}
    /\ toBoard' = toBoard /\ command' = command

\* The connection breaks.
Breaks == toBoard' = <<>> /\ toPc' = <<>> /\ pending' = {} /\ ~command'.mine

Still ==
    /\ toBoard' = toBoard /\ toPc' = toPc /\ pending' = pending
    /\ command' = command \/ (~command.mine /\ ~command'.mine)

LEMMA Traffic ==
    ASSUME MonitorAssumption, Types, MonitorNext
    PROVE  Fetches \/ Answers \/ Asks \/ Reads \/ Breaks \/ Still
  <1>0. NoCommand.mine = FALSE
    BY NoHolder
  <1>1. CASE AcceptTx
    <2>1. Fetches
      BY <1>0, <1>1, ResultLines DEF AcceptTx, Dispatch, Answer, Queue, Fetches, pc
    <2> QED BY <2>1
  <1>2. CASE RefuseTx
    <2>1. Fetches
      BY <1>0, <1>2, ResultLines DEF RefuseTx, Dispatch, Answer, Fetches, pc, board
    <2> QED BY <2>1
  <1>3. CASE BeginStatus
    <2>1. Fetches
      BY <1>0, <1>3 DEF BeginStatus, Dispatch, Fetches, pc
    <2> QED BY <2>1
  <1>4. CASE BeginStop
    <2>1. Fetches
      BY <1>0, <1>4 DEF BeginStop, Dispatch, Fetches, pc
    <2> QED BY <2>1
  <1>5. CASE EndStatus
    <2>1. command.name = "STATUS" /\ command' = NoCommand /\ toBoard' = toBoard
          /\ pending' = pending
          /\ Reply([name |-> "status", tx |-> command.copy, state |-> Shown,
                    looping |-> command.looping])
      BY <1>5 DEF EndStatus, pc
    <2>2. Answers
      BY <1>0, <2>1, StatusLine DEF Reply, Answer, Answers
    <2> QED BY <2>2
  <1>6. CASE EndStop
    <2>1. Answers
      BY <1>0, <1>6, ResultLines DEF EndStop, Reply, Answer, Answers, pc
    <2> QED BY <2>1
  <1>7. CASE OtherStop
    <2>1. Still
      BY <1>0, <1>7 DEF OtherStop, Still, pc
    <2> QED BY <2>1
  <1>8. CASE OtherTx \/ Worker \/ ProgressTimeout
    <2>1. toBoard' = toBoard /\ toPc' = toPc /\ pending' = pending /\ command' = command
      BY <1>8 DEF OtherTx, Queue, Worker, TakeRadio, StartPass, EndPass, GiveRadio, Account,
                  ProgressTimeout, pc, board
    <2> QED BY <2>1 DEF Still
  <1>9. CASE RequestTx
    <2>1. PICK f \in Files :
             Send([name |-> "TXHEX", file |-> f, number |-> spent.requests + 1])
      BY <1>9 DEF RequestTx
    <2>2. spent.requests + 1 \in Requests
      BY <1>9, Spending DEF RequestTx
    <2>3. [name |-> "TXHEX", file |-> f, number |-> spent.requests + 1] \in Asked
      BY <2>2 DEF Asked
    <2>4. "TXHEX" \notin pending /\ toPc' = toPc /\ command' = command
      BY <1>9 DEF RequestTx, board
    <2> QED BY <2>1, <2>3, <2>4 DEF Send, Asks
  <1>10. CASE Poll
    BY <1>10 DEF Poll, Send, Asks, Asked, board
  <1>11. CASE AskStop
    BY <1>11 DEF AskStop, Send, Asks, Asked, board
  <1>12. CASE Reading
    <2>1. Reads
      <3> USE DEF Read, Reads, board, Kind
      <3>1. CASE ReadAccepted
        BY <3>1 DEF ReadAccepted
      <3>2. CASE ReadRefused
        BY <3>2 DEF ReadRefused
      <3>3. CASE ReadUnavailable
        BY <3>3 DEF ReadUnavailable
      <3>4. CASE ReadStatus
        BY <3>4 DEF ReadStatus
      <3> QED BY <1>12, <3>1, <3>2, <3>3, <3>4 DEF Reading
    <2> QED BY <2>1
  <1>13. CASE Disconnect
    <2>1. ~command'.mine
      BY <1>13, OrphanFields DEF Disconnect, Types, BoardTypes
    <2> QED BY <1>13, <2>1 DEF Disconnect, Breaks
  <1> QED BY <1>1, <1>2, <1>3, <1>4, <1>5, <1>6, <1>7, <1>8, <1>9, <1>10, <1>11, <1>12, <1>13
          DEF MonitorNext, Commands

LEMMA LinkTypesNext ==
    ASSUME MonitorAssumption, Types, MonitorNext
    PROVE  LinkTypes'
  <1>1. toBoard \in Seq(Asked) /\ toPc \in Seq(Lines)
    BY DEF Types, LinkTypes
  <1>2. CASE Fetches
    <2>1. toBoard' \in Seq(Asked)
      BY <1>1, <1>2, TailOf DEF Fetches
    <2>2. toPc' \in Seq(Lines)
      <3>1. CASE toPc' = toPc
        BY <1>1, <3>1
      <3>2. CASE \E l \in Lines : toPc' = Append(toPc, l)
        <4>1. PICK l \in Lines : toPc' = Append(toPc, l)
          BY <3>2
        <4> QED BY <1>1, <4>1, AppendOf
      <3>3. toPc' = toPc \/ \E l \in Lines : toPc' = Append(toPc, l)
        BY <1>2 DEF Fetches
      <3> QED BY <3>1, <3>2, <3>3
    <2> QED BY <2>1, <2>2 DEF LinkTypes
  <1>3. CASE Answers
    BY <1>1, <1>3, AppendOf DEF Answers, LinkTypes
  <1>4. CASE Asks
    BY <1>1, <1>4, AppendOf DEF Asks, LinkTypes
  <1>5. CASE Reads
    BY <1>1, <1>5, TailOf DEF Reads, LinkTypes
  <1>6. CASE Breaks
    BY <1>6 DEF Breaks, LinkTypes
  <1>7. CASE Still
    BY <1>1, <1>7 DEF Still, LinkTypes
  <1> QED BY <1>2, <1>3, <1>4, <1>5, <1>6, <1>7, Traffic

LEMMA RequestType ==
    ASSUME Types, request # NoRequest
    PROVE  Heard \in Asking
  <1>1. request \in Asking
    BY DEF Types, PcTypes
  <1>2. Heard = [request EXCEPT !.heard = "TXHEX" \notin pending]
    BY DEF Heard
  <1> QED BY <1>1, <1>2 DEF Asking

\* A status leaves a request that is none as it is.
LEMMA HeardNone ==
    ASSUME Types, request = NoRequest
    PROVE  Heard = NoRequest
  BY DEF Heard

\* The head of the answers, when a status is read.
LEMMA StatusHead ==
    ASSUME Types, Read("status")
    PROVE  /\ toPc # <<>> /\ Head(toPc) = toPc[1] /\ 1 \in 1..Len(toPc)
           /\ Head(toPc) \in Statuses /\ Head(toPc).tx \in Reports
           /\ Head(toPc).name = "status"
           /\ Head(toPc).state \in {"Standby", "TxBusy", "Unavailable"}
           /\ Head(toPc).looping \in BOOLEAN
  <1>1. toPc # <<>> /\ toPc \in Seq(Lines) /\ Head(toPc).name = "status"
    BY DEF Types, LinkTypes, Read
  <1>2. Head(toPc) = toPc[1] /\ Head(toPc) \in Lines /\ Len(toPc) \in Nat \ {0}
    BY <1>1, TailOf
  <1>3. Head(toPc) \in Statuses
    BY <1>1, <1>2, LineNames
  <1> QED BY <1>1, <1>2, <1>3 DEF Statuses

LEMMA PcTypesNext ==
    ASSUME MonitorAssumption, Types, MonitorNext
    PROVE  PcTypes'
  <1> USE DEF Types
  <1>1. CASE RequestTx
    <2>1. PICK f \in Files :
              request' = [number |-> spent.requests + 1, file |-> f, baseline |-> lastTxId,
                          id |-> 0, heard |-> FALSE]
      BY <1>1 DEF RequestTx
    <2>2. spent.requests + 1 \in Requests
      BY <1>1, Spending DEF RequestTx
    <2>3. lastTxId \in Nat
      BY DEF PcTypes
    <2>4. request' \in Asking
      BY <2>1, <2>2, <2>3 DEF Asking
    <2>5. pending' \subseteq Kinds /\ busy' \in BOOLEAN /\ UNCHANGED <<lastTxId, shown, verdict>>
      BY <1>1 DEF RequestTx, Send, Kinds, PcTypes
    <2> QED BY <2>4, <2>5 DEF PcTypes
  <1>2. CASE Poll
    <2>1. pending' \subseteq Kinds /\ UNCHANGED <<request, lastTxId, shown, busy, verdict>>
      BY <1>2 DEF Poll, Send, Kinds, PcTypes
    <2> QED BY <2>1 DEF PcTypes
  <1>3. CASE AskStop
    <2>1. pending' \subseteq Kinds /\ UNCHANGED <<request, lastTxId, shown, busy, verdict>>
      BY <1>3 DEF AskStop, Send, Kinds, PcTypes
    <2> QED BY <2>1 DEF PcTypes
  <1>4. CASE ReadAccepted
    <2>1. pending' \subseteq pending /\ UNCHANGED <<request, lastTxId, shown, busy, verdict>>
      BY <1>4 DEF ReadAccepted
    <2> QED BY <2>1 DEF PcTypes
  <1>5. CASE ReadRefused
    <2>1. pending' \subseteq pending /\ UNCHANGED <<shown, lastTxId>>
      BY <1>5 DEF ReadRefused
    <2>2. CASE request # NoRequest
      <3>1. Conclude("Failed", 0)
        BY <1>5, <2>2 DEF ReadRefused
      <3>2. verdict' \in [Requests -> Verdicts] /\ request' = NoRequest /\ busy' \in BOOLEAN
        BY <2>2, <3>1, ConcludeType DEF Final
      <3> QED BY <2>1, <3>2 DEF PcTypes
    <2>3. CASE request = NoRequest
      BY <1>5, <2>1, <2>3 DEF ReadRefused, PcTypes
    <2> QED BY <2>2, <2>3
  <1>6. CASE ProgressTimeout
    <2>1. UNCHANGED <<shown, lastTxId, pending>> /\ Conclude("Failed", 0)
      BY <1>6 DEF ProgressTimeout
    <2>2. request # NoRequest
      BY <1>6, NoRequestFields DEF ProgressTimeout
    <2>3. verdict' \in [Requests -> Verdicts] /\ request' = NoRequest /\ busy' \in BOOLEAN
      BY <2>1, <2>2, ConcludeType DEF Final
    <2> QED BY <2>1, <2>3 DEF PcTypes
  <1>7. CASE Disconnect
    <2>1. pending' = {} /\ lastTxId' = 0 /\ shown' = "Unknown"
      BY <1>7 DEF Disconnect
    <2>2. CASE request # NoRequest
      <3>1. Conclude("Failed", 0)
        BY <1>7, <2>2 DEF Disconnect
      <3>2. verdict' \in [Requests -> Verdicts] /\ request' = NoRequest /\ busy' \in BOOLEAN
        BY <2>2, <3>1, ConcludeType DEF Final
      <3> QED BY <2>1, <3>2 DEF PcTypes
    <2>3. CASE request = NoRequest
      <3>1. busy' \in BOOLEAN /\ UNCHANGED <<request, verdict>>
        BY <1>7, <2>3 DEF Disconnect
      <3> QED BY <2>1, <3>1 DEF PcTypes
    <2> QED BY <2>2, <2>3
  <1>8. CASE ReadUnavailable
    <2>1. /\ pending' \subseteq pending /\ shown' = "Unknown" /\ request' = Heard
          /\ busy' \in BOOLEAN /\ UNCHANGED <<lastTxId, verdict>>
      BY <1>8 DEF ReadUnavailable
    <2>2. request' \in {NoRequest} \cup Asking
      BY <2>1, RequestType, HeardNone
    <2> QED BY <2>1, <2>2 DEF PcTypes
  <1>9. CASE ReadStatus
    <2> DEFINE tx == Head(toPc).tx
    <2>1. /\ pending' \subseteq pending /\ shown' = Head(toPc).state /\ lastTxId' = tx.id
          /\ Head(toPc).state # "Unavailable" /\ Read("status")
      BY <1>9 DEF ReadStatus
    <2>2. tx \in Reports /\ Head(toPc).state \in {"Standby", "TxBusy", "Unavailable"}
          /\ Head(toPc).looping \in BOOLEAN
      BY <2>1, StatusHead
    <2>3. tx.id \in Nat
      BY <2>2 DEF Reports
    <2>4. shown' \in {"Unknown", "Standby", "TxBusy"} /\ lastTxId' \in Nat
      BY <2>1, <2>2, <2>3
    <2>5. request' \in {NoRequest} \cup Asking /\ busy' \in BOOLEAN
          /\ verdict' \in [Requests -> Verdicts]
      <3>0. verdict \in [Requests -> Verdicts]
        BY DEF PcTypes
      <3>1. CASE request = NoRequest
        BY <1>9, <3>0, <3>1 DEF ReadStatus
      <3>2. CASE request # NoRequest /\ request.id = 0 /\ IsEarlier(tx)
        BY <1>9, <3>0, <3>2, RequestType DEF ReadStatus
      <3>3. CASE request # NoRequest /\ ~(request.id = 0 /\ IsEarlier(tx))
        <4>1. IF IsAnother(tx) THEN Conclude("Failed", 0)
              ELSE IF tx.state \in Final THEN Conclude(tx.state, tx.id)
              ELSE /\ request' = [Heard EXCEPT !.id = tx.id]
                   /\ busy' = TRUE /\ UNCHANGED verdict
          BY <1>9, <3>3 DEF ReadStatus
        <4>2. CASE IsAnother(tx)
          BY <3>3, <4>1, <4>2, ConcludeType DEF Final
        <4>3. CASE ~IsAnother(tx) /\ tx.state \in Final
          BY <2>3, <3>3, <4>1, <4>3, ConcludeType
        <4>4. CASE ~IsAnother(tx) /\ tx.state \notin Final
          <5>1. request' = [Heard EXCEPT !.id = tx.id] /\ busy' = TRUE /\ UNCHANGED verdict
            BY <4>1, <4>4
          <5>2. Heard \in Asking
            BY <3>3, RequestType
          <5>3. request' \in Asking
            BY <2>3, <5>1, <5>2 DEF Asking
          <5> QED BY <3>0, <5>1, <5>3
        <4> QED BY <4>2, <4>3, <4>4
      <3> QED BY <3>1, <3>2, <3>3
    <2> QED BY <2>1, <2>4, <2>5 DEF PcTypes
  <1>10. CASE Commands \/ Worker \/ OtherTx \/ OtherStop
    <2>1. UNCHANGED pc
      BY <1>10 DEF Commands, AcceptTx, RefuseTx, BeginStatus, EndStatus, BeginStop, EndStop,
                   Worker, TakeRadio, StartPass, EndPass, GiveRadio, Account, OtherTx,
                   OtherStop
    <2> QED BY <2>1 DEF pc, PcTypes
  <1> QED BY <1>1, <1>2, <1>3, <1>4, <1>5, <1>6, <1>7, <1>8, <1>9, <1>10 DEF MonitorNext, Reading

LEMMA EventsNext ==
    ASSUME MonitorAssumption, Types, MonitorNext
    PROVE  /\ spent' \in Events
           /\ spent.others \in Nat /\ spent'.others \in Nat
           /\ spent.others <= spent'.others
  <1>0. spent \in Events /\ spent.others \in Nat
    BY Spending DEF Types
  <1> SUFFICES spent' \in Events
                /\ (spent'.others = spent.others \/ spent'.others = spent.others + 1)
    BY <1>0
  <1>1. CASE OtherTx \/ OtherStop
    BY <1>1, Spending DEF OtherTx, OtherStop
  <1>2. CASE Account
    <2>1. spent' = spent \/ Spend("others", MaxOthers)
      BY <1>2 DEF Account
    <2> QED BY <1>0, <2>1, Spending
  <1>3. CASE RequestTx
    BY <1>3, Spending DEF RequestTx
  <1>4. CASE AskStop
    BY <1>4, Spending DEF AskStop
  <1>5. CASE Disconnect
    BY <1>5, Spending DEF Disconnect
  <1>6. CASE Commands \/ TakeRadio \/ StartPass \/ EndPass \/ GiveRadio \/ Reading \/ Poll
             \/ ProgressTimeout
    <2>1. spent' = spent
      BY <1>6 DEF Commands, AcceptTx, RefuseTx, BeginStatus, EndStatus, BeginStop, EndStop,
                  TakeRadio, StartPass, EndPass, GiveRadio, Reading, ReadAccepted, ReadRefused,
                  ReadUnavailable, ReadStatus, Poll, ProgressTimeout
    <2> QED BY <1>0, <2>1
  <1> QED BY <1>1, <1>2, <1>3, <1>4, <1>5, <1>6 DEF MonitorNext, Worker

\* What others do ends the time in which nobody else transmits.
LEMMA AloneBefore ==
    ASSUME MonitorAssumption, Types, MonitorNext, Alone'
    PROVE  /\ Alone /\ ~OtherTx /\ ~OtherStop
           /\ Account => loop' = IF worker = "failed" \/ stop \/ loop.left = 1 THEN NoLoop
                                 ELSE [loop EXCEPT !.left = @ - 1]
  <1>1. spent.others = 0 /\ spent'.others = 0
    BY EventsNext DEF Alone
  <1>2. ~Spend("others", MaxOthers)
    BY <1>1, Spending
  <1> QED BY <1>1, <1>2 DEF Alone, OtherTx, OtherStop, Account

-----------------------------------------------------------------------------
(* The traffic.                                                            *)

LEMMA OneOfEachNext ==
    ASSUME MonitorAssumption, Types, OneOfEach, MonitorNext
    PROVE  OneOfEach'
  <1>0. toBoard \in Seq(Asked) /\ toPc \in Seq(Lines) /\ Len(toBoard) \in Nat /\ Len(toPc) \in Nat
    BY DEF Types, LinkTypes
  <1>1. CASE Fetches
    <2> DEFINE c == Head(toBoard)
    <2>1. /\ Len(toBoard') = Len(toBoard) - 1 /\ Len(toBoard) \in Nat \ {0}
          /\ \A i \in 1..Len(toBoard) - 1 : toBoard'[i] = toBoard[i + 1]
          /\ c = toBoard[1]
      BY <1>0, <1>1, TailOf DEF Fetches
    <2>2. /\ c.name \in pending
          /\ \A i \in 2..Len(toBoard) : toBoard[i].name # c.name
          /\ \A j \in 1..Len(toPc) : Kind(toPc[j]) # c.name
      BY <2>1 DEF OneOfEach
    <2>3. pending' = pending /\ ~command.mine
      BY <1>1 DEF Fetches
    <2>4. \A i \in 1..Len(toBoard') :
             /\ i + 1 \in 1..Len(toBoard) /\ i + 1 \in 2..Len(toBoard) /\ i \in Int
             /\ toBoard'[i] = toBoard[i + 1]
      BY <1>0, <2>1
    <2> HIDE DEF c
    <2>5. /\ \A i \in 1..Len(toBoard') : /\ toBoard'[i].name \in pending
                                         /\ toBoard'[i].name # c.name
          /\ \A i, j \in 1..Len(toBoard') : toBoard'[j].name = toBoard'[i].name => j = i
          /\ \A i \in 1..Len(toBoard'), j \in 1..Len(toPc) :
                Kind(toPc[j]) # toBoard'[i].name
      <3>1. \A i \in 1..Len(toBoard') : /\ toBoard'[i].name \in pending
                                        /\ toBoard'[i].name # c.name
        BY <2>2, <2>4 DEF OneOfEach
      <3>2. ASSUME NEW i \in 1..Len(toBoard'), NEW j \in 1..Len(toBoard'),
                   toBoard'[j].name = toBoard'[i].name
            PROVE  j = i
        <4>1. j + 1 = i + 1
          BY ZenonT(60), <2>4, <3>2 DEF OneOfEach
        <4> QED BY <2>4, <4>1
      <3>3. \A i \in 1..Len(toBoard'), j \in 1..Len(toPc) : Kind(toPc[j]) # toBoard'[i].name
        BY SMTT(30), <2>4 DEF OneOfEach
      <3> QED BY <3>1, <3>2, <3>3
    <2>6. CASE toPc' = toPc /\ command'.mine /\ command'.name = c.name
      BY <2>2, <2>3, <2>5, <2>6 DEF OneOfEach
    <2>7. CASE ~command'.mine /\ \E l \in Lines : Kind(l) = c.name /\ toPc' = Append(toPc, l)
      <3>1. PICK l \in Lines : Kind(l) = c.name /\ toPc' = Append(toPc, l)
        BY <2>7
      <3>2. \A j \in 1..Len(toPc') : \/ j \in 1..Len(toPc) /\ toPc'[j] = toPc[j]
                                     \/ j = Len(toPc) + 1 /\ toPc'[j] = l
        BY <1>0, <3>1, AppendOf
      <3>3. \A i \in 1..Len(toBoard'), j \in 1..Len(toPc') : Kind(toPc'[j]) # toBoard'[i].name
        BY <2>5, <3>1, <3>2
      <3>4. \A j \in 1..Len(toPc') : Kind(toPc'[j]) \in pending
        BY <2>2, <3>1, <3>2 DEF OneOfEach
      <3>5. \A i, j \in 1..Len(toPc') : Kind(toPc'[j]) = Kind(toPc'[i]) => j = i
        BY <2>2, <3>1, <3>2 DEF OneOfEach
      <3> QED BY <2>3, <2>5, <2>7, <3>3, <3>4, <3>5 DEF OneOfEach
    <2> QED BY <1>1, <2>6, <2>7 DEF Fetches, c
  <1>2. CASE Answers
    <2>1. toBoard' = toBoard /\ pending' = pending /\ ~command'.mine
      BY <1>2 DEF Answers
    <2>2. CASE toPc' = toPc
      BY <2>1, <2>2 DEF OneOfEach
    <2>3. CASE command.mine /\ \E l \in Lines : Kind(l) = command.name /\ toPc' = Append(toPc, l)
      <3>1. PICK l \in Lines : Kind(l) = command.name /\ toPc' = Append(toPc, l)
        BY <2>3
      <3>2. \A j \in 1..Len(toPc') : \/ j \in 1..Len(toPc) /\ toPc'[j] = toPc[j]
                                     \/ j = Len(toPc) + 1 /\ toPc'[j] = l
        BY <1>0, <3>1, AppendOf
      <3>3. \A i \in 1..Len(toBoard'), j \in 1..Len(toPc') : Kind(toPc'[j]) # toBoard'[i].name
        BY <2>1, <2>3, <3>1, <3>2 DEF OneOfEach
      <3>4. \A j \in 1..Len(toPc') : Kind(toPc'[j]) \in pending
        BY <2>3, <3>1, <3>2 DEF OneOfEach
      <3>5. \A i, j \in 1..Len(toPc') : Kind(toPc'[j]) = Kind(toPc'[i]) => j = i
        BY <2>3, <3>1, <3>2 DEF OneOfEach
      <3> QED BY <2>1, <3>3, <3>4, <3>5 DEF OneOfEach
    <2> QED BY <1>2, <2>2, <2>3 DEF Answers
  <1>3. CASE Asks
    <2>1. PICK c \in Asked : /\ c.name \notin pending
                             /\ toBoard' = Append(toBoard, c)
                             /\ pending' = pending \cup {c.name}
      BY <1>3 DEF Asks
    <2>2. \A j \in 1..Len(toBoard') : \/ j \in 1..Len(toBoard) /\ toBoard'[j] = toBoard[j]
                                      \/ j = Len(toBoard) + 1 /\ toBoard'[j] = c
      BY <1>0, <2>1, AppendOf
    <2>3. toPc' = toPc /\ command' = command
      BY <1>3 DEF Asks
    <2>4. \A i \in 1..Len(toBoard') : /\ toBoard'[i].name \in pending'
                                      /\ command.mine => command.name # toBoard'[i].name
      BY <2>1, <2>2 DEF OneOfEach
    <2>5. \A i, j \in 1..Len(toBoard') : toBoard'[j].name = toBoard'[i].name => j = i
      BY <2>1, <2>2 DEF OneOfEach
    <2>6. \A i \in 1..Len(toBoard'), j \in 1..Len(toPc) : Kind(toPc[j]) # toBoard'[i].name
      BY <2>1, <2>2 DEF OneOfEach
    <2> QED BY <2>1, <2>3, <2>4, <2>5, <2>6 DEF OneOfEach
  <1>4. CASE Reads
    <2> DEFINE l == Head(toPc)
    <2>1. /\ Len(toPc') = Len(toPc) - 1 /\ Len(toPc) \in Nat \ {0}
          /\ \A i \in 1..Len(toPc) - 1 : toPc'[i] = toPc[i + 1]
          /\ l = toPc[1]
      BY <1>0, <1>4, TailOf DEF Reads
    <2>2. /\ \A i \in 2..Len(toPc) : Kind(toPc[i]) # Kind(l)
          /\ \A i \in 1..Len(toBoard) : toBoard[i].name # Kind(l)
          /\ command.mine => command.name # Kind(l)
      <3>1. \A i \in 2..Len(toPc) : Kind(toPc[i]) # Kind(l)
        BY <2>1 DEF OneOfEach
      <3>2. 1 \in 1..Len(toPc)
        BY <2>1
      <3> QED BY <2>1, <3>1, <3>2 DEF OneOfEach
    <2>3. pending' = pending \ {Kind(l)} /\ toBoard' = toBoard /\ command' = command
      BY <1>4 DEF Reads
    <2>4. \A i \in 1..Len(toPc') :
             /\ i + 1 \in 1..Len(toPc) /\ i + 1 \in 2..Len(toPc) /\ i \in Int
             /\ toPc'[i] = toPc[i + 1]
      BY <1>0, <2>1
    <2> HIDE DEF l
    <2>5. \A i \in 1..Len(toPc') : /\ Kind(toPc'[i]) \in pending'
                                   /\ command.mine => command.name # Kind(toPc'[i])
      BY <2>2, <2>3, <2>4 DEF OneOfEach
    <2>6. \A i, j \in 1..Len(toPc') : Kind(toPc'[j]) = Kind(toPc'[i]) => j = i
      <3>1. ASSUME NEW i \in 1..Len(toPc'), NEW j \in 1..Len(toPc'),
                   Kind(toPc'[j]) = Kind(toPc'[i])
            PROVE  j = i
        <4>1. j + 1 = i + 1
          BY <2>4, <3>1 DEF OneOfEach
        <4> QED BY <2>4, <4>1
      <3> QED BY <3>1
    <2>7. \A i \in 1..Len(toBoard), j \in 1..Len(toPc') : Kind(toPc'[j]) # toBoard[i].name
      BY SMTT(30), <2>4 DEF OneOfEach
    <2> QED BY <2>2, <2>3, <2>5, <2>6, <2>7 DEF OneOfEach
  <1>5. CASE Breaks
    BY <1>5 DEF Breaks, OneOfEach
  <1>6. CASE Still
    BY <1>6 DEF Still, OneOfEach
  <1> QED BY <1>1, <1>2, <1>3, <1>4, <1>5, <1>6, Traffic

LEMMA CountedNext ==
    ASSUME MonitorAssumption, Types, OneOfEach, Counted, MonitorNext
    PROVE  Counted'
  <1>0. toBoard \in Seq(Asked) /\ toPc \in Seq(Lines) /\ Len(toBoard) \in Nat /\ Len(toPc) \in Nat
    BY DEF Types, LinkTypes
  <1>1. IsFiniteSet(pending) /\ Cardinality(pending) \in Nat
    <2>1. IsFiniteSet(Kinds)
      <3>1. IsFiniteSet({"STATUS"} \cup {"STOP"})
        BY FS_Singleton, FS_Union
      <3>2. Kinds = ({"STATUS"} \cup {"STOP"}) \cup {"TXHEX"}
        BY DEF Kinds
      <3> QED BY <3>1, <3>2, FS_Singleton, FS_Union
    <2> QED BY <2>1, FS_Subset, FS_CardinalityType DEF Types, PcTypes
  <1>2. CASE Fetches
    <2>1. Len(toBoard') = Len(toBoard) - 1 /\ Len(toBoard) \in Nat \ {0}
      BY <1>0, <1>2, TailOf DEF Fetches
    <2>2. \/ toPc' = toPc /\ command'.mine
          \/ Len(toPc') = Len(toPc) + 1 /\ ~command'.mine
      BY <1>0, <1>2, AppendOf DEF Fetches
    <2>3. ~command.mine /\ pending' = pending
      BY <1>2 DEF Fetches
    <2> QED BY <1>0, <2>1, <2>2, <2>3 DEF Counted
  <1>3. CASE Answers
    <2>1. \/ toPc' = toPc /\ ~command.mine
          \/ Len(toPc') = Len(toPc) + 1 /\ command.mine
      BY <1>0, <1>3, AppendOf DEF Answers
    <2>2. ~command'.mine /\ toBoard' = toBoard /\ pending' = pending
      BY <1>3 DEF Answers
    <2> QED BY <1>0, <2>1, <2>2 DEF Counted
  <1>4. CASE Asks
    <2>1. PICK c \in Asked : /\ c.name \notin pending
                             /\ toBoard' = Append(toBoard, c)
                             /\ pending' = pending \cup {c.name}
      BY <1>4 DEF Asks
    <2>2. Len(toBoard') = Len(toBoard) + 1
      BY <1>0, <2>1, AppendOf
    <2>3. Cardinality(pending') = Cardinality(pending) + 1
      BY <1>1, <2>1, FS_AddElement
    <2>4. toPc' = toPc /\ command' = command
      BY <1>4 DEF Asks
    <2> QED BY <1>0, <1>1, <2>2, <2>3, <2>4 DEF Counted
  <1>5. CASE Reads
    <2>1. Len(toPc') = Len(toPc) - 1 /\ Len(toPc) \in Nat \ {0} /\ Head(toPc) = toPc[1]
      BY <1>0, <1>5, TailOf DEF Reads
    <2>2. Kind(Head(toPc)) \in pending
      BY <2>1 DEF OneOfEach
    <2>3. Cardinality(pending') = Cardinality(pending) - 1
      BY <1>1, <1>5, <2>2, FS_RemoveElement DEF Reads
    <2>4. toBoard' = toBoard /\ command' = command
      BY <1>5 DEF Reads
    <2> QED BY <1>0, <1>1, <2>1, <2>3, <2>4 DEF Counted
  <1>6. CASE Breaks
    <2>1. Cardinality(pending') = 0
      BY <1>6, FS_EmptySet DEF Breaks
    <2> QED BY <1>6, <2>1 DEF Breaks, Counted
  <1>7. CASE Still
    BY <1>7 DEF Still, Counted
  <1> QED BY <1>2, <1>3, <1>4, <1>5, <1>6, <1>7, Traffic

-----------------------------------------------------------------------------
(* The board.                                                              *)

LEMMA OneWriterNext ==
    ASSUME MonitorAssumption, Types, OneWriter, MonitorNext
    PROVE  OneWriter'
  <1> USE DEF OneWriter
  <1>0. /\ NoCommand.name = "none"
        /\ loop.left \in 0..2
        /\ worker \in {"idle", "taken", "sending", "done", "failed"}
        /\ command \in Holders
    BY NoHolder DEF Types, BoardTypes
  <1>1. CASE AcceptTx \/ OtherTx
    <2>1. PICK f, b, n : n \in 1..2 /\ Queue(f, n, b)
      BY <1>1 DEF AcceptTx, OtherTx
    <2>2. /\ loop = NoLoop /\ radio = "none" /\ radio' = radio /\ worker' = worker
          /\ command' = command /\ loop' = [file |-> f, left |-> n, by |-> b]
      BY <2>1 DEF Queue
    <2>3. worker = "idle"
      BY <2>2
    <2>4. loop'.left > 0
      BY <2>1, <2>2
    <2> QED BY <2>2, <2>3, <2>4
  <1>2. CASE BeginStatus
    <2>1. /\ radio' = CopyLock
          /\ command' = [name |-> "STATUS", mine |-> TRUE, copy |-> report,
                         free |-> radio = "none", looping |-> loop # NoLoop]
          /\ UNCHANGED <<report, loop, worker>> /\ command = NoCommand
      BY <1>2 DEF BeginStatus, Dispatch
    <2>2. radio \in {"none", "worker"}
      BY <1>0, <2>1 DEF Types, BoardTypes
    <2>3. command'.name = "STATUS" /\ command'.copy = report /\ (command'.free <=> radio = "none")
      BY <2>1
    <2>4. radio' = IF radio = "none" THEN "status" ELSE "worker"
      BY <2>1, <2>2 DEF CopyLock
    <2> QED BY <2>1, <2>2, <2>3, <2>4
  <1>3. CASE EndStatus
    <2>1. command.name = "STATUS" /\ command' = NoCommand /\ UNCHANGED <<loop, worker>>
          /\ (command.free => report' = command.copy
                              /\ radio' = IF radio = "status" THEN "none" ELSE radio)
          /\ (~command.free => UNCHANGED <<report, radio>>)
      BY <1>3 DEF EndStatus
    <2>2. CASE command.free
      <3>1. radio = "status" /\ radio' = "none" /\ report' = report
        BY <2>1, <2>2
      <3> QED BY <1>0, <2>1, <3>1
    <2>3. CASE ~command.free
      BY <1>0, <2>1, <2>3
    <2> QED BY <2>2, <2>3
  <1>4. CASE BeginStop \/ OtherStop
    <2>1. command = NoCommand /\ command'.name = "STOP" /\ UNCHANGED <<report, loop, worker, radio>>
      BY <1>4 DEF BeginStop, OtherStop, Dispatch
    <2> QED BY <1>0, <2>1
  <1>5. CASE EndStop
    <2>1. command.name = "STOP" /\ command' = NoCommand /\ UNCHANGED <<report, loop, worker, radio>>
      BY <1>5 DEF EndStop
    <2> QED BY <1>0, <2>1
  <1>6. CASE TakeRadio
    <2>1. /\ loop # NoLoop /\ radio = "none" /\ radio' = "worker" /\ worker' = "taken"
          /\ UNCHANGED <<loop, command>>
      BY <1>6 DEF TakeRadio
    <2>2. report'.state = "Preparing"
      BY <1>6 DEF TakeRadio, NeedsReport, Prepared
    <2> QED BY <2>1, <2>2
  <1>7. CASE StartPass
    <2>1. /\ worker = "taken" /\ UNCHANGED <<loop, radio, command>>
          /\ \/ report' = [report EXCEPT !.state = "Sending"] /\ worker' = "sending"
             \/ report' = [report EXCEPT !.state = "Failed"] /\ worker' = "failed"
      BY <1>7 DEF StartPass
    <2>2. worker' = "sending" => report'.state = "Sending"
      BY <2>1 DEF Types, BoardTypes, Reports
    <2> QED BY <2>1, <2>2
  <1>8. CASE EndPass
    <2>1. worker = "sending" /\ worker' \in {"done", "failed"} /\ UNCHANGED <<loop, radio, command>>
      BY <1>8 DEF EndPass
    <2> QED BY <2>1
  <1>9. CASE GiveRadio
    <2>1. worker \in {"done", "failed"} /\ radio = "worker" /\ radio' = "none"
          /\ UNCHANGED <<report, loop, worker, command>>
      BY <1>9 DEF GiveRadio
    <2> QED BY <2>1
  <1>10. CASE Account
    <2>1. worker \in {"done", "failed"} /\ radio # "worker" /\ worker' = "idle"
          /\ UNCHANGED <<report, radio, command>>
      BY <1>10 DEF Account
    <2>2. \/ loop' = NoLoop \/ loop' = loop
          \/ loop.left # 1 /\ loop' = [loop EXCEPT !.left = loop.left - 1]
      BY <1>10 DEF Account
    <2>3. loop.left \in 1..2
      BY <1>0, <2>1
    <2>4. loop' # NoLoop => loop'.left > 0
      BY <2>2, <2>3 DEF Types, BoardTypes
    <2> QED BY <2>1, <2>4
  <1>11. CASE Disconnect
    <2>1. UNCHANGED <<report, loop, worker, radio>> /\ command' = [command EXCEPT !.mine = FALSE]
      BY <1>11 DEF Disconnect
    <2>2. command'.name = command.name
          /\ (command.name = "STATUS" => command'.copy = command.copy
                                         /\ command'.free = command.free)
      BY <1>0, <2>1, OrphanFields
    <2> QED BY <2>1, <2>2
  <1>12. CASE RefuseTx \/ Reading \/ RequestTx \/ Poll \/ AskStop \/ ProgressTimeout
    <2>1. UNCHANGED board
      BY <1>12 DEF RefuseTx, Reading, ReadAccepted, ReadRefused, ReadUnavailable, ReadStatus,
                   RequestTx, Poll, AskStop, ProgressTimeout
    <2> QED BY <2>1 DEF board
  <1> QED BY <1>1, <1>2, <1>3, <1>4, <1>5, <1>6, <1>7, <1>8, <1>9, <1>10, <1>11, <1>12
          DEF MonitorNext, Commands, Worker

-----------------------------------------------------------------------------
(* The report.                                                             *)

\* A report keeps its transmission or is the first of the next one.
LEMMA ReportStep ==
    ASSUME MonitorAssumption, Types, OneWriter, Copies, MonitorNext
    PROVE  /\ report'.id = ids' /\ sent \subseteq sent'
           /\ Past(report', report', sent')
           /\ \/ report'.id = report.id /\ report'.file = report.file /\ report'.by = report.by
              \/ report'.id = report.id + 1
           /\ report'.id = report.id /\ report.state \in Final => report' = report
  <1>0. report \in Reports /\ ids \in Nat /\ report.id = ids
        /\ Past(report, report, sent) /\ loop.file \in Files \cup {"none"}
        /\ loop.by \in {0} \cup Requests
    BY DEF Types, BoardTypes, Copies
  <1>1. CASE UNCHANGED <<report, ids, sent>>
    BY <1>0, <1>1
  <1>2. CASE \E f, b : report' = Prepared(f, b) /\ ids' = ids + 1 /\ sent' = sent
    BY <1>0, <1>2 DEF Prepared, Past, Backed
  <1>3. CASE AcceptTx \/ OtherTx
    <2>1. \E f, n, b : Queue(f, n, b)
      BY <1>3 DEF AcceptTx, OtherTx
    <2> QED BY <1>2, <2>1 DEF Queue
  <1>4. CASE TakeRadio
    BY <1>1, <1>2, <1>4 DEF TakeRadio
  <1>5. CASE EndStatus
    <2>1. command.name = "STATUS" /\ ids' = ids /\ sent' = sent
          /\ (report' = report \/ (command.free /\ report' = command.copy))
      BY <1>5 DEF EndStatus
    <2>2. report' = report
      BY <2>1 DEF OneWriter
    <2> QED BY <1>1, <2>1, <2>2
  <1>6. CASE StartPass
    <2>1. /\ worker = "taken" /\ ids' = ids /\ sent' = sent
          /\ \/ report' = [report EXCEPT !.state = "Sending"]
             \/ report' = [report EXCEPT !.state = "Failed"]
      BY <1>6 DEF StartPass
    <2>2. report.state = "Preparing"
      BY <2>1 DEF OneWriter
    <2>3. /\ report'.id = report.id /\ report'.file = report.file /\ report'.by = report.by
          /\ report'.state # "Completed"
      BY <1>0, <2>1 DEF Reports
    <2> QED BY <1>0, <2>1, <2>2, <2>3 DEF Past, Backed, Reports, Final
  <1>7. CASE EndPass
    <2>1. PICK s \in Final : /\ report' = [report EXCEPT !.state = s]
                             /\ sent' = IF s = "Completed" THEN sent \cup {report} ELSE sent
      BY <1>7 DEF EndPass
    <2>2. ids' = ids /\ report.state = "Sending"
      BY <1>7 DEF EndPass, OneWriter
    <2>3. /\ report'.id = report.id /\ report'.file = report.file /\ report'.by = report.by
          /\ report'.state = s
      BY <1>0, <2>1 DEF Reports
    <2>4. report.id # 0
      BY <1>0, <2>2 DEF Past
    <2>5. Backed(report', sent')
      BY <2>1, <2>3 DEF Backed
    <2>6. report.state \notin Final
      BY <2>2 DEF Final
    <2> QED BY <1>0, <2>1, <2>2, <2>3, <2>4, <2>5, <2>6 DEF Past, Reports
  <1>8. CASE RefuseTx \/ BeginStatus \/ BeginStop \/ EndStop \/ OtherStop \/ GiveRadio \/ Account
             \/ Reading \/ RequestTx \/ Poll \/ AskStop \/ ProgressTimeout \/ Disconnect
    <2>1. UNCHANGED <<report, ids, sent>>
      BY <1>8 DEF RefuseTx, BeginStatus, BeginStop, EndStop, OtherStop, GiveRadio, Account,
                  Reading, ReadAccepted, ReadRefused, ReadUnavailable, ReadStatus, RequestTx,
                  Poll, AskStop, ProgressTimeout, Disconnect, board
    <2> QED BY <1>1, <2>1
  <1> QED BY <1>3, <1>4, <1>5, <1>6, <1>7, <1>8 DEF MonitorNext, Commands, Worker

\* A true copy of a report stays true.
LEMMA PastStays ==
    ASSUME MonitorAssumption, Types, OneWriter, Copies, MonitorNext,
           NEW r \in Reports, Past(r, report, sent)
    PROVE  Past(r, report', sent')
  <1>1. r.id \in Nat /\ report.id \in Nat
    BY DEF Types, BoardTypes, Reports
  <1>2. /\ sent \subseteq sent'
        /\ \/ report'.id = report.id /\ report'.file = report.file /\ report'.by = report.by
           \/ report'.id = report.id + 1
    BY ReportStep
  <1>3. Backed(r, sent')
    BY <1>2 DEF Past, Backed
  <1> QED BY <1>1, <1>2, <1>3 DEF Past

\* What becomes of a command at the board.
LEMMA CommandStep ==
    ASSUME Types, MonitorNext
    PROVE  \/ command'.name # "STATUS"
           \/ BeginStatus /\ command'.copy = report /\ report' = report
           \/ /\ command.name = "STATUS" /\ command'.copy = command.copy
              /\ command'.mine => command.mine
  <1>0. NoCommand.name = "none"
    BY NoHolder
  <1>1. CASE BeginStatus
    BY <1>1 DEF BeginStatus
  <1>2. CASE EndStatus \/ EndStop \/ BeginStop \/ OtherStop
    BY <1>0, <1>2 DEF EndStatus, EndStop, BeginStop, OtherStop
  <1>3. CASE Disconnect
    BY <1>3, OrphanFields, HolderFields DEF Disconnect, Types, BoardTypes
  <1>4. CASE AcceptTx \/ RefuseTx \/ Worker \/ Reading \/ OtherTx \/ RequestTx \/ Poll \/ AskStop
             \/ ProgressTimeout
    <2>1. command' = command
      BY <1>4 DEF AcceptTx, RefuseTx, Queue, Worker, TakeRadio, StartPass, EndPass, GiveRadio,
                  Account, Reading, ReadAccepted, ReadRefused, ReadUnavailable, ReadStatus,
                  OtherTx, RequestTx, Poll, AskStop, ProgressTimeout, board
    <2> QED BY <2>1
  <1> QED BY <1>1, <1>2, <1>3, <1>4 DEF MonitorNext, Commands

\* What becomes of the answers, and of the last id the PC has seen.
LEMMA LinesStep ==
    ASSUME Types, MonitorNext
    PROVE  \/ toPc' = toPc /\ lastTxId' = lastTxId
           \/ lastTxId' = lastTxId /\ \E l \in Results : toPc' = Append(toPc, l)
           \/ EndStatus /\ lastTxId' = lastTxId
           \/ ReadStatus
           \/ toPc # <<>> /\ toPc' = Tail(toPc) /\ lastTxId' = lastTxId
           \/ toPc' = <<>> /\ lastTxId' = 0 /\ ~command'.mine
  <1>1. CASE AcceptTx \/ RefuseTx
    BY <1>1 DEF AcceptTx, RefuseTx, Answer, Results, pc
  <1>2. CASE EndStop
    BY <1>2 DEF EndStop, Reply, Answer, Results, pc
  <1>3. CASE EndStatus
    BY <1>3 DEF EndStatus, pc
  <1>4. CASE Disconnect
    BY <1>4, OrphanFields DEF Disconnect, Types, BoardTypes
  <1>5. CASE Reading
    BY <1>5 DEF Reading, ReadAccepted, ReadRefused, ReadUnavailable, Read
  <1>6. CASE BeginStatus \/ BeginStop \/ Worker \/ OtherTx \/ OtherStop \/ RequestTx \/ Poll
             \/ AskStop \/ ProgressTimeout
    BY <1>6 DEF BeginStatus, BeginStop, Worker, TakeRadio, StartPass, EndPass, GiveRadio,
                Account, OtherTx, OtherStop, RequestTx, Poll, AskStop, ProgressTimeout, pc
  <1> QED BY <1>1, <1>2, <1>3, <1>4, <1>5, <1>6 DEF MonitorNext, Commands

\* A status that is read was the only one, and none is being made.
LEMMA OnlyStatus ==
    ASSUME Types, OneOfEach, Read("status")
    PROVE  /\ command.mine => command.name # "STATUS"
           /\ \A i \in 1..Len(toPc) : toPc[i].name = "status" => i = 1
           /\ \A i \in 1..Len(toPc') : /\ i + 1 \in 1..Len(toPc) /\ toPc'[i] = toPc[i + 1]
                                       /\ toPc'[i].name # "status"
  <1>1. toPc # <<>> /\ Head(toPc) = toPc[1] /\ toPc[1].name = "status" /\ 1 \in 1..Len(toPc)
    BY StatusHead
  <1>2. toPc \in Seq(Lines) /\ toPc' = Tail(toPc)
    BY DEF Types, LinkTypes, Read
  <1>3. \A i \in 1..Len(toPc) : toPc[i] \in Lines
    BY <1>2
  <1>4. \A i \in 1..Len(toPc) : toPc[i].name = "status" => Kind(toPc[i]) = "STATUS"
    BY <1>3, LineNames
  <1>5. \A i \in 1..Len(toPc) : toPc[i].name = "status" => i = 1
    BY <1>1, <1>4 DEF OneOfEach
  <1>6. command.mine => command.name # "STATUS"
    BY <1>1, <1>4 DEF OneOfEach
  <1>7. \A i \in 1..Len(toPc') : /\ i + 1 \in 1..Len(toPc) /\ i + 1 # 1
                                 /\ toPc'[i] = toPc[i + 1]
    BY <1>1, <1>2, TailOf
  <1> QED BY <1>5, <1>6, <1>7

LEMMA CopiesNext ==
    ASSUME MonitorAssumption, Types, OneOfEach, OneWriter, Copies, MonitorNext
    PROVE  Copies'
  <1>0. /\ toPc \in Seq(Lines) /\ Len(toPc) \in Nat /\ command \in Holders
        /\ report \in Reports /\ lastTxId \in Nat /\ report.id \in Nat
    BY DEF Types, BoardTypes, LinkTypes, PcTypes, Reports
  <1>1. \A i \in 1..Len(toPc) : toPc[i].name = "status" => toPc[i].tx \in Reports
    <2>1. \A i \in 1..Len(toPc) : toPc[i] \in Lines
      BY <1>0
    <2> QED BY <2>1, LineNames
  <1>2. \A i \in 1..Len(toPc) : toPc[i].name = "status" => Past(toPc[i].tx, report', sent')
    BY <1>1, PastStays DEF Copies
  <1>3. report'.id = ids' /\ Past(report', report', sent')
        /\ (report'.id = report.id \/ report'.id = report.id + 1)
    BY ReportStep
  <1>4. /\ lastTxId' = lastTxId \/ lastTxId' = 0 \/ ReadStatus
        /\ ReadStatus => Read("status") /\ lastTxId' = Head(toPc).tx.id
    BY LinesStep DEF ReadStatus
  <1>5. ReadStatus => lastTxId' \in Nat /\ lastTxId' <= report.id
    BY <1>1, <1>4, StatusHead DEF Copies, Past, Reports
  <1>6. lastTxId' <= report'.id
    BY <1>0, <1>3, <1>4, <1>5 DEF Copies
  <1>7. command'.name = "STATUS" => /\ Past(command'.copy, report', sent')
                                    /\ command'.mine => lastTxId' <= command'.copy.id
    <2>1. CASE command'.name # "STATUS"
      BY <2>1
    <2>2. CASE BeginStatus /\ command'.copy = report /\ report' = report
      BY <1>3, <1>6, <2>2
    <2>3. CASE /\ command.name = "STATUS" /\ command'.copy = command.copy
               /\ command'.mine => command.mine
      <3>1. command.copy \in Reports /\ command.copy.id \in Nat
        BY <1>0, <2>3, HolderFields DEF Reports
      <3>2. Past(command'.copy, report', sent')
        BY <2>3, <3>1, PastStays DEF Copies
      <3>3. command'.mine => lastTxId' = lastTxId \/ lastTxId' = 0
        BY <1>4, <2>3, OnlyStatus
      <3> QED BY <1>0, <2>3, <3>1, <3>2, <3>3 DEF Copies
    <2> QED BY <2>1, <2>2, <2>3, CommandStep
  <1>8. \A i \in 1..Len(toPc') : toPc'[i].name = "status" =>
           Past(toPc'[i].tx, report', sent') /\ lastTxId' <= toPc'[i].tx.id
    <2>1. CASE toPc' = toPc /\ lastTxId' = lastTxId
      BY <1>2, <2>1 DEF Copies
    <2>2. CASE lastTxId' = lastTxId /\ \E l \in Results : toPc' = Append(toPc, l)
      <3>1. PICK l \in Results : toPc' = Append(toPc, l)
        BY <2>2
      <3>2. l.name # "status" /\ l \in Lines
        BY DEF Results, Lines
      <3>3. \A i \in 1..Len(toPc') : \/ i \in 1..Len(toPc) /\ toPc'[i] = toPc[i]
                                     \/ toPc'[i] = l
        BY <1>0, <3>1, <3>2, AppendOf
      <3> QED BY <1>2, <2>2, <3>2, <3>3 DEF Copies
    <2>3. CASE EndStatus /\ lastTxId' = lastTxId
      <3>1. command.name = "STATUS"
        BY <2>3 DEF EndStatus
      <3>2. PICK l \in Lines : l.tx = command.copy /\ Reply(l)
        BY <2>3, <3>1, StatusLine DEF EndStatus
      <3>3. CASE ~command.mine
        BY <1>2, <2>3, <3>2, <3>3 DEF Reply, Copies
      <3>4. CASE command.mine
        <4>1. toPc' = Append(toPc, l)
          BY <3>2, <3>4 DEF Reply, Answer
        <4>2. \A i \in 1..Len(toPc') : \/ i \in 1..Len(toPc) /\ toPc'[i] = toPc[i]
                                       \/ toPc'[i] = l
          BY <1>0, <3>2, <4>1, AppendOf
        <4>3. command.copy \in Reports
          BY <1>0, <3>1, HolderFields
        <4>4. Past(l.tx, report', sent') /\ lastTxId <= l.tx.id
          BY <3>1, <3>2, <3>4, <4>3, PastStays DEF Copies
        <4> QED BY <1>2, <2>3, <4>2, <4>4 DEF Copies
      <3> QED BY <1>0, <3>3, <3>4, HolderFields
    <2>4. CASE ReadStatus
      BY <1>4, <2>4, OnlyStatus
    <2>5. CASE toPc # <<>> /\ toPc' = Tail(toPc) /\ lastTxId' = lastTxId
      <3>1. \A i \in 1..Len(toPc') : i + 1 \in 1..Len(toPc) /\ toPc'[i] = toPc[i + 1]
        BY <1>0, <2>5, TailOf
      <3> QED BY <1>2, <2>5, <3>1 DEF Copies
    <2>6. CASE toPc' = <<>>
      BY <2>6
    <2> QED BY <2>1, <2>2, <2>3, <2>4, <2>5, <2>6, LinesStep
  <1> QED BY <1>3, <1>6, <1>7, <1>8 DEF Copies

-----------------------------------------------------------------------------
(* The request.                                                            *)

LEMMA HeardFields ==
    ASSUME Types, request # NoRequest
    PROVE  /\ Heard.number = request.number /\ Heard.baseline = request.baseline
           /\ Heard.file = request.file /\ Heard.id = request.id
           /\ Heard.heard <=> "TXHEX" \notin pending
           /\ Heard # NoRequest
  <1>1. request \in Asking /\ Heard = [request EXCEPT !.heard = "TXHEX" \notin pending]
    BY DEF Types, PcTypes, Heard
  <1>2. Heard.number = request.number /\ request.number # 0
    BY <1>1 DEF Asking, Requests
  <1> QED BY <1>1, <1>2, NoRequestFields DEF Asking

\* What a status is to a request.
StatusKept == request' = NoRequest /\ verdict' = verdict
StatusEarlier(tx) ==
    /\ request.id = 0 /\ IsEarlier(tx)
    /\ request' = Heard /\ verdict' = verdict
StatusOwn(tx) ==
    /\ tx.file = request.file
    /\ IF request.id = 0 THEN tx.id # request.baseline ELSE tx.id = request.id
StatusFollowed(tx) ==
    /\ StatusOwn(tx) /\ request' = [Heard EXCEPT !.id = tx.id] /\ verdict' = verdict
StatusConcluded(tx) ==
    /\ ~(request.id = 0 /\ tx.id = request.baseline)
    /\ \/ Conclude("Failed", 0)
       \/ StatusOwn(tx) /\ tx.state \in Final /\ Conclude(tx.state, tx.id)

LEMMA StatusStep ==
    ASSUME Types, ReadStatus
    PROVE  LET tx == Head(toPc).tx
           IN  \/ request = NoRequest /\ StatusKept
               \/ /\ request # NoRequest
                  /\ StatusEarlier(tx) \/ StatusFollowed(tx) \/ StatusConcluded(tx)
  <1> DEFINE tx == Head(toPc).tx
  <1>0. Read("status") /\ tx \in Reports /\ tx.id \in Nat
    BY StatusHead DEF ReadStatus, Reports
  <1>1. CASE request = NoRequest
    BY <1>1 DEF ReadStatus, StatusKept
  <1>2. CASE request # NoRequest /\ request.id = 0 /\ IsEarlier(tx)
    BY <1>2 DEF ReadStatus, StatusEarlier
  <1>3. CASE request # NoRequest /\ ~(request.id = 0 /\ IsEarlier(tx))
    <2>1. IF IsAnother(tx) THEN Conclude("Failed", 0)
          ELSE IF tx.state \in Final THEN Conclude(tx.state, tx.id)
          ELSE request' = [Heard EXCEPT !.id = tx.id] /\ verdict' = verdict
      BY <1>3 DEF ReadStatus
    <2>2. ~(request.id = 0 /\ tx.id = request.baseline)
      BY <1>3 DEF IsEarlier
    <2>3. ~IsAnother(tx) => StatusOwn(tx)
      BY <2>2 DEF IsAnother, StatusOwn
    <2>4. CASE IsAnother(tx)
      BY <1>3, <2>1, <2>2, <2>4 DEF StatusConcluded
    <2>5. CASE ~IsAnother(tx) /\ tx.state \in Final
      BY <1>3, <2>1, <2>2, <2>3, <2>5 DEF StatusConcluded
    <2>6. CASE ~IsAnother(tx) /\ tx.state \notin Final
      BY <1>3, <2>1, <2>3, <2>6 DEF StatusFollowed
    <2> QED BY <2>4, <2>5, <2>6
  <1> QED BY <1>1, <1>2, <1>3

\* A status the PC takes for its own transmission's is newer than what it had been
\* shown when it asked.
LEMMA OwnIsNew ==
    ASSUME Types, Copies, News, ReadStatus, request # NoRequest
    PROVE  LET tx == Head(toPc).tx
           IN  /\ tx \in Reports /\ tx.id \in Nat /\ tx.id >= request.baseline
               /\ Past(tx, report, sent)
               /\ StatusOwn(tx) => tx.id > request.baseline
  <1> DEFINE tx == Head(toPc).tx
  <1>1. /\ Read("status") /\ tx \in Reports /\ tx.id \in Nat /\ Head(toPc) = toPc[1]
        /\ 1 \in 1..Len(toPc) /\ toPc[1].name = "status"
    BY StatusHead DEF ReadStatus, Reports
  <1>2. lastTxId \in Nat /\ request.baseline \in Nat /\ request.id \in Nat
    BY RequestFields DEF Types, PcTypes
  <1>3. Past(tx, report, sent) /\ lastTxId <= tx.id
    BY <1>1 DEF Copies
  <1>4. tx.id >= request.baseline
    BY <1>1, <1>2, <1>3 DEF News
  <1>5. StatusOwn(tx) => tx.id > request.baseline
    BY <1>1, <1>2, <1>4 DEF News, StatusOwn
  <1> QED BY <1>1, <1>3, <1>4, <1>5

LEMMA FollowedFields ==
    ASSUME Types, request # NoRequest, NEW id \in Nat
    PROVE  LET r == [Heard EXCEPT !.id = id]
           IN  /\ r.number = request.number /\ r.baseline = request.baseline
               /\ r.file = request.file /\ r.id = id /\ r # NoRequest
               /\ r.heard <=> "TXHEX" \notin pending
  <1> DEFINE r == [Heard EXCEPT !.id = id]
  <1>1. Heard \in Asking
    BY RequestType
  <1>2. /\ r.number = Heard.number /\ r.baseline = Heard.baseline /\ r.file = Heard.file
        /\ r.id = id /\ r.heard = Heard.heard /\ Heard.number \in Requests
    BY <1>1 DEF Asking
  <1>3. r.number # 0
    BY <1>2 DEF Requests
  <1> QED BY <1>2, <1>3, HeardFields, NoRequestFields

LEMMA NewsNext ==
    ASSUME MonitorAssumption, Types, Copies, News, MonitorNext
    PROVE  News'
  <1>0. /\ lastTxId \in Nat /\ request.baseline \in Nat /\ request.id \in Nat
    BY RequestFields DEF Types, PcTypes
  <1>1. CASE request' = request /\ lastTxId' = lastTxId
    BY <1>1 DEF News
  <1>2. CASE request' = NoRequest
    BY <1>2 DEF News
  <1>3. CASE RequestTx
    <2>1. lastTxId' = lastTxId /\ request'.baseline = lastTxId /\ request'.id = 0
      BY <1>3 DEF RequestTx
    <2> QED BY <1>0, <2>1 DEF News
  <1>4. CASE ReadUnavailable
    <2>1. lastTxId' = lastTxId /\ request' = Heard
      BY <1>4 DEF ReadUnavailable
    <2>2. CASE request = NoRequest
      BY <1>1, <2>1, <2>2, HeardNone
    <2>3. CASE request # NoRequest
      BY <2>1, <2>3, HeardFields DEF News
    <2> QED BY <2>2, <2>3
  <1>5. CASE ReadStatus /\ request # NoRequest
    <2> DEFINE tx == Head(toPc).tx
    <2>1. /\ lastTxId' = tx.id /\ tx.id \in Nat /\ tx.id >= request.baseline
          /\ StatusOwn(tx) => tx.id > request.baseline
      BY <1>5, OwnIsNew DEF ReadStatus
    <2>2. CASE StatusEarlier(tx)
      <3>1. request'.id = 0 /\ request'.baseline = request.baseline
        BY <1>5, <2>2, HeardFields DEF StatusEarlier
      <3> QED BY <2>1, <3>1 DEF News
    <2>3. CASE StatusFollowed(tx)
      <3>1. request'.id = tx.id /\ request'.baseline = request.baseline
        BY <1>5, <2>1, <2>3, FollowedFields DEF StatusFollowed
      <3> QED BY <2>1, <2>3, <3>1 DEF News, StatusFollowed
    <2>4. CASE StatusConcluded(tx)
      BY <1>2, <2>4 DEF StatusConcluded, Conclude
    <2> QED BY <1>5, <2>2, <2>3, <2>4, StatusStep
  <1>6. CASE ReadStatus /\ request = NoRequest
    BY <1>2, <1>6, StatusStep DEF StatusKept
  <1>7. CASE Disconnect
    BY <1>2, <1>7 DEF Disconnect, Conclude
  <1>8. CASE ReadRefused
    BY <1>1, <1>2, <1>8 DEF ReadRefused, Conclude
  <1>9. CASE ProgressTimeout
    BY <1>2, <1>9 DEF ProgressTimeout, Conclude
  <1>10. CASE Commands \/ Worker \/ OtherTx \/ OtherStop \/ Poll \/ AskStop \/ ReadAccepted
    <2>1. request' = request /\ lastTxId' = lastTxId
      BY <1>10 DEF Commands, AcceptTx, RefuseTx, BeginStatus, EndStatus, BeginStop, EndStop,
                   Worker, TakeRadio, StartPass, EndPass, GiveRadio, Account, OtherTx,
                   OtherStop, Poll, AskStop, ReadAccepted, pc
    <2> QED BY <1>1, <2>1
  <1> QED BY <1>3, <1>4, <1>5, <1>6, <1>7, <1>8, <1>9, <1>10 DEF MonitorNext, Reading

-----------------------------------------------------------------------------
(* Nobody else transmits.                                                  *)

\* The report is of one transmission until the PC's own is accepted.
LEMMA AloneReport ==
    ASSUME MonitorAssumption, Types, OneWriter, Copies, OwnLoop, MonitorNext, Alone'
    PROVE  \/ AcceptTx
           \/ report'.id = report.id /\ report'.file = report.file /\ report'.by = report.by
  <1>1. Alone /\ ~OtherTx
    BY AloneBefore
  <1>2. report.id = ids /\ report'.id = ids' /\ ids \in Nat
    BY ReportStep DEF Copies, Types, BoardTypes
  <1>3. CASE TakeRadio
    <2>1. ~NeedsReport
      BY <1>1, <1>3 DEF TakeRadio, OwnLoop, NeedsReport
    <2> QED BY <1>3, <2>1 DEF TakeRadio
  <1>4. CASE ids' = ids
    BY <1>2, <1>4, ReportStep
  <1>5. CASE RefuseTx \/ BeginStatus \/ EndStatus \/ BeginStop \/ EndStop \/ StartPass \/ EndPass
             \/ GiveRadio \/ Account \/ OtherStop \/ Reading \/ RequestTx \/ Poll \/ AskStop
             \/ ProgressTimeout \/ Disconnect
    <2>1. ids' = ids
      BY <1>5 DEF RefuseTx, BeginStatus, EndStatus, BeginStop, EndStop, StartPass, EndPass,
                  GiveRadio, Account, OtherStop, Reading, ReadAccepted, ReadRefused,
                  ReadUnavailable, ReadStatus, RequestTx, Poll, AskStop, ProgressTimeout,
                  Disconnect, board
    <2> QED BY <1>4, <2>1
  <1> QED BY <1>1, <1>3, <1>5 DEF MonitorNext, Commands, Worker

LEMMA OwnLoopNext ==
    ASSUME MonitorAssumption, Types, OneWriter, Copies, OwnLoop, MonitorNext
    PROVE  OwnLoop'
  <1> SUFFICES ASSUME Alone', loop' # NoLoop
               PROVE  /\ loop'.left = 1 /\ loop'.file = report'.file
                      /\ loop'.by = report'.by
                      /\ worker' = "idle" => report'.state = "Preparing"
    BY DEF OwnLoop
  <1>1. /\ Alone /\ ~OtherTx /\ ~OtherStop
        /\ Account => loop' = IF worker = "failed" \/ stop \/ loop.left = 1 THEN NoLoop
                              ELSE [loop EXCEPT !.left = @ - 1]
    BY AloneBefore
  <1>2. CASE AcceptTx
    <2>1. PICK f, b : Queue(f, 1, b)
      BY <1>2 DEF AcceptTx
    <2>2. loop' = [file |-> f, left |-> 1, by |-> b] /\ report' = Prepared(f, b)
      BY <2>1 DEF Queue
    <2> QED BY <2>2 DEF Prepared
  <1>3. CASE Account
    <2>1. loop # NoLoop
      BY <1>3 DEF Account, OneWriter
    <2>2. loop.left = 1
      BY <1>1, <2>1 DEF OwnLoop
    <2> QED BY <1>1, <1>3, <2>2
  <1>4. CASE ~AcceptTx /\ loop' = loop
    <2>1. report'.file = report.file /\ report'.by = report.by
      BY <1>4, AloneReport
    <2>2. CASE worker' # "idle"
      BY <1>1, <1>4, <2>1, <2>2 DEF OwnLoop
    <2>3. CASE report' = report /\ worker' = worker
      BY <1>1, <1>4, <2>3 DEF OwnLoop
    <2>4. CASE EndStatus
      BY <2>3, <2>4 DEF EndStatus, OneWriter
    <2>5. CASE TakeRadio \/ StartPass \/ EndPass
      BY <2>2, <2>5 DEF TakeRadio, StartPass, EndPass
    <2>6. CASE RefuseTx \/ BeginStatus \/ BeginStop \/ EndStop \/ GiveRadio \/ Reading
               \/ RequestTx \/ Poll \/ AskStop \/ ProgressTimeout \/ Disconnect
      <3>1. report' = report /\ worker' = worker
        BY <2>6 DEF RefuseTx, BeginStatus, BeginStop, EndStop, GiveRadio, Reading, ReadAccepted,
                    ReadRefused, ReadUnavailable, ReadStatus, RequestTx, Poll, AskStop,
                    ProgressTimeout, Disconnect, board
      <3> QED BY <2>3, <3>1
    <2> QED BY <1>1, <1>3, <1>4, <2>4, <2>5, <2>6 DEF MonitorNext, Commands, Worker
  <1>5. CASE ~AcceptTx /\ ~Account
    <2>1. loop' = loop
      BY <1>1, <1>5 DEF MonitorNext, Commands, RefuseTx, BeginStatus, EndStatus, BeginStop, EndStop,
                        Worker, TakeRadio, StartPass, EndPass, GiveRadio, Reading, ReadAccepted,
                        ReadRefused, ReadUnavailable, ReadStatus, RequestTx, Poll, AskStop,
                        ProgressTimeout, Disconnect, board
    <2> QED BY <1>4, <1>5, <2>1
  <1> QED BY <1>2, <1>3, <1>5

\* The answer to TXHEX is the only one, and the PC awaits it.
LEMMA TxAnswer ==
    ASSUME Types, OneOfEach, NEW i \in 1..Len(toPc), toPc[i].name \in {"OkTxHex", "ErrTxHex"}
    PROVE  /\ "TXHEX" \in pending
           /\ \A j \in 1..Len(toPc) : toPc[j].name \in {"OkTxHex", "ErrTxHex"} => j = i
           /\ \A j \in 1..Len(toBoard) : toBoard[j].name # "TXHEX"
  <1>1. \A j \in 1..Len(toPc) : toPc[j] \in Lines
    BY DEF Types, LinkTypes
  <1>2. \A j \in 1..Len(toPc) : toPc[j].name \in {"OkTxHex", "ErrTxHex"} => Kind(toPc[j]) = "TXHEX"
    BY <1>1, LineNames
  <1>3. Kind(toPc[i]) = "TXHEX"
    BY <1>2
  <1> QED BY <1>2, <1>3 DEF OneOfEach

\* The head of the commands, when it is TXHEX.
LEMMA TxCommand ==
    ASSUME Types, OneOfEach, Dispatch("TXHEX")
    PROVE  /\ "TXHEX" \in pending /\ ~Accepted
           /\ Head(toBoard) = toBoard[1] /\ 1 \in 1..Len(toBoard)
           /\ toBoard[1].name = "TXHEX"
  <1>1. toBoard \in Seq(Asked) /\ toBoard # <<>> /\ Head(toBoard).name = "TXHEX"
    BY DEF Types, LinkTypes, Dispatch
  <1>2. Head(toBoard) = toBoard[1] /\ Len(toBoard) \in Nat \ {0}
    BY <1>1, TailOf
  <1>3. toBoard[1].name = "TXHEX" /\ 1 \in 1..Len(toBoard)
    BY <1>1, <1>2
  <1>4. "TXHEX" \in pending
    BY <1>3 DEF OneOfEach
  <1>5. ~Accepted
    BY <1>3, TxAnswer DEF Accepted
  <1> QED BY <1>2, <1>3, <1>4, <1>5

\* The number the PC has given its request comes with the command.
LEMMA OwnAccepted ==
    ASSUME Types, OneOfEach, OwnRequest, Alone, AcceptTx
    PROVE  /\ report'.by = request.number /\ report.id = request.baseline
           /\ request # NoRequest /\ ~request.heard /\ request.id = 0
           /\ toPc' = Append(toPc, [name |-> "OkTxHex"]) /\ command.name # "STATUS"
           /\ Accepted'
  <1>1. Dispatch("TXHEX") /\ toPc' = Append(toPc, [name |-> "OkTxHex"]) /\ command = NoCommand
    BY DEF AcceptTx, Answer, Dispatch
  <1>2. /\ "TXHEX" \in pending /\ ~Accepted /\ Head(toBoard) = toBoard[1]
        /\ 1 \in 1..Len(toBoard) /\ toBoard[1].name = "TXHEX"
    BY <1>1, TxCommand
  <1>3. toBoard[1].number = request.number
    BY <1>2 DEF OwnRequest
  <1>4. report'.by = Head(toBoard).number
    BY DEF AcceptTx, Queue, Prepared
  <1>5. Accepted'
    <2>1. toPc \in Seq(Lines) /\ Len(toPc) \in Nat
      BY DEF Types, LinkTypes
    <2>2. Len(toPc') = Len(toPc) + 1 /\ toPc'[Len(toPc) + 1] = [name |-> "OkTxHex"]
      BY <1>1, <2>1, AppendOf, ResultLines
    <2>3. Len(toPc) + 1 \in 1..Len(toPc') /\ toPc'[Len(toPc) + 1].name = "OkTxHex"
      BY <2>1, <2>2
    <2> QED BY <2>3 DEF Accepted
  <1> QED BY <1>1, <1>2, <1>3, <1>4, <1>5, NoHolder DEF OwnRequest

\* A status that is read while TXHEX is awaited is one of before, and is told so by
\* its id.
LEMMA EarlierWhileAwaited ==
    ASSUME Types, OneOfEach, Current, OwnRequest, Alone, ReadStatus, "TXHEX" \in pending
    PROVE  /\ request # NoRequest
           /\ StatusEarlier(Head(toPc).tx)
  <1> DEFINE tx == Head(toPc).tx
  <1>1. request # NoRequest /\ request.id = 0 /\ (report.id = request.baseline \/ Accepted)
    BY DEF OwnRequest
  <1>2. Read("status") /\ Head(toPc) = toPc[1] /\ 1 \in 1..Len(toPc) /\ toPc[1].name = "status"
    BY StatusHead DEF ReadStatus
  <1>3. IF AcceptedBehind(1) THEN tx.id = request.baseline ELSE tx.id = report.id
    BY <1>2 DEF Current
  <1>4. Accepted => AcceptedBehind(1)
    <2>1. \A i \in 1..Len(toPc) : i \in 1 + 1..Len(toPc) \/ i = 1
      BY <1>2
    <2> QED BY <1>2, <2>1 DEF Accepted, AcceptedBehind
  <1>5. tx.id = request.baseline
    BY <1>1, <1>3, <1>4
  <1> QED BY <1>1, <1>5, StatusStep DEF StatusFollowed, StatusOwn, StatusConcluded

\* The answer to TXHEX stays where it is until it is read.
LEMMA AcceptedStays ==
    ASSUME Types, MonitorNext, Accepted, ~Disconnect
    PROVE  Accepted' \/ (ReadAccepted /\ Head(toPc).name = "OkTxHex")
  <1>0. toPc \in Seq(Lines) /\ Len(toPc) \in Nat
    BY DEF Types, LinkTypes
  <1>1. PICK i \in 1..Len(toPc) : toPc[i].name = "OkTxHex"
    BY DEF Accepted
  <1>2. CASE toPc' = toPc
    BY <1>1, <1>2 DEF Accepted
  <1>3. CASE \E l \in Lines : toPc' = Append(toPc, l)
    <2>1. i \in 1..Len(toPc') /\ toPc'[i] = toPc[i]
      BY <1>0, <1>3, AppendOf
    <2> QED BY <1>1, <2>1 DEF Accepted
  <1>4. CASE Reading
    <2>1. toPc # <<>> /\ toPc' = Tail(toPc)
      BY <1>4 DEF Reading, ReadAccepted, ReadRefused, ReadUnavailable, ReadStatus, Read
    <2>2. /\ Head(toPc) = toPc[1] /\ Len(toPc') = Len(toPc) - 1
          /\ \A j \in 1..Len(toPc) - 1 : toPc'[j] = toPc[j + 1]
      BY <1>0, <2>1, TailOf
    <2>3. CASE i = 1
      <3>1. Head(toPc).name = "OkTxHex"
        BY <1>1, <2>2, <2>3
      <3> QED BY <1>4, <3>1 DEF Reading, ReadAccepted, ReadRefused, ReadUnavailable, ReadStatus,
                                Read
    <2>4. CASE i # 1
      <3>1. i - 1 \in 1..Len(toPc') /\ toPc'[i - 1] = toPc[(i - 1) + 1] /\ (i - 1) + 1 = i
        BY <1>0, <2>2, <2>4
      <3>2. toPc'[i - 1].name = "OkTxHex"
        BY <1>1, <3>1
      <3> QED BY <3>1, <3>2 DEF Accepted
    <2> QED BY <2>3, <2>4
  <1>5. CASE AcceptTx \/ RefuseTx \/ EndStop
    BY <1>2, <1>3, <1>5, ResultLines DEF AcceptTx, RefuseTx, EndStop, Reply, Answer
  <1>6. CASE EndStatus
    <2>1. command.name = "STATUS"
      BY <1>6 DEF EndStatus
    <2> QED BY <1>2, <1>3, <1>6, <2>1, StatusLine DEF EndStatus, Reply, Answer
  <1>7. CASE BeginStatus \/ BeginStop \/ Worker \/ OtherTx \/ OtherStop \/ RequestTx \/ Poll
             \/ AskStop \/ ProgressTimeout
    <2>1. toPc' = toPc
      BY <1>7 DEF BeginStatus, BeginStop, Worker, TakeRadio, StartPass, EndPass, GiveRadio,
                  Account, OtherTx, OtherStop, RequestTx, Poll, AskStop, ProgressTimeout
    <2> QED BY <1>2, <2>1
  <1> QED BY <1>4, <1>5, <1>6, <1>7 DEF MonitorNext, Commands

\* The request a status on its way may have to be told from is there until the
\* answer to TXHEX has been read.
LEMMA BaselineStep ==
    ASSUME MonitorAssumption, Types, OneOfEach, Current, OwnRequest, MonitorNext, Alone,
           Accepted, ~ReadStatus, ~Disconnect
    PROVE  request'.baseline = request.baseline
  <1>1. PICK i \in 1..Len(toPc) : toPc[i].name = "OkTxHex"
    BY DEF Accepted
  <1>2. /\ "TXHEX" \in pending
        /\ \A j \in 1..Len(toPc) : toPc[j].name # "ErrTxHex"
    BY <1>1, TxAnswer
  <1>3. request # NoRequest /\ ~request.heard
    BY <1>2 DEF OwnRequest
  <1>4. ~RequestTx /\ ~ProgressTimeout
    BY <1>3 DEF RequestTx, ProgressTimeout
  <1>5. ~ReadRefused
    <2>1. toPc \in Seq(Lines)
      BY DEF Types, LinkTypes
    <2>2. toPc # <<>> => Head(toPc) = toPc[1] /\ 1 \in 1..Len(toPc)
      BY <2>1, TailOf
    <2> QED BY <1>2, <2>2 DEF ReadRefused, Read
  <1>6. CASE ReadUnavailable
    BY <1>3, <1>6, HeardFields DEF ReadUnavailable
  <1>7. CASE Commands \/ Worker \/ OtherTx \/ OtherStop \/ Poll \/ AskStop \/ ReadAccepted
    <2>1. request' = request
      BY <1>7 DEF Commands, AcceptTx, RefuseTx, BeginStatus, EndStatus, BeginStop, EndStop,
                  Worker, TakeRadio, StartPass, EndPass, GiveRadio, Account, OtherTx,
                  OtherStop, Poll, AskStop, ReadAccepted, pc
    <2> QED BY <2>1
  <1> QED BY <1>4, <1>5, <1>6, <1>7 DEF MonitorNext, Reading

LEMMA CurrentNext ==
    ASSUME MonitorAssumption, Types, OneOfEach, OneWriter, Copies, OwnLoop, Current,
           OwnRequest, MonitorNext
    PROVE  Current'
  <1> SUFFICES ASSUME Alone'
               PROVE  /\ command'.name = "STATUS" => command'.copy.id = report'.id
                      /\ \A i \in 1..Len(toPc') : toPc'[i].name = "status" =>
                            IF AcceptedBehind(i)' THEN toPc'[i].tx.id = request'.baseline
                                                  ELSE toPc'[i].tx.id = report'.id
    BY DEF Current
  <1>0. Alone /\ toPc \in Seq(Lines) /\ Len(toPc) \in Nat /\ command \in Holders
    BY AloneBefore DEF Types, BoardTypes, LinkTypes
  <1>1. CASE AcceptTx
    <2>1. /\ report.id = request.baseline /\ toPc' = Append(toPc, [name |-> "OkTxHex"])
          /\ command.name # "STATUS" /\ request' = request /\ command' = command
      BY <1>0, <1>1, OwnAccepted DEF AcceptTx, Queue, pc
    <2>2. ~Accepted
      BY <1>1, TxCommand DEF AcceptTx
    <2>3. /\ Len(toPc') = Len(toPc) + 1 /\ toPc'[Len(toPc) + 1] = [name |-> "OkTxHex"]
          /\ \A i \in 1..Len(toPc) : toPc'[i] = toPc[i]
      BY <1>0, <2>1, AppendOf, ResultLines
    <2>4. ASSUME NEW i \in 1..Len(toPc'), toPc'[i].name = "status"
          PROVE  toPc'[i].tx.id = request'.baseline /\ AcceptedBehind(i)'
      <3>1. toPc'[Len(toPc) + 1].name = "OkTxHex"
        BY <2>3
      <3>2. i \in 1..Len(toPc) /\ toPc'[i] = toPc[i]
        BY <1>0, <2>3, <2>4, <3>1
      <3>3. Len(toPc) + 1 \in i + 1..Len(toPc')
        BY <1>0, <2>3, <3>2
      <3>4. AcceptedBehind(i)'
        BY <3>1, <3>3 DEF AcceptedBehind
      <3>5. ~AcceptedBehind(i)
        <4>1. \A j \in i + 1..Len(toPc) : j \in 1..Len(toPc)
          BY <1>0, <3>2
        <4> QED BY <2>2, <4>1 DEF Accepted, AcceptedBehind
      <3>6. toPc[i].tx.id = report.id
        BY <1>0, <2>4, <3>2, <3>5 DEF Current
      <3> QED BY <2>1, <3>2, <3>4, <3>6
    <2> QED BY <2>1, <2>4
  <1>2. CASE ~AcceptTx
    <2>1. report'.id = report.id
      BY <1>2, AloneReport
    <2>2. command'.name = "STATUS" => command'.copy.id = report'.id
      BY <1>0, <2>1, CommandStep DEF Current
    <2>3. CASE ReadStatus
      BY <2>2, <2>3, OnlyStatus DEF ReadStatus
    <2>4. CASE toPc' = <<>>
      BY <2>2, <2>4
    <2>5. CASE ~ReadStatus /\ toPc' # <<>>
      <3>0. ~Disconnect
        BY <2>5 DEF Disconnect
      <3>1. Accepted => request'.baseline = request.baseline
        BY <1>0, <2>5, <3>0, BaselineStep
      <3>2. \A i \in 1..Len(toPc) : AcceptedBehind(i) => Accepted
        <4>1. \A i \in 1..Len(toPc) : \A j \in i + 1..Len(toPc) : j \in 1..Len(toPc)
          BY <1>0
        <4> QED BY <4>1 DEF Accepted, AcceptedBehind
      <3>3. \A i \in 1..Len(toPc) : toPc[i].name = "status" =>
               IF AcceptedBehind(i) THEN toPc[i].tx.id = request'.baseline
                                    ELSE toPc[i].tx.id = report'.id
        BY <1>0, <2>1, <3>1, <3>2 DEF Current
      <3>4. CASE toPc' = toPc
        BY <2>2, <3>3, <3>4 DEF AcceptedBehind
      <3>5. ASSUME NEW l \in Lines, toPc' = Append(toPc, l), l.name # "OkTxHex",
                   l.name = "status" => l.tx.id = report.id
            PROVE  \A i \in 1..Len(toPc') : toPc'[i].name = "status" =>
                      IF AcceptedBehind(i)' THEN toPc'[i].tx.id = request'.baseline
                                            ELSE toPc'[i].tx.id = report'.id
        <4>1. /\ Len(toPc') = Len(toPc) + 1 /\ toPc'[Len(toPc) + 1] = l
              /\ \A i \in 1..Len(toPc) : toPc'[i] = toPc[i]
          BY <1>0, <3>5, AppendOf
        <4>2. \A i \in 1..Len(toPc) : AcceptedBehind(i)' <=> AcceptedBehind(i)
          <5>1. ASSUME NEW i \in 1..Len(toPc)
                PROVE  AcceptedBehind(i)' <=> AcceptedBehind(i)
            <6>1. \A j \in i + 1..Len(toPc) : j \in i + 1..Len(toPc') /\ toPc'[j] = toPc[j]
              BY <1>0, <4>1
            <6>2. \A j \in i + 1..Len(toPc') : j \in i + 1..Len(toPc) \/ toPc'[j] = l
              BY <1>0, <4>1
            <6> QED BY <3>5, <6>1, <6>2 DEF AcceptedBehind
          <5> QED BY <5>1
        <4>3. ASSUME NEW i \in 1..Len(toPc'), i = Len(toPc) + 1
              PROVE  ~AcceptedBehind(i)'
          <5>1. ~\E j \in i + 1..Len(toPc') : TRUE
            BY <1>0, <4>1, <4>3
          <5> QED BY <5>1 DEF AcceptedBehind
        <4>4. \A i \in 1..Len(toPc') : i \in 1..Len(toPc) \/ i = Len(toPc) + 1
          BY <1>0, <4>1
        <4> SUFFICES ASSUME NEW i \in 1..Len(toPc'), toPc'[i].name = "status"
                     PROVE  IF AcceptedBehind(i)' THEN toPc'[i].tx.id = request'.baseline
                                                  ELSE toPc'[i].tx.id = report'.id
          OBVIOUS
        <4>5. CASE i \in 1..Len(toPc)
          <5>1. toPc'[i] = toPc[i] /\ (AcceptedBehind(i)' <=> AcceptedBehind(i))
            BY <4>1, <4>2, <4>5
          <5> QED BY <3>3, <4>5, <5>1
        <4>6. CASE i = Len(toPc) + 1
          <5>1. toPc'[i].tx.id = report'.id
            BY <2>1, <3>5, <4>1, <4>6
          <5>2. ~AcceptedBehind(i)'
            BY <4>3, <4>6
          <5> QED BY <5>1, <5>2
        <4> QED BY <4>4, <4>5, <4>6
      <3>6. CASE \E l \in Results : l.name # "OkTxHex" /\ toPc' = Append(toPc, l)
        <4>1. \A l \in Results : l \in Lines /\ l.name # "status"
          BY DEF Lines, Results
        <4> QED BY <2>2, <3>5, <3>6, <4>1
      <3>7. CASE EndStatus
        <4>1. command.name = "STATUS" /\ command.copy.id = report.id
          BY <1>0, <3>7 DEF EndStatus, Current
        <4>2. PICK l \in Lines : l.name = "status" /\ l.tx = command.copy /\ Reply(l)
          BY <3>7, <4>1, StatusLine DEF EndStatus
        <4> QED BY <2>2, <3>4, <3>5, <4>1, <4>2 DEF Reply, Answer
      <3>8. CASE toPc # <<>> /\ toPc' = Tail(toPc)
        <4>1. /\ Len(toPc') = Len(toPc) - 1
              /\ \A i \in 1..Len(toPc') : i + 1 \in 1..Len(toPc) /\ toPc'[i] = toPc[i + 1]
          BY <1>0, <3>8, TailOf
        <4>2. \A i \in 1..Len(toPc') : AcceptedBehind(i)' <=> AcceptedBehind(i + 1)
          <5>1. ASSUME NEW i \in 1..Len(toPc')
                PROVE  AcceptedBehind(i)' <=> AcceptedBehind(i + 1)
            <6>1. \A j \in i + 1..Len(toPc') :
                     j + 1 \in (i + 1) + 1..Len(toPc) /\ toPc'[j] = toPc[j + 1]
              BY <1>0, <4>1
            <6>2. \A j \in (i + 1) + 1..Len(toPc) :
                     j - 1 \in i + 1..Len(toPc') /\ toPc'[j - 1] = toPc[j]
              <7>1. \A j \in (i + 1) + 1..Len(toPc) :
                       /\ j - 1 \in i + 1..Len(toPc') /\ j - 1 \in 1..Len(toPc')
                       /\ (j - 1) + 1 = j
                BY <1>0, <4>1
              <7> QED BY <4>1, <7>1
            <6> QED BY ZenonT(30), <6>1, <6>2 DEF AcceptedBehind
          <5> QED BY <5>1
        <4> QED BY <2>2, <3>3, <4>1, <4>2
      <3>9. \/ toPc' = toPc \/ EndStatus
            \/ \E l \in Results : l.name # "OkTxHex" /\ toPc' = Append(toPc, l)
            \/ toPc # <<>> /\ toPc' = Tail(toPc)
        <4>1. CASE RefuseTx
          BY <4>1 DEF RefuseTx, Answer, Results
        <4>2. CASE EndStop
          BY <4>2 DEF EndStop, Reply, Answer, Results
        <4>3. CASE Reading
          BY <4>3 DEF Reading, ReadAccepted, ReadRefused, ReadUnavailable, ReadStatus, Read
        <4>4. CASE BeginStatus \/ BeginStop \/ Worker \/ OtherTx \/ OtherStop \/ RequestTx
                   \/ Poll \/ AskStop \/ ProgressTimeout
          BY <4>4 DEF BeginStatus, BeginStop, Worker, TakeRadio, StartPass, EndPass, GiveRadio,
                      Account, OtherTx, OtherStop, RequestTx, Poll, AskStop, ProgressTimeout
        <4> QED BY <1>2, <3>0, <4>1, <4>2, <4>3, <4>4 DEF MonitorNext, Commands
      <3> QED BY <2>2, <3>4, <3>6, <3>7, <3>8, <3>9
    <2> QED BY <2>3, <2>4, <2>5
  <1> QED BY <1>1, <1>2

LEMMA UpToDateNext ==
    ASSUME MonitorAssumption, Types, OneOfEach, OneWriter, Copies, OwnLoop, Current, UpToDate,
           OwnRequest, MonitorNext
    PROVE  UpToDate'
  <1> SUFFICES ASSUME Alone', shown' # "Unknown"
               PROVE  \/ lastTxId' = report'.id
                      \/ Accepted'
                      \/ request' # NoRequest /\ ~request'.heard /\ "TXHEX" \notin pending'
    BY DEF UpToDate
  <1>0. Alone /\ toPc \in Seq(Lines) /\ Len(toPc) \in Nat
    BY AloneBefore DEF Types, LinkTypes
  <1>1. CASE AcceptTx
    BY <1>0, <1>1, OwnAccepted
  <1>2. CASE ReadStatus
    <2>1. /\ Head(toPc) = toPc[1] /\ 1 \in 1..Len(toPc) /\ toPc[1].name = "status"
          /\ toPc # <<>> /\ lastTxId' = toPc[1].tx.id /\ toPc' = Tail(toPc)
          /\ report' = report
      BY <1>2, StatusHead DEF ReadStatus, Read, board
    <2>2. CASE AcceptedBehind(1)
      <3>1. Accepted
        <4>1. \A j \in 1 + 1..Len(toPc) : j \in 1..Len(toPc)
          BY <1>0
        <4> QED BY <2>2, <4>1 DEF Accepted, AcceptedBehind
      <3>2. ~Disconnect
        BY <1>2, <2>1 DEF Disconnect, ReadStatus, StatusHead
      <3> QED BY <1>2, <2>1, <3>1, <3>2, AcceptedStays
    <2>3. CASE ~AcceptedBehind(1)
      BY <1>0, <2>1, <2>3 DEF Current
    <2> QED BY <2>2, <2>3
  <1>3. CASE ReadUnavailable \/ Disconnect
    BY <1>3 DEF ReadUnavailable, Disconnect
  <1>4. CASE ~AcceptTx /\ ~ReadStatus /\ ~ReadUnavailable /\ ~Disconnect
    <2>1. report'.id = report.id
      BY <1>4, AloneReport
    <2>2. lastTxId' = lastTxId /\ shown' = shown
      BY <1>4 DEF MonitorNext, Commands, RefuseTx, BeginStatus, EndStatus, BeginStop, EndStop, Worker,
                  TakeRadio, StartPass, EndPass, GiveRadio, Account, OtherTx, OtherStop,
                  Reading, ReadAccepted, ReadRefused, RequestTx, Poll, AskStop,
                  ProgressTimeout, Conclude, pc
    <2>3. CASE lastTxId = report.id
      BY <2>1, <2>2, <2>3
    <2>4. CASE Accepted
      <3>1. CASE Accepted'
        BY <3>1
      <3>2. CASE ReadAccepted /\ Head(toPc).name = "OkTxHex"
        <4>1. "TXHEX" \in pending
          BY <2>4, TxAnswer DEF Accepted
        <4>2. request # NoRequest /\ ~request.heard
          BY <1>0, <4>1 DEF OwnRequest
        <4>3. request' = request /\ "TXHEX" \notin pending'
          BY <3>2 DEF ReadAccepted
        <4> QED BY <4>2, <4>3
      <3> QED BY <1>4, <2>4, <3>1, <3>2, AcceptedStays
    <2>5. CASE ~Accepted /\ request # NoRequest /\ ~request.heard /\ "TXHEX" \notin pending
      <3>1. ~RequestTx /\ ~ProgressTimeout
        BY <2>5 DEF RequestTx, ProgressTimeout
      <3>2. ~ReadRefused
        <4>1. toPc # <<>> => Head(toPc) = toPc[1] /\ 1 \in 1..Len(toPc)
          BY <1>0, TailOf
        <4> QED BY <2>5, <4>1, TxAnswer DEF ReadRefused, Read
      <3>3. request' = request /\ "TXHEX" \notin pending'
        BY <1>4, <2>5, <3>1, <3>2
           DEF MonitorNext, Commands, RefuseTx, BeginStatus, EndStatus, BeginStop, EndStop, Worker,
               TakeRadio, StartPass, EndPass, GiveRadio, Account, OtherTx, OtherStop,
               Reading, ReadAccepted, Poll, AskStop, Send, pc
      <3> QED BY <2>5, <3>3
    <2> QED BY <1>0, <2>2, <2>3, <2>4, <2>5 DEF UpToDate
  <1> QED BY <1>1, <1>2, <1>3, <1>4

LEMMA OwnRequestNext ==
    ASSUME MonitorAssumption, Types, OneOfEach, OneWriter, Copies, OwnLoop, Current, UpToDate,
           OwnRequest, MonitorNext
    PROVE  OwnRequest'
  <1> DEFINE New == /\ request' # NoRequest =>
                          report'.id = request'.baseline \/ report'.by = request'.number
                    /\ "TXHEX" \in pending' =>
                          /\ request' # NoRequest /\ ~request'.heard /\ request'.id = 0
                          /\ report'.id = request'.baseline \/ Accepted'
                    /\ \A i \in 1..Len(toBoard') : toBoard'[i].name = "TXHEX" =>
                          toBoard'[i].number = request'.number
  <1> SUFFICES ASSUME Alone' PROVE New
    BY DEF OwnRequest
  <1>0. /\ Alone /\ toPc \in Seq(Lines) /\ Len(toPc) \in Nat
        /\ toBoard \in Seq(Asked) /\ Len(toBoard) \in Nat
    BY AloneBefore DEF Types, LinkTypes
  <1>1. CASE AcceptTx
    <2>1. /\ report'.by = request.number /\ request # NoRequest /\ ~request.heard
          /\ request.id = 0 /\ Accepted' /\ request' = request /\ toBoard' = Tail(toBoard)
          /\ toBoard # <<>>
      BY <1>0, <1>1, OwnAccepted DEF AcceptTx, Dispatch, pc
    <2>2. \A i \in 1..Len(toBoard') : i + 1 \in 1..Len(toBoard) /\ toBoard'[i] = toBoard[i + 1]
      BY <1>0, <2>1, TailOf
    <2> QED BY <1>0, <2>1, <2>2 DEF OwnRequest
  <1>2. CASE RequestTx
    <2>1. PICK f \in Files :
              /\ request' = [number |-> spent.requests + 1, file |-> f, baseline |-> lastTxId,
                             id |-> 0, heard |-> FALSE]
              /\ Send([name |-> "TXHEX", file |-> f, number |-> spent.requests + 1])
      BY <1>2 DEF RequestTx
    <2>2. /\ request = NoRequest /\ shown = "Standby" /\ "TXHEX" \notin pending
          /\ report' = report /\ spent.requests + 1 \in Requests
      BY <1>2, Spending DEF RequestTx, board
    <2>3. ~Accepted
      BY <2>2, TxAnswer DEF Accepted
    <2>4. lastTxId = report.id
      BY <1>0, <2>2, <2>3 DEF UpToDate
    <2> DEFINE c == [name |-> "TXHEX", file |-> f, number |-> spent.requests + 1]
    <2>5. c \in Asked /\ c.number = spent.requests + 1
      BY <2>2 DEF Asked
    <2>6. toBoard' = Append(toBoard, c)
      BY <2>1 DEF Send
    <2> HIDE DEF c
    <2>7. \A i \in 1..Len(toBoard') : \/ i \in 1..Len(toBoard) /\ toBoard'[i] = toBoard[i]
                                      \/ toBoard'[i] = c
      BY <1>0, <2>5, <2>6, AppendOf
    <2>8. \A i \in 1..Len(toBoard) : toBoard[i].name # "TXHEX"
      BY <2>2 DEF OneOfEach
    <2>9. /\ request'.number = spent.requests + 1 /\ request'.baseline = lastTxId
          /\ request'.id = 0 /\ ~request'.heard
      BY <2>1
    <2>10. request' # NoRequest
      BY <2>2, <2>9, NoRequestFields DEF Requests
    <2>11. \A i \in 1..Len(toBoard') : toBoard'[i].name = "TXHEX" =>
              toBoard'[i].number = request'.number
      BY <2>5, <2>7, <2>8, <2>9
    <2> QED BY <2>2, <2>4, <2>9, <2>10, <2>11
  <1>3. CASE Disconnect
    <2>1. toBoard' = <<>> /\ pending' = {} /\ request' = NoRequest
      BY <1>3 DEF Disconnect, Conclude
    <2> QED BY <2>1
  <1>4. CASE ~AcceptTx /\ ~RequestTx /\ ~Disconnect
    <2>1. report'.id = report.id /\ report'.by = report.by
      BY <1>4, AloneReport
    <2>2. "TXHEX" \in pending' => "TXHEX" \in pending
      BY <1>4 DEF MonitorNext, Commands, RefuseTx, BeginStatus, EndStatus, BeginStop, EndStop, Worker,
                  TakeRadio, StartPass, EndPass, GiveRadio, Account, OtherTx, OtherStop,
                  Reading, ReadAccepted, ReadRefused, ReadUnavailable, ReadStatus, Poll,
                  AskStop, Send, ProgressTimeout, pc
    <2>3. "TXHEX" \in pending' /\ Accepted => Accepted'
      <3>1. ReadAccepted /\ Head(toPc).name = "OkTxHex" => "TXHEX" \notin pending'
        BY DEF ReadAccepted
      <3> QED BY <1>4, <3>1, AcceptedStays
    <2>4. \A i \in 1..Len(toBoard') : toBoard'[i].name = "TXHEX" =>
             \E j \in 1..Len(toBoard) : toBoard[j] = toBoard'[i] /\ toBoard[j].name = "TXHEX"
      <3>1. CASE toBoard' = toBoard
        BY <3>1
      <3>2. CASE toBoard # <<>> /\ toBoard' = Tail(toBoard)
        <4>1. \A i \in 1..Len(toBoard') :
                 i + 1 \in 1..Len(toBoard) /\ toBoard'[i] = toBoard[i + 1]
          BY <1>0, <3>2, TailOf
        <4> QED BY <4>1
      <3>3. CASE \E c \in Asked : c.name # "TXHEX" /\ toBoard' = Append(toBoard, c)
        <4>1. PICK c \in Asked : c.name # "TXHEX" /\ toBoard' = Append(toBoard, c)
          BY <3>3
        <4>2. \A i \in 1..Len(toBoard') : \/ i \in 1..Len(toBoard) /\ toBoard'[i] = toBoard[i]
                                          \/ toBoard'[i] = c
          BY <1>0, <4>1, AppendOf
        <4> QED BY <4>1, <4>2
      <3>4. CASE Poll \/ AskStop
        BY <3>3, <3>4 DEF Poll, AskStop, Send, Asked
      <3>5. CASE RefuseTx \/ BeginStatus \/ BeginStop
        BY <3>2, <3>5 DEF RefuseTx, BeginStatus, BeginStop, Dispatch
      <3>6. CASE EndStatus \/ EndStop \/ Worker \/ OtherTx \/ OtherStop \/ Reading
                 \/ ProgressTimeout
        <4>1. toBoard' = toBoard
          BY <3>6 DEF EndStatus, EndStop, Worker, TakeRadio, StartPass, EndPass, GiveRadio,
                      Account, OtherTx, OtherStop, Reading, ReadAccepted, ReadRefused,
                      ReadUnavailable, ReadStatus, ProgressTimeout
        <4> QED BY <3>1, <4>1
      <3> QED BY <1>4, <3>4, <3>5, <3>6 DEF MonitorNext, Commands
    \* While TXHEX is on its way or its answer is, the request stays what it is.
    <2>5. CASE request' = request
      BY <1>0, <2>1, <2>2, <2>3, <2>4, <2>5 DEF OwnRequest
    <2>6. CASE request' = NoRequest /\ "TXHEX" \notin pending
      <3>1. \A i \in 1..Len(toBoard) : toBoard[i].name # "TXHEX"
        BY <2>6 DEF OneOfEach
      <3> QED BY <2>2, <2>4, <2>6, <3>1
    <2>7. CASE /\ request # NoRequest /\ request' # NoRequest
               /\ request'.number = request.number /\ request'.baseline = request.baseline
               /\ "TXHEX" \in pending => request'.id = request.id /\ ~request'.heard
      BY <1>0, <2>1, <2>2, <2>3, <2>4, <2>7 DEF OwnRequest
    <2>8. CASE ReadRefused
      <3>1. /\ toPc # <<>> /\ Head(toPc).name = "ErrTxHex" /\ "TXHEX" \notin pending'
            /\ request' = request \/ request' = NoRequest
        BY <2>8 DEF ReadRefused, Read, Conclude
      <3>2. Head(toPc) = toPc[1] /\ 1 \in 1..Len(toPc)
        BY <1>0, <3>1, TailOf
      <3>3. \A i \in 1..Len(toBoard) : toBoard[i].name # "TXHEX"
        BY <3>1, <3>2, TxAnswer
      <3> QED BY <2>4, <2>5, <3>1, <3>3
    <2>9. CASE ReadUnavailable
      <3>1. request' = Heard
        BY <2>9 DEF ReadUnavailable
      <3>2. CASE request = NoRequest
        BY <2>5, <3>1, <3>2, HeardNone
      <3>3. CASE request # NoRequest
        BY <2>7, <3>1, <3>3, HeardFields
      <3> QED BY <3>2, <3>3
    <2>10. CASE ReadStatus
      <3> DEFINE tx == Head(toPc).tx
      <3>1. tx.id \in Nat
        BY <2>10, StatusHead DEF ReadStatus, Reports
      <3>2. CASE request = NoRequest
        BY <2>5, <2>10, <3>2, StatusStep DEF StatusKept
      <3>3. CASE request # NoRequest /\ StatusEarlier(tx)
        BY <2>7, <3>3, HeardFields DEF StatusEarlier
      <3>4. CASE request # NoRequest /\ "TXHEX" \notin pending /\ StatusFollowed(tx)
        BY <2>7, <3>1, <3>4, FollowedFields DEF StatusFollowed
      <3>5. CASE request # NoRequest /\ "TXHEX" \notin pending /\ StatusConcluded(tx)
        BY <2>6, <3>5 DEF StatusConcluded, Conclude
      <3> QED BY <1>0, <2>10, <3>2, <3>3, <3>4, <3>5, StatusStep, EarlierWhileAwaited
    <2>11. CASE ProgressTimeout
      <3>1. request.heard /\ request' = NoRequest
        BY <2>11 DEF ProgressTimeout, Conclude
      <3>2. "TXHEX" \notin pending
        BY <1>0, <3>1 DEF OwnRequest
      <3> QED BY <2>6, <3>1, <3>2
    <2>12. CASE RefuseTx \/ BeginStatus \/ EndStatus \/ BeginStop \/ EndStop \/ Worker
                \/ OtherTx \/ OtherStop \/ Poll \/ AskStop \/ ReadAccepted
      <3>1. request' = request
        BY <2>12 DEF RefuseTx, BeginStatus, EndStatus, BeginStop, EndStop, Worker, TakeRadio,
                     StartPass, EndPass, GiveRadio, Account, OtherTx, OtherStop, Poll, AskStop,
                     ReadAccepted, pc
      <3> QED BY <2>5, <3>1
    <2> QED BY <1>4, <2>8, <2>9, <2>10, <2>11, <2>12 DEF MonitorNext, Commands, Reading
  <1> QED BY <1>1, <1>2, <1>3, <1>4

\* What the PC says of a transmission is backed by the peer, and by its own number
\* while nobody else transmits.
LEMMA VerdictNext ==
    ASSUME MonitorAssumption, Types, OneOfEach, OneWriter, Copies, News, OwnLoop, Current,
           OwnRequest, Verdict, MonitorNext
    PROVE  Verdict'
  <1>0. sent \subseteq sent' /\ (Alone' => Alone)
    BY ReportStep, AloneBefore
  <1>1. CASE verdict' = verdict
    BY <1>0, <1>1 DEF Verdict, Told
  <1>2. CASE request # NoRequest /\ Conclude("Failed", 0)
    <2>1. verdict'[request.number].outcome = "Failed"
          /\ \A n \in Requests : n # request.number => verdict'[n] = verdict[n]
      <3>1. "Failed" \in Final /\ 0 \in Nat
        BY DEF Final
      <3>2. /\ verdict'[request.number] = [outcome |-> "Failed", id |-> 0,
                     file |-> request.file, baseline |-> request.baseline]
            /\ \A n \in Requests : n # request.number => verdict'[n] = verdict[n]
        BY <1>2, <3>1, ConcludeType, Zenon
      <3> QED BY <3>2
    <2>2. ASSUME NEW n \in Requests, Told(n)'
          PROVE  Told(n) /\ verdict'[n] = verdict[n]
      <3>1. n # request.number
        BY <2>1, <2>2 DEF Told
      <3> QED BY <2>1, <2>2, <3>1 DEF Told
    <2> QED BY <1>0, <2>2 DEF Verdict, Told
  <1>3. CASE ReadStatus
    <2> DEFINE tx == Head(toPc).tx
    <2>1. CASE request = NoRequest
      BY <1>1, <1>3, <2>1, StatusStep DEF StatusKept
    <2>2. CASE StatusEarlier(tx) \/ StatusFollowed(tx)
      BY <1>1, <2>2 DEF StatusEarlier, StatusFollowed
    <2>3. CASE request # NoRequest /\ StatusOwn(tx) /\ tx.state \in Final
               /\ Conclude(tx.state, tx.id)
      <3>1. /\ tx \in Reports /\ tx.id \in Nat /\ Past(tx, report, sent)
            /\ tx.id > request.baseline /\ tx.file = request.file
        BY <1>3, <2>3, OwnIsNew DEF StatusOwn
      <3>2. /\ verdict'[request.number] = [outcome |-> tx.state, id |-> tx.id,
                     file |-> request.file, baseline |-> request.baseline]
            /\ \A n \in Requests : n # request.number => verdict'[n] = verdict[n]
        BY <2>3, <3>1, ConcludeType
      <3>3. Alone => tx.by = request.number
        <4>1. SUFFICES ASSUME Alone PROVE tx.by = request.number
          OBVIOUS
        <4>2. /\ Head(toPc) = toPc[1] /\ 1 \in 1..Len(toPc) /\ toPc[1].name = "status"
          BY <1>3, StatusHead DEF ReadStatus
        <4>3. tx.id # request.baseline
          BY <3>1, RequestFields DEF Types, PcTypes
        <4>4. tx.id = report.id
          BY <4>1, <4>2, <4>3 DEF Current
        <4>5. report.by = request.number
          BY <2>3, <4>1, <4>3, <4>4 DEF OwnRequest
        <4> QED BY <3>1, <4>4, <4>5 DEF Past
      <3>4. ASSUME NEW n \in Requests, Told(n)'
            PROVE  /\ verdict'[n].id > verdict'[n].baseline
                   /\ \E s \in sent' : /\ s.id = verdict'[n].id /\ s.file = verdict'[n].file
                                       /\ Alone' => s.by = n
        <4>1. CASE n = request.number
          <5>1. tx.state = "Completed"
            BY <3>2, <3>4, <4>1 DEF Told
          <5>2. PICK s \in sent : s.id = tx.id /\ s.file = tx.file /\ s.by = tx.by
            BY <3>1, <5>1 DEF Past, Backed
          <5> QED BY <1>0, <3>1, <3>2, <3>3, <4>1, <5>2
        <4>2. CASE n # request.number
          <5>1. verdict'[n] = verdict[n] /\ Told(n)
            BY <3>2, <3>4, <4>2 DEF Told
          <5> QED BY <1>0, <5>1 DEF Verdict
        <4> QED BY <4>1, <4>2
      <3> QED BY <3>4 DEF Verdict
    <2> QED BY <1>2, <1>3, <2>1, <2>2, <2>3, StatusStep DEF StatusConcluded
  <1>4. CASE Disconnect
    BY <1>1, <1>2, <1>4 DEF Disconnect
  <1>5. CASE ReadRefused
    BY <1>1, <1>2, <1>5 DEF ReadRefused
  <1>6. CASE ProgressTimeout
    BY <1>2, <1>6, NoRequestFields DEF ProgressTimeout
  <1>7. CASE Commands \/ Worker \/ OtherTx \/ OtherStop \/ RequestTx \/ Poll \/ AskStop
             \/ ReadAccepted \/ ReadUnavailable
    <2>1. verdict' = verdict
      BY <1>7 DEF Commands, AcceptTx, RefuseTx, BeginStatus, EndStatus, BeginStop, EndStop,
                  Worker, TakeRadio, StartPass, EndPass, GiveRadio, Account, OtherTx,
                  OtherStop, RequestTx, Poll, AskStop, ReadAccepted, ReadUnavailable, pc
    <2> QED BY <1>1, <2>1
  <1> QED BY <1>3, <1>4, <1>5, <1>6, <1>7 DEF MonitorNext, Reading

-----------------------------------------------------------------------------
(* The theorems.                                                           *)

LEMMA MonitorInvInit ==
    ASSUME MonitorAssumption, MonitorInit
    PROVE  MonitorInv
  <1>1. Types
    BY TypesInit
  <1>2. OneOfEach /\ Counted
    BY NoHolder, FS_EmptySet DEF MonitorInit, OneOfEach, Counted
  <1>3. OneWriter
    BY NoHolder DEF MonitorInit, OneWriter
  <1>4. Copies
    BY NoHolder DEF MonitorInit, Copies, Past, Backed, NoReport
  <1>5. News /\ OwnLoop
    BY DEF MonitorInit, News, OwnLoop
  <1>6. Current /\ UpToDate
    BY NoHolder DEF MonitorInit, Current, UpToDate
  <1>7. OwnRequest
    BY DEF MonitorInit, OwnRequest
  <1>8. Verdict
    BY DEF MonitorInit, Verdict, Told, NoVerdict
  <1> QED BY <1>1, <1>2, <1>3, <1>4, <1>5, <1>6, <1>7, <1>8 DEF MonitorInv

LEMMA MonitorStep ==
    ASSUME MonitorAssumption, MonitorInv, [MonitorNext]_monitorVars
    PROVE  MonitorInv'
  <1>1. CASE MonitorNext
    <2>1. Types'
      BY <1>1, BoardTypesNext, LinkTypesNext, PcTypesNext, EventsNext DEF MonitorInv, Types
    <2>2. OneOfEach' /\ Counted'
      BY <1>1, OneOfEachNext, CountedNext DEF MonitorInv
    <2>3. OneWriter' /\ Copies' /\ News'
      BY <1>1, OneWriterNext, CopiesNext, NewsNext DEF MonitorInv
    <2>4. OwnLoop' /\ Current'
      BY <1>1, OwnLoopNext, CurrentNext DEF MonitorInv
    <2>5. UpToDate' /\ OwnRequest'
      BY <1>1, UpToDateNext, OwnRequestNext DEF MonitorInv
    <2>6. Verdict'
      BY <1>1, VerdictNext DEF MonitorInv
    <2> QED BY <2>1, <2>2, <2>3, <2>4, <2>5, <2>6 DEF MonitorInv
  <1>2. CASE UNCHANGED monitorVars
    <2>1. /\ UNCHANGED <<report, loop, stop, worker, radio, command, ids, sent>>
          /\ UNCHANGED <<toBoard, toPc, spent>>
          /\ UNCHANGED <<request, lastTxId, pending, shown, busy, verdict>>
      BY <1>2 DEF monitorVars, board, pc
    <2>2. Types' /\ OneOfEach' /\ Counted'
      BY <2>1 DEF MonitorInv, Types, BoardTypes, LinkTypes, PcTypes, OneOfEach, Counted
    <2>3. OneWriter' /\ Copies' /\ News'
      BY <2>1 DEF MonitorInv, OneWriter, Copies, News
    <2>4. OwnLoop' /\ Current' /\ UpToDate' /\ OwnRequest'
      BY <2>1 DEF MonitorInv, OwnLoop, Current, AcceptedBehind, UpToDate, OwnRequest, Alone,
                  Accepted
    <2>5. Verdict'
      BY <2>1 DEF MonitorInv, Verdict, Told, Alone
    <2> QED BY <2>2, <2>3, <2>4, <2>5 DEF MonitorInv
  <1> QED BY <1>1, <1>2

\* The invariant holds in every reachable state.
THEOREM MonitorInvariant == MonitorAssumption => (MonitorSpec => []MonitorInv)
  <1> SUFFICES ASSUME MonitorAssumption PROVE MonitorSpec => []MonitorInv
    OBVIOUS
  <1>1. MonitorInit => MonitorInv
    BY MonitorInvInit
  <1>2. MonitorInv /\ [MonitorNext]_monitorVars => MonitorInv'
    BY MonitorStep
  <1> QED BY <1>1, <1>2, PTL DEF MonitorSpec

LEMMA InvIsTrue ==
    ASSUME MonitorAssumption, MonitorInv
    PROVE  CompletedIsTrue
  <1>1. MonitorTypeOK
    <2>1. pending \subseteq {"STATUS", "STOP", "TXHEX"}
      BY DEF MonitorInv, Types, PcTypes, Kinds
    <2> QED BY <2>1 DEF MonitorInv, Types, BoardTypes, PcTypes, Counted, MonitorTypeOK
  <1>2. CompletedIsDelivered /\ CompletedIsNews
    BY DEF MonitorInv, Verdict, CompletedIsDelivered, CompletedIsNews
  <1>3. spent.others = 0 => CompletedIsOwn
    BY DEF MonitorInv, Verdict, Alone, CompletedIsOwn
  <1> QED BY <1>1, <1>2, <1>3 DEF CompletedIsTrue

\* What the PC says of its transmissions is true, new, and where that can be known
\* its own: however many requests it makes, whatever statuses were on their way when
\* it asked, however often its connection broke, whoever else transmits.
THEOREM MonitorCompletedIsTrue == MonitorAssumption => (MonitorSpec => []CompletedIsTrue)
  <1> SUFFICES ASSUME MonitorAssumption PROVE MonitorSpec => []CompletedIsTrue
    OBVIOUS
  <1>1. MonitorInv => CompletedIsTrue
    BY InvIsTrue
  <1> QED BY <1>1, MonitorInvariant, PTL

\* The board's report never goes back, although STATUS writes back what it has read
\* before.
THEOREM MonitorReportGoesForward == MonitorAssumption => (MonitorSpec => ReportGoesForward)
  <1> DEFINE Forward == /\ report'.id >= report.id
                        /\ report'.id = report.id /\ report.state \in Final => report' = report
  <1> SUFFICES ASSUME MonitorAssumption PROVE MonitorSpec => ReportGoesForward
    OBVIOUS
  <1>1. MonitorInv /\ [MonitorNext]_monitorVars => [Forward]_monitorVars
    <2> SUFFICES ASSUME MonitorInv, MonitorNext PROVE Forward
      OBVIOUS
    <2>1. report.id \in Nat
      BY DEF MonitorInv, Types, BoardTypes, Reports
    <2>2. /\ report'.id = report.id \/ report'.id = report.id + 1
          /\ report'.id = report.id /\ report.state \in Final => report' = report
      BY ReportStep DEF MonitorInv
    <2> QED BY <2>1, <2>2
  <1> HIDE DEF Forward
  <1>2. MonitorSpec => [][Forward]_monitorVars
    BY <1>1, MonitorInvariant, PTL DEF MonitorSpec
  <1> QED BY <1>2 DEF ReportGoesForward, Forward

-----------------------------------------------------------------------------
(* The storage: the inductive invariant.                                   *)

Entry == Names \X ListedSizes
Orders == [op : {"list"}, operation : Nat, offset : Nat, name : {None}]
          \cup [op : {"delete"}, operation : Nat, offset : {0}, name : Names]
Pages == [op : {"list"}, offset : Nat, total : Nat, files : Seq(Entry), next : Nat]
Deletions == [op : {"delete"}, name : Names]
Bodies == {Error} \cup Deletions \cup Pages
AnswerSet == [operation : Nat, body : Bodies]

StorageTypes ==
    /\ files \in [Names -> ListedSizes \cup {0}] /\ selected \in Names \cup {None}
    /\ commands \in Seq(Orders) /\ replies \in Seq(AnswerSet)

Readings == [kind : {"idle", "list", "delete"}, offset : Nat, total : Nat,
             files : Seq(Entry), name : Names \cup {None}]
Listings == [entries : Seq(Entry), complete : BOOLEAN]

ListingTypes ==
    /\ listing \in Readings /\ list \in Listings
    /\ operations \in Nat /\ since \in 1..operations + 1
    /\ reported \in 0..operations /\ removed \subseteq 1..operations

WatchTypes ==
    /\ existed \subseteq Entry /\ standing \subseteq Entry
    /\ IsFiniteSet(existed)

AllTypes == StorageTypes /\ ListingTypes /\ WatchTypes

\* No operation has more than one command or answer on its way, and the present
\* connection only carries those of the operation the PC waits for.
Numbered(asks, answers, last, first, kind) ==
    /\ Len(asks) + Len(answers) <= last
    /\ \A i \in 1..Len(asks) :
          /\ asks[i].operation \in 1..last
          /\ asks[i].operation >= first => kind # "idle" /\ asks[i].operation = last
    /\ \A i \in 1..Len(answers) :
          /\ answers[i].operation \in 1..last
          /\ answers[i].operation >= first => kind # "idle" /\ answers[i].operation = last

OneUnderWay(asks, answers, first) ==
    /\ \A i, j \in 1..Len(asks) :
          asks[i].operation >= first /\ asks[j].operation >= first => i = j
    /\ \A i, j \in 1..Len(answers) :
          answers[i].operation >= first /\ answers[j].operation >= first => i = j
    /\ \A i \in 1..Len(asks), j \in 1..Len(answers) :
          ~(asks[i].operation >= first /\ answers[j].operation >= first)

ListingTraffic(asks, answers, last, first, kind) ==
    Numbered(asks, answers, last, first, kind) /\ OneUnderWay(asks, answers, first)

\* A deletion is answered by the operation that has made it.
Deeds ==
    /\ reported # None => reported \in removed
    /\ \A i \in 1..Len(replies) :
          replies[i].body.op = "delete" => replies[i].operation \in removed

\* A list of entries between those that have stood all the time and those that
\* have existed at some time: of these at most one has come or gone.
Between(entries, low, high) == low \subseteq entries /\ entries \subseteq high
Few(low, high) == Cardinality(high \ low) <= 1

\* A page of such a list, a part of one, and the beginning of one.
PastPage(page, low, high) ==
    \E entries \in SUBSET high :
       /\ Between(entries, low, high)
       /\ \E all \in Sorted(entries) : page = Page(all, page.offset)
Slice(piece, offset, total, low, high) ==
    \E entries \in SUBSET high :
       /\ Between(entries, low, high)
       /\ \E all \in Sorted(entries) :
             /\ Len(all) = total /\ offset + Len(piece) <= Len(all)
             /\ piece = SubSeq(all, offset + 1, offset + Len(piece))
Begins(read, total, low, high) ==
    \E entries \in SUBSET high :
       /\ Between(entries, low, high)
       /\ \E all \in Sorted(entries) :
             /\ Len(all) = total /\ Len(read) <= Len(all)
             /\ read = SubSeq(all, 1, Len(read))

Distinct(entries) ==
    \A i, j \in 1..Len(entries) : entries[i][1] = entries[j][1] => i = j
Within(entries, high) == \A i \in 1..Len(entries) : entries[i] \in high
Contains(entries, low) == \A e \in low : \E i \in 1..Len(entries) : entries[i] = e

\* While the PC reads the list, what is stored is between the two.
Watched == listing.kind = "list" => Between(Entries(files), standing, existed)

\* Every page on its way is of a list that was the storage's since.
PagesTrue ==
    \A i \in 1..Len(replies) :
        replies[i].operation >= since /\ listing.kind = "list" /\ replies[i].body.op = "list" =>
            PastPage(replies[i].body, standing, existed)

\* What was read is the beginning of a list that was the storage's since: where at
\* most one entry has come or gone, all pages are of the same.
ReadTrue ==
    /\ Len(listing.files) = listing.offset
    /\ listing.kind = "list" =>
          /\ Within(listing.files, existed) /\ Distinct(listing.files)
          /\ listing.offset > 0 =>
                /\ listing.total # None
                /\ Few(standing, existed) => Begins(listing.files, listing.total, standing, existed)

\* What is shown as complete is true, and stays so until the list is read again.
ShownTrue ==
    list.complete =>
        /\ listing.kind # "list"
        /\ Within(list.entries, existed) /\ Distinct(list.entries)
        /\ Few(standing, existed) => Contains(list.entries, standing)

Link == ListingTraffic(commands, replies, operations, since, listing.kind)

ListingInv ==
    /\ AllTypes /\ Link /\ Deeds /\ Watched /\ PagesTrue /\ ReadTrue /\ ShownTrue
    /\ SelectionExists

-----------------------------------------------------------------------------
(* Facts about numbers and sequences.                                      *)

\* Every set of numbers has a least one.
LEMMA LeastNumber ==
    ASSUME NEW T \in SUBSET Nat, T # {}
    PROVE  \E m \in T : \A n \in T : m <= n
  <1>1. PICK b \in T : TRUE
    OBVIOUS
  <1> DEFINE S == 0..b
             F == {0..m : m \in {n \in T : n <= b}}
  <1>2. IsFiniteSet(S)
    BY FS_Interval, <1>1
  <1>3. IsWellFoundedOn(StrictSubsetOrdering(S), SUBSET S)
    <2> HIDE DEF S
    <2> QED BY <1>2, FS_StrictSubsetOrderingWellFounded, FS_FiniteSubsetsOfFinite
  <1>4. F \subseteq SUBSET S /\ F # {}
    BY <1>1
  <1>5. \E x \in F : \A y \in F : ~ (<<y, x>> \in StrictSubsetOrdering(S))
    <2> HIDE DEF F, S
    <2> QED BY <1>3, <1>4, WFMin
  <1>6. PICK m \in T : m <= b /\ \A n \in T : n <= b =>
                          ~ (<<0..n, 0..m>> \in StrictSubsetOrdering(S))
    BY <1>5
  <1>7. ASSUME NEW n \in T, n < m PROVE FALSE
    <2>1. n <= b /\ 0..n \subseteq 0..m /\ 0..n # 0..m /\ 0..m \subseteq S
      BY <1>6, <1>7
    <2> QED BY <2>1, <1>6 DEF StrictSubsetOrdering
  <1> QED BY <1>6, <1>7

\* The elements of a sequence that is longer by one, or shorter by its head.
LEMMA AppendedTo ==
    ASSUME NEW S, NEW s \in Seq(S), NEW x \in S
    PROVE  /\ Append(s, x) \in Seq(S) /\ Len(Append(s, x)) = Len(s) + 1
           /\ \A i \in 1..Len(s) : Append(s, x)[i] = s[i]
           /\ Append(s, x)[Len(s) + 1] = x
  OBVIOUS

LEMMA TailsOf ==
    ASSUME NEW S, NEW s \in Seq(S), s # <<>>
    PROVE  /\ Tail(s) \in Seq(S) /\ Len(Tail(s)) = Len(s) - 1 /\ Len(s) \in Nat \ {0}
           /\ \A i \in 1..Len(s) - 1 : Tail(s)[i] = s[i + 1]
           /\ Head(s) = s[1] /\ Head(s) \in S
  OBVIOUS

\* A part of a sequence.
LEMMA SliceOf ==
    ASSUME NEW all \in Seq(Entry), NEW k \in Nat, NEW m \in Nat, k + m <= Len(all)
    PROVE  /\ SubSeq(all, k + 1, k + m) \in Seq(Entry) /\ Len(SubSeq(all, k + 1, k + m)) = m
           /\ \A i \in 1..m : SubSeq(all, k + 1, k + m)[i] = all[k + i]
  OBVIOUS

LEMMA SliceDistinct ==
    ASSUME NEW all \in Seq(Entry), NEW k \in Nat, NEW m \in Nat, k + m <= Len(all),
           Distinct(all)
    PROVE  Distinct(SubSeq(all, k + 1, k + m))
  <1> DEFINE f == SubSeq(all, k + 1, k + m)
  <1>1. f \in Seq(Entry) /\ Len(f) = m /\ \A i \in 1..m : f[i] = all[k + i]
    BY SliceOf
  <1> HIDE DEF f
  <1>2. SUFFICES ASSUME NEW i \in 1..Len(f), NEW j \in 1..Len(f), f[i][1] = f[j][1]
                 PROVE  i = j
    BY DEF Distinct, f
  <1>3. k + i \in 1..Len(all) /\ k + j \in 1..Len(all) /\ all[k + i][1] = all[k + j][1]
    BY <1>1, <1>2
  <1>4. k + i = k + j
    <2> QED BY <1>3 DEF Distinct
  <1> QED BY <1>1, <1>4

-----------------------------------------------------------------------------
(* The list of a storage.                                                  *)

LEMMA EntriesFinite ==
    ASSUME ListingAssumption, NEW storage \in [Names -> ListedSizes \cup {0}]
    PROVE  Entries(storage) \subseteq Entry /\ IsFiniteSet(Entries(storage))
  <1>1. Entries(storage) \subseteq Entry
    BY DEF Entries, Present, Entry
  <1>2. IsFiniteSet(Present(storage))
    BY FS_Subset DEF ListingAssumption, Present
  <1> DEFINE f == [n \in Present(storage) |-> <<n, storage[n]>>]
  <1>3. f \in Surjection(Present(storage), Entries(storage))
    BY DEF Surjection, Entries
  <1>4. IsFiniteSet(Entries(storage))
    <2> HIDE DEF f
    <2> QED BY <1>2, <1>3, FS_Surjection
  <1> QED BY <1>1, <1>4

LEMMA SortedShape ==
    ASSUME ListingAssumption, NEW E \in SUBSET Entry, IsFiniteSet(E), NEW all \in Sorted(E)
    PROVE  /\ all \in Seq(Entry) /\ Len(all) = Cardinality(E) /\ Len(all) \in Nat
           /\ Within(all, E) /\ Contains(all, E) /\ Distinct(all)
  <1>1. Cardinality(E) \in Nat
    BY FS_CardinalityType
  <1>2. all \in [1..Cardinality(E) -> E]
    BY DEF Sorted
  <1>3. all \in Seq(Entry) /\ Len(all) = Cardinality(E)
    BY <1>1, <1>2
  <1>4. Within(all, E)
    BY <1>1, <1>2, <1>3 DEF Within
  <1>5. Contains(all, E)
    BY <1>1, <1>2, <1>3 DEF Contains, Sorted
  <1>6. Distinct(all)
    <2> SUFFICES ASSUME NEW i \in 1..Len(all), NEW j \in 1..Len(all),
                        all[i][1] = all[j][1], i < j \/ j < i
                 PROVE  FALSE
      BY <1>1, <1>3 DEF Distinct
    <2>1. all[i] \in Entry /\ all[j] \in Entry
      BY <1>3
    <2>3. all[i][1] \in Nat /\ all[j][1] \in Nat
      BY <2>1 DEF Entry, ListingAssumption
    <2>2. \A k, l \in 1..Len(all) : k < l => all[k][1] < all[l][1]
      BY <1>1, <1>2, <1>3 DEF Sorted
    <2> QED BY <2>2, <2>3
  <1> QED BY <1>1, <1>3, <1>4, <1>5, <1>6

\* There is one list of the same entries: the first place where two differ would
\* have to be filled by a later entry of each.
LEMMA SortedUnique ==
    ASSUME ListingAssumption, NEW E \in SUBSET Entry, IsFiniteSet(E),
           NEW a \in Sorted(E), NEW b \in Sorted(E)
    PROVE  a = b
  <1> DEFINE N == Cardinality(E)
             T == {i \in 1..N : a[i] # b[i]}
  <1>1. N \in Nat
    BY FS_CardinalityType
  <1>2. /\ a \in [1..N -> E] /\ b \in [1..N -> E]
        /\ \A e \in E : \E i \in 1..N : a[i] = e
        /\ \A e \in E : \E i \in 1..N : b[i] = e
        /\ \A i, j \in 1..N : i < j => a[i][1] < a[j][1]
        /\ \A i, j \in 1..N : i < j => b[i][1] < b[j][1]
    BY DEF Sorted
  <1>3. \A e \in E : e[1] \in Nat
    BY DEF Entry, ListingAssumption
  <1> HIDE DEF N
  <1>4. CASE T = {}
    <2>1. \A i \in 1..N : a[i] = b[i]
      BY <1>4
    <2>2. a = [i \in 1..N |-> a[i]] /\ b = [i \in 1..N |-> b[i]]
      BY <1>2
    <2> QED BY <2>1, <2>2, Zenon
  <1>5. CASE T # {}
    <2>1. T \in SUBSET Nat
      BY <1>1
    <2>2. PICK k \in T : \A i \in T : k <= i
      <3> HIDE DEF T
      <3> QED BY <1>5, <2>1, LeastNumber
    <2>3. k \in 1..N /\ a[k] # b[k] /\ a[k] \in E /\ b[k] \in E
      BY <1>2, <2>2
    <2>4. \A i \in 1..N : i < k => a[i] = b[i]
      BY <1>1, <2>2
    <2>5. PICK i \in 1..N : b[i] = a[k]
      BY <1>2, <2>3
    <2>6. PICK j \in 1..N : a[j] = b[k]
      BY <1>2, <2>3
    <2>7. i > k
      <3>1. ASSUME i < k PROVE FALSE
        <4>1. a[i] = a[k] /\ a[i][1] < a[k][1] /\ a[k][1] \in Nat
          BY <1>2, <1>3, <2>3, <2>4, <2>5, <3>1
        <4> QED BY <4>1
      <3> QED BY <1>1, <2>3, <2>5, <3>1
    <2>8. j > k
      <3>1. ASSUME j < k PROVE FALSE
        <4>1. b[j] = b[k] /\ b[j][1] < b[k][1] /\ b[k][1] \in Nat
          BY <1>2, <1>3, <2>3, <2>4, <2>6, <3>1
        <4> QED BY <4>1
      <3> QED BY <1>1, <2>3, <2>6, <3>1
    <2>9. b[k][1] < a[k][1] /\ a[k][1] < b[k][1]
      BY <1>2, <2>3, <2>5, <2>6, <2>7, <2>8
    <2> QED BY <1>3, <2>3, <2>9
  <1> QED BY <1>4, <1>5

\* Two lists of one length, between which at most one entry comes or goes, are of
\* the same entries.
LEMMA SameEntries ==
    ASSUME NEW low, NEW high, IsFiniteSet(high), Few(low, high),
           NEW E, NEW F, Between(E, low, high), Between(F, low, high),
           Cardinality(E) = Cardinality(F)
    PROVE  E = F
  <1>1. IsFiniteSet(E) /\ IsFiniteSet(F) /\ IsFiniteSet(high \ low)
    BY FS_Subset DEF Between
  <1>2. Cardinality(high \ low) \in Nat
    BY <1>1, FS_CardinalityType
  <1>3. high \ low = {} \/ \E x : high \ low = {x}
    <2>1. Cardinality(high \ low) = 0 \/ Cardinality(high \ low) = 1
      BY <1>2 DEF Few
    <2> QED BY <1>1, <2>1, FS_EmptySet, FS_Singleton
  <1>4. E \subseteq F \/ F \subseteq E
    BY <1>3 DEF Between
  <1>5. CASE E \subseteq F
    BY <1>1, <1>5, FS_Subset
  <1>6. CASE F \subseteq E
    BY <1>1, <1>6, FS_Subset
  <1> QED BY <1>4, <1>5, <1>6

-----------------------------------------------------------------------------
(* Pages.                                                                  *)

LEMMA PageShape ==
    ASSUME ListingAssumption, NEW all \in Seq(Entry), NEW offset \in Nat,
           NEW page, page = Page(all, offset), page.op = "list", NEW f, f = page.files
    PROVE  /\ page \in Pages /\ page.offset = offset /\ page.total = Len(all)
           /\ offset <= Len(all) /\ offset + Len(f) <= Len(all) /\ f \in Seq(Entry)
           /\ f = SubSeq(all, offset + 1, offset + Len(f))
  <1> DEFINE end == IF offset + PageSize < Len(all) THEN offset + PageSize ELSE Len(all)
             whole == [op |-> "list", offset |-> offset, total |-> Len(all),
                      files |-> SubSeq(all, offset + 1, end),
                      next |-> IF end < Len(all) THEN end ELSE None]
  <1>1. offset <= Len(all) /\ Len(all) \in Nat
    BY DEF Page, Error
  <1>2. page = whole
    BY <1>1 DEF Page
  <1>3. end \in Nat /\ offset <= end /\ end <= Len(all)
    BY <1>1 DEF ListingAssumption
  <1> HIDE DEF end
  <1>4. SubSeq(all, offset + 1, end) \in Seq(Entry)
        /\ Len(SubSeq(all, offset + 1, end)) = end - offset
    BY <1>1, <1>3, SubSeqProperties
  <1>5. whole \in Pages
    BY <1>1, <1>3, <1>4 DEF Pages, None
  <1> QED BY <1>1, <1>2, <1>3, <1>4, <1>5

LEMMA PageIsBody ==
    ASSUME ListingAssumption, NEW all \in Seq(Entry), NEW offset \in Nat
    PROVE  Page(all, offset) \in Bodies
  <1>1. Page(all, offset) = Error \/ Page(all, offset).op = "list"
    BY DEF Page
  <1> QED BY <1>1, PageShape DEF Bodies

\* The fields of an answer.
LEMMA BodyFields ==
    ASSUME NEW body \in Bodies
    PROVE  /\ body.op \in {"error", "delete", "list"}
           /\ body.op = "list" => body \in Pages
           /\ body.op = "delete" => body \in Deletions
  BY DEF Bodies, Error, Pages, Deletions

\* What a page that was true at some time says is true as long as the time grows.
LEMMA PastKeeps ==
    ASSUME NEW low, NEW high, NEW low2, NEW high2, low2 \subseteq low, high \subseteq high2,
           NEW page, PastPage(page, low, high)
    PROVE  PastPage(page, low2, high2)
  BY DEF PastPage, Between

LEMMA BeginsKeeps ==
    ASSUME NEW low, NEW high, NEW low2, NEW high2, low2 \subseteq low, high \subseteq high2,
           NEW read, NEW total, Begins(read, total, low, high)
    PROVE  Begins(read, total, low2, high2)
  BY DEF Begins, Between

LEMMA FewBefore ==
    ASSUME NEW low, NEW high, NEW low2, NEW high2, low2 \subseteq low, high \subseteq high2,
           IsFiniteSet(high2), Few(low2, high2)
    PROVE  Few(low, high)
  <1>1. IsFiniteSet(high2 \ low2) /\ high \ low \subseteq high2 \ low2
    BY FS_Subset
  <1>2. /\ IsFiniteSet(high \ low)
        /\ Cardinality(high \ low) <= Cardinality(high2 \ low2)
    BY <1>1, FS_Subset
  <1> QED BY <1>1, <1>2, FS_CardinalityType DEF Few

\* A page of a list of entries: what it says, and where its entries are in the list.
LEMMA PastShape ==
    ASSUME ListingAssumption, NEW low, NEW high \in SUBSET Entry, IsFiniteSet(high),
           NEW page \in Pages, PastPage(page, low, high)
    PROVE  \A k \in Nat, f \in Seq(Entry) : k = page.offset /\ f = page.files =>
              Within(f, high) /\ Distinct(f) /\ Slice(f, k, page.total, low, high)
  <1>1. SUFFICES ASSUME NEW k \in Nat, NEW f \in Seq(Entry), k = page.offset, f = page.files
                 PROVE  Within(f, high) /\ Distinct(f) /\ Slice(f, k, page.total, low, high)
    OBVIOUS
  <1>2. PICK E \in SUBSET high :
           /\ Between(E, low, high)
           /\ \E all \in Sorted(E) : page = Page(all, page.offset)
    BY DEF PastPage
  <1>3. PICK all \in Sorted(E) : page = Page(all, page.offset)
    BY <1>2
  <1>4. IsFiniteSet(E) /\ E \in SUBSET Entry
    BY FS_Subset
  <1>5. /\ all \in Seq(Entry) /\ Len(all) \in Nat
        /\ Within(all, E) /\ Distinct(all)
    BY <1>4, SortedShape
  <1>6. page.op = "list" /\ f = page.files /\ page = Page(all, k)
    BY <1>1, <1>3 DEF Pages
  <1>7. /\ page.total = Len(all) /\ k + Len(f) <= Len(all)
        /\ f = SubSeq(all, k + 1, k + Len(f))
    BY SMTT(30), <1>5, <1>6, PageShape
  <1>8. Len(f) \in Nat /\ k + Len(f) <= Len(all)
    BY <1>7
  <1>9. \A i \in 1..Len(f) : k + i \in 1..Len(all) /\ f[i] = all[k + i]
    BY SMTT(30), <1>5, <1>7, <1>8, SliceOf
  <1>10. Within(f, high)
    <2> SUFFICES ASSUME NEW i \in 1..Len(f) PROVE f[i] \in high
      BY DEF Within
    <2> QED BY <1>5, <1>9 DEF Within
  <1>11. Distinct(f)
    BY <1>5, <1>7, <1>8, SliceDistinct
  <1> QED BY <1>2, <1>7, <1>10, <1>11 DEF Slice

\* A page that fits what was read is joined to it.
LEMMA PageJoins ==
    ASSUME ListingAssumption, NEW low, NEW high \in SUBSET Entry, IsFiniteSet(high),
           NEW read \in Seq(Entry), NEW total \in Nat,
           Within(read, high), Distinct(read),
           Len(read) > 0 /\ Few(low, high) => Begins(read, total, low, high),
           NEW page \in Pages, PastPage(page, low, high), page.offset = Len(read),
           Len(read) > 0 => page.total = total,
           \A i \in 1..Len(page.files), j \in 1..Len(read) :
              page.files[i][1] # read[j][1],
           NEW joined, joined = read \o page.files
    PROVE  /\ joined \in Seq(Entry) /\ Len(joined) = page.offset + Len(page.files)
           /\ Within(joined, high) /\ Distinct(joined)
           /\ Few(low, high) => Begins(joined, page.total, low, high)
  <1>1. PICK k \in Nat : k = page.offset /\ k = Len(read)
    OBVIOUS
  <1>2. PICK f \in Seq(Entry) : f = page.files
    BY DEF Pages
  <1>3. PICK m \in Nat : m = Len(f)
    OBVIOUS
  <1>4. /\ joined \in Seq(Entry) /\ Len(joined) = k + m
        /\ \A i \in 1..k : joined[i] = read[i]
        /\ \A p \in 1..m : joined[k + p] = f[p]
    BY <1>1, <1>2, <1>3, ConcatProperties
  <1>5. Within(f, high) /\ Distinct(f)
    BY <1>1, <1>2, PastShape
  <1>6. ASSUME NEW i \in 1..k + m
        PROVE  i \in 1..k \/ \E p \in 1..m : i = k + p
    <2>1. i > k => i - k \in 1..m /\ i = k + (i - k)
      OBVIOUS
    <2> QED BY <2>1
  <1>7. Within(joined, high)
    <2> SUFFICES ASSUME NEW i \in 1..k + m PROVE joined[i] \in high
      BY <1>4 DEF Within
    <2>1. CASE i \in 1..k
      BY <1>1, <1>4, <2>1 DEF Within
    <2>2. ASSUME NEW p \in 1..m, i = k + p PROVE joined[i] \in high
      BY <1>3, <1>4, <1>5, <2>2 DEF Within
    <2> QED BY <1>6, <2>1, <2>2
  <1>9. Distinct(joined)
    <2> SUFFICES ASSUME NEW i \in 1..k + m, NEW j \in 1..k + m, joined[i][1] = joined[j][1]
                 PROVE  i = j
      BY <1>4 DEF Distinct
    <2>1. CASE i \in 1..k /\ j \in 1..k
      BY <1>1, <1>4, <2>1 DEF Distinct
    <2>2. ASSUME NEW p \in 1..m, i = k + p PROVE i = j
      <3>1. CASE j \in 1..k
        BY <1>1, <1>2, <1>3, <1>4, <2>2, <3>1
      <3>2. ASSUME NEW q \in 1..m, j = k + q PROVE i = j
        <4>1. f[p][1] = f[q][1]
          BY <1>4, <2>2, <3>2
        <4>2. p = q
          BY <1>3, <1>5, <4>1 DEF Distinct
        <4> QED BY <2>2, <3>2, <4>2
      <3> QED BY <1>6, <3>1, <3>2
    <2>3. ASSUME NEW q \in 1..m, j = k + q, i \in 1..k PROVE i = j
      BY <1>1, <1>2, <1>3, <1>4, <2>3
    <2> QED BY <1>6, <2>1, <2>2, <2>3
  <1>8. ASSUME Few(low, high) PROVE Begins(joined, page.total, low, high)
    <2>9. Slice(f, k, page.total, low, high)
      BY <1>1, <1>2, PastShape
    <2>1. PICK E \in SUBSET high :
             /\ Between(E, low, high)
             /\ \E all \in Sorted(E) : /\ Len(all) = page.total
                                       /\ k + Len(f) <= Len(all)
                                       /\ f = SubSeq(all, k + 1, k + Len(f))
      BY <2>9 DEF Slice
    <2>2. PICK all \in Sorted(E) :
             /\ Between(E, low, high) /\ Len(all) = page.total
             /\ k + m <= Len(all) /\ f = SubSeq(all, k + 1, k + m)
      BY <1>3, <2>1
    <2>3. IsFiniteSet(E) /\ E \in SUBSET Entry
      BY FS_Subset
    <2>4. all \in Seq(Entry) /\ Len(all) = Cardinality(E) /\ Len(all) \in Nat
      BY <2>3, SortedShape
    <2>5. read = SubSeq(all, 1, k)
      <3>1. CASE k = 0
        <4>1. read = <<>>
          BY <1>1, <3>1, EmptySeq
        <4>2. SubSeq(all, 1, 0) = <<>>
          BY SubSeqEmpty
        <4> QED BY <3>1, <4>1, <4>2
      <3>2. CASE k > 0
        <4>1. PICK F \in SUBSET high :
                 /\ Between(F, low, high)
                 /\ \E whole \in Sorted(F) : /\ Len(whole) = total /\ k <= Len(whole)
                                            /\ read = SubSeq(whole, 1, k)
          BY <1>1, <1>8, <3>2 DEF Begins
        <4>2. PICK whole \in Sorted(F) : Len(whole) = total /\ read = SubSeq(whole, 1, k)
          BY <4>1
        <4>3. IsFiniteSet(F) /\ F \in SUBSET Entry
          BY FS_Subset
        <4>4. Len(whole) = Cardinality(F)
          BY <4>3, SortedShape
        <4>5. Cardinality(E) = Cardinality(F)
          BY <1>1, <2>2, <2>4, <3>2, <4>2, <4>4
        <4>6. E = F
          BY <1>8, <2>2, <4>1, <4>5, SameEntries
        <4>7. all = whole
          BY <2>3, <4>6, SortedUnique
        <4> QED BY <4>2, <4>7
      <3> QED BY <3>1, <3>2
    <2>6. joined = SubSeq(all, 1, k + m)
      <3>1. SubSeq(all, 1, k) \o SubSeq(all, k + 1, k + m) = SubSeq(all, 1, k + m)
        <4>1. /\ 1 \in 1..Len(all) + 1 /\ k \in 1 - 1..Len(all) /\ k + m \in k..Len(all)
          BY <2>2, <2>4
        <4> QED BY <2>4, <4>1, ConcatAdjacentSubSeq
      <3> QED BY <1>2, <2>2, <2>5, <3>1
    <2>7. Len(joined) <= Len(all) /\ Len(joined) = k + m
      BY <1>4, <2>2
    <2> QED BY <2>2, <2>6, <2>7 DEF Begins
  <1> QED BY <1>1, <1>2, <1>3, <1>4, <1>7, <1>8, <1>9

\* All that was read of a list is the list: nothing that has stood is missing.
LEMMA WholeContains ==
    ASSUME ListingAssumption, NEW low, NEW high \in SUBSET Entry, IsFiniteSet(high),
           NEW read \in Seq(Entry), Begins(read, Len(read), low, high)
    PROVE  Contains(read, low)
  <1>1. PICK E \in SUBSET high :
           /\ Between(E, low, high)
           /\ \E all \in Sorted(E) : /\ Len(all) = Len(read)
                                     /\ read = SubSeq(all, 1, Len(read))
    BY DEF Begins
  <1>2. PICK all \in Sorted(E) : Len(all) = Len(read) /\ read = SubSeq(all, 1, Len(read))
    BY <1>1
  <1>3. IsFiniteSet(E) /\ E \in SUBSET Entry
    BY FS_Subset
  <1>4. all \in Seq(Entry) /\ Contains(all, E)
    BY <1>3, SortedShape
  <1>5. SubSeq(all, 1, Len(all)) = all
    BY <1>4, SubSeqFull
  <1>6. read = all
    BY <1>2, <1>5
  <1> QED BY <1>1, <1>4, <1>6 DEF Contains, Between

-----------------------------------------------------------------------------
(* The link: commands, answers, and the operation they belong to.          *)

LEMMA Served ==
    ASSUME NEW c \in Seq(Orders), NEW r \in Seq(AnswerSet), NEW last \in Nat,
           NEW first \in Nat, NEW kind, ListingTraffic(c, r, last, first, kind), c # <<>>,
           NEW body \in Bodies, NEW r2,
           r2 = Append(r, [operation |-> Head(c).operation, body |-> body])
    PROVE  ListingTraffic(Tail(c), r2, last, first, kind) /\ r2 \in Seq(AnswerSet)
  <1>1. PICK n \in Nat : n = Head(c).operation
    BY TailsOf DEF Orders
  <1>2. PICK x \in AnswerSet : x = [operation |-> n, body |-> body]
    BY DEF AnswerSet
  <1>3. /\ Tail(c) \in Seq(Orders) /\ Len(Tail(c)) = Len(c) - 1 /\ Len(c) \in Nat \ {0}
        /\ \A i \in 1..Len(c) - 1 : Tail(c)[i] = c[i + 1]
        /\ c[1].operation = n
    BY <1>1, TailsOf
  <1>4. /\ r2 \in Seq(AnswerSet) /\ Len(r2) = Len(r) + 1
        /\ \A i \in 1..Len(r) : r2[i] = r[i]
        /\ r2[Len(r) + 1].operation = n
    BY <1>1, <1>2, AppendedTo
  <1>5. Len(r) \in Nat
    OBVIOUS
  <1>6. Numbered(c, r, last, first, kind) /\ OneUnderWay(c, r, first)
    BY DEF ListingTraffic
  <1>7. Numbered(Tail(c), r2, last, first, kind)
    BY <1>3, <1>4, <1>5, <1>6 DEF Numbered
  <1>8. OneUnderWay(Tail(c), r2, first)
    BY SMTT(30), <1>3, <1>4, <1>5, <1>6 DEF OneUnderWay
  <1> QED BY <1>4, <1>7, <1>8 DEF ListingTraffic

LEMMA CommandDropped ==
    ASSUME NEW c \in Seq(Orders), NEW r \in Seq(AnswerSet), NEW last \in Nat,
           NEW first \in Nat, NEW kind, ListingTraffic(c, r, last, first, kind), c # <<>>
    PROVE  ListingTraffic(Tail(c), r, last, first, kind)
  <1>1. /\ Len(Tail(c)) = Len(c) - 1 /\ Len(c) \in Nat \ {0} /\ Len(r) \in Nat
        /\ \A i \in 1..Len(c) - 1 : Tail(c)[i] = c[i + 1]
    BY TailsOf
  <1>2. Numbered(c, r, last, first, kind) /\ OneUnderWay(c, r, first)
    BY DEF ListingTraffic
  <1>3. Numbered(Tail(c), r, last, first, kind)
    BY <1>1, <1>2 DEF Numbered
  <1>4. OneUnderWay(Tail(c), r, first)
    BY SMTT(30), <1>1, <1>2 DEF OneUnderWay
  <1> QED BY <1>3, <1>4 DEF ListingTraffic

LEMMA ReplyDropped ==
    ASSUME NEW c \in Seq(Orders), NEW r \in Seq(AnswerSet), NEW last \in Nat,
           NEW first \in Nat, NEW kind, ListingTraffic(c, r, last, first, kind), r # <<>>
    PROVE  ListingTraffic(c, Tail(r), last, first, kind) /\ Len(c) + Len(Tail(r)) < last
  <1>1. /\ Len(Tail(r)) = Len(r) - 1 /\ Len(r) \in Nat \ {0} /\ Len(c) \in Nat
        /\ \A i \in 1..Len(r) - 1 : Tail(r)[i] = r[i + 1]
    BY TailsOf
  <1>2. Numbered(c, r, last, first, kind) /\ OneUnderWay(c, r, first)
    BY DEF ListingTraffic
  <1>3. Numbered(c, Tail(r), last, first, kind) /\ Len(c) + Len(Tail(r)) < last
    BY <1>1, <1>2 DEF Numbered
  <1>4. OneUnderWay(c, Tail(r), first)
    BY <1>1, <1>2 DEF OneUnderWay
  <1> QED BY <1>3, <1>4 DEF ListingTraffic

\* The answer of the operation under way: nothing else of the connection is on
\* its way.
LEMMA Delivered ==
    ASSUME NEW c \in Seq(Orders), NEW r \in Seq(AnswerSet), NEW last \in Nat,
           NEW first \in Nat, NEW kind, ListingTraffic(c, r, last, first, kind), r # <<>>,
           Head(r).operation >= first
    PROVE  /\ ListingTraffic(c, Tail(r), last, first, "idle") /\ Len(c) + Len(Tail(r)) < last
           /\ Head(r).operation = last
  <1>1. /\ Len(Tail(r)) = Len(r) - 1 /\ Len(r) \in Nat \ {0} /\ Len(c) \in Nat
        /\ \A i \in 1..Len(r) - 1 : Tail(r)[i] = r[i + 1]
        /\ r[1].operation >= first /\ Head(r) = r[1]
    BY TailsOf
  <1>2. Numbered(c, r, last, first, kind) /\ OneUnderWay(c, r, first)
    BY DEF ListingTraffic
  <1>3. /\ \A i \in 1..Len(c) : ~(c[i].operation >= first)
        /\ \A i \in 2..Len(r) : ~(r[i].operation >= first)
    BY <1>1, <1>2 DEF OneUnderWay
  <1>4. Numbered(c, Tail(r), last, first, "idle") /\ Len(c) + Len(Tail(r)) < last
    BY <1>1, <1>2, <1>3 DEF Numbered
  <1>5. OneUnderWay(c, Tail(r), first)
    BY <1>1, <1>2 DEF OneUnderWay
  <1>6. Head(r).operation = last
    BY <1>1, <1>2 DEF Numbered
  <1> QED BY <1>4, <1>5, <1>6 DEF ListingTraffic

LEMMA Commanded ==
    ASSUME NEW c \in Seq(Orders), NEW r \in Seq(AnswerSet), NEW last \in Nat,
           NEW first \in Nat, ListingTraffic(c, r, last, first, "idle"),
           NEW next \in Nat, next >= last, first <= next, Len(c) + Len(r) < next,
           NEW x \in Orders, x.operation = next, NEW kind, kind # "idle"
    PROVE  ListingTraffic(Append(c, x), r, next, first, kind) /\ Append(c, x) \in Seq(Orders)
  <1> DEFINE c2 == Append(c, x)
  <1>1. /\ c2 \in Seq(Orders) /\ Len(c2) = Len(c) + 1 /\ Len(c) \in Nat /\ Len(r) \in Nat
        /\ \A i \in 1..Len(c) : c2[i] = c[i]
        /\ c2[Len(c) + 1] = x
    BY AppendedTo
  <1> HIDE DEF c2
  <1>2. Numbered(c, r, last, first, "idle") /\ OneUnderWay(c, r, first)
    BY DEF ListingTraffic
  <1>3. /\ \A i \in 1..Len(c) : ~(c[i].operation >= first)
        /\ \A i \in 1..Len(r) : ~(r[i].operation >= first)
    BY <1>2 DEF Numbered
  <1>4. \A i \in 1..Len(c2) : i \in 1..Len(c) \/ i = Len(c) + 1
    BY <1>1
  <1>5. Numbered(c2, r, next, first, kind)
    <2>1. \A i \in 1..Len(c) : c[i].operation \in 1..next
      BY <1>2 DEF Numbered
    <2>2. \A i \in 1..Len(r) : r[i].operation \in 1..next
      BY <1>2 DEF Numbered
    <2>3. next \in 1..next /\ Len(c2) + Len(r) <= next
      BY <1>1
    <2> QED BY <1>1, <1>3, <1>4, <2>1, <2>2, <2>3 DEF Numbered
  <1>6. OneUnderWay(c2, r, first)
    BY <1>1, <1>3, <1>4 DEF OneUnderWay
  <1> QED BY <1>1, <1>5, <1>6 DEF ListingTraffic, c2

\* Nothing that is on its way belongs to the connection that follows.
LEMMA Reconnected ==
    ASSUME NEW c \in Seq(Orders), NEW r \in Seq(AnswerSet), NEW last \in Nat,
           NEW first \in Nat, NEW kind, ListingTraffic(c, r, last, first, kind)
    PROVE  ListingTraffic(c, r, last, last + 1, "idle")
  <1>1. Numbered(c, r, last, first, kind) /\ Len(c) \in Nat /\ Len(r) \in Nat
    BY DEF ListingTraffic
  <1>2. /\ \A i \in 1..Len(c) : c[i].operation \in 1..last /\ ~(c[i].operation >= last + 1)
        /\ \A i \in 1..Len(r) : r[i].operation \in 1..last /\ ~(r[i].operation >= last + 1)
    BY <1>1 DEF Numbered
  <1>3. Numbered(c, r, last, last + 1, "idle")
    BY <1>1, <1>2 DEF Numbered
  <1>4. OneUnderWay(c, r, last + 1)
    BY <1>2 DEF OneUnderWay
  <1> QED BY <1>3, <1>4 DEF ListingTraffic

\* The answer that is next is of the types.
LEMMA MessageType ==
    ASSUME AllTypes, replies # <<>>
    PROVE  /\ Head(replies) \in AnswerSet /\ Head(replies).operation \in Nat /\ Message \in Bodies
           /\ Head(replies) = replies[1]
           /\ Message.op \in {"error", "delete", "list"}
           /\ Message.op = "list" => Message \in Pages
  <1>1. replies \in Seq(AnswerSet)
    BY DEF AllTypes, StorageTypes
  <1>2. Head(replies) \in AnswerSet /\ Head(replies) = replies[1]
    BY <1>1, TailsOf
  <1>3. Message \in Bodies /\ Head(replies).operation \in Nat
    BY <1>2 DEF Message, AnswerSet
  <1> QED BY <1>2, <1>3, BodyFields

\* What the board answers.
LEMMA BodyOf ==
    ASSUME ListingAssumption, AllTypes, Refuse \/ List \/ Delete
    PROVE  /\ commands # <<>>
           /\ Head(commands) \in Orders /\ Head(commands).operation \in Nat
           /\ \E body \in Bodies : Respond(body)
  <1>1. commands # <<>> /\ commands \in Seq(Orders)
    BY DEF Refuse, List, Delete, AllTypes, StorageTypes
  <1>2. Head(commands) \in Orders
    BY <1>1, TailsOf
  <1>3. Head(commands).operation \in Nat /\ Head(commands).offset \in Nat
        /\ (Head(commands).op = "delete" => Head(commands).name \in Names)
    BY <1>2 DEF Orders
  <1>4. ASSUME Refuse PROVE \E body \in Bodies : Respond(body)
    <2>1. Respond(Error) /\ Error \in Bodies
      BY <1>4 DEF Refuse, Bodies
    <2> QED BY <2>1, Zenon
  <1>5. ASSUME List PROVE \E body \in Bodies : Respond(body)
    <2>1. PICK all \in Snapshots(files) : Respond(Page(all, Head(commands).offset))
      BY <1>5 DEF List
    <2>2. files \in [Names -> ListedSizes \cup {0}]
      BY DEF AllTypes, StorageTypes
    <2>3. Entries(files) \in SUBSET Entry /\ IsFiniteSet(Entries(files))
      BY <2>2, EntriesFinite
    <2>4. all \in Seq(Entry)
      BY <2>3, SortedShape DEF Snapshots
    <2>5. PICK k \in Nat : k = Head(commands).offset
      BY <1>3
    <2>6. Page(all, k) \in Bodies
      BY <2>4, PageIsBody
    <2> QED BY <2>1, <2>5, <2>6, Zenon
  <1>6. ASSUME Delete PROVE \E body \in Bodies : Respond(body)
    <2>1. Respond([op |-> "delete", name |-> Head(commands).name])
          /\ Head(commands).op = "delete"
      BY <1>6 DEF Delete
    <2>2. [op |-> "delete", name |-> Head(commands).name] \in Bodies
      BY <1>3, <2>1 DEF Bodies, Deletions
    <2> QED BY <2>1, <2>2, Zenon
  <1> QED BY <1>1, <1>2, <1>3, <1>4, <1>5, <1>6

CarriedTypes ==
    /\ commands \in Seq(Orders) /\ replies \in Seq(AnswerSet)
    /\ operations \in Nat /\ since \in 1..operations + 1

LEMMA LinkNext ==
    ASSUME ListingAssumption, AllTypes, Link, ListingNext
    PROVE  CarriedTypes' /\ Link'
  <1>1. /\ commands \in Seq(Orders) /\ replies \in Seq(AnswerSet)
        /\ operations \in Nat /\ since \in 1..operations + 1 /\ since \in Nat
        /\ ListingTraffic(commands, replies, operations, since, listing.kind)
    BY DEF AllTypes, StorageTypes, ListingTypes, Link
  <1>2. CASE Refuse \/ List \/ Delete
    <2>1. PICK body \in Bodies : Respond(body)
      BY <1>2, BodyOf
    <2>2. UNCHANGED <<listing, operations, since>> /\ commands # <<>>
      BY <1>2 DEF Refuse, List, Delete
    <2>3. /\ commands' = Tail(commands)
          /\ replies' = Append(replies, [operation |-> Head(commands).operation,
                                         body |-> body])
      BY <2>1 DEF Respond
    <2>4. /\ ListingTraffic(Tail(commands), replies', operations, since, listing.kind)
          /\ replies' \in Seq(AnswerSet)
      BY <1>1, <2>2, <2>3, Served
    <2>5. Tail(commands) \in Seq(Orders)
      BY <1>1, <2>2, TailsOf
    <2> QED BY <1>1, <2>2, <2>3, <2>4, <2>5 DEF CarriedTypes, Link
  <1>3. CASE DropCommand
    <2>1. UNCHANGED <<replies, listing, operations, since>> /\ commands # <<>>
          /\ commands' = Tail(commands)
      BY <1>3 DEF DropCommand
    <2>2. ListingTraffic(Tail(commands), replies, operations, since, listing.kind)
      BY <1>1, <2>1, CommandDropped
    <2>3. Tail(commands) \in Seq(Orders)
      BY <1>1, <2>1, TailsOf
    <2> QED BY <1>1, <2>1, <2>2, <2>3 DEF CarriedTypes, Link
  <1>4. CASE Others
    <2>1. UNCHANGED <<commands, replies, listing, operations, since>>
      BY <1>4 DEF Others, Publish, UploadByOther, DeleteByOther, SelectByOther
    <2> QED BY <1>1, <2>1 DEF CarriedTypes, Link
  <1>5. CASE Refresh
    <2> DEFINE x == [op |-> "list", operation |-> operations + 1, offset |-> 0,
                     name |-> None]
    <2>1. /\ listing.kind = "idle" /\ operations' = operations + 1 /\ commands' = Append(commands, x)
          /\ UNCHANGED <<replies, since>> /\ listing'.kind = "list"
      BY <1>5 DEF Refresh, BeginList, Ask, Idle
    <2>2. x \in Orders /\ x.operation = operations + 1
      BY <1>1 DEF Orders
    <2> HIDE DEF x
    <2>3. Len(commands) + Len(replies) < operations + 1
      BY <1>1 DEF ListingTraffic, Numbered
    <2>4. /\ ListingTraffic(Append(commands, x), replies, operations + 1, since, "list")
          /\ Append(commands, x) \in Seq(Orders)
      BY SMTT(30), <1>1, <2>1, <2>2, <2>3, Commanded
    <2> QED BY <1>1, <2>1, <2>4 DEF CarriedTypes, Link
  <1>6. ASSUME NEW n \in Names, DeleteFile(n)
        PROVE  CarriedTypes' /\ Link'
    <2> DEFINE x == [op |-> "delete", operation |-> operations + 1, offset |-> 0, name |-> n]
    <2>1. /\ listing.kind = "idle" /\ operations' = operations + 1 /\ commands' = Append(commands, x)
          /\ UNCHANGED <<replies, since>> /\ listing'.kind = "delete"
      BY <1>6 DEF DeleteFile, Ask, Idle
    <2>2. x \in Orders /\ x.operation = operations + 1
      BY <1>1 DEF Orders
    <2> HIDE DEF x
    <2>3. Len(commands) + Len(replies) < operations + 1
      BY <1>1 DEF ListingTraffic, Numbered
    <2>4. /\ ListingTraffic(Append(commands, x), replies, operations + 1, since, "delete")
          /\ Append(commands, x) \in Seq(Orders)
      BY SMTT(30), <1>1, <2>1, <2>2, <2>3, Commanded
    <2> QED BY <1>1, <2>1, <2>4 DEF CarriedTypes, Link
  <1>7. CASE NextPage \/ Deleted \/ LastPage \/ Failed
    <2> DEFINE rest == Tail(replies)
    <2>1. /\ replies # <<>> /\ Head(replies).operation >= since /\ listing.kind # "idle"
          /\ replies' = rest
      BY <1>7 DEF NextPage, Deleted, LastPage, Failed, Received, Reaches
    <2>2. rest \in Seq(AnswerSet)
      BY <1>1, <2>1, TailsOf
    <2>3. /\ ListingTraffic(commands, rest, operations, since, "idle")
          /\ Len(commands) + Len(rest) < operations
      BY <1>1, <2>1, Delivered
    <2> HIDE DEF rest
    <2>4. CASE NextPage
      <3> DEFINE x == [op |-> "list", operation |-> operations, offset |-> Message.next,
                       name |-> None]
      <3>1. /\ commands' = Append(commands, x) /\ UNCHANGED <<operations, since>>
            /\ listing.kind = "list" /\ PageFits(Message)
            /\ listing' = [listing EXCEPT !.offset = Message.next, !.total = Message.total,
                                !.files = @ \o Message.files]
        BY <2>4 DEF NextPage, Ask
      <3>2. listing'.kind = "list"
        BY <3>1 DEF AllTypes, ListingTypes
      <3>3. Message \in Pages
        BY <2>1, <3>1, MessageType DEF PageFits
      <3>4. Message.next \in Nat
        BY <3>3 DEF Pages
      <3>5. x \in Orders /\ x.operation = operations
        BY <1>1, <3>4 DEF Orders
      <3> HIDE DEF x
      <3>6. CASE since <= operations
        <4>1. /\ ListingTraffic(Append(commands, x), rest, operations, since, "list")
              /\ Append(commands, x) \in Seq(Orders)
          BY <1>1, <2>2, <2>3, <3>5, <3>6, Commanded
        <4> QED BY <1>1, <2>1, <2>2, <3>1, <3>2, <4>1 DEF CarriedTypes, Link
      <3>7. since <= operations
        <4>1. Head(replies).operation = operations
          BY <1>1, <2>1, Delivered
        <4> QED BY <2>1, <4>1
      <3> QED BY <3>6, <3>7
    <2>5. CASE Deleted
      <3> DEFINE x == [op |-> "list", operation |-> operations + 1, offset |-> 0,
                       name |-> None]
      <3>1. /\ operations' = operations + 1 /\ commands' = Append(commands, x)
            /\ UNCHANGED since /\ listing'.kind = "list"
        BY <2>5 DEF Deleted, BeginList, Ask, Idle
      <3>2. x \in Orders /\ x.operation = operations + 1
        BY <1>1 DEF Orders
      <3> HIDE DEF x
      <3>3. Len(commands) + Len(rest) < operations + 1
        BY <1>1, <2>2, <2>3
      <3>4. /\ ListingTraffic(Append(commands, x), rest, operations + 1, since, "list")
            /\ Append(commands, x) \in Seq(Orders)
        BY <1>1, <2>2, <2>3, <3>2, <3>3, Commanded
      <3> QED BY <1>1, <2>1, <2>2, <3>1, <3>4 DEF CarriedTypes, Link
    <2>6. CASE LastPage \/ Failed
      <3>1. UNCHANGED <<commands, operations, since>> /\ listing' = Idle
        BY <2>6 DEF LastPage, Failed
      <3>2. listing'.kind = "idle"
        BY <3>1 DEF Idle
      <3> QED BY <1>1, <2>1, <2>2, <2>3, <3>1, <3>2 DEF CarriedTypes, Link
    <2> QED BY <1>7, <2>4, <2>5, <2>6
  <1>8. CASE DropReply
    <2>1. UNCHANGED <<commands, listing, operations, since>> /\ replies # <<>>
          /\ replies' = Tail(replies)
      BY <1>8 DEF DropReply
    <2>2. ListingTraffic(commands, Tail(replies), operations, since, listing.kind)
      BY <1>1, <2>1, ReplyDropped
    <2>3. Tail(replies) \in Seq(AnswerSet)
      BY <1>1, <2>1, TailsOf
    <2> QED BY <1>1, <2>1, <2>2, <2>3 DEF CarriedTypes, Link
  <1>9. CASE Timeout
    <2>1. UNCHANGED <<commands, replies, operations>> /\ since' = operations + 1
          /\ listing'.kind = "idle"
      BY <1>9 DEF Timeout, Idle
    <2>2. ListingTraffic(commands, replies, operations, operations + 1, "idle")
      BY <1>1, Reconnected
    <2> QED BY <1>1, <2>1, <2>2 DEF CarriedTypes, Link
  <1> QED BY <1>2, <1>3, <1>4, <1>5, <1>6, <1>7, <1>8, <1>9 DEF ListingNext, Board, PC

-----------------------------------------------------------------------------
(* The storage, and what the ghosts see of it.                             *)

LEMMA SmallestIn ==
    ASSUME NEW T \in SUBSET Nat, T # {}
    PROVE  Smallest(T) \in T
  BY LeastNumber DEF Smallest

\* After a deletion a file that exists is selected, or none.
LEMMA SelectionStep ==
    ASSUME ListingAssumption, AllTypes, SelectionExists, NEW n \in Names,
           files' = [files EXCEPT ![n] = 0], selected' = SelectionAfterDelete(n, files')
    PROVE  selected' \in Names \cup {None} /\ SelectionExists'
  <1>1. PICK left \in [Names -> ListedSizes \cup {0}] : left = files'
    BY DEF AllTypes, StorageTypes
  <1>2. /\ files \in [Names -> ListedSizes \cup {0}] /\ selected \in Names \cup {None}
        /\ \A m \in Names : m # n => left[m] = files[m]
    BY <1>1 DEF AllTypes, StorageTypes
  <1>3. CASE selected # n
    BY <1>1, <1>2, <1>3 DEF SelectionAfterDelete, SelectionExists
  <1>4. CASE selected = n /\ Present(left) = {}
    BY <1>1, <1>4 DEF SelectionAfterDelete, SelectionExists
  <1>5. CASE selected = n /\ Present(left) # {}
    <2>1. Present(left) \in SUBSET Nat
      BY DEF Present, ListingAssumption
    <2>2. Smallest(Present(left)) \in Present(left)
      BY <1>5, <2>1, SmallestIn
    <2>3. selected' = Smallest(Present(left))
      BY <1>1, <1>5 DEF SelectionAfterDelete
    <2>4. selected' \in Names /\ left[selected'] # 0
      BY <2>2, <2>3 DEF Present
    <2> QED BY <1>1, <2>4 DEF SelectionExists
  <1> QED BY <1>3, <1>4, <1>5

LEMMA StorageNext ==
    ASSUME ListingAssumption, AllTypes, SelectionExists, ListingNext
    PROVE  /\ files' \in [Names -> ListedSizes \cup {0}] /\ selected' \in Names \cup {None}
           /\ SelectionExists'
  <1>1. files \in [Names -> ListedSizes \cup {0}] /\ selected \in Names \cup {None}
    BY DEF AllTypes, StorageTypes
  <1>2. CASE PC \/ Refuse \/ List \/ DropCommand
    <2>1. UNCHANGED <<files, selected>>
      BY <1>2 DEF PC, Refresh, NextPage, LastPage, Deleted, Failed, DropReply, Timeout,
                  DeleteFile, Refuse, List, DropCommand
    <2> QED BY <1>1, <2>1 DEF SelectionExists
  <1>3. CASE Delete
    <2>1. commands # <<>> /\ commands \in Seq(Orders) /\ Head(commands).op = "delete"
      BY <1>3 DEF Delete, AllTypes, StorageTypes
    <2>2. Head(commands) \in Orders
      BY <2>1, TailsOf
    <2>3. PICK n \in Names : n = Head(commands).name
      BY <2>1, <2>2 DEF Orders
    <2>4. /\ files' = [files EXCEPT ![n] = 0] /\ selected' = SelectionAfterDelete(n, files')
      BY <1>3, <2>3 DEF Delete
    <2> QED BY <1>1, <2>4, SelectionStep
  <1>4. ASSUME NEW n \in Names, DeleteByOther(n)
        PROVE  /\ files' \in [Names -> ListedSizes \cup {0}] /\ selected' \in Names \cup {None}
               /\ SelectionExists'
    <2>1. /\ files' = [files EXCEPT ![n] = 0] /\ selected' = SelectionAfterDelete(n, files')
      BY <1>4 DEF DeleteByOther
    <2> QED BY <1>1, <2>1, SelectionStep
  <1>5. ASSUME NEW n \in Names, NEW s \in ListedSizes, Publish(n, s) \/ UploadByOther(n, s)
        PROVE  /\ files' \in [Names -> ListedSizes \cup {0}] /\ selected' \in Names \cup {None}
               /\ SelectionExists'
    <2>1. files' = [files EXCEPT ![n] = s] /\ (selected' = selected \/ selected' = n)
      BY <1>5 DEF Publish, UploadByOther
    <2>2. s # 0
      BY DEF ListingAssumption
    <2> QED BY <1>1, <2>1, <2>2 DEF SelectionExists
  <1>6. ASSUME NEW n \in Names, SelectByOther(n)
        PROVE  /\ files' \in [Names -> ListedSizes \cup {0}] /\ selected' \in Names \cup {None}
               /\ SelectionExists'
    BY <1>1, <1>6 DEF SelectByOther, SelectionExists
  <1> QED BY <1>2, <1>3, <1>4, <1>5, <1>6 DEF ListingNext, Board, Others

\* The ghosts only gain what exists and lose what is gone, while the PC reads.
Grown ==
    /\ existed \subseteq existed' /\ standing' \subseteq standing
    /\ listing.kind # "list" => UNCHANGED <<existed, standing>>

LEMMA WatchStep ==
    ASSUME ListingAssumption, AllTypes, Watched, NEW storage \in [Names -> ListedSizes \cup {0}],
           Watch(storage)
    PROVE  /\ Grown /\ WatchTypes'
           /\ listing.kind = "list" => Between(Entries(storage), standing', existed')
  <1>1. existed \subseteq Entry /\ standing \subseteq Entry /\ IsFiniteSet(existed)
    BY DEF AllTypes, WatchTypes
  <1>2. Entries(storage) \subseteq Entry /\ IsFiniteSet(Entries(storage))
    BY EntriesFinite
  <1>3. CASE listing.kind = "list"
    <2>1. existed' = existed \cup Entries(storage) /\ standing' = standing \cap Entries(storage)
      BY <1>3 DEF Watch
    <2>2. IsFiniteSet(existed')
      BY <1>1, <1>2, <2>1, FS_Union
    <2> QED BY <1>1, <1>2, <1>3, <2>1, <2>2 DEF Grown, WatchTypes, Between
  <1>4. CASE listing.kind # "list"
    <2>1. UNCHANGED <<existed, standing>>
      BY <1>4 DEF Watch
    <2> QED BY <1>1, <1>4, <2>1 DEF Grown, WatchTypes
  <1> QED BY <1>3, <1>4

LEMMA WatchNext ==
    ASSUME ListingAssumption, AllTypes, SelectionExists, Watched, ListingNext
    PROVE  /\ WatchTypes' /\ Watched'
           /\ Grown \/ Refresh \/ Deleted
           /\ Refresh \/ Deleted => existed' = Entries(files') /\ standing' = Entries(files')
  <1>1. files' \in [Names -> ListedSizes \cup {0}] /\ files \in [Names -> ListedSizes \cup {0}]
    BY StorageNext DEF AllTypes, StorageTypes
  <1>2. CASE Refresh \/ Deleted
    <2>1. existed' = Entries(files) /\ standing' = Entries(files) /\ files' = files
      BY <1>2 DEF Refresh, Deleted, BeginList
    <2>2. Entries(files) \subseteq Entry /\ IsFiniteSet(Entries(files))
      BY <1>1, EntriesFinite
    <2>3. existed' = Entries(files') /\ standing' = Entries(files')
      BY <2>1
    <2>4. WatchTypes'
      BY <2>1, <2>2 DEF WatchTypes
    <2>5. Watched'
      BY <2>1 DEF Watched, Between
    <2> QED BY <1>2, <2>3, <2>4, <2>5
  <1>3. ASSUME ~(Refresh \/ Deleted)
        PROVE  WatchTypes' /\ Watched' /\ Grown
    <2> PICK storage \in [Names -> ListedSizes \cup {0}] : storage = files'
      BY <1>1
    <2>1. ASSUME Watch(storage), UNCHANGED listing
          PROVE  WatchTypes' /\ Watched' /\ Grown
      <3>1. /\ Grown /\ WatchTypes'
            /\ listing.kind = "list" => Between(Entries(storage), standing', existed')
        BY <2>1, WatchStep
      <3>2. Watched'
        BY <2>1, <3>1 DEF Watched, Entries, Present
      <3> QED BY <3>1, <3>2
    <2>2. ASSUME UNCHANGED <<files, existed, standing>>, listing'.kind # listing.kind => listing'.kind # "list"
          PROVE  WatchTypes' /\ Watched' /\ Grown
      <3>1. WatchTypes' /\ Grown
        BY <2>2 DEF AllTypes, WatchTypes, Grown
      <3>2. Watched'
        BY <2>2 DEF Watched, Entries, Present, Between
      <3> QED BY <3>1, <3>2
    <2>3. CASE Delete
      BY <2>1, <2>3 DEF Delete, Watch
    <2>4. ASSUME NEW n \in Names, NEW s \in ListedSizes, Publish(n, s) \/ UploadByOther(n, s)
          PROVE  WatchTypes' /\ Watched' /\ Grown
      BY <2>1, <2>4 DEF Publish, UploadByOther, Watch
    <2>5. ASSUME NEW n \in Names, DeleteByOther(n)
          PROVE  WatchTypes' /\ Watched' /\ Grown
      BY <2>1, <2>5 DEF DeleteByOther, Watch
    <2>6. ASSUME NEW n \in Names, SelectByOther(n) \/ DeleteFile(n)
          PROVE  WatchTypes' /\ Watched' /\ Grown
      <3>1. UNCHANGED <<files, existed, standing>>
        BY <2>6 DEF SelectByOther, DeleteFile
      <3>2. listing' = listing \/ listing'.kind = "delete"
        BY <2>6 DEF SelectByOther, DeleteFile, Idle
      <3> QED BY <2>2, <3>1, <3>2
    <2>7. CASE Refuse \/ List \/ DropCommand \/ DropReply
      BY <2>2, <2>7 DEF Refuse, List, DropCommand, DropReply
    <2>8. CASE NextPage
      BY <2>2, <2>8 DEF NextPage
    <2>9. CASE LastPage \/ Failed \/ Timeout
      <3>1. UNCHANGED <<files, existed, standing>> /\ listing' = Idle
        BY <2>9 DEF LastPage, Failed, Timeout
      <3>2. listing'.kind = "idle"
        BY <3>1 DEF Idle
      <3> QED BY <2>2, <3>1, <3>2
    <2> QED BY <1>3, <2>3, <2>4, <2>5, <2>6, <2>7, <2>8, <2>9 DEF ListingNext, Board, Others, PC
  <1> QED BY <1>2, <1>3

-----------------------------------------------------------------------------
(* What the PC reads and shows.                                            *)

LEMMA PcFields ==
    ASSUME AllTypes
    PROVE  /\ listing.kind \in {"idle", "list", "delete"} /\ listing.offset \in Nat /\ listing.total \in Nat
           /\ listing.files \in Seq(Entry) /\ listing.name \in Names \cup {None}
           /\ list.entries \in Seq(Entry) /\ list.complete \in BOOLEAN
  BY DEF AllTypes, ListingTypes, Readings, Listings

LEMMA PcIdle ==
    /\ Idle \in Readings /\ Idle.kind = "idle" /\ Idle.offset = 0 /\ Idle.files = <<>>
    /\ [Idle EXCEPT !.kind = "list"] \in Readings
    /\ [Idle EXCEPT !.kind = "list"].kind = "list"
    /\ [Idle EXCEPT !.kind = "list"].offset = 0
    /\ [Idle EXCEPT !.kind = "list"].files = <<>>
  <1>1. PICK nothing \in Seq(Entry) : nothing = <<>>
    BY EmptySeq
  <1>2. Idle = [kind |-> "idle", offset |-> 0, total |-> None, files |-> nothing,
                name |-> None]
    BY <1>1 DEF Idle
  <1>3. Idle \in Readings /\ Idle.kind = "idle" /\ Idle.offset = 0 /\ Idle.files = nothing
    BY <1>2 DEF Readings, None
  <1>4. /\ [Idle EXCEPT !.kind = "list"] \in Readings
        /\ [Idle EXCEPT !.kind = "list"].kind = "list"
        /\ [Idle EXCEPT !.kind = "list"].offset = Idle.offset
        /\ [Idle EXCEPT !.kind = "list"].files = Idle.files
    BY <1>3 DEF Readings
  <1> QED BY <1>1, <1>3, <1>4

LEMMA PcDeleting ==
    ASSUME NEW n \in Names
    PROVE  /\ [Idle EXCEPT !.kind = "delete", !.name = n] \in Readings
           /\ [Idle EXCEPT !.kind = "delete", !.name = n].kind = "delete"
           /\ [Idle EXCEPT !.kind = "delete", !.name = n].offset = 0
           /\ [Idle EXCEPT !.kind = "delete", !.name = n].files = <<>>
  <1>1. Idle \in Readings /\ Idle.offset = 0 /\ Idle.files = <<>>
    BY PcIdle
  <1>2. /\ [Idle EXCEPT !.kind = "delete", !.name = n] \in Readings
        /\ [Idle EXCEPT !.kind = "delete", !.name = n].kind = "delete"
        /\ [Idle EXCEPT !.kind = "delete", !.name = n].offset = Idle.offset
        /\ [Idle EXCEPT !.kind = "delete", !.name = n].files = Idle.files
    BY <1>1 DEF Readings
  <1> QED BY <1>1, <1>2

\* A listing that is no longer complete.
LEMMA Incomplete ==
    ASSUME AllTypes
    PROVE  /\ [list EXCEPT !.complete = FALSE] \in Listings
           /\ [list EXCEPT !.complete = FALSE].complete = FALSE
  BY DEF AllTypes, ListingTypes, Listings

\* A page that fits, joined to what was read.
Joined == listing.files \o Message.files

LEMMA PageTaken ==
    ASSUME ListingAssumption, AllTypes, Link, PagesTrue, ReadTrue,
           Received, listing.kind = "list", PageFits(Message)
    PROVE  /\ Message \in Pages /\ Joined \in Seq(Entry)
           /\ Len(Joined) = Message.offset + Len(Message.files)
           /\ Within(Joined, existed) /\ Distinct(Joined)
           /\ Few(standing, existed) => Begins(Joined, Message.total, standing, existed)
  <1>1. /\ replies # <<>> /\ Head(replies).operation >= since
        /\ Message.op = "list" /\ Message.offset = listing.offset
        /\ listing.total # None => Message.total = listing.total
        /\ \A i \in 1..Len(Message.files), j \in 1..Len(listing.files) :
              Message.files[i][1] # listing.files[j][1]
    BY DEF Received, Reaches, PageFits
  <1>2. PICK page \in Pages : page = Message
    BY <1>1, MessageType
  <1>3. PastPage(page, standing, existed)
    <2>1. 1 \in 1..Len(replies) /\ Head(replies) = replies[1]
      BY <1>1, TailsOf DEF AllTypes, StorageTypes
    <2> QED BY <1>1, <1>2, <2>1 DEF PagesTrue, Message
  <1>4. /\ existed \in SUBSET Entry /\ IsFiniteSet(existed)
    BY DEF AllTypes, WatchTypes
  <1>5. PICK read \in Seq(Entry) : read = listing.files
    BY PcFields
  <1>6. PICK total \in Nat : total = listing.total
    BY PcFields
  <1>7. /\ Within(read, existed) /\ Distinct(read) /\ Len(read) = listing.offset
        /\ Len(read) > 0 => total # None
        /\ Len(read) > 0 /\ Few(standing, existed) =>
              Begins(read, total, standing, existed)
    BY <1>5, <1>6 DEF ReadTrue
  <1>8. /\ page.offset = Len(read)
        /\ Len(read) > 0 => page.total = total
        /\ \A i \in 1..Len(page.files), j \in 1..Len(read) :
              page.files[i][1] # read[j][1]
    BY <1>1, <1>2, <1>5, <1>6, <1>7
  <1>9. PICK joined : joined = read \o page.files
    OBVIOUS
  <1>10. /\ joined \in Seq(Entry) /\ Len(joined) = page.offset + Len(page.files)
         /\ Within(joined, existed) /\ Distinct(joined)
         /\ Few(standing, existed) => Begins(joined, page.total, standing, existed)
    BY ZenonT(60), <1>3, <1>4, <1>7, <1>8, <1>9, PageJoins
  <1>11. joined = Joined
    BY <1>2, <1>5, <1>9 DEF Joined
  <1> QED BY <1>2, <1>10, <1>11

LEMMA ListingTypesNext ==
    ASSUME ListingAssumption, AllTypes, Link, PagesTrue, ReadTrue, ListingNext
    PROVE  ListingTypes'
  <1>1. CarriedTypes'
    BY LinkNext
  <1>2. /\ listing \in Readings /\ list \in Listings /\ operations \in Nat
        /\ reported \in 0..operations /\ removed \subseteq 1..operations
    BY DEF AllTypes, ListingTypes
  <1>3. listing' \in Readings /\ list' \in Listings
    <2>1. CASE UNCHANGED <<listing, list>>
      BY <1>2, <2>1
    <2>2. CASE Refresh \/ Deleted
      <3>1. /\ listing' = [Idle EXCEPT !.kind = "list"] /\ list' = [list EXCEPT !.complete = FALSE]
        BY <2>2 DEF Refresh, Deleted, BeginList
      <3> QED BY <3>1, PcIdle, Incomplete
    <2>3. ASSUME NEW n \in Names, DeleteFile(n)
          PROVE  listing' \in Readings /\ list' \in Listings
      <3>1. listing' = [Idle EXCEPT !.kind = "delete", !.name = n] /\ list' = list
        BY <2>3 DEF DeleteFile
      <3> QED BY <1>2, <3>1, PcDeleting
    <2>4. CASE NextPage
      <3>1. /\ listing' = [listing EXCEPT !.offset = Message.next, !.total = Message.total,
                                !.files = Joined]
            /\ list' = list /\ Received /\ listing.kind = "list" /\ PageFits(Message)
        BY <2>4 DEF NextPage, Joined
      <3>2. Message \in Pages /\ Joined \in Seq(Entry)
        BY <3>1, PageTaken
      <3>3. Message.next \in Nat /\ Message.total \in Nat
        BY <3>2 DEF Pages
      <3>4. listing' \in Readings
        BY <1>2, <3>1, <3>2, <3>3 DEF Readings
      <3> QED BY <1>2, <3>1, <3>4
    <2>5. CASE LastPage
      <3>1. /\ listing' = Idle /\ list' = [entries |-> Joined, complete |-> TRUE]
            /\ Received /\ listing.kind = "list" /\ PageFits(Message)
        BY <2>5 DEF LastPage, Joined
      <3>2. Joined \in Seq(Entry)
        BY <3>1, PageTaken
      <3> QED BY <3>1, <3>2, PcIdle DEF Listings
    <2>6. CASE Failed \/ Timeout
      <3>1. listing' = Idle /\ list' = [list EXCEPT !.complete = FALSE]
        BY <2>6 DEF Failed, Timeout
      <3> QED BY <3>1, PcIdle, Incomplete
    <2>7. CASE Board \/ Others \/ DropReply
      <3>1. UNCHANGED <<listing, list>>
        BY <2>7 DEF Board, Others, Refuse, List, Delete, DropCommand, Publish, UploadByOther,
                    DeleteByOther, SelectByOther, DropReply
      <3> QED BY <1>2, <3>1
    <2> QED BY <2>1, <2>2, <2>3, <2>4, <2>5, <2>6, <2>7 DEF ListingNext, PC
  <1>4. operations' \in Nat /\ operations <= operations'
    <2>1. operations' = operations \/ operations' = operations + 1
      BY DEF ListingNext, Board, Others, PC, Refuse, List, Delete, DropCommand, Publish,
             UploadByOther, DeleteByOther, SelectByOther, Refresh, NextPage, LastPage,
             Deleted, Failed, DropReply, Timeout, DeleteFile, BeginList
    <2> QED BY <1>2, <2>1
  <1>5. reported' \in 0..operations'
    <2>1. reported' = reported \/ reported' = operations
      BY DEF ListingNext, Board, Others, PC, Refuse, List, Delete, DropCommand, Publish,
             UploadByOther, DeleteByOther, SelectByOther, Refresh, NextPage, LastPage,
             Deleted, Failed, DropReply, Timeout, DeleteFile
    <2> QED BY <1>2, <1>4, <2>1
  <1>6. removed' \subseteq 1..operations'
    <2>1. CASE Delete
      <3>1. commands # <<>> /\ removed' = removed \cup {Head(commands).operation}
        BY <2>1 DEF Delete
      <3>2. 1 \in 1..Len(commands) /\ Head(commands) = commands[1]
        BY <3>1, TailsOf DEF AllTypes, StorageTypes
      <3>3. Head(commands).operation \in 1..operations
        BY <3>2 DEF Link, ListingTraffic, Numbered
      <3>4. PICK n \in 1..operations : n = Head(commands).operation
        BY <3>3
      <3>5. removed' = removed \cup {n}
        BY <3>1, <3>4
      <3> QED BY <1>2, <1>4, <3>5
    <2>2. CASE removed' = removed
      BY <1>2, <1>4, <2>2
    <2> QED BY <2>1, <2>2
            DEF ListingNext, Board, Others, PC, Refuse, List, DropCommand, Publish,
                UploadByOther, DeleteByOther, SelectByOther, Refresh, NextPage, LastPage,
                Deleted, Failed, DropReply, Timeout, DeleteFile
  <1> QED BY <1>1, <1>3, <1>4, <1>5, <1>6 DEF ListingTypes, CarriedTypes

LEMMA TypesNext ==
    ASSUME ListingAssumption, AllTypes, Link, Watched, PagesTrue, ReadTrue, SelectionExists, ListingNext
    PROVE  AllTypes'
  <1>1. StorageTypes'
    BY LinkNext, StorageNext DEF StorageTypes, CarriedTypes
  <1>2. ListingTypes'
    BY ListingTypesNext
  <1>3. WatchTypes'
    BY WatchNext
  <1> QED BY <1>1, <1>2, <1>3 DEF AllTypes

-----------------------------------------------------------------------------
(* What is reported as deleted.                                            *)

LEMMA DeedsNext ==
    ASSUME ListingAssumption, AllTypes, Link, Deeds, ListingNext
    PROVE  Deeds'
  <1>1. /\ commands \in Seq(Orders) /\ replies \in Seq(AnswerSet) /\ operations \in Nat
        /\ ListingTraffic(commands, replies, operations, since, listing.kind) /\ since \in Nat
    BY DEF AllTypes, StorageTypes, ListingTypes, Link
  <1>2. removed \subseteq removed'
    BY DEF ListingNext, Board, Others, PC, Refuse, List, Delete, DropCommand, Publish,
           UploadByOther, DeleteByOther, SelectByOther, Refresh, NextPage, LastPage,
           Deleted, Failed, DropReply, Timeout, DeleteFile
  <1>3. reported' # None => reported' \in removed'
    <2>1. CASE Deleted
      <3>1. /\ reported' = operations /\ Message.op = "delete"
            /\ replies # <<>> /\ Head(replies).operation >= since
        BY <2>1 DEF Deleted, IsDeletion, Received, Reaches
      <3>2. Head(replies).operation = operations
        BY <1>1, <3>1, Delivered
      <3>3. 1 \in 1..Len(replies) /\ Head(replies) = replies[1]
        BY <1>1, <3>1, TailsOf
      <3>4. operations \in removed
        BY <3>1, <3>2, <3>3 DEF Deeds, Message
      <3> QED BY <1>2, <3>1, <3>4
    <2>2. CASE reported' = reported
      BY <1>2, <2>2 DEF Deeds
    <2> QED BY <2>1, <2>2
            DEF ListingNext, Board, Others, PC, Refuse, List, Delete, DropCommand, Publish,
                UploadByOther, DeleteByOther, SelectByOther, Refresh, NextPage, LastPage,
                Failed, DropReply, Timeout, DeleteFile
  <1>4. ASSUME replies' = replies
        PROVE  \A i \in 1..Len(replies') :
                  replies'[i].body.op = "delete" => replies'[i].operation \in removed'
    BY <1>2, <1>4 DEF Deeds
  <1>5. ASSUME replies # <<>>, replies' = Tail(replies)
        PROVE  \A i \in 1..Len(replies') :
                  replies'[i].body.op = "delete" => replies'[i].operation \in removed'
    <2>1. /\ Len(replies') = Len(replies) - 1 /\ Len(replies) \in Nat
          /\ \A i \in 1..Len(replies) - 1 : replies'[i] = replies[i + 1]
      BY <1>1, <1>5, TailsOf
    <2> QED BY <1>2, <2>1 DEF Deeds
  <1>6. ASSUME Refuse \/ List \/ Delete
        PROVE  \A i \in 1..Len(replies') :
                  replies'[i].body.op = "delete" => replies'[i].operation \in removed'
    <2>1. PICK body \in Bodies : Respond(body)
      BY <1>6, BodyOf
    <2>2. PICK n \in Nat : n = Head(commands).operation
      BY <1>6, BodyOf
    <2>3. PICK x \in AnswerSet : x = [operation |-> n, body |-> body]
      BY DEF AnswerSet
    <2>4. x.operation = n /\ x.body = body
      BY <2>3
    <2>5. replies' = Append(replies, x)
      BY <2>1, <2>2, <2>3 DEF Respond
    <2>6. /\ Len(replies') = Len(replies) + 1 /\ Len(replies) \in Nat
          /\ \A i \in 1..Len(replies) : replies'[i] = replies[i]
          /\ replies'[Len(replies) + 1] = x
      BY <1>1, <2>5, AppendedTo
    <2>7. body.op = "delete" => n \in removed'
      <3>1. CASE Delete
        BY <2>2, <3>1 DEF Delete
      <3>2. CASE Refuse
        <4>1. Respond(Error)
          BY <3>2 DEF Refuse
        <4>2. replies' = Append(replies, [operation |-> n, body |-> Error])
          BY <2>2, <4>1 DEF Respond
        <4>3. [operation |-> n, body |-> Error] \in AnswerSet
          BY DEF AnswerSet, Bodies
        <4>4. replies'[Len(replies) + 1] = [operation |-> n, body |-> Error]
          BY <1>1, <4>2, <4>3, AppendedTo
        <4>5. body = Error
          BY <2>4, <2>6, <4>4
        <4> QED BY <4>5 DEF Error
      <3>3. CASE List
        <4>1. PICK all \in Snapshots(files) : Respond(Page(all, Head(commands).offset))
          BY <3>3 DEF List
        <4>2. PICK page : page = Page(all, Head(commands).offset)
          OBVIOUS
        <4>3. page.op # "delete"
          BY <4>2 DEF Page, Error
        <4>4. replies' = Append(replies, [operation |-> n, body |-> page])
          BY <2>2, <4>1, <4>2 DEF Respond
        <4>5. replies'[Len(replies) + 1] = [operation |-> n, body |-> page]
          BY <1>1, <4>4
        <4>6. body = page
          BY <2>4, <2>6, <4>5
        <4> QED BY <4>3, <4>6
      <3> QED BY <1>6, <3>1, <3>2, <3>3
    <2> SUFFICES ASSUME NEW i \in 1..Len(replies), replies'[i].body.op = "delete"
                 PROVE  replies'[i].operation \in removed'
      BY <2>4, <2>6, <2>7
    <2> QED BY <1>2, <2>6 DEF Deeds
  <1>7. \A i \in 1..Len(replies') :
           replies'[i].body.op = "delete" => replies'[i].operation \in removed'
    <2>1. CASE Refuse \/ List \/ Delete
      BY <1>6, <2>1
    <2>2. CASE DropCommand \/ Others \/ Refresh \/ Timeout
      <3>1. replies' = replies
        BY <2>2 DEF DropCommand, Others, Publish, UploadByOther, DeleteByOther,
                    SelectByOther, Refresh, Timeout
      <3> QED BY <1>4, <3>1
    <2>3. ASSUME NEW n \in Names, DeleteFile(n)
          PROVE  \A i \in 1..Len(replies') :
                    replies'[i].body.op = "delete" => replies'[i].operation \in removed'
      BY <1>4, <2>3 DEF DeleteFile
    <2>4. CASE NextPage \/ LastPage \/ Deleted \/ Failed \/ DropReply
      <3>1. replies # <<>> /\ replies' = Tail(replies)
        BY <2>4 DEF NextPage, LastPage, Deleted, Failed, DropReply, Received
      <3> QED BY <1>5, <3>1
    <2> QED BY <2>1, <2>2, <2>3, <2>4 DEF ListingNext, Board, PC
  <1> QED BY <1>3, <1>7 DEF Deeds

-----------------------------------------------------------------------------
(* The pages on their way.                                                 *)

\* The answers, once one of them is true of the list.
LEMMA PagesAnswered ==
    ASSUME ListingAssumption, AllTypes, PagesTrue, Grown, UNCHANGED <<listing, since>>,
           commands # <<>>, NEW body \in Bodies, Respond(body),
           listing.kind = "list" /\ body.op = "list" => PastPage(body, standing', existed')
    PROVE  PagesTrue'
  <1>1. commands \in Seq(Orders) /\ replies \in Seq(AnswerSet)
    BY DEF AllTypes, StorageTypes
  <1>2. PICK n \in Nat : n = Head(commands).operation
    BY <1>1, TailsOf DEF Orders
  <1>3. PICK x \in AnswerSet : x = [operation |-> n, body |-> body]
    BY DEF AnswerSet
  <1>4. replies' = Append(replies, x) /\ x.body = body
    BY <1>2, <1>3 DEF Respond
  <1>5. /\ Len(replies') = Len(replies) + 1 /\ Len(replies) \in Nat
        /\ \A i \in 1..Len(replies) : replies'[i] = replies[i]
        /\ replies'[Len(replies) + 1] = x
    BY <1>1, <1>4, AppendedTo
  <1>6. SUFFICES ASSUME NEW i \in 1..Len(replies'), NEW r, r = replies'[i],
                        r.operation >= since, listing.kind = "list", r.body.op = "list"
                 PROVE  PastPage(r.body, standing', existed')
    BY DEF PagesTrue
  <1>7. CASE i \in 1..Len(replies)
    <2>1. PastPage(r.body, standing, existed)
      BY <1>5, <1>6, <1>7 DEF PagesTrue
    <2>2. PICK page : page = r.body
      OBVIOUS
    <2>3. PastPage(page, standing', existed')
      BY <2>1, <2>2, PastKeeps DEF Grown
    <2> QED BY <2>2, <2>3
  <1>8. CASE i = Len(replies) + 1
    <2>1. r.body = body
      BY <1>4, <1>5, <1>6, <1>8
    <2> QED BY <1>6, <2>1
  <1> QED BY <1>5, <1>7, <1>8

LEMMA PagesNext ==
    ASSUME ListingAssumption, AllTypes, Link, Watched, PagesTrue, SelectionExists, ListingNext
    PROVE  PagesTrue'
  <1>1. /\ commands \in Seq(Orders) /\ replies \in Seq(AnswerSet) /\ operations \in Nat
        /\ ListingTraffic(commands, replies, operations, since, listing.kind) /\ since \in Nat
        /\ files \in [Names -> ListedSizes \cup {0}]
    BY DEF AllTypes, StorageTypes, ListingTypes, Link
  <1>2. Grown \/ Refresh \/ Deleted
    BY WatchNext
  <1>3. CASE Refuse
    <2>1. Respond(Error) /\ Error \in Bodies /\ Error.op # "list"
          /\ UNCHANGED <<listing, since, existed, standing>> /\ commands # <<>>
      BY <1>3 DEF Refuse, Bodies, Error
    <2>2. Grown
      BY <2>1 DEF Grown
    <2> QED BY <2>1, <2>2, PagesAnswered
  <1>4. CASE Delete
    <2>1. UNCHANGED <<listing, since>> /\ commands # <<>> /\ Head(commands).op = "delete"
          /\ Respond([op |-> "delete", name |-> Head(commands).name])
      BY <1>4 DEF Delete
    <2>2. PICK n \in Names : n = Head(commands).name
      BY <1>1, <2>1, TailsOf DEF Orders
    <2>3. PICK body \in Bodies : body = [op |-> "delete", name |-> n]
      BY DEF Bodies, Deletions
    <2>4. Respond(body) /\ body.op # "list"
      BY <2>1, <2>2, <2>3
    <2>5. Grown
      <3>1. PICK storage \in [Names -> ListedSizes \cup {0}] : storage = files'
        BY StorageNext
      <3>2. Watch(storage)
        BY <1>4, <3>1 DEF Delete, Watch
      <3> QED BY <3>2, WatchStep
    <2> QED BY <2>1, <2>4, <2>5, PagesAnswered
  <1>5. CASE List
    <2>1. PICK all \in Snapshots(files) : Respond(Page(all, Head(commands).offset))
      BY <1>5 DEF List
    <2>2. UNCHANGED <<listing, since, existed, standing>> /\ commands # <<>>
      BY <1>5 DEF List
    <2>3. PICK k \in Nat : k = Head(commands).offset
      BY <1>1, <2>2, TailsOf DEF Orders
    <2>4. PICK entries \in SUBSET Entry : entries = Entries(files) /\ IsFiniteSet(entries)
      BY <1>1, EntriesFinite
    <2>5. all \in Sorted(entries) /\ all \in Seq(Entry)
      BY <2>1, <2>4, SortedShape DEF Snapshots
    <2>6. PICK page \in Bodies : page = Page(all, k)
      BY <2>5, PageIsBody
    <2>7. Respond(page)
      BY <2>1, <2>3, <2>6
    <2>8. ASSUME listing.kind = "list", page.op = "list"
          PROVE  PastPage(page, standing', existed')
      <3>1. Between(entries, standing, existed)
        BY <2>4, <2>8 DEF Watched
      <3>2. page.offset = k
        BY <2>5, <2>6, <2>8, PageShape
      <3>3. page = Page(all, page.offset)
        BY <2>6, <3>2
      <3>4. PastPage(page, standing, existed)
        BY <2>5, <3>1, <3>3 DEF PastPage, Between
      <3> QED BY <2>2, <3>4
    <2>9. Grown
      BY <2>2 DEF Grown
    <2> QED BY <2>2, <2>7, <2>8, <2>9, PagesAnswered
  <1>6. ASSUME UNCHANGED <<listing, since>>, Grown,
               replies' = replies \/ (replies # <<>> /\ replies' = Tail(replies))
        PROVE  PagesTrue'
    <2>1. \A i \in 1..Len(replies') : \E j \in 1..Len(replies) : replies'[i] = replies[j]
      <3>1. CASE replies' = replies
        BY <3>1
      <3>2. CASE replies # <<>> /\ replies' = Tail(replies)
        <4>1. /\ Len(replies') = Len(replies) - 1 /\ Len(replies) \in Nat
              /\ \A i \in 1..Len(replies) - 1 : replies'[i] = replies[i + 1]
          BY <1>1, <3>2, TailsOf
        <4> QED BY <4>1
      <3> QED BY <1>6, <3>1, <3>2
    <2>2. SUFFICES ASSUME NEW i \in 1..Len(replies'), replies'[i].operation >= since,
                          listing.kind = "list", replies'[i].body.op = "list"
                   PROVE  PastPage(replies'[i].body, standing', existed')
      BY <1>6 DEF PagesTrue
    <2>3. PICK j \in 1..Len(replies) : replies'[i] = replies[j]
      BY <2>1
    <2>4. PICK page : page = replies[j].body
      OBVIOUS
    <2>5. PastPage(page, standing, existed)
      BY <2>2, <2>3, <2>4 DEF PagesTrue
    <2>6. PastPage(page, standing', existed')
      BY <1>6, <2>5, PastKeeps DEF Grown
    <2> QED BY <2>3, <2>4, <2>6
  <1>7. CASE Others \/ DropCommand \/ DropReply
    <2>1. /\ UNCHANGED <<listing, since>>
          /\ replies' = replies \/ (replies # <<>> /\ replies' = Tail(replies))
      BY <1>7 DEF Others, Publish, UploadByOther, DeleteByOther, SelectByOther, DropCommand,
                  DropReply
    <2>2. CASE Grown
      BY <1>6, <2>1, <2>2
    <2>3. CASE Refresh \/ Deleted
      <3>1. listing'.kind = "list"
        BY <2>3, PcIdle DEF Refresh, Deleted, BeginList
      <3>2. listing.kind # "list"
        BY <2>3 DEF Refresh, Deleted
      <3> QED BY <2>1, <3>1, <3>2
    <2> QED BY <1>2, <2>2, <2>3
  <1>8. ASSUME listing'.kind # "list"
        PROVE  PagesTrue'
    BY <1>8 DEF PagesTrue
  <1>9. ASSUME NEW n \in Names, DeleteFile(n)
        PROVE  PagesTrue'
    <2>1. listing'.kind = "delete"
      BY <1>9, PcDeleting DEF DeleteFile
    <2> QED BY <1>8, <2>1
  <1>10. CASE LastPage \/ Failed \/ Timeout
    <2>1. listing' = Idle
      BY <1>10 DEF LastPage, Failed, Timeout
    <2> QED BY <1>8, <2>1, PcIdle
  \* Where a page is asked for, no answer of the connection is on its way.
  <1>11. ASSUME NEW rest \in Seq(AnswerSet), replies' = rest, UNCHANGED since,
                ListingTraffic(commands, rest, operations, since, "idle")
         PROVE  PagesTrue'
    <2>1. \A i \in 1..Len(rest) : ~(rest[i].operation >= since)
      BY <1>11 DEF ListingTraffic, Numbered
    <2> QED BY <1>11, <2>1 DEF PagesTrue
  <1>12. CASE Refresh
    <2>1. listing.kind = "idle" /\ UNCHANGED <<replies, since>>
      BY <1>12 DEF Refresh
    <2> QED BY <1>1, <1>11, <2>1
  <1>13. CASE NextPage \/ Deleted
    <2>1. /\ replies # <<>> /\ Head(replies).operation >= since
          /\ replies' = Tail(replies) /\ UNCHANGED since
      BY <1>13 DEF NextPage, Deleted, Received, Reaches
    <2>2. PICK rest \in Seq(AnswerSet) : rest = Tail(replies)
      BY <1>1, <2>1, TailsOf
    <2>3. ListingTraffic(commands, rest, operations, since, "idle")
      BY <1>1, <2>1, <2>2, Delivered
    <2> QED BY <1>11, <2>1, <2>2, <2>3
  <1> QED BY <1>3, <1>4, <1>5, <1>7, <1>9, <1>10, <1>12, <1>13 DEF ListingNext, Board, PC

-----------------------------------------------------------------------------
(* What was read, and what is shown.                                       *)

LEMMA ReadNext ==
    ASSUME ListingAssumption, AllTypes, Link, Watched, PagesTrue, ReadTrue, SelectionExists, ListingNext
    PROVE  ReadTrue'
  <1>1. ASSUME listing'.files = <<>>, listing'.offset = 0
        PROVE  ReadTrue'
    <2>1. PICK nothing \in Seq(Entry) : nothing = <<>> /\ Len(nothing) = 0
      BY EmptySeq
    <2>2. listing'.files = nothing
      BY <1>1, <2>1
    <2> QED BY <1>1, <2>1, <2>2 DEF ReadTrue, Within, Distinct
  <1>2. CASE Refresh \/ Deleted
    <2>1. listing' = [Idle EXCEPT !.kind = "list"]
      BY <1>2 DEF Refresh, Deleted, BeginList
    <2> QED BY <1>1, <2>1, PcIdle
  <1>3. CASE LastPage \/ Failed \/ Timeout
    <2>1. listing' = Idle
      BY <1>3 DEF LastPage, Failed, Timeout
    <2> QED BY <1>1, <2>1, PcIdle
  <1>4. ASSUME NEW n \in Names, DeleteFile(n)
        PROVE  ReadTrue'
    <2>1. listing' = [Idle EXCEPT !.kind = "delete", !.name = n]
      BY <1>4 DEF DeleteFile
    <2> QED BY <1>1, <2>1, PcDeleting
  <1>5. CASE NextPage
    <2>1. /\ listing' = [listing EXCEPT !.offset = Message.next, !.total = Message.total,
                              !.files = Joined]
          /\ UNCHANGED <<existed, standing>>
          /\ Received /\ listing.kind = "list" /\ PageFits(Message) /\ Message.next # None
      BY <1>5 DEF NextPage, Joined
    <2>2. /\ Message \in Pages /\ Joined \in Seq(Entry)
          /\ Len(Joined) = Message.offset + Len(Message.files)
          /\ Within(Joined, existed) /\ Distinct(Joined)
          /\ Few(standing, existed) => Begins(Joined, Message.total, standing, existed)
      BY <2>1, PageTaken
    <2>3. listing'.offset = Message.next /\ listing'.total = Message.total /\ listing'.files = Joined
      BY <2>1 DEF AllTypes, ListingTypes, Readings
    <2>4. Message.next = Len(Joined) /\ Message.total # None
      <3>1. /\ Message.next = Message.offset + Len(Message.files)
            /\ Message.offset + Len(Message.files) < Message.total
        BY <2>1 DEF PageFits, CursorFits
      <3>2. PICK k \in Nat : k = Message.offset + Len(Message.files)
        BY <2>2 DEF Pages
      <3> QED BY <2>2, <3>1, <3>2 DEF None
    <2> QED BY <2>1, <2>2, <2>3, <2>4 DEF ReadTrue
  <1>6. ASSUME UNCHANGED listing, Grown
        PROVE  ReadTrue'
    <2>1. PICK read \in Seq(Entry) : read = listing.files
      BY PcFields
    <2>2. IsFiniteSet(existed')
      BY WatchNext DEF WatchTypes
    <2>3. Within(read, existed) => Within(read, existed')
      BY <1>6 DEF Within, Grown
    <2>4. Few(standing', existed') => Few(standing, existed)
      BY <1>6, <2>2, FewBefore DEF Grown
    <2>5. PICK total \in Nat : total = listing.total
      BY PcFields
    <2>6. Begins(read, total, standing, existed) => Begins(read, total, standing', existed')
      BY <1>6, BeginsKeeps DEF Grown
    <2> QED BY <1>6, <2>1, <2>3, <2>4, <2>5, <2>6 DEF ReadTrue
  <1>7. CASE Board \/ Others \/ DropReply
    <2>1. UNCHANGED listing
      BY <1>7 DEF Board, Others, Refuse, List, Delete, DropCommand, Publish, UploadByOther,
                  DeleteByOther, SelectByOther, DropReply
    <2>2. Grown \/ Refresh \/ Deleted
      BY WatchNext
    <2> QED BY <1>2, <1>6, <2>1, <2>2
  <1> QED BY <1>2, <1>3, <1>4, <1>5, <1>7 DEF ListingNext, PC

LEMMA ShownNext ==
    ASSUME ListingAssumption, AllTypes, Link, Watched, PagesTrue, ReadTrue, ShownTrue,
           SelectionExists, ListingNext
    PROVE  ShownTrue'
  <1>1. ASSUME list' = [list EXCEPT !.complete = FALSE]
        PROVE  ShownTrue'
    BY <1>1, Incomplete DEF ShownTrue
  <1>2. CASE Refresh \/ Deleted \/ Failed \/ Timeout
    BY <1>1, <1>2 DEF Refresh, Deleted, Failed, Timeout, BeginList
  <1>3. ASSUME UNCHANGED <<list, existed, standing>>, listing'.kind # "list"
        PROVE  ShownTrue'
    BY <1>3 DEF ShownTrue
  <1>4. ASSUME NEW n \in Names, DeleteFile(n)
        PROVE  ShownTrue'
    <2>1. listing' = [Idle EXCEPT !.kind = "delete", !.name = n]
          /\ UNCHANGED <<list, existed, standing>>
      BY <1>4 DEF DeleteFile
    <2> QED BY <1>3, <2>1, PcDeleting
  <1>5. CASE NextPage
    <2>1. UNCHANGED list /\ listing.kind = "list"
      BY <1>5 DEF NextPage
    <2> QED BY <2>1 DEF ShownTrue
  <1>6. CASE LastPage
    <2>1. /\ listing' = Idle /\ list' = [entries |-> Joined, complete |-> TRUE]
          /\ UNCHANGED <<existed, standing>>
          /\ Received /\ listing.kind = "list" /\ PageFits(Message) /\ Message.next = None
      BY <1>6 DEF LastPage, Joined
    <2>2. /\ Message \in Pages
          /\ Len(Joined) = Message.offset + Len(Message.files)
          /\ Within(Joined, existed) /\ Distinct(Joined)
          /\ Few(standing, existed) => Begins(Joined, Message.total, standing, existed)
      BY <2>1, PageTaken
    <2>3. PICK joined \in Seq(Entry) : joined = Joined
      BY <2>1, PageTaken
    <2>4. list'.entries = joined /\ listing'.kind = "idle"
      BY <2>1, <2>3, PcIdle
    <2>5. Len(joined) = Message.total
      BY <2>1, <2>2, <2>3 DEF PageFits, CursorFits
    <2>6. Few(standing, existed) => Contains(joined, standing)
      <3>1. existed \in SUBSET Entry /\ IsFiniteSet(existed)
        BY DEF AllTypes, WatchTypes
      <3> SUFFICES ASSUME Few(standing, existed) PROVE Contains(joined, standing)
        OBVIOUS
      <3>2. Begins(joined, Len(joined), standing, existed)
        BY <2>2, <2>3, <2>5
      <3> QED BY <3>1, <3>2, WholeContains
    <2> QED BY <2>1, <2>2, <2>3, <2>4, <2>6 DEF ShownTrue
  <1>7. CASE Board \/ Others \/ DropReply
    <2>1. UNCHANGED <<listing, list>>
      BY <1>7 DEF Board, Others, Refuse, List, Delete, DropCommand, Publish, UploadByOther,
                  DeleteByOther, SelectByOther, DropReply
    <2>2. Grown \/ Refresh \/ Deleted
      BY WatchNext
    <2>3. CASE Grown
      <3>1. list.complete => listing.kind # "list" /\ UNCHANGED <<existed, standing>>
        BY <2>3 DEF ShownTrue, Grown
      <3>2. CASE list.complete
        BY <1>3, <2>1, <3>1, <3>2
      <3>3. CASE ~list.complete
        BY <2>1, <3>3 DEF ShownTrue
      <3> QED BY <3>2, <3>3
    <2> QED BY <1>2, <2>2, <2>3
  <1> QED BY <1>2, <1>4, <1>5, <1>6, <1>7 DEF ListingNext, PC

-----------------------------------------------------------------------------
(* The invariant.                                                          *)

LEMMA ListingInvInit ==
    ASSUME ListingAssumption, ListingInit
    PROVE  ListingInv
  <1> USE DEF ListingInit
  <1>1. PICK c \in Seq(Orders) : c = commands /\ Len(c) = 0
    BY EmptySeq
  <1>2. PICK r \in Seq(AnswerSet) : r = replies /\ Len(r) = 0
    BY EmptySeq
  <1>3. listing \in Readings /\ listing.kind = "idle" /\ listing.offset = 0 /\ listing.files = <<>>
    BY PcIdle
  <1>4. list \in Listings /\ list.complete = FALSE
    BY EmptySeq DEF Listings
  <1>5. StorageTypes
    BY <1>1, <1>2 DEF StorageTypes, Present, None
  <1>6. ListingTypes
    BY <1>3, <1>4 DEF ListingTypes, None
  <1>7. WatchTypes
    BY FS_EmptySet DEF WatchTypes
  <1>8. Link
    BY <1>1, <1>2 DEF Link, ListingTraffic, Numbered, OneUnderWay
  <1>9. Deeds
    BY <1>2 DEF Deeds
  <1>10. Watched /\ PagesTrue /\ ShownTrue
    BY <1>3, <1>4 DEF Watched, PagesTrue, ShownTrue
  <1>11. ReadTrue
    BY <1>3 DEF ReadTrue
  <1>12. SelectionExists
    BY DEF SelectionExists, Present
  <1> QED BY <1>5, <1>6, <1>7, <1>8, <1>9, <1>10, <1>11, <1>12 DEF ListingInv, AllTypes

LEMMA ListingStep ==
    ASSUME ListingAssumption, ListingInv, [ListingNext]_listingVars
    PROVE  ListingInv'
  <1>1. /\ AllTypes /\ Link /\ Deeds /\ Watched /\ PagesTrue /\ ReadTrue /\ ShownTrue
        /\ SelectionExists
    BY DEF ListingInv
  <1>2. CASE ListingNext
    <2>1. AllTypes' /\ Link'
      BY <1>1, <1>2, TypesNext, LinkNext
    <2>2. Deeds' /\ Watched' /\ PagesTrue'
      BY <1>1, <1>2, DeedsNext, WatchNext, PagesNext
    <2>3. ReadTrue' /\ ShownTrue' /\ SelectionExists'
      BY <1>1, <1>2, ReadNext, ShownNext, StorageNext
    <2> QED BY <2>1, <2>2, <2>3 DEF ListingInv
  <1>3. CASE UNCHANGED listingVars
    BY <1>1, <1>3
       DEF listingVars, ListingInv, AllTypes, StorageTypes, ListingTypes, WatchTypes, Link, Deeds, Watched,
           PagesTrue, ReadTrue, ShownTrue, SelectionExists, Entries, Present
  <1> QED BY <1>2, <1>3

\* The invariant says that what the PC shows is true.
LEMMA ListingInvIsTrue ==
    ASSUME ListingAssumption, ListingInv
    PROVE  ListingTrue
  <1>1. /\ AllTypes /\ Link /\ Deeds /\ ReadTrue /\ ShownTrue /\ SelectionExists
    BY DEF ListingInv
  <1>2. ListingTypeOK
    <2>1. Len(commands) <= operations /\ Len(replies) <= operations
      <3>1. /\ Len(commands) + Len(replies) <= operations /\ operations \in Nat
            /\ Len(commands) \in Nat /\ Len(replies) \in Nat
        BY <1>1 DEF Link, ListingTraffic, Numbered, AllTypes, StorageTypes, ListingTypes
      <3> QED BY <3>1
    <2>2. listing.kind \in {"idle", "list", "delete"} /\ Len(listing.files) = listing.offset
      BY <1>1, PcFields DEF ReadTrue
    <2> QED BY <1>1, <2>1, <2>2 DEF ListingTypeOK, AllTypes, StorageTypes, ListingTypes
  <1>3. EntriesWereThere
    BY <1>1 DEF EntriesWereThere, ShownEntries, ShownTrue, Within, Distinct
  <1>4. StandingListed
    BY <1>1 DEF StandingListed, ShownEntries, ShownTrue, Few, Contains
  <1>5. ReportTrue
    BY <1>1 DEF ReportTrue, Deeds
  <1> QED BY <1>1, <1>2, <1>3, <1>4, <1>5 DEF ListingTrue

\* What is stored, what is on its way and what the PC has read of it agree at every
\* step of the board's commandStorage and the PC's _handle_storage_response.
THEOREM ListingInvariant == ListingAssumption => (ListingSpec => []ListingInv)
  <1> SUFFICES ASSUME ListingAssumption PROVE ListingSpec => []ListingInv
    OBVIOUS
  <1>1. ListingInit => ListingInv
    BY ListingInvInit
  <1>2. ListingInv /\ [ListingNext]_listingVars => ListingInv'
    BY ListingStep
  <1> QED BY <1>1, <1>2, PTL DEF ListingSpec

\* What the PC shows of the storage, and the board's selection, are true: a complete
\* listing names no file twice and none that has not existed since it began, misses
\* none that stood unless files both came and went, only the deletion that is
\* reported was made, and the selected file exists (commandStorage, refresh_storage,
\* delete_file).
THEOREM StorageListingTrue == ListingAssumption => (ListingSpec => []ListingTrue)
  <1> SUFFICES ASSUME ListingAssumption PROVE ListingSpec => []ListingTrue
    OBVIOUS
  <1>1. ListingInv => ListingTrue
    BY ListingInvIsTrue
  <1>2. ListingSpec => []ListingInv
    BY ListingInvariant
  <1> QED BY <1>1, <1>2, PTL

=============================================================================
