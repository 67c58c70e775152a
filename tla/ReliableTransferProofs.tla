----------------------- MODULE ReliableTransferProofs -----------------------
(***************************************************************************)
(* Proofs about protocol v2.  First the sessions (ReliableTransfer): types,*)
(* what is published and reported, and the refinement of FileDelivery; then*)
(* the two endpoints: what the receiving board says of itself is true, a   *)
(* confirmed cancellation is final, a finished transfer is never reopened, *)
(* no partial file is forgotten, and where the radio detects all noise the *)
(* endpoints never drift apart.  Then the arithmetic they rest on          *)
(* (PacketSizes): for every payload capacity, number of sequence numbers   *)
(* and word, the pieces of a supported file add up to its size, and no     *)
(* packet number is taken for another.                                     *)
(***************************************************************************)
EXTENDS ReliableTransfer, PacketSizes, TLAPS


-----------------------------------------------------------------------------
(* Types of the helpers.                                                   *)

\* A frame built by makeReady, makeAck, makeNack or makeError is a frame.
LEMMA FrameType ==
    ASSUME NEW type \in FrameTypes, NEW id \in Nat, NEW num \in Nat, NEW error \in Errors
    PROVE  /\ Frame(type, id, num) \in Frames
           /\ Refusal(type, id, num, error) \in Frames
BY DEF Frame, Refusal, Frames, NoBody, Payload, Errors

\* The retry counter after a reset is in range, and numbers have successors.
LEMMA ZeroRetries == 0 \in 0 .. MaxRetries /\ \A n \in Nat : n + 1 \in Nat
BY BoundsAssumption

\* The sessions that the two reset functions leave behind are sessions.
LEMMA SessionTypes ==
    /\ NoTransfer \in SenderSession
    /\ NoSession \in ReceiverSession
BY BoundsAssumption DEF NoTransfer, NoSession, SenderSession, ReceiverSession, SenderStates,
       ReceiverStates, Phases, Errors, Payload

\* Session q may follow the live session r of the same transfer: only success
\* needs an answer, and START is never sent again once it was answered.
Follows(r, q) ==
    /\ q \in SenderSession
    /\ q.id = r.id
    /\ q.state \notin Terminal \cup {"Idle"} <=> q.phase # "off"
    /\ q.state = "WaitingForReady" => r.state = "WaitingForReady"
    /\ q.state # "Idle"

\* What ScheduleRetry, Halt and Withdraw make of a live session.
LEMMA SenderTransitions ==
    ASSUME NEW r \in SenderSession, r.state \notin Terminal \cup {"Idle"}
    PROVE  /\ \A e \in Errors : Follows(r, Halt(r, e)) /\ Halt(r, e).state = "Failed"
           /\ Follows(r, Withdraw(r)) /\ Withdraw(r).state = "Cancelled"
           /\ Follows(r, ScheduleRetry(r)) /\ ScheduleRetry(r).state # "Completed"
<1>1. \A e \in Errors : Follows(r, Halt(r, e)) /\ Halt(r, e).state = "Failed"
  BY DEF Halt, SenderSession, SenderStates, Phases, Follows, Terminal
<1>2. Follows(r, Withdraw(r)) /\ Withdraw(r).state = "Cancelled"
  BY DEF Withdraw, SenderSession, SenderStates, Phases, Errors, Follows, Terminal
<1>3. ASSUME r.retry < MaxRetries
      PROVE  Follows(r, [r EXCEPT !.retry = @ + 1, !.phase = "send"])
  <2>1. r.retry + 1 \in 0 .. MaxRetries
    BY <1>3, BoundsAssumption DEF SenderSession
  <2> QED BY <2>1 DEF SenderSession, Phases, Follows
<1>4. ASSUME r.retry < MaxRetries
      PROVE  [r EXCEPT !.retry = @ + 1, !.phase = "send"].state # "Completed"
  BY DEF SenderSession, Terminal
<1> QED BY <1>1, <1>2, <1>3, <1>4 DEF ScheduleRetry, Errors

\* What a live session may put on the air: only the START of a session that was
\* never answered, END and CANCEL only of one that was, or was given up.
LEMMA OutboundType ==
    ASSUME NEW r \in SenderSession, total \in [Ids -> Nat], r.id \in Ids
    PROVE  \A g \in {Outbound(r)} \cup Garbled(Outbound(r)) :
              /\ g \in Frames
              /\ g.id = r.id
              /\ g.type = "START" => r.state = "WaitingForReady"
              /\ g.type \in {"END", "CANCEL"} => r.state # "WaitingForReady"
<1>1. r.id \in Nat /\ r.cur \in Nat /\ total[r.id] \in Nat
  BY DEF SenderSession, Ids
<1>2. /\ Outbound(r) \in Frames /\ Outbound(r).id = r.id
      /\ Outbound(r).type = "START" => r.state = "WaitingForReady"
      /\ Outbound(r).type \in {"END", "CANCEL"} => r.state # "WaitingForReady"
  BY <1>1 DEF Outbound, Frame, Frames, FrameTypes, Errors, NoBody, Payload
<1>3. \A f \in Frames : \A g \in Garbled(f) :
         g \in Frames /\ g.id = f.id /\ g.type \in {"GARBLED", "DATA"}
  BY DEF Garbled, Frame, Frames, FrameTypes, Errors, NoBody, Damaged, Short, Payload
<1> QED BY <1>2, <1>3

-----------------------------------------------------------------------------
(* The shape of a sender's step.                                           *)

\* Board s, in the middle of a transfer, makes a step.
SenderShape(s) ==
    /\ Live(s)
    /\ UNCHANGED <<total, nextId, rcv, listening, storageVars, appVars>>
    /\ faults' \in Nat
    /\ \E r \in SenderSession :
          /\ snd' = [snd EXCEPT ![s] = r]
          /\ Follows(snd[s], r)
          /\ r.state = "Completed" =>
                \E n \in 1 .. Len(answers[s]) :
                    answers[s][n].type = "COMPLETE" /\ answers[s][n].id = r.id
    /\ \/ air' = air
       \/ \E f \in {Outbound(snd[s])} \cup Garbled(Outbound(snd[s])) :
             air' = Append(air, f)
    /\ \E q \in Seq(Frames) :
          /\ answers' = [answers EXCEPT ![s] = q]
          /\ \/ q = answers[s]
             \/ q = <<>>
             \/ answers[s] # <<>> /\ q = Tail(answers[s])

\* Sending the outbound frame of sendDataFile leaves the receiver alone.
LEMMA TransmitShape ==
    ASSUME TypeOK, IdsInv, NEW s \in Senders,
           Transmit(s) \/ FirstAttemptUnseen(s) \/ TransmitFails(s)
    PROVE  SenderShape(s)
<1> DEFINE r == snd[s]
<1>1. r \in SenderSession /\ Live(s)
  BY DEF TypeOK, IdsInv, Transmit, FirstAttemptUnseen, TransmitFails, Phases
<1>2. answers = [answers EXCEPT ![s] = answers[s]] /\ answers[s] \in Seq(Frames)
  BY DEF TypeOK
<1>3. CASE Transmit(s)
  <2>1. Follows(r, [r EXCEPT !.phase = "wait"]) /\ [r EXCEPT !.phase = "wait"].state # "Completed"
    BY <1>1 DEF Follows, Live, SenderSession, Phases, Terminal
  <2>2. snd' = [snd EXCEPT ![s] = [r EXCEPT !.phase = "wait"]]
    BY <1>3 DEF Transmit
  <2>3. /\ answers' = [answers EXCEPT ![s] = <<>>]
        /\ <<>> \in Seq(Frames)
    BY <1>3 DEF Transmit
  <2>4. /\ UNCHANGED listening
        /\ faults' \in Nat
        /\ \/ air' = air
           \/ \E f \in {Outbound(r)} \cup Garbled(Outbound(r)) : air' = Append(air, f)
    BY <1>3 DEF Transmit, Radiate, Inject, NoFault, TypeOK
  <2>5. UNCHANGED <<total, nextId, rcv, storageVars, appVars>>
    BY <1>3 DEF Transmit, ToReceiver
  <2> QED BY <1>1, <2>1, <2>2, <2>3, <2>4, <2>5 DEF SenderShape, Follows
<1>4. CASE FirstAttemptUnseen(s)
  <2>1. Follows(r, [r EXCEPT !.phase = "resend"]) /\ [r EXCEPT !.phase = "resend"].state # "Completed"
    BY <1>1 DEF Follows, Live, SenderSession, Phases, Terminal
  <2>2. snd' = [snd EXCEPT ![s] = [r EXCEPT !.phase = "resend"]]
    BY <1>4 DEF FirstAttemptUnseen
  <2>3. /\ answers' = answers
        /\ UNCHANGED listening
        /\ faults' \in Nat
        /\ air' = Append(air, Outbound(r))
        /\ UNCHANGED <<total, nextId, rcv, storageVars, appVars>>
    BY <1>4 DEF FirstAttemptUnseen, ToReceiver, TypeOK
  <2> QED BY <1>1, <1>2, <2>1, <2>2, <2>3 DEF SenderShape, Follows
<1>5. CASE TransmitFails(s)
  <2>1. Follows(r, ScheduleRetry(r)) /\ ScheduleRetry(r).state # "Completed"
    BY <1>1, SenderTransitions DEF Live
  <2>2. snd' = [snd EXCEPT ![s] = ScheduleRetry(r)]
    BY <1>5 DEF TransmitFails
  <2>3. /\ UNCHANGED <<total, nextId, rcv, radioVars, storageVars, appVars>>
        /\ faults' \in Nat
    BY <1>5 DEF TransmitFails, ToReceiver, Inject, TypeOK
  <2> QED BY <1>1, <1>2, <2>1, <2>2, <2>3 DEF SenderShape, Follows, radioVars
<1> QED BY <1>3, <1>4, <1>5

\* PrepareNext goes on, to DATA, to END or to failure.
LEMMA PrepareNextShape ==
    ASSUME TypeOK, NEW s \in Senders, NEW r \in SenderSession,
           r.state \notin Terminal \cup {"Idle"}, PrepareNext(s, r)
    PROVE  /\ faults' \in Nat
           /\ \E q \in SenderSession : /\ snd' = [snd EXCEPT ![s] = q]
                                       /\ Follows(r, q)
                                       /\ q.state # "Completed"
<1> DEFINE end  == [r EXCEPT !.state = "WaitingForComplete", !.phase = "send"]
           data == [r EXCEPT !.state = "WaitingForDataAck", !.phase = "send"]
<1>1. Follows(r, end) /\ end.state # "Completed"
  BY DEF Follows, SenderSession, SenderStates, Phases, Terminal
<1>2. Follows(r, data) /\ data.state # "Completed"
  BY DEF Follows, SenderSession, SenderStates, Phases, Terminal
<1>3. Follows(r, Halt(r, "SourceRead")) /\ Halt(r, "SourceRead").state # "Completed"
  BY SenderTransitions DEF Errors
<1>4. faults' \in Nat
  BY DEF PrepareNext, Inject, NoFault, TypeOK
<1>5. \/ snd' = [snd EXCEPT ![s] = end]
      \/ snd' = [snd EXCEPT ![s] = data]
      \/ snd' = [snd EXCEPT ![s] = Halt(r, "SourceRead")]
  BY DEF PrepareNext
<1> HIDE DEF end, data
<1> QED BY <1>1, <1>2, <1>3, <1>4, <1>5 DEF Follows

\* A sending session that moves on to r after hearing a frame only does that.
LEMMA HearsShape ==
    ASSUME TypeOK, IdsInv, NEW s \in Senders, Hears(s), faults' \in Nat,
           NEW r \in SenderSession,
           snd' = [snd EXCEPT ![s] = r], Follows(snd[s], r),
           r.state = "Completed" => Heard(s).type = "COMPLETE" /\ Heard(s).id = r.id
    PROVE  SenderShape(s)
<1>1. snd[s] \in SenderSession /\ Live(s) /\ answers[s] # <<>> /\ answers[s] \in Seq(Frames)
  BY DEF TypeOK, IdsInv, Hears
<1>2. /\ UNCHANGED <<total, nextId, rcv, listening, storageVars, appVars>>
      /\ air' = air
      /\ answers' = [answers EXCEPT ![s] = Tail(answers[s])]
  BY DEF Hears, ToReceiver
<1>3. Tail(answers[s]) \in Seq(Frames) /\ 1 \in 1 .. Len(answers[s])
  BY <1>1
<1>4. r.state = "Completed" =>
         \E n \in 1 .. Len(answers[s]) :
             answers[s][n].type = "COMPLETE" /\ answers[s][n].id = r.id
  BY <1>1, <1>3 DEF Heard
<1>5. \E q \in Seq(Frames) :
         /\ answers' = [answers EXCEPT ![s] = q]
         /\ q = answers[s] \/ q = <<>> \/ (answers[s] # <<>> /\ q = Tail(answers[s]))
  BY <1>1, <1>2, <1>3
<1> QED BY <1>1, <1>2, <1>4, <1>5 DEF SenderShape

\* A sending session that listens is well typed and has not ended.
LEMMA HeardType ==
    ASSUME TypeOK, IdsInv, NEW s \in Senders, Hears(s)
    PROVE  /\ snd[s] \in SenderSession
           /\ snd[s].state \notin Terminal \cup {"Idle"}
           /\ Heard(s) \in Frames
BY DEF TypeOK, IdsInv, Hears, Heard, Live

\* Every frame onFrame handles keeps the session well typed and its id its own.
LEMMA SenderHearsShape ==
    ASSUME TypeOK, IdsInv, NEW s \in Senders,
           \/ SenderIgnores(s) \/ SenderHearsError(s) \/ SenderHearsReady(s)
           \/ SenderHearsAck(s) \/ SenderHearsNack(s) \/ SenderHearsComplete(s)
    PROVE  SenderShape(s)
<1> DEFINE r == snd[s]
           f == Heard(s)
<1>0. Hears(s)
  BY DEF SenderIgnores, SenderHearsError, SenderHearsReady, SenderHearsAck,
         SenderHearsNack, SenderHearsComplete, HearsAwaited
<1>1. /\ r \in SenderSession
      /\ r.state \notin Terminal \cup {"Idle"}
      /\ f \in Frames /\ f.error \in Errors
  BY <1>0, HeardType DEF Frames
<1>2. UNCHANGED faults => faults' \in Nat
  BY DEF TypeOK
<1>3. CASE SenderIgnores(s)
  <2>1. snd' = [snd EXCEPT ![s] = r] /\ faults' \in Nat
    BY <1>2, <1>3 DEF SenderIgnores, NoFault, TypeOK
  <2>2. Follows(r, r) /\ r.state # "Completed"
    BY <1>0, <1>1 DEF Follows, IdsInv, Live, Terminal
  <2> QED BY <1>0, <1>1, <2>1, <2>2, HearsShape
<1>4. CASE SenderHearsError(s)
  <2>1. /\ faults' \in Nat
        /\ \/ snd' = [snd EXCEPT ![s] = Withdraw(r)]
           \/ snd' = [snd EXCEPT ![s] = Halt(r, f.error)]
    BY <1>2, <1>4 DEF SenderHearsError, NoFault
  <2>2. /\ Follows(r, Withdraw(r)) /\ Withdraw(r).state # "Completed"
        /\ Follows(r, Halt(r, f.error)) /\ Halt(r, f.error).state # "Completed"
    BY <1>1, SenderTransitions
  <2> QED BY <1>0, <2>1, <2>2, HearsShape DEF Follows
<1>5. CASE SenderHearsReady(s)
  <2> DEFINE next == [r EXCEPT !.retry = 0]
             error == IF f.error # "None" THEN f.error ELSE "UnexpectedSequence"
  <2>1. CASE PrepareNext(s, next)
    <3>1. next \in SenderSession /\ next.state = r.state /\ next.id = r.id
      BY <1>1, ZeroRetries DEF SenderSession
    <3>2. PICK q \in SenderSession : /\ snd' = [snd EXCEPT ![s] = q]
                                     /\ Follows(next, q)
                                     /\ q.state # "Completed"
      BY <1>1, <2>1, <3>1, PrepareNextShape
    <3>3. Follows(r, q) /\ faults' \in Nat
      BY <1>1, <2>1, <3>1, <3>2, PrepareNextShape DEF Follows
    <3> QED BY <1>0, <3>2, <3>3, HearsShape
  <2>2. CASE snd' = [snd EXCEPT ![s] = Halt(r, error)] /\ NoFault
    <3>1. Follows(r, Halt(r, error)) /\ Halt(r, error).state # "Completed"
      BY <1>1, SenderTransitions DEF Errors
    <3> QED BY <1>0, <1>2, <2>2, <3>1, HearsShape DEF Follows, NoFault
  <2> QED BY <1>5, <2>1, <2>2 DEF SenderHearsReady
<1>6. CASE SenderHearsAck(s)
  <2> DEFINE next == [r EXCEPT !.retry = 0, !.cur = @ + 1]
  <2>1. CASE PrepareNext(s, next)
    <3>1. next \in SenderSession /\ next.state = r.state /\ next.id = r.id
      BY <1>1, ZeroRetries DEF SenderSession
    <3>2. PICK q \in SenderSession : /\ snd' = [snd EXCEPT ![s] = q]
                                     /\ Follows(next, q)
                                     /\ q.state # "Completed"
      BY <1>1, <2>1, <3>1, PrepareNextShape
    <3>3. Follows(r, q) /\ faults' \in Nat
      BY <1>1, <2>1, <3>1, <3>2, PrepareNextShape DEF Follows
    <3> QED BY <1>0, <3>2, <3>3, HearsShape
  <2>2. CASE snd' = [snd EXCEPT ![s] = Halt(r, "UnexpectedSequence")] /\ NoFault
    <3>1. /\ Follows(r, Halt(r, "UnexpectedSequence"))
          /\ Halt(r, "UnexpectedSequence").state # "Completed"
      BY <1>1, SenderTransitions DEF Errors
    <3> QED BY <1>0, <1>2, <2>2, <3>1, HearsShape DEF Follows, NoFault
  <2> QED BY <1>6, <2>1, <2>2 DEF SenderHearsAck
<1>7. CASE SenderHearsNack(s)
  <2>1. /\ faults' \in Nat
        /\ \/ snd' = [snd EXCEPT ![s] = ScheduleRetry(r)]
           \/ snd' = [snd EXCEPT ![s] = Halt(r, "UnexpectedSequence")]
    BY <1>2, <1>7 DEF SenderHearsNack, NoFault
  <2>2. /\ Follows(r, ScheduleRetry(r)) /\ ScheduleRetry(r).state # "Completed"
        /\ Follows(r, Halt(r, "UnexpectedSequence"))
        /\ Halt(r, "UnexpectedSequence").state # "Completed"
    BY <1>1, SenderTransitions DEF Errors
  <2> QED BY <1>0, <2>1, <2>2, HearsShape DEF Follows
<1>8. CASE SenderHearsComplete(s)
  <2> DEFINE done == [r EXCEPT !.state = "Completed", !.phase = "off"]
  <2>1. /\ faults' \in Nat
        /\ \/ snd' = [snd EXCEPT ![s] = done]
           \/ snd' = [snd EXCEPT ![s] = Halt(r, "InvalidMetadata")]
        /\ f.type = "COMPLETE" /\ f.id = r.id
    BY <1>2, <1>8 DEF SenderHearsComplete, HearsAwaited, Awaited, NoFault
  <2>2. Follows(r, done) /\ done.id = r.id
    BY <1>1 DEF Follows, SenderSession, SenderStates, Phases, Terminal
  <2>3. /\ Follows(r, Halt(r, "InvalidMetadata"))
        /\ Halt(r, "InvalidMetadata").state # "Completed"
    BY <1>1, SenderTransitions DEF Errors
  <2> HIDE DEF done
  <2> QED BY <1>0, <2>1, <2>2, <2>3, HearsShape DEF Follows
<1> QED BY <1>3, <1>4, <1>5, <1>6, <1>7, <1>8

\* The two timeouts and a cancellation touch only the sender they happen to.
LEMMA QuietShape ==
    ASSUME TypeOK, IdsInv, NEW s \in Senders,
           ResponseTimeout(s) \/ SenderInactivity(s) \/ Cancel(s)
    PROVE  SenderShape(s)
<1> DEFINE r == snd[s]
           c == [r EXCEPT !.state = "Cancelling", !.error = "Cancelled",
                          !.retry = 0, !.phase = "send"]
<1>1. /\ r \in SenderSession
      /\ Live(s)
      /\ r.state \notin Terminal \cup {"Idle"}
  BY DEF TypeOK, IdsInv, ResponseTimeout, SenderInactivity, Cancel, Live, Terminal
<1>2. /\ UNCHANGED <<total, nextId, rcv, radioVars, storageVars, appVars>>
      /\ faults' \in Nat
  BY DEF ResponseTimeout, SenderInactivity, Cancel, ToReceiver, Inject, NoFault, TypeOK
<1>3. \E q \in SenderSession :
         snd' = [snd EXCEPT ![s] = q] /\ Follows(r, q) /\ q.state # "Completed"
  <2>1. /\ Follows(r, ScheduleRetry(r)) /\ ScheduleRetry(r).state # "Completed"
        /\ Follows(r, Withdraw(r)) /\ Withdraw(r).state # "Completed"
        /\ Follows(r, Halt(r, "Timeout")) /\ Halt(r, "Timeout").state # "Completed"
    BY <1>1, SenderTransitions DEF Errors
  <2>2. Follows(r, c) /\ c.state # "Completed"
    BY <1>1, ZeroRetries
    DEF Follows, SenderSession, SenderStates, Phases, Errors, Terminal
  <2>3. \/ snd' = [snd EXCEPT ![s] = ScheduleRetry(r)]
        \/ snd' = [snd EXCEPT ![s] = Withdraw(r)]
        \/ snd' = [snd EXCEPT ![s] = Halt(r, "Timeout")]
        \/ snd' = [snd EXCEPT ![s] = c]
    BY DEF ResponseTimeout, SenderInactivity, Cancel
  <2> HIDE DEF c
  <2> QED BY <2>1, <2>2, <2>3 DEF Follows
<1>4. answers' = [answers EXCEPT ![s] = answers[s]] /\ answers[s] \in Seq(Frames)
  BY <1>2 DEF TypeOK, radioVars
<1> QED BY <1>1, <1>2, <1>3, <1>4 DEF SenderShape, radioVars

\* One pass of the loop of sendDataFile, or a cancellation, as a single shape.
LEMMA SenderStepShape ==
    ASSUME TypeOK, IdsInv, NEW s \in Senders, SenderLoop(s) \/ Cancel(s)
    PROVE  SenderShape(s)
BY TransmitShape, SenderHearsShape, QuietShape DEF SenderLoop

-----------------------------------------------------------------------------
(* The shape of a step of the receiving board.                             *)

Publishes ==
    /\ published' = Append(published, [id |-> rcv.id, data |-> rcv.data])
    /\ Active /\ CrcMatches
    /\ air # <<>> /\ Received.type = "END" /\ Received.id = rcv.id
    /\ rcv'.state = "Completed" /\ rcv'.id = rcv.id
    /\ air' = <<>>

\* The sending boards that listen may hear f.
Says(f) ==
    /\ answers' \in [Senders -> Seq(Frames)]
    /\ \A s \in Senders : answers'[s] = answers[s] \/ answers'[s] = Append(answers[s], f)
    /\ f.type = "COMPLETE" =>
          f.id = rcv.id /\ rcv'.id = rcv.id /\ rcv'.state = "Completed"

AppTypes ==
    /\ apiId' \in Nat
    /\ report' \in [id : Nat, state : ReportStates]
    /\ faults' \in Nat

ReceiverShape ==
    /\ UNCHANGED senderVars
    /\ listening' \in BOOLEAN
    /\ rcv' \in ReceiverSession
    /\ partials' \subseteq Nat
    /\ AppTypes
    /\ air' = <<>> \/ air' = air \/ (air # <<>> /\ air' = Tail(air))
    /\ \E f \in Frames : Says(f)
    /\ UNCHANGED published \/ Publishes
    /\ rcv'.state \in ActiveStates =>
          \/ Active /\ rcv'.id = rcv.id
          \/ air # <<>> /\ Received.type = "START" /\ rcv'.id = Received.id
    /\ rcv'.state = "Completed" =>
          \/ rcv.state = "Completed" /\ rcv'.id = rcv.id
          \/ Publishes

\* A response put on the air is one frame, and it says COMPLETE only if it is one.
LEMMA AnswerShape ==
    ASSUME TypeOK, NEW f \in Frames,
           Answer(f) \/ (AnswerToo(f) /\ faults' \in Nat),
           f.type = "COMPLETE" =>
               f.id = rcv.id /\ rcv'.id = rcv.id /\ rcv'.state = "Completed"
    PROVE  air' = <<>> /\ Says(f) /\ faults' \in Nat
<1>1. faults' \in Nat
  BY DEF Answer, NoFault, Inject, TypeOK
<1>2. air' = <<>> /\ (Respond(f) \/ UNCHANGED answers)
  BY DEF Answer, AnswerToo, Respond, ResponseLost
<1>3. \A s \in Senders : answers[s] \in Seq(Frames) /\ Append(answers[s], f) \in Seq(Frames)
  BY DEF TypeOK
<1>4. /\ answers' \in [Senders -> Seq(Frames)]
      /\ \A s \in Senders : answers'[s] = answers[s] \/ answers'[s] = Append(answers[s], f)
  BY <1>2, <1>3 DEF Respond, TypeOK
<1> QED BY <1>1, <1>2, <1>4 DEF Says

\* A handler that answers nothing is covered by the shape of one that does.
LEMMA SilenceShape ==
    ASSUME TypeOK, UNCHANGED answers
    PROVE  \E f \in Frames : Says(f)
<1>1. Frame("START", 0, 0) \in Frames /\ Frame("START", 0, 0).type # "COMPLETE"
  BY FrameType DEF Frame, FrameTypes, Errors
<1> QED BY <1>1 DEF Says, TypeOK

\* abortStorage ends the session under the id it had and publishes nothing.
LEMMA AbortShape ==
    ASSUME TypeOK, NEW r \in ReceiverSession, NEW error \in Errors,
           NEW state \in {"Failed", "Cancelled"}, Abort(r, state, error)
    PROVE  /\ rcv' \in ReceiverSession
           /\ rcv'.state = state /\ rcv'.id = r.id
           /\ partials' \subseteq Nat
           /\ FailedReport(report, rcv') \in [id : Nat, state : ReportStates]
<1>1. partials' \subseteq Nat
  BY DEF Abort, TypeOK
<1>2. rcv' \in ReceiverSession /\ rcv'.state = state /\ rcv'.id = r.id
  BY ZenonT(60) DEF Abort, ReceiverSession, ReceiverStates, Errors
<1>3. FailedReport(report, rcv') \in [id : Nat, state : ReportStates]
  BY DEF FailedReport, TypeOK, ReportStates
<1> QED BY <1>1, <1>2, <1>3

\* failWithResponse ends the session as failed under the id it had.
LEMMA FailsShape ==
    ASSUME TypeOK, NEW r \in ReceiverSession, NEW error \in Errors, Fails(r, error)
    PROVE  /\ rcv' \in ReceiverSession
           /\ rcv'.state = "Failed"
           /\ partials' \subseteq Nat
           /\ apiId' \in Nat
           /\ report' \in [id : Nat, state : ReportStates]
           /\ UNCHANGED published
BY AbortShape DEF Fails

\* What the RX task takes out of the FIFO.
LEMMA ReceivedType ==
    ASSUME TypeOK, air # <<>>
    PROVE  Received \in Frames /\ Received.id \in Nat /\ Received.num \in Nat
<1>1. Head(air) \in Frames
  BY DEF TypeOK
<1> QED BY <1>1 DEF Received, Frames

\* The bookkeeping done when a START is admitted is well typed.
LEMMA AdmitType ==
    ASSUME TypeOK, air # <<>>, Admit
    PROVE  /\ apiId' \in Nat
           /\ report' \in [id : Nat, state : ReportStates]
<1>1. Received.id \in Nat /\ apiId \in Nat /\ report \in [id : Nat, state : ReportStates]
  BY ReceivedType DEF TypeOK
<1>2. [id |-> Received.id, state |-> "Handshaking"] \in [id : Nat, state : ReportStates]
  BY <1>1 DEF ReportStates
<1> QED BY <1>1, <1>2 DEF Admit, StartedReport

\* What the type invariant says of the fields of the receiving session.
LEMMA RcvType ==
    ASSUME TypeOK
    PROVE  /\ rcv \in ReceiverSession
           /\ rcv.id \in Nat /\ rcv.exp \in Nat /\ rcv.total \in Nat
           /\ rcv.data \in Seq(Payload) /\ rcv.error \in Errors
           /\ partials \subseteq Nat
BY DEF TypeOK, ReceiverSession

\* handleStart, whichever way it goes, is a step of the receiver alone.
LEMMA ReceiveStartShape ==
    ASSUME TypeOK,
           \/ ReceiveStartBusy \/ ReceiveStartAgain
           \/ ReceiveStartOpens \/ ReceiveStartFails
    PROVE  ReceiverShape
<1>1. /\ UNCHANGED <<senderVars, listening>>
      /\ UNCHANGED published
      /\ air # <<>>
      /\ Received.type = "START"
  BY DEF ReceiveStartBusy, ReceiveStartAgain, ReceiveStartOpens, ReceiveStartFails,
         Opens, Receives, ToSender, storageVars
<1>2. /\ Received.id \in Nat /\ Received.num \in Nat
      /\ rcv \in ReceiverSession /\ rcv.id \in Nat /\ rcv.exp \in Nat
      /\ Cleaned \subseteq Nat
  BY <1>1, ReceivedType, RcvType DEF Cleaned
<1>3. listening' \in BOOLEAN
  BY <1>1 DEF TypeOK
<1>4. CASE ReceiveStartBusy \/ ReceiveStartAgain
  <2>1. UNCHANGED <<rcv, partials>>
    BY <1>4 DEF ReceiveStartBusy, ReceiveStartAgain, storageVars
  <2>2. \E f \in Frames : air' = <<>> /\ Says(f) /\ faults' \in Nat
    <3>1. /\ Refusal("READY", Received.id, 0, "Busy") \in Frames
          /\ Refusal("READY", Received.id, 0, "Busy").type # "COMPLETE"
          /\ Frame("READY", rcv.id, rcv.exp) \in Frames
          /\ Frame("READY", rcv.id, rcv.exp).type # "COMPLETE"
      BY <1>2, FrameType DEF FrameTypes, Errors, Frame, Refusal
    <3> QED BY <1>4, <3>1, AnswerShape DEF ReceiveStartBusy, ReceiveStartAgain
  <2>3. apiId' \in Nat /\ report' \in [id : Nat, state : ReportStates]
    BY <1>1, <1>4, AdmitType DEF ReceiveStartBusy, ReceiveStartAgain
  <2> QED BY <1>1, <1>2, <1>3, <2>1, <2>2, <2>3, RcvType DEF ReceiverShape, AppTypes, Active
<1>5. CASE ReceiveStartOpens
  <2>1. /\ rcv' \in ReceiverSession
        /\ rcv'.id = Received.id
        /\ rcv'.state \in {"WaitingForEnd", "Receiving"}
    BY <1>2, <1>5, SessionTypes
    DEF ReceiveStartOpens, NewSession, ReceiverSession, ReceiverStates, NoSession
  <2>2. partials' \subseteq Nat
    BY <1>2, <1>5 DEF ReceiveStartOpens
  <2>3. \E f \in Frames : air' = <<>> /\ Says(f) /\ faults' \in Nat
    <3>1. /\ Frame("READY", Received.id, 0) \in Frames
          /\ Frame("READY", Received.id, 0).type # "COMPLETE"
      BY <1>2, FrameType DEF FrameTypes, Errors, Frame
    <3>2. Answer(Frame("READY", Received.id, 0))
      BY <1>5 DEF ReceiveStartOpens
    <3> QED BY <3>1, <3>2, AnswerShape
  <2>4. apiId' \in Nat /\ report' \in [id : Nat, state : ReportStates]
    BY <1>1, <1>5, AdmitType DEF ReceiveStartOpens
  <2> QED BY <1>1, <1>3, <2>1, <2>2, <2>3, <2>4 DEF ReceiverShape, AppTypes
<1>6. CASE ReceiveStartFails
  <2>1. /\ rcv' \in ReceiverSession
        /\ rcv'.state = "Failed"
        /\ rcv'.error \in Errors
    BY ZenonT(60), <1>2, <1>6, SessionTypes
    DEF ReceiveStartFails, NewSession, ReceiverSession, ReceiverStates, NoSession, Errors
  <2>2. partials' \subseteq Nat /\ faults' \in Nat
    BY SMTT(30), <1>2, <1>6, RcvType DEF ReceiveStartFails, Inject, TypeOK
  <2>3. \E f \in Frames : air' = <<>> /\ Says(f)
    <3>1. /\ Refusal("READY", Received.id, 0, rcv'.error) \in Frames
          /\ Refusal("READY", Received.id, 0, rcv'.error).type # "COMPLETE"
      BY <1>2, <2>1, FrameType DEF FrameTypes, Frame, Refusal
    <3>2. AnswerToo(Refusal("READY", Received.id, 0, rcv'.error))
      BY <1>6 DEF ReceiveStartFails
    <3> QED BY <2>2, <3>1, <3>2, AnswerShape
  <2>4. apiId' \in Nat /\ report' \in [id : Nat, state : ReportStates]
    BY <1>2, <1>6 DEF ReceiveStartFails, FailedReport, StartedReport, ReportStates, TypeOK
  <2> QED BY <1>1, <1>3, <2>1, <2>2, <2>3, <2>4 DEF ReceiverShape, AppTypes, ActiveStates
<1> QED BY <1>4, <1>5, <1>6

\* Answers that only repeat what the session knows, and ignored frames.
LEMMA ReceiveRepeatShape ==
    ASSUME TypeOK,
           \/ ReceiverIgnores \/ ReceiveDataDuplicate \/ ReceiveAhead \/ ReceiveEndAgain
    PROVE  ReceiverShape
<1>1. /\ UNCHANGED <<senderVars, listening, rcv, storageVars, appVars>>
      /\ air # <<>>
  BY DEF ReceiverIgnores, Drop, ReceiveDataDuplicate, ReceiveAhead, ReceiveEndAgain,
         Handles, Receives, ToSender
<1>2. /\ Received.num \in Nat
      /\ rcv \in ReceiverSession /\ rcv.id \in Nat /\ rcv.exp \in Nat /\ rcv.total \in Nat
  BY <1>1, ReceivedType, RcvType
<1>3. /\ UNCHANGED <<senderVars, published>>
      /\ listening' \in BOOLEAN /\ rcv' \in ReceiverSession /\ partials' \subseteq Nat
      /\ apiId' \in Nat /\ report' \in [id : Nat, state : ReportStates]
  BY <1>1 DEF storageVars, appVars, TypeOK
<1>4. CASE ReceiverIgnores
  <2>1. air' = Tail(air) /\ UNCHANGED answers /\ faults' \in Nat
    BY <1>4 DEF ReceiverIgnores, Drop, TypeOK
  <2> QED BY <1>1, <1>3, <2>1, SilenceShape DEF ReceiverShape, AppTypes, Active
<1>5. ASSUME NEW f \in Frames, Answer(f),
             f.type = "COMPLETE" => f.id = rcv.id /\ rcv.state = "Completed"
      PROVE  ReceiverShape
  <2>1. air' = <<>> /\ Says(f) /\ faults' \in Nat
    BY <1>1, <1>5, AnswerShape
  <2> QED BY <1>1, <1>3, <2>1 DEF ReceiverShape, AppTypes, Active
<1>6. CASE ReceiveDataDuplicate
  <2>1. /\ Frame("ACK", rcv.id, Received.num) \in Frames
        /\ Frame("ACK", rcv.id, Received.num).type # "COMPLETE"
    BY <1>2, FrameType DEF FrameTypes, Errors, Frame
  <2>2. Answer(Frame("ACK", rcv.id, Received.num))
    BY <1>6 DEF ReceiveDataDuplicate
  <2> QED BY <1>5, <2>1, <2>2
<1>7. CASE ReceiveAhead
  <2> DEFINE nack == Refusal("NACK", rcv.id, rcv.exp, "UnexpectedSequence")
  <2>1. nack \in Frames /\ nack.type # "COMPLETE"
    BY <1>2, FrameType DEF FrameTypes, Errors, Frame, Refusal
  <2>2. Answer(nack)
    BY <1>7 DEF ReceiveAhead
  <2> QED BY <1>5, <2>1, <2>2
<1>8. CASE ReceiveEndAgain
  <2> DEFINE complete == Frame("COMPLETE", rcv.id, rcv.total)
  <2>1. complete \in Frames /\ complete.id = rcv.id
    BY <1>2, FrameType DEF FrameTypes, Errors, Frame
  <2>2. Answer(complete) /\ rcv.state = "Completed"
    BY <1>8 DEF ReceiveEndAgain
  <2> QED BY <1>5, <2>1, <2>2
<1> QED BY <1>4, <1>6, <1>7, <1>8

\* A session that ends in Failed or Cancelled, with its answer.
LEMMA EndedShape ==
    ASSUME TypeOK, UNCHANGED <<senderVars, listening, published>>, rcv' \in ReceiverSession,
           rcv'.state \in {"Failed", "Cancelled"}, partials' \subseteq Nat,
           apiId' \in Nat, report' \in [id : Nat, state : ReportStates],
           NEW f \in Frames, f.type # "COMPLETE",
           Answer(f) \/ (AnswerToo(f) /\ faults' \in Nat)
    PROVE  ReceiverShape
<1>1. air' = <<>> /\ Says(f) /\ faults' \in Nat
  BY AnswerShape
<1>2. listening' \in BOOLEAN
  BY DEF TypeOK
<1> QED BY <1>1, <1>2 DEF ReceiverShape, AppTypes, ActiveStates

\* An ERROR response is a frame, and it is not a COMPLETE.
LEMMA ErrorFrameType ==
    ASSUME TypeOK, NEW error \in Errors
    PROVE  ErrorFrame(error) \in Frames /\ ErrorFrame(error).type # "COMPLETE"
BY RcvType, FrameType DEF ErrorFrame, FrameTypes, Frame, Refusal

\* The refusals of handleData and handleEnd are steps of the receiver alone.
LEMMA ReceiveFailsShape ==
    ASSUME TypeOK,
           \/ ReceiveDataInvalid \/ ReceiveDataWriteFails
           \/ ReceiveEndMismatch \/ ReceiveEndSinkFails
    PROVE  ReceiverShape
<1>1. UNCHANGED <<senderVars, listening>>
  BY DEF ReceiveDataInvalid, ReceiveDataWriteFails, ReceiveEndMismatch, ReceiveEndSinkFails,
         NextData, EndsTransfer, Handles, Receives, ToSender
<1>2. \E r \in {rcv, [rcv EXCEPT !.open = FALSE]} : \E error \in Errors :
         /\ Fails(r, error)
         /\ Answer(ErrorFrame(error)) \/ (AnswerToo(ErrorFrame(error)) /\ faults' \in Nat)
  <2>1. CASE ReceiveDataInvalid
    BY <2>1 DEF ReceiveDataInvalid, Errors
  <2>2. CASE ReceiveDataWriteFails
    BY <2>2 DEF ReceiveDataWriteFails, Inject, Errors, TypeOK
  <2>3. CASE ReceiveEndMismatch
    BY <2>3 DEF ReceiveEndMismatch, Errors
  <2>4. CASE ReceiveEndSinkFails
    <3>1. PICK error \in {"SinkClose", "PublicationFailed"} :
             Fails([rcv EXCEPT !.open = FALSE], error) /\ AnswerToo(ErrorFrame(error))
      BY <2>4 DEF ReceiveEndSinkFails
    <3>2. faults' \in Nat
      BY <2>4 DEF ReceiveEndSinkFails, Inject, TypeOK
    <3> QED BY <3>1, <3>2 DEF Errors
  <2> QED BY <2>1, <2>2, <2>3, <2>4
<1>3. rcv \in ReceiverSession /\ [rcv EXCEPT !.open = FALSE] \in ReceiverSession
  BY DEF TypeOK, ReceiverSession
<1>4. PICK r \in ReceiverSession, error \in Errors :
         /\ Fails(r, error)
         /\ Answer(ErrorFrame(error)) \/ (AnswerToo(ErrorFrame(error)) /\ faults' \in Nat)
  BY <1>2, <1>3
<1> QED BY <1>1, <1>4, FailsShape, ErrorFrameType, EndedShape

\* Consuming an undecodable payload is a step of the receiver alone.
LEMMA ReceiveGarbledShape ==
    ASSUME TypeOK, ReceiveGarbled
    PROVE  ReceiverShape
<1>1. UNCHANGED <<senderVars, listening>> /\ air # <<>>
  BY DEF ReceiveGarbled, Receives, ToSender
<1>2. "InvalidFrame" \in Errors
  BY DEF Errors
<1>3. CASE Fails(rcv, "InvalidFrame") /\ Answer(ErrorFrame("InvalidFrame"))
  BY <1>1, <1>2, <1>3, RcvType, FailsShape, ErrorFrameType, EndedShape
<1>4. CASE /\ Answer(Refusal("ERROR", Received.id, 0, "InvalidFrame"))
           /\ UNCHANGED <<rcv, storageVars, appVars>>
  <2>1. /\ Refusal("ERROR", Received.id, 0, "InvalidFrame") \in Frames
        /\ Refusal("ERROR", Received.id, 0, "InvalidFrame").type # "COMPLETE"
    BY <1>1, <1>2, ReceivedType, FrameType DEF FrameTypes, Refusal, Frame
  <2>2. \E f \in Frames : air' = <<>> /\ Says(f) /\ faults' \in Nat
    BY <1>4, <2>1, AnswerShape
  <2>3. /\ UNCHANGED <<rcv, published>>
        /\ listening' \in BOOLEAN /\ rcv' \in ReceiverSession /\ partials' \subseteq Nat
        /\ apiId' \in Nat /\ report' \in [id : Nat, state : ReportStates]
    BY <1>1, <1>4 DEF storageVars, appVars, TypeOK
  <2> QED BY <1>1, <2>2, <2>3 DEF ReceiverShape, AppTypes, Active
<1> QED BY <1>3, <1>4 DEF ReceiveGarbled

\* A CANCEL received, or silence too long, is a step of the receiver alone.
LEMMA ReceiveCancelShape ==
    ASSUME TypeOK, ReceiveCancel \/ ReceiverInactivity
    PROVE  ReceiverShape
<1>1. UNCHANGED <<senderVars, listening, published>> /\ apiId' \in Nat
  BY DEF ReceiveCancel, ReceiverInactivity, Handles, Receives, ToSender
<1>2. /\ rcv' \in ReceiverSession
      /\ rcv'.state \in {"Failed", "Cancelled"}
      /\ partials' \subseteq Nat
  <2>1. \/ \E state \in {"Failed", "Cancelled"} : \E error \in Errors : Abort(rcv, state, error)
        \/ rcv.state = "Cancelled" /\ UNCHANGED <<rcv, partials>>
    BY DEF ReceiveCancel, ReceiverInactivity, Errors
  <2> QED BY <2>1, RcvType, AbortShape
<1>3. report' \in [id : Nat, state : ReportStates]
  <2>1. report' = FailedReport(report, rcv')
    BY DEF ReceiveCancel, ReceiverInactivity
  <2> QED BY <2>1 DEF FailedReport, TypeOK, ReportStates
<1>4. \E error \in Errors :
         Answer(ErrorFrame(error)) \/ (AnswerToo(ErrorFrame(error)) /\ faults' \in Nat)
  BY DEF ReceiveCancel, ReceiverInactivity, Inject, NoFault, Errors, TypeOK
<1> QED BY <1>1, <1>2, <1>3, <1>4, ErrorFrameType, EndedShape

\* The two handlers that make progress.
LEMMA ReceiveProgressShape ==
    ASSUME TypeOK, ReceiveDataAccepted \/ ReceiveEndPublishes
    PROVE  ReceiverShape
<1>1. UNCHANGED <<senderVars, listening>> /\ air # <<>>
  BY DEF ReceiveDataAccepted, ReceiveEndPublishes, NextData, EndsTransfer, Handles,
         Receives, ToSender
<1>2. /\ Received \in Frames /\ Received.num \in Nat
      /\ rcv \in ReceiverSession /\ rcv.id \in Nat /\ rcv.total \in Nat /\ rcv.exp \in Nat
      /\ listening' \in BOOLEAN
  BY <1>1, ReceivedType, RcvType DEF TypeOK
<1>3. CASE ReceiveDataAccepted
  <2>1. Append(rcv.data, Received.body) \in Seq(Payload) /\ rcv.exp + 1 \in Nat
    BY <1>2 DEF Frames, ReceiverSession
  <2>2. /\ rcv' \in ReceiverSession /\ rcv'.id = rcv.id
        /\ rcv'.state \in ActiveStates /\ Active
    BY <1>2, <1>3, <2>1
    DEF ReceiveDataAccepted, NextData, ReceiverSession, ReceiverStates, ActiveStates, Active
  <2>3. /\ UNCHANGED <<published, partials>>
        /\ apiId' \in Nat /\ report' \in [id : Nat, state : ReportStates]
    BY <1>3 DEF ReceiveDataAccepted, storageVars, ReportStates, TypeOK
  <2>4. \E f \in Frames : air' = <<>> /\ Says(f) /\ faults' \in Nat
    <3>1. /\ Frame("ACK", rcv.id, Received.num) \in Frames
          /\ Frame("ACK", rcv.id, Received.num).type # "COMPLETE"
      BY <1>2, FrameType DEF FrameTypes, Errors, Frame
    <3>2. Answer(Frame("ACK", rcv.id, Received.num))
      BY <1>3 DEF ReceiveDataAccepted
    <3> QED BY <3>1, <3>2, AnswerShape
  <2>5. partials' \subseteq Nat
    BY <2>3, RcvType
  <2> QED BY <1>1, <1>2, <2>2, <2>3, <2>4, <2>5 DEF ReceiverShape, AppTypes, ActiveStates
<1>4. CASE ReceiveEndPublishes
  <2>1. /\ rcv' \in ReceiverSession /\ rcv'.id = rcv.id /\ rcv'.state = "Completed"
    BY <1>2, <1>4 DEF ReceiveEndPublishes, ReceiverSession, ReceiverStates, Errors
  <2>2. \E f \in Frames : air' = <<>> /\ Says(f) /\ faults' \in Nat
    <3> DEFINE complete == Frame("COMPLETE", rcv.id, rcv.total)
    <3>1. complete \in Frames /\ complete.id = rcv.id
      BY <1>2, FrameType DEF FrameTypes, Errors, Frame
    <3>2. Answer(complete)
      BY <1>4 DEF ReceiveEndPublishes
    <3> QED BY <2>1, <3>1, <3>2, AnswerShape
  <2>3. Publishes
    BY <1>1, <1>4, <2>1, <2>2
    DEF Publishes, ReceiveEndPublishes, EndsTransfer, Handles, Receives, Active, ActiveStates
  <2>4. /\ partials' \subseteq Nat
        /\ apiId' \in Nat /\ report' \in [id : Nat, state : ReportStates]
    BY <1>4 DEF ReceiveEndPublishes, ReportStates, TypeOK
  <2> QED BY <1>1, <1>2, <2>1, <2>2, <2>3, <2>4 DEF ReceiverShape, AppTypes, ActiveStates
<1> QED BY <1>3, <1>4

\* Stopping, starting and rebooting the receiver do not touch the senders.
LEMMA ReceiverControlShape ==
    ASSUME TypeOK, ReceiverStop \/ ReceiverListen \/ RebootReceiver
    PROVE  ReceiverShape
<1>1. /\ UNCHANGED <<senderVars, answers, published>>
      /\ listening' \in BOOLEAN
      /\ air' = <<>>
      /\ apiId' \in Nat
      /\ faults' \in Nat
  <2>1. /\ UNCHANGED <<senderVars, answers, published>>
        /\ listening' \in BOOLEAN
        /\ air' = <<>>
    BY DEF ReceiverStop, ReceiverListen, RebootReceiver
  <2>2. apiId' \in Nat
    BY DEF ReceiverStop, ReceiverListen, RebootReceiver, appVars
  <2>3. faults' \in Nat
    BY DEF ReceiverStop, ReceiverListen, RebootReceiver, Inject, NoFault, TypeOK
  <2> QED BY <2>1, <2>2, <2>3
<1>2. CASE ReceiverStop
  <2>1. /\ rcv' \in ReceiverSession /\ partials' \subseteq Nat
        /\ rcv'.state = "Cancelled" \/ UNCHANGED rcv
    <3>1. Abort(rcv, "Cancelled", "Cancelled") \/ UNCHANGED <<rcv, partials>>
      BY <1>2 DEF ReceiverStop
    <3> QED BY <3>1, RcvType, AbortShape DEF Errors
  <2>2. report' \in [id : Nat, state : ReportStates]
    BY <1>2 DEF ReceiverStop, FailedReport, ReportStates, TypeOK
  <2> QED BY <1>1, <2>1, <2>2, SilenceShape DEF ReceiverShape, AppTypes, ActiveStates, Active
<1>3. CASE ReceiverListen
  <2>1. /\ rcv' \in ReceiverSession /\ partials' \subseteq Nat
        /\ rcv'.state \in {"Idle", "Failed"}
    BY <1>3, RcvType, SessionTypes
    DEF ReceiverListen, Cleaned, NoSession, ReceiverSession, ReceiverStates, Errors
  <2>2. report' \in [id : Nat, state : ReportStates]
    BY <1>3 DEF ReceiverListen, appVars, TypeOK
  <2> QED BY <1>1, <2>1, <2>2, SilenceShape DEF ReceiverShape, AppTypes, ActiveStates
<1>4. CASE RebootReceiver
  <2>1. /\ rcv' \in ReceiverSession /\ partials' \subseteq Nat
        /\ rcv'.state = "Idle"
        /\ report' \in [id : Nat, state : ReportStates]
    BY <1>4, RcvType, SessionTypes DEF RebootReceiver, NoSession, ReportStates
  <2> QED BY <1>1, <2>1, SilenceShape DEF ReceiverShape, AppTypes, ActiveStates
<1> QED BY <1>2, <1>3, <1>4

\* Every step of the receiving board, as a single shape.
LEMMA ReceiverStepShape ==
    ASSUME TypeOK, RxTask \/ ReceiverStop \/ ReceiverListen \/ RebootReceiver
    PROVE  ReceiverShape
BY ReceiveStartShape, ReceiveRepeatShape, ReceiveFailsShape, ReceiveGarbledShape,
   ReceiveCancelShape, ReceiveProgressShape, ReceiverControlShape
DEF RxTask

-----------------------------------------------------------------------------
(* The shape of every step.                                                *)

\* Board s begins a transfer under a new id.
Draws(s) ==
    /\ nextId \in Ids
    /\ nextId' = nextId + 1
    /\ \E n \in 0 .. MaxPackets : total' = [total EXCEPT ![nextId] = n]
    /\ \E r \in SenderSession :
          /\ snd' = [snd EXCEPT ![s] = r]
          /\ r.id = nextId /\ r.state = "WaitingForReady" /\ r.phase = "send"
    /\ UNCHANGED <<rcv, radioVars, storageVars, appVars, faults>>

\* Board s has no transfer, after a reset or a source it could not read.
Resets(s) ==
    /\ \E r \in SenderSession :
          /\ snd' = [snd EXCEPT ![s] = r]
          /\ r.id = 0 /\ r.state \in {"Idle", "Failed"} /\ r.phase = "off"
    /\ \/ answers' = answers
       \/ answers' = [answers EXCEPT ![s] = <<>>]
    /\ faults' \in Nat
    /\ UNCHANGED <<total, nextId, rcv, listening, air, storageVars, appVars>>

\* startTransfer either draws a fresh id or leaves the sender as it resets it.
LEMMA BeginShape ==
    ASSUME TypeOK, NEW s \in Senders, Begin(s)
    PROVE  Draws(s) \/ Resets(s)
<1> DEFINE start == [NoTransfer EXCEPT !.state = "WaitingForReady", !.id = nextId,
                                       !.phase = "send"]
           failed == Halt(NoTransfer, "SourceRead")
<1>1. UNCHANGED <<rcv, radioVars, storageVars, appVars>> /\ nextId \in Ids /\ nextId \in Nat
  BY DEF Begin, TypeOK
<1>2. /\ start \in SenderSession
      /\ start.id = nextId /\ start.state = "WaitingForReady" /\ start.phase = "send"
  BY <1>1, SessionTypes DEF NoTransfer, SenderSession, SenderStates, Phases
<1>3. /\ failed \in SenderSession
      /\ failed.id = 0 /\ failed.state = "Failed" /\ failed.phase = "off"
  BY SessionTypes DEF Halt, NoTransfer, SenderSession, SenderStates, Phases, Errors
<1>4. \/ /\ \E n \in 0 .. MaxPackets : total' = [total EXCEPT ![nextId] = n]
         /\ snd' = [snd EXCEPT ![s] = start]
         /\ nextId' = nextId + 1
         /\ NoFault
      \/ /\ Inject("source")
         /\ snd' = [snd EXCEPT ![s] = failed]
         /\ UNCHANGED <<total, nextId>>
  BY DEF Begin
<1> HIDE DEF start, failed
<1>5. CASE snd' = [snd EXCEPT ![s] = start]
           /\ (\E n \in 0 .. MaxPackets : total' = [total EXCEPT ![nextId] = n])
           /\ nextId' = nextId + 1 /\ NoFault
  BY <1>1, <1>2, <1>5 DEF Draws, NoFault
<1>6. CASE Inject("source") /\ snd' = [snd EXCEPT ![s] = failed] /\ UNCHANGED <<total, nextId>>
  <2>1. faults' \in Nat
    BY <1>6 DEF Inject, TypeOK
  <2> QED BY <1>1, <1>3, <1>6, <2>1 DEF Resets, radioVars
<1> QED BY <1>4, <1>5, <1>6

\* A reboot of a sender forgets its session.
LEMMA RebootSenderShape ==
    ASSUME TypeOK, NEW s \in Senders, RebootSender(s)
    PROVE  Resets(s)
<1>1. NoTransfer.id = 0 /\ NoTransfer.state = "Idle" /\ NoTransfer.phase = "off"
  BY DEF NoTransfer
<1>2. faults' \in Nat
  BY DEF RebootSender, Inject, TypeOK
<1> QED BY <1>1, <1>2, SessionTypes DEF RebootSender, Resets, ToReceiver

\* Every step of the system has one of the shapes above.
LEMMA StepShape ==
    ASSUME TypeOK, IdsInv, Next
    PROVE  \/ \E s \in Senders : SenderShape(s) \/ Draws(s) \/ Resets(s)
           \/ ReceiverShape
BY SenderStepShape, BeginShape, RebootSenderShape, ReceiverStepShape DEF Next

-----------------------------------------------------------------------------
(* Sequences.                                                              *)

\* The elements left after the head is consumed were there before, in that order.
LEMMA TailElements ==
    ASSUME NEW S, NEW q \in Seq(S), q # <<>>, NEW n \in 1 .. Len(Tail(q))
    PROVE  n + 1 \in 1 .. Len(q) /\ Tail(q)[n] = q[n + 1]
OBVIOUS

\* What is in a queue after a send was there before, or is what was sent.
LEMMA AppendElements ==
    ASSUME NEW S, NEW q \in Seq(S), NEW e \in S, NEW n \in 1 .. Len(Append(q, e))
    PROVE  \/ n \in 1 .. Len(q) /\ Append(q, e)[n] = q[n]
           \/ n = Len(q) + 1 /\ Append(q, e)[n] = e
OBVIOUS

\* Whatever the receiving board does to its FIFO, it adds nothing.
LEMMA ReceiverAir ==
    ASSUME TypeOK, ReceiverShape, NEW n \in 1 .. Len(air')
    PROVE  \E m \in 1 .. Len(air) : air'[n] = air[m]
<1>1. air' = <<>> \/ air' = air \/ (air # <<>> /\ air' = Tail(air))
  BY DEF ReceiverShape
<1>2. air \in Seq(Frames)
  BY DEF TypeOK
<1> QED BY <1>1, <1>2, TailElements

\* A file that is published now, or was before.
LEMMA ReceiverFiles ==
    ASSUME TypeOK, ReceiverShape
    PROVE  /\ Len(published) <= Len(published')
           /\ \A n \in 1 .. Len(published) : published'[n] = published[n]
           /\ \A n \in 1 .. Len(published') :
                 \/ n \in 1 .. Len(published)
                 \/ /\ Publishes
                    /\ n = Len(published) + 1
                    /\ published'[n] = [id |-> rcv.id, data |-> rcv.data]
<1> DEFINE File == [id : Nat, data : Seq(Payload)]
<1>1. published \in Seq(File) /\ [id |-> rcv.id, data |-> rcv.data] \in File
  <2>1. rcv.id \in Nat /\ rcv.data \in Seq(Payload)
    BY RcvType
  <2> QED BY <2>1 DEF TypeOK
<1> HIDE DEF File
<1>2. CASE UNCHANGED published
  BY <1>1, <1>2
<1>3. CASE Publishes
  <2>1. published' = Append(published, [id |-> rcv.id, data |-> rcv.data])
    BY <1>3 DEF Publishes
  <2> QED BY <1>1, <1>3, <2>1
<1> QED BY <1>2, <1>3 DEF ReceiverShape

-----------------------------------------------------------------------------
(* TypeOK and IdsInv are inductive.                                        *)

\* What an update of one board's session leaves of the others.
LEMMA OneSender ==
    ASSUME TypeOK, NEW s \in Senders, NEW r \in SenderSession,
           snd' = [snd EXCEPT ![s] = r]
    PROVE  /\ snd' \in [Senders -> SenderSession]
           /\ snd'[s] = r
           /\ \A t \in Senders \ {s} : snd'[t] = snd[t]
BY DEF TypeOK

\* Only ids that the generator has handed out are in use.
LEMMA UsedIds ==
    ASSUME IdsInv
    PROVE  Used \subseteq Ids
BY BoundsAssumption DEF IdsInv, Used, Ids

\* The frame a sender may append, and the air afterwards.
LEMMA SenderAir ==
    ASSUME TypeOK, IdsInv, NEW s \in Senders, SenderShape(s)
    PROVE  \/ air' = air
           \/ \E f \in Frames :
                 /\ air' = Append(air, f)
                 /\ f.id = snd[s].id
                 /\ f.type = "START" => snd[s].state = "WaitingForReady"
                 /\ f.type \in {"END", "CANCEL"} => snd[s].state # "WaitingForReady"
<1>1. snd[s] \in SenderSession /\ total \in [Ids -> Nat] /\ snd[s].id \in Ids
  BY UsedIds DEF TypeOK, IdsInv, SenderShape
<1> QED BY <1>1, OutboundType DEF SenderShape

\* The state after power-up is well typed.
LEMMA TypesInit ==
    ASSUME Init
    PROVE  TypeOK /\ IdsInv
<1>1. TypeOK
  BY SessionTypes, ZeroRetries DEF Init, TypeOK, Ids, ReportStates
<1>2. IdsInv
  BY BoundsAssumption DEF Init, IdsInv, Live, NoTransfer, Terminal, Active, ActiveStates,
         NoSession
<1> QED BY <1>1, <1>2

\* Every step keeps the state well typed.
LEMMA TypesStep ==
    ASSUME TypeOK, IdsInv, Next
    PROVE  TypeOK'
<1>1. CASE \E s \in Senders : SenderShape(s)
  <2>1. PICK s \in Senders : SenderShape(s)
    BY <1>1
  <2>2. snd' \in [Senders -> SenderSession]
    BY <2>1, OneSender DEF SenderShape
  <2>3. air' \in Seq(Frames)
    <3>1. air \in Seq(Frames) /\ \A f \in Frames : Append(air, f) \in Seq(Frames)
      BY DEF TypeOK
    <3> QED BY <2>1, <3>1, SenderAir
  <2>4. answers' \in [Senders -> Seq(Frames)]
    <3>1. PICK q \in Seq(Frames) : answers' = [answers EXCEPT ![s] = q]
      BY <2>1 DEF SenderShape
    <3> QED BY <3>1 DEF TypeOK
  <2>5. faults' \in Nat /\ UNCHANGED <<total, nextId, rcv, listening, storageVars, appVars>>
    BY <2>1 DEF SenderShape
  <2> QED BY <2>2, <2>3, <2>4, <2>5 DEF TypeOK, storageVars, appVars
<1>2. CASE \E s \in Senders : Draws(s)
  <2>1. PICK s \in Senders : Draws(s)
    BY <1>2
  <2>2. snd' \in [Senders -> SenderSession]
    BY <2>1, OneSender DEF Draws
  <2>3. total' \in [Ids -> Nat] /\ nextId' \in Nat
    BY <2>1, BoundsAssumption DEF Draws, TypeOK
  <2>4. UNCHANGED <<rcv, radioVars, storageVars, appVars, faults>>
    BY <2>1 DEF Draws
  <2> QED BY <2>2, <2>3, <2>4 DEF TypeOK, storageVars, appVars, radioVars
<1>3. CASE \E s \in Senders : Resets(s)
  <2>1. PICK s \in Senders : Resets(s)
    BY <1>3
  <2>2. snd' \in [Senders -> SenderSession]
    BY <2>1, OneSender DEF Resets
  <2>3. answers' \in [Senders -> Seq(Frames)] /\ faults' \in Nat
    <3>1. \/ answers' = answers
          \/ answers' = [answers EXCEPT ![s] = <<>>]
      BY <2>1 DEF Resets
    <3>2. answers \in [Senders -> Seq(Frames)] /\ <<>> \in Seq(Frames)
      BY DEF TypeOK
    <3> QED BY <2>1, <3>1, <3>2 DEF Resets
  <2>4. UNCHANGED <<total, nextId, rcv, listening, air, storageVars, appVars>>
    BY <2>1 DEF Resets
  <2> QED BY <2>2, <2>3, <2>4 DEF TypeOK, storageVars, appVars
<1>4. CASE ReceiverShape
  <2>1. UNCHANGED senderVars
    BY <1>4 DEF ReceiverShape
  <2>2. air' \in Seq(Frames)
    <3>1. air' = <<>> \/ air' = air \/ (air # <<>> /\ air' = Tail(air))
      BY <1>4 DEF ReceiverShape
    <3>2. air \in Seq(Frames) /\ <<>> \in Seq(Frames)
      BY DEF TypeOK
    <3>3. air # <<>> => Tail(air) \in Seq(Frames)
      BY <3>2
    <3> QED BY <3>1, <3>2, <3>3
  <2>3. answers' \in [Senders -> Seq(Frames)]
    BY <1>4 DEF ReceiverShape, Says
  <2>4. published' \in Seq([id : Nat, data : Seq(Payload)])
    <3>1. rcv.id \in Nat /\ rcv.data \in Seq(Payload)
      BY RcvType
    <3>2. [id |-> rcv.id, data |-> rcv.data] \in [id : Nat, data : Seq(Payload)]
      BY <3>1
    <3>3. published \in Seq([id : Nat, data : Seq(Payload)])
      BY DEF TypeOK
    <3>4. Append(published, [id |-> rcv.id, data |-> rcv.data])
            \in Seq([id : Nat, data : Seq(Payload)])
      BY <3>2, <3>3
    <3> QED BY <1>4, <3>3, <3>4 DEF ReceiverShape, Publishes
  <2>5. /\ rcv' \in ReceiverSession /\ listening' \in BOOLEAN /\ partials' \subseteq Nat
        /\ AppTypes
    BY <1>4 DEF ReceiverShape
  <2> QED BY <2>1, <2>2, <2>3, <2>4, <2>5 DEF TypeOK, AppTypes, senderVars
<1> QED BY <1>1, <1>2, <1>3, <1>4, StepShape

\* Every step keeps the ids in use distinct and drawn from the generator.
LEMMA IdsStep ==
    ASSUME TypeOK, IdsInv, Next
    PROVE  IdsInv'
<1>1. CASE \E s \in Senders : SenderShape(s)
  <2>1. PICK s \in Senders : SenderShape(s)
    BY <1>1
  <2>2. PICK r \in SenderSession : snd' = [snd EXCEPT ![s] = r] /\ Follows(snd[s], r)
    BY <2>1 DEF SenderShape
  <2>3. /\ snd'[s] = r
        /\ \A t \in Senders \ {s} : snd'[t] = snd[t]
    BY <2>2, OneSender
  <2>4. UNCHANGED <<nextId, rcv, published>>
    BY <2>1 DEF SenderShape, storageVars
  <2>5. Live(s) /\ snd[s].id \in Used
    BY <2>1 DEF SenderShape, IdsInv
  <2>6. \A t \in Senders : /\ snd'[t].id = snd[t].id
                           /\ Live(t)' <=> snd'[t].phase # "off"
                           /\ Live(t)' => snd[t].id \in Used
    BY <2>2, <2>3, <2>5 DEF Follows, Live, IdsInv
  <2>7. \A n \in 1 .. Len(air') : air'[n].id \in Used
    <3>1. CASE air' = air
      BY <3>1 DEF IdsInv
    <3>2. ASSUME NEW f \in Frames, air' = Append(air, f), f.id = snd[s].id
          PROVE  \A n \in 1 .. Len(air') : air'[n].id \in Used
      <4>1. air \in Seq(Frames)
        BY DEF TypeOK
      <4> QED BY <2>5, <3>2, <4>1, AppendElements DEF IdsInv
    <3> QED BY <2>1, <3>1, <3>2, SenderAir
  <2> QED BY <2>4, <2>6, <2>7 DEF IdsInv, Used, Active
<1>2. CASE \E s \in Senders : Draws(s)
  <2>1. PICK s \in Senders : Draws(s)
    BY <1>2
  <2>2. PICK r \in SenderSession :
           /\ snd' = [snd EXCEPT ![s] = r]
           /\ r.id = nextId /\ r.state = "WaitingForReady" /\ r.phase = "send"
    BY <2>1 DEF Draws
  <2>3. /\ snd'[s] = r
        /\ \A t \in Senders \ {s} : snd'[t] = snd[t]
    BY <2>2, OneSender
  <2>4. /\ nextId' = nextId + 1 /\ nextId \in 1 .. MaxTransfers /\ nextId \in Nat
        /\ UNCHANGED <<air, rcv, published>>
        /\ \A t \in Senders : snd[t].id \in Nat
    BY <2>1 DEF Draws, Ids, radioVars, storageVars, TypeOK, SenderSession
  <2>5. nextId' \in 1 .. MaxTransfers + 1 /\ Used \subseteq Used' /\ nextId \in Used'
    BY <2>4, BoundsAssumption DEF Used
  <2>6. \A t \in Senders :
           /\ snd'[t].id < nextId'
           /\ Live(t)' <=> snd'[t].phase # "off"
           /\ Live(t)' => snd'[t].id \in Used'
    BY <2>2, <2>3, <2>4, <2>5 DEF Live, IdsInv, Terminal
  <2>7. \A t, u \in Senders : snd'[t].id = snd'[u].id => t = u \/ snd'[t].id = 0
    BY <2>2, <2>3, <2>4 DEF IdsInv
  <2> QED BY <2>4, <2>5, <2>6, <2>7 DEF IdsInv, Active
<1>3. CASE \E s \in Senders : Resets(s)
  <2>1. PICK s \in Senders : Resets(s)
    BY <1>3
  <2>2. PICK r \in SenderSession :
           /\ snd' = [snd EXCEPT ![s] = r]
           /\ r.id = 0 /\ r.state \in {"Idle", "Failed"} /\ r.phase = "off"
    BY <2>1 DEF Resets
  <2>3. /\ snd'[s] = r
        /\ \A t \in Senders \ {s} : snd'[t] = snd[t]
    BY <2>2, OneSender
  <2>4. UNCHANGED <<nextId, air, rcv, published>> /\ 0 < nextId
    BY <2>1 DEF Resets, storageVars, IdsInv
  <2>5. \A t \in Senders :
           /\ snd'[t].id < nextId
           /\ Live(t)' <=> snd'[t].phase # "off"
           /\ Live(t)' => snd'[t].id \in Used
    BY <2>2, <2>3, <2>4 DEF Live, IdsInv, Terminal
  <2>6. \A t, u \in Senders : snd'[t].id = snd'[u].id => t = u \/ snd'[t].id = 0
    BY <2>2, <2>3 DEF IdsInv
  <2> QED BY <2>4, <2>5, <2>6 DEF IdsInv, Active, Used
<1>4. CASE ReceiverShape
  <2>1. UNCHANGED <<snd, nextId>>
    BY <1>4 DEF ReceiverShape, senderVars
  <2>2. \A n \in 1 .. Len(air') : air'[n].id \in Used
    BY <1>4, ReceiverAir DEF IdsInv
  <2>3. Active' => rcv'.id \in Used
    <3>1. air # <<>> => 1 \in 1 .. Len(air) /\ Received = air[1]
      BY DEF Received, TypeOK
    <3>2. air # <<>> => Received.id \in Used
      BY <3>1 DEF IdsInv
    <3> QED BY <1>4, <3>2 DEF ReceiverShape, Active, IdsInv
  <2>4. \A n \in 1 .. Len(published') : published'[n].id \in Used
    <3>1. Publishes => rcv.id \in Used
      BY DEF Publishes, IdsInv
    <3> QED BY <1>4, <3>1, ReceiverFiles DEF IdsInv
  <2> QED BY <2>1, <2>2, <2>3, <2>4 DEF IdsInv, Used, Live
<1> QED BY <1>1, <1>2, <1>3, <1>4, StepShape

-----------------------------------------------------------------------------
(* A START is never sent again once its transfer is past it.               *)

\* A sender that has had its READY never goes back to offering the same START.
LEMMA PastStart ==
    ASSUME TypeOK, IdsInv, Next, NEW i \in Used,
           \A s \in Senders : snd[s].id = i => snd[s].state # "WaitingForReady"
    PROVE  \A s \in Senders : snd'[s].id = i => snd'[s].state # "WaitingForReady"
<1>1. i # 0 /\ i # nextId
  BY DEF Used, IdsInv
<1>2. ASSUME NEW s \in Senders, NEW r \in SenderSession, snd' = [snd EXCEPT ![s] = r],
             r.id = i => r.state # "WaitingForReady"
      PROVE  \A t \in Senders : snd'[t].id = i => snd'[t].state # "WaitingForReady"
  BY <1>2, OneSender
<1>3. CASE \E s \in Senders : SenderShape(s) \/ Draws(s) \/ Resets(s)
  BY <1>1, <1>2, <1>3 DEF SenderShape, Follows, Draws, Resets
<1>4. CASE ReceiverShape
  BY <1>4 DEF ReceiverShape, senderVars
<1> QED BY <1>3, <1>4, StepShape

\* Where a frame on the air comes from.
LEMMA AirOrigin ==
    ASSUME TypeOK, IdsInv, Next, NEW n \in 1 .. Len(air')
    PROVE  \/ \E m \in 1 .. Len(air) : air'[n] = air[m]
           \/ \E s \in Senders :
                 /\ snd[s].id \in Used
                 /\ air'[n].id = snd[s].id
                 /\ air'[n].type = "START" => snd[s].state = "WaitingForReady"
                 /\ air'[n].type \in {"END", "CANCEL"} => snd[s].state # "WaitingForReady"
<1>1. CASE \E s \in Senders : SenderShape(s)
  <2>1. PICK s \in Senders : SenderShape(s)
    BY <1>1
  <2>2. snd[s].id \in Used
    BY <2>1 DEF SenderShape, IdsInv
  <2>3. CASE air' = air
    BY <2>3
  <2>4. ASSUME NEW f \in Frames, air' = Append(air, f)
        PROVE  air'[n] = f \/ \E m \in 1 .. Len(air) : air'[n] = air[m]
    <3>1. air \in Seq(Frames)
      BY DEF TypeOK
    <3> QED BY <2>4, <3>1, AppendElements
  <2> QED BY <2>1, <2>2, <2>3, <2>4, SenderAir
<1>2. CASE \E s \in Senders : Draws(s) \/ Resets(s)
  BY <1>2 DEF Draws, Resets, radioVars
<1>3. CASE ReceiverShape
  BY <1>3, ReceiverAir
<1> QED BY <1>1, <1>2, <1>3, StepShape

\* Once no START of a transfer is left anywhere, none comes back.
LEMMA NoMoreStartStep ==
    ASSUME TypeOK, IdsInv, Next, NEW i \in Used, NoMoreStart(i)
    PROVE  NoMoreStart(i)'
<1>1. \A s \in Senders : snd'[s].id = i => snd'[s].state # "WaitingForReady"
  BY PastStart DEF NoMoreStart
<1>2. ASSUME NEW n \in 1 .. Len(air'), air'[n].id = i
      PROVE  air'[n].type # "START"
  BY <1>2, AirOrigin DEF NoMoreStart
<1> QED BY <1>1, <1>2 DEF NoMoreStart

\* An END or a CANCEL on the air still means that no START follows it.
LEMMA OrderStep ==
    ASSUME TypeOK, IdsInv, OrderInv, Next
    PROVE  OrderInv'
<1> SUFFICES ASSUME NEW n \in 1 .. Len(air'), air'[n].type \in {"END", "CANCEL"}
             PROVE  \A s \in Senders : snd'[s].id = air'[n].id =>
                                           snd'[s].state # "WaitingForReady"
  BY DEF OrderInv
<1>1. CASE \E m \in 1 .. Len(air) : air'[n] = air[m]
  <2>1. /\ air'[n].id \in Used
        /\ \A s \in Senders : snd[s].id = air'[n].id => snd[s].state # "WaitingForReady"
    BY <1>1 DEF OrderInv, IdsInv
  <2> QED BY <2>1, PastStart
<1>2. ASSUME NEW s \in Senders, snd[s].id \in Used, air'[n].id = snd[s].id,
             snd[s].state # "WaitingForReady"
      PROVE  \A t \in Senders : snd'[t].id = air'[n].id =>
                                    snd'[t].state # "WaitingForReady"
  <2>1. \A t \in Senders : snd[t].id = snd[s].id => t = s
    BY <1>2 DEF IdsInv, Used
  <2> QED BY <1>2, <2>1, PastStart
<1> QED BY <1>1, <1>2, AirOrigin

-----------------------------------------------------------------------------
(* A transfer is published once.                                           *)

\* What a step of a sender leaves alone.
LEMMA SenderKeeps ==
    ASSUME NEW s \in Senders, SenderShape(s) \/ Draws(s) \/ Resets(s)
    PROVE  UNCHANGED <<rcv, published>>
BY DEF SenderShape, Draws, Resets, storageVars

\* The set of published transfers grows only by the one handleEnd publishes.
LEMMA PublishedIdsStep ==
    ASSUME TypeOK, IdsInv, Next
    PROVE  /\ PublishedIds \subseteq PublishedIds'
           /\ \A i \in PublishedIds' : i \in PublishedIds \/ (Publishes /\ i = rcv.id)
           /\ Publishes => rcv.id \in PublishedIds'
<1>1. CASE \E s \in Senders : SenderShape(s) \/ Draws(s) \/ Resets(s)
  <2>1. UNCHANGED <<rcv, published>>
    BY <1>1, SenderKeeps
  <2>2. Publishes => published' # published
    <3> DEFINE File == [id : Nat, data : Seq(Payload)]
    <3>1. published \in Seq(File)
      BY DEF TypeOK
    <3>2. rcv.id \in Nat /\ rcv.data \in Seq(Payload)
      BY RcvType
    <3>3. [id |-> rcv.id, data |-> rcv.data] \in File
      BY <3>2
    <3> HIDE DEF File
    <3>4. /\ Len(Append(published, [id |-> rcv.id, data |-> rcv.data])) = Len(published) + 1
          /\ Len(published) \in Nat
      BY <3>1, <3>3
    <3>5. Append(published, [id |-> rcv.id, data |-> rcv.data]) # published
      BY <3>4
    <3> QED BY <3>5 DEF Publishes
  <2> QED BY <2>1, <2>2 DEF PublishedIds
<1>2. CASE ReceiverShape
  <2>1. Publishes => Len(published) + 1 \in 1 .. Len(published')
                     /\ published'[Len(published) + 1].id = rcv.id
    <3> DEFINE File == [id : Nat, data : Seq(Payload)]
    <3>1. published \in Seq(File)
      BY DEF TypeOK
    <3>2. rcv.id \in Nat /\ rcv.data \in Seq(Payload)
      BY RcvType
    <3> DEFINE new == [id |-> rcv.id, data |-> rcv.data]
    <3>3. new \in File /\ new.id = rcv.id
      BY <3>2
    <3> HIDE DEF File, new
    <3>4. /\ Len(Append(published, new)) = Len(published) + 1
          /\ Append(published, new)[Len(published) + 1] = new
          /\ Len(published) \in Nat
      BY <3>1, <3>3
    <3> QED BY <3>3, <3>4 DEF Publishes, new
  <2>2. Len(published) \in Nat /\ Len(published') \in Nat
    BY <1>2, TypesStep DEF TypeOK
  <2> QED BY <1>2, <2>1, <2>2, ReceiverFiles DEF PublishedIds
<1> QED BY <1>1, <1>2, StepShape

\* What has been published was once offered under an id of the generator.
LEMMA PublishedUsed ==
    ASSUME IdsInv
    PROVE  PublishedIds \subseteq Used
BY DEF IdsInv, PublishedIds

\* The payload rxTask reads is the first of those on the air.
LEMMA ReceivedPlace ==
    ASSUME TypeOK, air # <<>>
    PROVE  1 \in 1 .. Len(air) /\ Received = air[1]
BY DEF Received, TypeOK

\* When handleEnd publishes, the session closes and no START of it is left.
LEMMA PublishesEnds ==
    ASSUME TypeOK, IdsInv, OrderInv, Publishes, UNCHANGED senderVars
    PROVE  NoMoreStart(rcv.id)' /\ rcv'.id = rcv.id /\ ~ Active'
<1>1. \A s \in Senders : snd[s].id = rcv.id => snd[s].state # "WaitingForReady"
  BY ReceivedPlace DEF Publishes, OrderInv
<1> QED BY <1>1 DEF Publishes, NoMoreStart, senderVars, Active, ActiveStates

\* A published transfer stays one that no START can reopen.
LEMMA PublishedStep ==
    ASSUME TypeOK, IdsInv, OrderInv, PublishedInv, Next
    PROVE  PublishedInv'
<1>1. \A i \in PublishedIds : NoMoreStart(i)'
  BY PublishedUsed, NoMoreStartStep DEF PublishedInv
<1>2. CASE \E s \in Senders : SenderShape(s) \/ Draws(s) \/ Resets(s)
  <2>1. UNCHANGED <<rcv, published>>
    BY <1>2, SenderKeeps
  <2>2. PublishedIds' = PublishedIds /\ (Active' <=> Active) /\ rcv' = rcv
    BY <2>1 DEF PublishedIds, Active
  <2> QED BY <1>1, <2>2 DEF PublishedInv
<1>3. CASE ReceiverShape /\ Publishes
  <2>1. NoMoreStart(rcv.id)' /\ rcv'.id = rcv.id /\ ~ Active'
    BY <1>3, PublishesEnds DEF ReceiverShape
  <2> QED BY <1>1, <2>1, PublishedIdsStep DEF PublishedInv
<1>4. CASE ReceiverShape /\ ~ Publishes
  <2>1. PublishedIds' = PublishedIds
    BY <1>4, PublishedIdsStep
  <2>2. Active' => rcv'.id \notin PublishedIds
    BY <1>4, ReceivedPlace DEF ReceiverShape, Active, PublishedInv, NoMoreStart
  <2> QED BY <1>1, <2>1, <2>2 DEF PublishedInv
<1> QED BY <1>2, <1>3, <1>4, StepShape

\* No step publishes a transfer a second time.
LEMMA OnceStep ==
    ASSUME TypeOK, IdsInv, PublishedInv, PublishedOnce, Next
    PROVE  PublishedOnce'
<1>1. CASE \E s \in Senders : SenderShape(s) \/ Draws(s) \/ Resets(s)
  BY <1>1, SenderKeeps DEF PublishedOnce
<1>2. CASE ReceiverShape
  <2>1. \A n \in 1 .. Len(published') :
           \/ n \in 1 .. Len(published) /\ published'[n].id = published[n].id
           \/ /\ n = Len(published) + 1
              /\ published'[n].id = rcv.id
              /\ \A m \in 1 .. Len(published) : published[m].id # rcv.id
    <3>1. Publishes => \A m \in 1 .. Len(published) : published[m].id # rcv.id
      BY DEF Publishes, PublishedInv, PublishedIds
    <3> QED BY <1>2, <3>1, ReceiverFiles
  <2> QED BY <2>1 DEF PublishedOnce
<1> QED BY <1>1, <1>2, StepShape

-----------------------------------------------------------------------------
(* A claim of success is backed by a file.                                 *)

\* Where an answer in the FIFO of a sending board comes from.
LEMMA AnswerOrigin ==
    ASSUME TypeOK, IdsInv, Next, NEW s \in Senders, NEW n \in 1 .. Len(answers'[s])
    PROVE  \/ \E m \in 1 .. Len(answers[s]) : answers'[s][n] = answers[s][m]
           \/ /\ ReceiverShape
              /\ answers'[s][n].type = "COMPLETE" =>
                    answers'[s][n].id = rcv'.id /\ rcv'.state = "Completed"
<1>1. answers[s] \in Seq(Frames)
  BY DEF TypeOK
<1>2. CASE \E t \in Senders : SenderShape(t)
  <2>1. PICK t \in Senders : SenderShape(t)
    BY <1>2
  <2>2. PICK q \in Seq(Frames) :
           /\ answers' = [answers EXCEPT ![t] = q]
           /\ q = answers[t] \/ q = <<>> \/ (answers[t] # <<>> /\ q = Tail(answers[t]))
    BY <2>1 DEF SenderShape
  <2>3. answers'[s] = IF s = t THEN q ELSE answers[s]
    BY <2>2 DEF TypeOK
  <2>4. CASE answers'[s] = answers[s]
    BY <2>4
  <2>5. CASE answers'[s] = <<>>
    BY <2>5
  <2>6. CASE answers[s] # <<>> /\ answers'[s] = Tail(answers[s])
    BY <1>1, <2>6, TailElements
  <2> QED BY <2>2, <2>3, <2>4, <2>5, <2>6
<1>3. CASE \E t \in Senders : Draws(t) \/ Resets(t)
  <2>1. answers'[s] = answers[s] \/ answers'[s] = <<>>
    BY <1>3 DEF Draws, Resets, radioVars, TypeOK
  <2> QED BY <2>1
<1>4. CASE ReceiverShape
  <2>1. PICK f \in Frames : Says(f)
    BY <1>4 DEF ReceiverShape
  <2>2. answers'[s] = answers[s] \/ answers'[s] = Append(answers[s], f)
    BY <2>1 DEF Says
  <2>3. answers'[s][n] = f \/ \E m \in 1 .. Len(answers[s]) : answers'[s][n] = answers[s][m]
    <3>1. CASE answers'[s] = answers[s]
      BY <3>1
    <3>2. CASE answers'[s] = Append(answers[s], f)
      BY <1>1, <3>2, AppendElements
    <3> QED BY <2>2, <3>1, <3>2
  <2> QED BY <1>4, <2>1, <2>3 DEF Says
<1> QED BY <1>2, <1>3, <1>4, StepShape

\* A sender that has just been told of success was told by the receiver.
LEMMA CompletedStep ==
    ASSUME TypeOK, IdsInv, ClaimInv, Next, NEW t \in Senders, snd'[t].state = "Completed"
    PROVE  snd'[t].id \in PublishedIds
<1>1. CASE \E s \in Senders : SenderShape(s)
  <2>1. PICK s \in Senders : SenderShape(s)
    BY <1>1
  <2>2. PICK r \in SenderSession :
           /\ snd' = [snd EXCEPT ![s] = r]
           /\ r.state = "Completed" => \E n \in 1 .. Len(answers[s]) :
                 answers[s][n].type = "COMPLETE" /\ answers[s][n].id = r.id
    BY <2>1 DEF SenderShape
  <2>3. snd'[s] = r /\ \A u \in Senders \ {s} : snd'[u] = snd[u]
    BY <2>2, OneSender
  <2> QED BY <2>2, <2>3 DEF ClaimInv, CompletedMeansPublished
<1>2. CASE \E s \in Senders : Draws(s) \/ Resets(s)
  <2>1. PICK s \in Senders : Draws(s) \/ Resets(s)
    BY <1>2
  <2>2. PICK r \in SenderSession : snd' = [snd EXCEPT ![s] = r] /\ r.state # "Completed"
    BY <2>1 DEF Draws, Resets
  <2>3. snd'[s] = r /\ \A u \in Senders \ {s} : snd'[u] = snd[u]
    BY <2>2, OneSender
  <2> QED BY <2>2, <2>3 DEF ClaimInv, CompletedMeansPublished
<1>3. CASE ReceiverShape
  BY <1>3 DEF ReceiverShape, senderVars, ClaimInv, CompletedMeansPublished
<1> QED BY <1>1, <1>2, <1>3, StepShape

\* No step makes a sender report a success that the receiver has not earned.
LEMMA ClaimStep ==
    ASSUME TypeOK, IdsInv, ClaimInv, Next
    PROVE  ClaimInv'
<1>1. PublishedIds \subseteq PublishedIds'
  BY PublishedIdsStep
<1>2. rcv'.state = "Completed" => rcv'.id \in PublishedIds'
  <2>1. CASE \E s \in Senders : SenderShape(s) \/ Draws(s) \/ Resets(s)
    BY <1>1, <2>1, SenderKeeps DEF ClaimInv
  <2>2. CASE ReceiverShape
    BY <1>1, <2>2, PublishedIdsStep DEF ReceiverShape, ClaimInv, Publishes
  <2> QED BY <2>1, <2>2, StepShape
<1>3. ASSUME NEW s \in Senders, NEW n \in 1 .. Len(answers'[s]),
             answers'[s][n].type = "COMPLETE"
      PROVE  answers'[s][n].id \in PublishedIds'
  BY <1>1, <1>2, <1>3, AnswerOrigin DEF ClaimInv
<1>4. CompletedMeansPublished'
  BY <1>1, CompletedStep DEF CompletedMeansPublished
<1> QED BY <1>2, <1>3, <1>4 DEF ClaimInv

-----------------------------------------------------------------------------
(* What is published is what was announced.                                *)

\* The metadata of a transfer never changes.
LEMMA TotalStep ==
    ASSUME TypeOK, IdsInv, Next, NEW i \in Used
    PROVE  total'[i] = total[i]
<1>1. i \in Ids /\ i # nextId
  BY UsedIds DEF Used, IdsInv
<1>2. CASE \E s \in Senders : SenderShape(s) \/ Draws(s) \/ Resets(s)
  BY <1>1, <1>2 DEF SenderShape, Draws, Resets, TypeOK
<1>3. CASE ReceiverShape
  BY <1>3 DEF ReceiverShape, senderVars
<1> QED BY <1>2, <1>3, StepShape

\* No step publishes bytes other than those the sender offered.
LEMMA IntactStep ==
    ASSUME TypeOK, IdsInv, PublishedIsIntact, Next
    PROVE  PublishedIsIntact'
<1>1. \A i \in Used : FileOf(i)' = FileOf(i)
  BY TotalStep DEF FileOf
<1>2. CASE \E s \in Senders : SenderShape(s) \/ Draws(s) \/ Resets(s)
  <2>1. UNCHANGED published
    BY <1>2, SenderKeeps
  <2> QED BY <1>1, <2>1 DEF PublishedIsIntact, IdsInv
<1>3. CASE ReceiverShape
  <2>1. \A n \in 1 .. Len(published') :
           published'[n].id \in Used /\ published'[n].data = FileOf(published'[n].id)
    <3>1. Publishes => rcv.id \in Used /\ rcv.data = FileOf(rcv.id)
      BY DEF Publishes, CrcMatches, IdsInv
    <3> QED BY <1>3, <3>1, ReceiverFiles DEF PublishedIsIntact, IdsInv
  <2> QED BY <1>1, <2>1 DEF PublishedIsIntact
<1> QED BY <1>2, <1>3, StepShape

-----------------------------------------------------------------------------
(* The theorems.                                                           *)

\* The boards start idle, with nothing on the air and nothing on the flash.
LEMMA DeliveryInit == Init => DeliveryInv
<1> SUFFICES ASSUME Init PROVE DeliveryInv
  OBVIOUS
<1>1. TypeOK
  BY TypesInit
<1>2. IdsInv
  BY BoundsAssumption DEF Init, IdsInv, Live, Used, Active, ActiveStates, NoTransfer,
     NoSession, Terminal
<1>3. OrderInv
  BY DEF Init, OrderInv
<1>4. PublishedIds = {}
  BY DEF Init, PublishedIds
<1>5. PublishedInv
  BY <1>4 DEF PublishedInv
<1>6. ClaimInv
  BY DEF Init, ClaimInv, CompletedMeansPublished, NoTransfer, NoSession
<1>7. PublishedOnce /\ PublishedIsIntact
  BY DEF Init, PublishedOnce, PublishedIsIntact
<1> QED BY <1>1, <1>2, <1>3, <1>5, <1>6, <1>7 DEF DeliveryInv

\* A stuttering step leaves every part of the invariant as it is.
LEMMA DeliveryStutter ==
    ASSUME DeliveryInv, UNCHANGED vars
    PROVE  DeliveryInv'
<1> USE DEF vars, senderVars, radioVars, storageVars, appVars
<1>1. TypeOK'
  BY DEF DeliveryInv, TypeOK
<1>2. IdsInv'
  BY DEF DeliveryInv, IdsInv, Live, Used, Active
<1>3. OrderInv'
  BY DEF DeliveryInv, OrderInv
<1>4. PublishedInv'
  BY DEF DeliveryInv, PublishedInv, NoMoreStart, PublishedIds, Active
<1>5. ClaimInv'
  BY DEF DeliveryInv, ClaimInv, CompletedMeansPublished, PublishedIds
<1>6. PublishedOnce' /\ PublishedIsIntact'
  BY DEF DeliveryInv, PublishedOnce, PublishedIsIntact, FileOf
<1> QED BY <1>1, <1>2, <1>3, <1>4, <1>5, <1>6 DEF DeliveryInv

\* Every step of the boards, the radio and the environment keeps the invariant.
LEMMA DeliveryStep == DeliveryInv /\ [Next]_vars => DeliveryInv'
<1> SUFFICES ASSUME DeliveryInv, [Next]_vars PROVE DeliveryInv'
  OBVIOUS
<1>1. CASE Next
  <2>1. TypeOK /\ IdsInv /\ OrderInv /\ PublishedInv /\ ClaimInv
        /\ PublishedOnce /\ PublishedIsIntact
    BY DEF DeliveryInv
  <2>2. TypeOK'
    BY <1>1, <2>1, TypesStep
  <2>3. IdsInv' /\ OrderInv' /\ PublishedInv'
    BY <1>1, <2>1, IdsStep, OrderStep, PublishedStep
  <2>4. ClaimInv' /\ PublishedOnce' /\ PublishedIsIntact'
    BY <1>1, <2>1, ClaimStep, OnceStep, IntactStep
  <2> QED BY <2>2, <2>3, <2>4 DEF DeliveryInv
<1>2. CASE UNCHANGED vars
  BY <1>2, DeliveryStutter
<1> QED BY <1>1, <1>2

\* The inductive invariant holds in every reachable state.
THEOREM DeliveryInvariant == Spec => []DeliveryInv
BY DeliveryInit, DeliveryStep, PTL DEF Spec

\* Every variable keeps its type: in particular the retry counter of a sender
\* never passes kMaximumRetries, whatever is lost, repeated or refused.
THEOREM TypeCorrectness == Spec => []TypeOK
<1>1. DeliveryInv => TypeOK
  BY DEF DeliveryInv
<1> QED BY <1>1, DeliveryInvariant, PTL

\* handleEnd publishes a transfer at most once, however often START and END are
\* repeated, delayed or crossed by a reset of either board.
THEOREM AtMostOnePublication == Spec => []PublishedOnce
<1>1. DeliveryInv => PublishedOnce
  BY DEF DeliveryInv
<1> QED BY <1>1, DeliveryInvariant, PTL

\* A sender in SenderState::Completed is right: the receiver holds the file.
THEOREM SuccessIsTrue == Spec => []CompletedMeansPublished
<1>1. DeliveryInv => CompletedMeansPublished
  BY DEF DeliveryInv, ClaimInv
<1> QED BY <1>1, DeliveryInvariant, PTL

\* Even under noise the radio does not detect, a published file is the one the
\* sender announced.
THEOREM PublicationIsIntact == Spec => []PublishedIsIntact
<1>1. DeliveryInv => PublishedIsIntact
  BY DEF DeliveryInv
<1> QED BY <1>1, DeliveryInvariant, PTL
-----------------------------------------------------------------------------
(* ReliableTransfer implements FileDelivery: every step of the boards and  *)
(* the radio offers, stores, claims or forgets a file, or changes nothing  *)
(* that FileDelivery speaks of.                                            *)

\* The abstract state of FileDelivery.
Current == [s \in Senders |-> snd[s].id]
Claimed == [s \in Senders |-> snd[s].state = "Completed"]

\* The abstract store is the set of transfers handleEnd has published.
LEMMA SameStored == Delivery!Stored = PublishedIds
BY DEF Delivery!Stored, PublishedIds

\* A session changes only at its own board: what that does to the claims.
LEMMA OneClaim ==
    ASSUME TypeOK, NEW s \in Senders, NEW r \in SenderSession,
           snd' = [snd EXCEPT ![s] = r]
    PROVE  /\ Current' = [Current EXCEPT ![s] = r.id]
           /\ Claimed' = [Claimed EXCEPT ![s] = (r.state = "Completed")]
<1>1. /\ snd' \in [Senders -> SenderSession]
      /\ snd'[s] = r
      /\ \A t \in Senders \ {s} : snd'[t] = snd[t]
  BY OneSender
<1> QED BY <1>1 DEF Current, Claimed

\* The initial state of the boards is the initial state of FileDelivery.
LEMMA RefinesInit == Init => Delivery!Init
<1> SUFFICES ASSUME Init PROVE Delivery!Init
  OBVIOUS
<1>1. total = [i \in Ids |-> 0] /\ nextId - 1 = 0 /\ published = <<>>
  BY DEF Init
<1>2. \A s \in Senders : snd[s].id = 0 /\ snd[s].state # "Completed"
  BY DEF Init, NoTransfer
<1>3. [s \in Senders |-> snd[s].id] = [b \in Senders |-> 0]
  BY <1>2
<1>4. [s \in Senders |-> snd[s].state = "Completed"] = [b \in Senders |-> FALSE]
  BY <1>2
<1> QED BY <1>1, <1>3, <1>4 DEF Delivery!Init

\* startTransfer offers a new transfer.
LEMMA DrawsOffers ==
    ASSUME TypeOK, IdsInv, NEW s \in Senders, Draws(s)
    PROVE  Delivery!Offer(s)
<1>1. nextId \in Nat /\ nextId - 1 + 1 = nextId /\ nextId \in Ids
      /\ nextId' - 1 = nextId - 1 + 1
  BY DEF Draws, TypeOK, IdsInv
<1>2. PICK r \in SenderSession :
         snd' = [snd EXCEPT ![s] = r] /\ r.id = nextId /\ r.state = "WaitingForReady"
  BY DEF Draws
<1>3. /\ Current' = [Current EXCEPT ![s] = nextId]
      /\ Claimed' = [Claimed EXCEPT ![s] = FALSE]
  <2>1. (r.state = "Completed") = FALSE
    BY <1>2
  <2> QED BY <1>2, <2>1, OneClaim
<1>4. \E n \in 0 .. MaxPackets : total' = [total EXCEPT ![nextId] = n]
  BY DEF Draws
<1>5. UNCHANGED published
  BY DEF Draws, storageVars
<1> QED BY <1>1, <1>3, <1>4, <1>5 DEF Delivery!Offer, Current, Claimed

\* A reset, or a source that cannot be read, leaves the board without a transfer.
LEMMA ResetsForgets ==
    ASSUME TypeOK, NEW s \in Senders, Resets(s)
    PROVE  Delivery!Forget(s)
<1>1. PICK r \in SenderSession :
         snd' = [snd EXCEPT ![s] = r] /\ r.id = 0 /\ r.state \in {"Idle", "Failed"}
  BY DEF Resets
<1>2. /\ Current' = [Current EXCEPT ![s] = 0]
      /\ Claimed' = [Claimed EXCEPT ![s] = FALSE]
  <2>1. (r.state = "Completed") = FALSE
    BY <1>1
  <2> QED BY <1>1, <2>1, OneClaim
<1>3. UNCHANGED <<total, nextId, published>>
  BY DEF Resets, storageVars
<1> QED BY <1>2, <1>3 DEF Delivery!Forget, Current, Claimed

\* Any other step of a sender claims its transfer or does nothing abstract.
LEMMA SenderClaims ==
    ASSUME DeliveryInv, NEW s \in Senders, SenderShape(s)
    PROVE  Delivery!Claim(s) \/ UNCHANGED Delivery!vars
<1>1. TypeOK /\ IdsInv /\ ClaimInv /\ snd[s] \in SenderSession
  BY DEF DeliveryInv, TypeOK
<1>2. PICK r \in SenderSession :
         /\ snd' = [snd EXCEPT ![s] = r]
         /\ r.id = snd[s].id
         /\ r.state = "Completed" => \E n \in 1 .. Len(answers[s]) :
               answers[s][n].type = "COMPLETE" /\ answers[s][n].id = r.id
  BY DEF SenderShape, Follows
<1>3. UNCHANGED <<total, nextId, published>> /\ snd[s].state # "Completed"
  BY <1>1 DEF SenderShape, storageVars, Live, Terminal
<1>4. Current' = Current
  <2>1. Current' = [Current EXCEPT ![s] = Current[s]]
    BY <1>1, <1>2, OneClaim DEF Current
  <2> QED BY <2>1 DEF Current
<1>5. CASE r.state = "Completed"
  <2>1. Claimed' = [Claimed EXCEPT ![s] = TRUE]
    <3>1. (r.state = "Completed") = TRUE
      BY <1>5
    <3> QED BY <1>1, <1>2, <3>1, OneClaim
  <2>2. Current[s] \in Delivery!Stored /\ ~ Claimed[s]
    BY <1>1, <1>2, <1>3, <1>5, SameStored DEF ClaimInv, Current, Claimed
  <2> QED BY <1>3, <1>4, <2>1, <2>2 DEF Delivery!Claim, Current, Claimed
<1>6. CASE r.state # "Completed"
  <2>1. Claimed' = [Claimed EXCEPT ![s] = FALSE]
    <3>1. (r.state = "Completed") = FALSE
      BY <1>6
    <3> QED BY <1>1, <1>2, <3>1, OneClaim
  <2>2. Claimed' = Claimed
    BY <1>3, <2>1 DEF Claimed
  <2> QED BY <1>3, <1>4, <2>2 DEF Delivery!vars, Current, Claimed
<1> QED BY <1>5, <1>6

\* A step of the receiving board stores a file or does nothing abstract.
LEMMA ReceiverStores ==
    ASSUME DeliveryInv, ReceiverShape
    PROVE  (\E i \in Ids : Delivery!Store(i)) \/ UNCHANGED Delivery!vars
<1>1. TypeOK /\ IdsInv /\ PublishedInv
  BY DEF DeliveryInv
<1>2. UNCHANGED <<total, nextId, snd>>
  BY DEF ReceiverShape, senderVars
<1>3. Current' = Current /\ Claimed' = Claimed
  BY <1>2 DEF Current, Claimed
<1>4. CASE UNCHANGED published
  BY <1>2, <1>3, <1>4 DEF Delivery!vars, Current, Claimed
<1>5. CASE Publishes
  <2>1. rcv.id \in Used /\ rcv.id \notin PublishedIds /\ rcv.id \in Ids
    BY <1>1, <1>5, UsedIds DEF Publishes, IdsInv, PublishedInv
  <2>2. published' = Append(published, [id |-> rcv.id, data |-> Delivery!Content(rcv.id)])
    BY <1>5 DEF Publishes, CrcMatches, FileOf, Delivery!Content
  <2>3. Delivery!Store(rcv.id)
    BY <1>2, <1>3, <2>1, <2>2, SameStored DEF Delivery!Store, Used, Current, Claimed
  <2> QED BY <2>1, <2>3
<1> QED BY <1>4, <1>5 DEF ReceiverShape

\* Every step is a step of FileDelivery or a stutter.
LEMMA RefinesStep == DeliveryInv /\ [Next]_vars => [Delivery!Next]_(Delivery!vars)
<1> SUFFICES ASSUME DeliveryInv, [Next]_vars PROVE [Delivery!Next]_(Delivery!vars)
  OBVIOUS
<1>1. TypeOK /\ IdsInv
  BY DEF DeliveryInv
<1>2. CASE Next
  <2>1. ASSUME NEW s \in Senders, SenderShape(s) \/ Draws(s) \/ Resets(s)
        PROVE  Delivery!Offer(s) \/ Delivery!Claim(s) \/ Delivery!Forget(s)
               \/ UNCHANGED Delivery!vars
    BY <1>1, <2>1, DrawsOffers, ResetsForgets, SenderClaims
  <2> QED BY <1>1, <1>2, <2>1, StepShape, ReceiverStores DEF Delivery!Next
<1>3. CASE UNCHANGED vars
  BY <1>3 DEF vars, senderVars, storageVars, Delivery!vars
<1> QED BY <1>2, <1>3

\* The protocol, with all its losses, repetitions, resets and cancellations,
\* delivers as FileDelivery promises.
THEOREM DeliveryImplemented == Spec => ImplementsDelivery
<1>1. Spec => [][Delivery!Next]_(Delivery!vars)
  BY DeliveryInvariant, RefinesStep, PTL DEF Spec
<1> QED BY <1>1, RefinesInit, PTL DEF Spec, ImplementsDelivery

-----------------------------------------------------------------------------
(* The two endpoints.                                                      *)

\* The board knows the size of the transfer its session is about, and so does
\* every START of it that is still on the air.
MetadataInv ==
    /\ \A n \in 1 .. Len(air) : air[n].type = "START" => air[n].num = total[air[n].id]
    /\ rcv.state # "Idle" => rcv.id \in Used /\ rcv.total = total[rcv.id]
    /\ rcv.state = "Idle" => ~ rcv.present

\* Transfer i will never be received again, and was not published.
Settled(i) ==
    /\ i \in Used
    /\ NoMoreStart(i)
    /\ ~ (Active /\ rcv.id = i)
    /\ i \notin PublishedIds

\* A session that failed or was cancelled has published nothing; while the board
\* listens, a cancelled one is over for good, and so is one whose cancellation
\* was confirmed.
SettledInv ==
    /\ rcv.state \in {"Failed", "Cancelled"} => rcv.id \notin PublishedIds
    /\ rcv.state = "Completed" => ~ rcv.present
    /\ rcv.state = "Cancelled" /\ listening => Settled(rcv.id)
    /\ \A s \in Senders : \A n \in 1 .. Len(answers[s]) :
          answers[s][n].error = "Cancelled" => Settled(answers[s][n].id)

\* What the board says and keeps of its transfers, as one invariant.
BoardInv == MetadataInv /\ SettledInv /\ BoardTruthful

-----------------------------------------------------------------------------
(* What a step of the receiving board does to its session and its reports. *)

\* The session and what is said of it stay as they are.
Keeps ==
    /\ UNCHANGED <<rcv, report, apiId, published>>
    /\ listening' => listening

\* START opens a session.
Opened ==
    /\ ~ Active /\ listening
    /\ air # <<>> /\ Received.type = "START"
    /\ rcv'.state \in ActiveStates
    /\ rcv'.id = Received.id /\ rcv'.total = Received.num
    /\ apiId' = Received.id
    /\ report' = [id |-> Received.id, state |-> "Handshaking"]
    /\ UNCHANGED published

\* A session that has published nothing, or a START, ends in Failed or Cancelled.
Ended ==
    /\ rcv'.state \in {"Failed", "Cancelled"}
    /\ \/ /\ rcv'.id = rcv.id /\ rcv'.total = rcv.total
          /\ Active \/ rcv.present \/ rcv.state \in {"Failed", "Cancelled"}
       \/ /\ ~ Active
          /\ air # <<>> /\ Received.type = "START"
          /\ rcv'.id = Received.id /\ rcv'.total = Received.num
    /\ rcv'.state = "Cancelled" /\ listening' => ReceiveCancel
    /\ \/ report' = report /\ (report.id # rcv'.id \/ ~ Active)
       \/ report'.id = rcv'.id /\ report'.state \in {"Failed", "Cancelled"}
    /\ apiId' = 0
    /\ UNCHANGED published

\* DATA is written.
Accepts ==
    /\ Active
    /\ rcv'.state \in ActiveStates
    /\ rcv'.id = rcv.id /\ rcv'.total = rcv.total
    /\ UNCHANGED <<apiId, published>>
    /\ \/ report.id = rcv.id /\ report'.id = rcv.id /\ report'.state = "Transferring"
       \/ report.id # rcv.id /\ UNCHANGED report

\* END publishes.
Finishes ==
    /\ Publishes
    /\ rcv'.total = rcv.total /\ ~ rcv'.present
    /\ \/ report.id = rcv.id /\ report'.id = rcv.id /\ report'.state = "Completed"
       \/ report.id # rcv.id /\ UNCHANGED report
    /\ apiId' = 0

\* RX, or a reset, leaves no session.
Clears ==
    /\ rcv' = NoSession
    /\ apiId' = 0
    /\ \/ ~ Active /\ UNCHANGED report
       \/ report' = [id |-> 0, state |-> "Idle"]
    /\ UNCHANGED published

\* The kinds of step of the receiving board.
Steps == Keeps \/ Opened \/ Ended \/ Accepts \/ Finishes \/ Clears

\* reportReceiveFailed says Failed or Cancelled of the session it is about.
LEMMA FailedSays ==
    ASSUME NEW rep \in [id : Nat, state : ReportStates], NEW r
    PROVE  /\ FailedReport(rep, r).id = rep.id
           /\ rep.id # r.id => FailedReport(rep, r) = rep
           /\ rep.id = r.id => FailedReport(rep, r).state \in {"Failed", "Cancelled"}
BY DEF FailedReport

\* abortStorage, and nothing after it.
LEMMA AbortEnds ==
    ASSUME TypeOK, NEW r \in {rcv, [rcv EXCEPT !.open = FALSE]},
           NEW state \in {"Failed", "Cancelled"}, NEW error, Abort(r, state, error)
    PROVE  rcv'.state = state /\ rcv'.id = rcv.id /\ rcv'.total = rcv.total
BY ZenonT(60), RcvType DEF Abort, ReceiverSession

\* failWithResponse.
LEMMA FailsEnds ==
    ASSUME TypeOK, Active, NEW r \in {rcv, [rcv EXCEPT !.open = FALSE]}, NEW error,
           Fails(r, error)
    PROVE  Ended
<1>1. rcv'.state = "Failed" /\ rcv'.id = rcv.id /\ rcv'.total = rcv.total
  BY AbortEnds DEF Fails
<1>2. report \in [id : Nat, state : ReportStates]
  BY DEF TypeOK
<1> QED BY <1>1, <1>2, FailedSays DEF Ended, Fails

\* handleStart is admitted, refused or ignored.
LEMMA StartSteps ==
    ASSUME TypeOK, IdsInv, MetadataInv, ReceiveFlagExact,
           \/ ReceiveStartBusy \/ ReceiveStartAgain
           \/ ReceiveStartOpens \/ ReceiveStartFails
    PROVE  Steps
<1>1. /\ air # <<>> /\ Received.type = "START" /\ Received.num = total[Received.id]
      /\ Received.id \in Used /\ Received.id # 0
      /\ listening /\ UNCHANGED <<published, listening>>
  BY ReceivedPlace DEF ReceiveStartBusy, ReceiveStartAgain, ReceiveStartOpens,
     ReceiveStartFails, Opens, Receives, ToSender, storageVars, MetadataInv, IdsInv, Used
<1>2. report \in [id : Nat, state : ReportStates] /\ Received.id \in Nat
  BY <1>1, ReceivedType DEF TypeOK
<1>3. CASE ReceiveStartBusy
  <2>1. Received.id # rcv.id /\ UNCHANGED rcv
    BY <1>1, <1>3 DEF ReceiveStartBusy, MetadataInv
  <2> QED BY <1>1, <1>3, <2>1 DEF ReceiveStartBusy, Admit, StartedReport, Steps, Keeps
<1>4. CASE ReceiveStartAgain
  <2>1. apiId = rcv.id /\ Received.id = rcv.id /\ UNCHANGED rcv
    BY <1>4 DEF ReceiveStartAgain, ReceiveFlagExact
  <2> QED BY <1>1, <1>4, <2>1 DEF ReceiveStartAgain, Admit, StartedReport, Steps, Keeps
<1>5. CASE ReceiveStartOpens
  <2>1. /\ rcv'.state \in ActiveStates
        /\ rcv'.id = Received.id /\ rcv'.total = Received.num
    BY <1>5 DEF ReceiveStartOpens, NewSession, NoSession, ActiveStates
  <2>2. ~ Active /\ apiId = 0
    BY <1>5 DEF ReceiveStartOpens, Opens, ReceiveFlagExact
  <2> QED
    BY <1>1, <1>5, <2>1, <2>2 DEF ReceiveStartOpens, Admit, StartedReport, Steps, Opened
<1>6. CASE ReceiveStartFails
  <2>1. /\ rcv'.state = "Failed"
        /\ \/ rcv'.id = rcv.id /\ rcv'.total = rcv.total /\ rcv.present
           \/ rcv'.id = Received.id /\ rcv'.total = Received.num
    BY <1>6, RcvType DEF ReceiveStartFails, NewSession, NoSession, ReceiverSession
  <2>2. ~ Active /\ apiId' = 0
    BY <1>6 DEF ReceiveStartFails, Opens
  <2>3. \/ report' = report
        \/ report'.id = rcv'.id /\ report'.state \in {"Failed", "Cancelled"}
    <3> DEFINE rep == [id |-> Received.id, state |-> "Handshaking"]
    <3>1. rep \in [id : Nat, state : ReportStates] /\ rep.id = Received.id
      BY <1>2 DEF ReportStates
    <3>2. CASE StartedReport = report
      BY <1>2, <1>6, <3>2, FailedSays DEF ReceiveStartFails
    <3>3. CASE StartedReport = rep /\ rcv'.id = Received.id
      <4> HIDE DEF rep
      <4> QED BY <1>6, <3>1, <3>3, FailedSays DEF ReceiveStartFails
    <3> QED BY <3>2, <3>3 DEF StartedReport
  <2> QED BY <1>1, <2>1, <2>2, <2>3 DEF Steps, Ended
<1> QED BY <1>3, <1>4, <1>5, <1>6

\* Every other handler, and the controls of the board.
LEMMA HandlerSteps ==
    ASSUME TypeOK, IdsInv, ReceiveFlagExact,
           \/ ReceiverIgnores \/ ReceiveDataDuplicate \/ ReceiveAhead
           \/ ReceiveDataAccepted \/ ReceiveDataInvalid \/ ReceiveDataWriteFails
           \/ ReceiveEndAgain \/ ReceiveEndMismatch \/ ReceiveEndSinkFails
           \/ ReceiveEndPublishes \/ ReceiveCancel \/ ReceiveGarbled \/ ReceiverInactivity
    PROVE  Steps
<1> USE DEF Steps
<1>1. report \in [id : Nat, state : ReportStates]
  BY DEF TypeOK
<1>2. CASE ReceiverIgnores \/ ReceiveDataDuplicate \/ ReceiveAhead \/ ReceiveEndAgain
  BY <1>2 DEF ReceiverIgnores, Drop, ReceiveDataDuplicate, ReceiveAhead, ReceiveEndAgain,
     Handles, Receives, ToSender, storageVars, appVars, Keeps
<1>3. CASE ReceiveDataAccepted
  BY <1>3, RcvType DEF ReceiveDataAccepted, NextData, storageVars, Accepts, ReceiverSession,
     Active, ActiveStates, TypeOK
<1>4. CASE ReceiveDataInvalid \/ ReceiveDataWriteFails
  BY <1>4, FailsEnds DEF ReceiveDataInvalid, ReceiveDataWriteFails, NextData
<1>5. CASE ReceiveEndMismatch \/ ReceiveEndSinkFails
  BY <1>5, FailsEnds DEF ReceiveEndMismatch, ReceiveEndSinkFails, EndsTransfer, Active,
     ActiveStates
<1>6. CASE ReceiveEndPublishes
  <2>1. /\ rcv'.state = "Completed" /\ rcv'.id = rcv.id
        /\ rcv'.total = rcv.total /\ ~ rcv'.present
    BY <1>6, RcvType DEF ReceiveEndPublishes, ReceiverSession
  <2>2. air' = <<>>
    BY <1>6 DEF ReceiveEndPublishes, Answer, Respond, ResponseLost
  <2>3. Publishes
    BY <1>6, <2>1, <2>2 DEF ReceiveEndPublishes, Publishes, EndsTransfer, Handles, Receives,
       Active, ActiveStates
  <2>4. \/ report.id = rcv.id /\ report'.id = rcv.id /\ report'.state = "Completed"
        \/ report.id # rcv.id /\ UNCHANGED report
    BY <1>6 DEF ReceiveEndPublishes, TypeOK
  <2> QED BY <1>6, <2>1, <2>3, <2>4 DEF ReceiveEndPublishes, Finishes
<1>7. CASE ReceiveCancel
  <2>1. /\ rcv'.state = "Cancelled" /\ rcv'.id = rcv.id /\ rcv'.total = rcv.total
        /\ Active \/ rcv.state = "Cancelled"
    BY <1>7, AbortEnds DEF ReceiveCancel
  <2> QED BY <1>1, <1>7, <2>1, FailedSays DEF ReceiveCancel, Ended
<1>8. CASE ReceiveGarbled
  <2>1. CASE Active /\ Fails(rcv, "InvalidFrame")
    BY <2>1, FailsEnds
  <2>2. CASE UNCHANGED <<rcv, storageVars, appVars>>
    BY <1>8, <2>2 DEF ReceiveGarbled, Receives, ToSender, storageVars, appVars, Keeps
  <2> QED BY <1>8, <2>1, <2>2 DEF ReceiveGarbled
<1>9. CASE ReceiverInactivity
  <2>1. rcv'.state = "Failed" /\ rcv'.id = rcv.id /\ rcv'.total = rcv.total
    BY <1>9, AbortEnds DEF ReceiverInactivity
  <2> QED BY <1>1, <1>9, <2>1, FailedSays DEF ReceiverInactivity, Ended
<1> QED BY <1>2, <1>3, <1>4, <1>5, <1>6, <1>7, <1>8, <1>9

\* STOP, RX and a reset of the receiving board.
LEMMA ControlSteps ==
    ASSUME TypeOK, ReceiveFlagExact, ReceiverStop \/ ReceiverListen \/ RebootReceiver
    PROVE  Steps
<1>1. report \in [id : Nat, state : ReportStates]
  BY DEF TypeOK
<1>2. CASE ReceiverStop
  <2>1. CASE Abort(rcv, "Cancelled", "Cancelled") /\ (Active \/ rcv.state = "Failed")
    <3>1. rcv'.state = "Cancelled" /\ rcv'.id = rcv.id /\ rcv'.total = rcv.total
      BY <2>1, AbortEnds
    <3> QED BY <1>1, <1>2, <2>1, <3>1, FailedSays DEF ReceiverStop, Steps, Ended
  <2>2. CASE UNCHANGED <<rcv, partials>> /\ ~ Active /\ rcv.state = "Failed"
    BY <1>1, <1>2, <2>2, FailedSays DEF ReceiverStop, Steps, Ended
  <2>3. CASE UNCHANGED <<rcv, partials>> /\ ~ Active /\ rcv.state # "Failed"
    BY <1>2, <2>3 DEF ReceiverStop, Steps, Keeps, ReceiveFlagExact
  <2> QED BY <1>2, <2>1, <2>2, <2>3 DEF ReceiverStop
<1>3. CASE ReceiverListen
  <2>1. CASE rcv' = NoSession
    BY <1>3, <2>1 DEF ReceiverListen, appVars, Steps, Clears
  <2>2. CASE /\ rcv.present
             /\ rcv' = [rcv EXCEPT !.state = "Failed", !.error = "CleanupFailed",
                                   !.cleanupFailed = TRUE]
    <3>1. rcv'.state = "Failed" /\ rcv'.id = rcv.id /\ rcv'.total = rcv.total
      BY <2>2, RcvType DEF ReceiverSession
    <3> QED BY <1>3, <2>2, <3>1 DEF ReceiverListen, appVars, Steps, Ended
  <2> QED BY <1>3, <2>1, <2>2 DEF ReceiverListen
<1>4. CASE RebootReceiver
  BY <1>4 DEF RebootReceiver, Steps, Clears
<1> QED BY <1>2, <1>3, <1>4

\* Every step of the receiving board is of one of these kinds.
LEMMA ReceiverSteps ==
    ASSUME TypeOK, IdsInv, MetadataInv, ReceiveFlagExact,
           RxTask \/ ReceiverStop \/ ReceiverListen \/ RebootReceiver
    PROVE  Steps /\ ReceiverShape
BY StartSteps, HandlerSteps, ControlSteps, ReceiverStepShape DEF RxTask

\* A step of the system is one of a sender, which leaves the receiver alone, or
\* one of the receiver.
LEMMA EveryStep ==
    ASSUME TypeOK, IdsInv, MetadataInv, ReceiveFlagExact, Next
    PROVE  \/ /\ \E s \in Senders : SenderShape(s) \/ Draws(s) \/ Resets(s)
              /\ UNCHANGED <<rcv, listening, published, apiId, report>>
           \/ Steps /\ ReceiverShape
<1>1. CASE \E s \in Senders : Begin(s) \/ SenderLoop(s) \/ Cancel(s) \/ RebootSender(s)
  <2>1. PICK s \in Senders : SenderShape(s) \/ Draws(s) \/ Resets(s)
    BY <1>1, SenderStepShape, BeginShape, RebootSenderShape
  <2> QED BY <2>1 DEF SenderShape, Draws, Resets, radioVars, storageVars, appVars
<1> QED BY <1>1, ReceiverSteps DEF Next

-----------------------------------------------------------------------------
(* What a response tells the senders.                                      *)

\* The sending boards that listen may hear f, and the air is empty.
Tells(f) ==
    /\ air' = <<>>
    /\ \A s \in Senders : answers'[s] = answers[s] \/ answers'[s] = Append(answers[s], f)

\* sendProtocolResponseLocked, whether or not the response gets through.
LEMMA AnswerTells ==
    ASSUME TypeOK, NEW f, Answer(f) \/ AnswerToo(f)
    PROVE  Tells(f)
BY DEF Tells, Answer, AnswerToo, Respond, ResponseLost, TypeOK

\* What is told is a frame of the type, id and number that the handler chose.
LEMMA FrameTold ==
    ASSUME TypeOK, NEW type \in FrameTypes, NEW id \in Nat, NEW num \in Nat,
           Answer(Frame(type, id, num))
    PROVE  \E f \in Frames : /\ Tells(f)
                             /\ f.type = type /\ f.id = id /\ f.num = num /\ f.error = "None"
<1>1. "None" \in Errors
  BY DEF Errors
<1>2. /\ Frame(type, id, num) \in Frames
      /\ Frame(type, id, num).type = type /\ Frame(type, id, num).id = id
      /\ Frame(type, id, num).num = num /\ Frame(type, id, num).error = "None"
  BY <1>1, FrameType DEF Frame
<1> QED BY <1>2, AnswerTells

\* A refusal is told with the id, number and error its handler chose.
LEMMA RefusalTold ==
    ASSUME TypeOK, NEW type \in FrameTypes, NEW id \in Nat, NEW num \in Nat,
           NEW error \in Errors,
           \/ Answer(Refusal(type, id, num, error)) \/ AnswerToo(Refusal(type, id, num, error))
    PROVE  \E f \in Frames : /\ Tells(f)
                             /\ f.type = type /\ f.id = id /\ f.num = num /\ f.error = error
<1>1. /\ Refusal(type, id, num, error) \in Frames
      /\ Refusal(type, id, num, error).type = type /\ Refusal(type, id, num, error).id = id
      /\ Refusal(type, id, num, error).num = num
      /\ Refusal(type, id, num, error).error = error
  BY FrameType DEF Refusal, Frame
<1> QED BY <1>1, AnswerTells

\* An ERROR is told about the transfer of the session.
LEMMA ErrorTold ==
    ASSUME TypeOK, NEW error \in Errors,
           Answer(ErrorFrame(error)) \/ AnswerToo(ErrorFrame(error))
    PROVE  \E f \in Frames : /\ Tells(f)
                             /\ f.type = "ERROR" /\ f.id = rcv.id /\ f.error = error
BY RefusalTold, RcvType DEF ErrorFrame, FrameTypes

\* Only a handler of CANCEL confirms a cancellation.
LEMMA ResponseOrigin ==
    ASSUME TypeOK, RxTask \/ ReceiverStop \/ ReceiverListen \/ RebootReceiver
    PROVE  \/ UNCHANGED answers
           \/ \E f \in Frames :
                 Tells(f) /\ (f.error = "Cancelled" => ReceiveCancel /\ f.id = rcv.id)
<1>1. /\ rcv.id \in Nat /\ rcv.exp \in Nat /\ rcv.total \in Nat
      /\ air # <<>> => Received.id \in Nat /\ Received.num \in Nat
  BY RcvType, ReceivedType
<1>2. CASE ReceiveStartBusy
  <2>1. "READY" \in FrameTypes /\ "Busy" \in Errors /\ air # <<>>
    BY <1>2 DEF ReceiveStartBusy, Receives, FrameTypes, Errors
  <2> QED BY <1>1, <1>2, <2>1, RefusalTold DEF ReceiveStartBusy
<1>3. CASE ReceiveStartAgain \/ ReceiveStartOpens
  <2>1. "READY" \in FrameTypes /\ air # <<>>
    BY <1>3 DEF ReceiveStartAgain, ReceiveStartOpens, Opens, Receives, FrameTypes
  <2> QED BY <1>1, <1>3, <2>1, FrameTold DEF ReceiveStartAgain, ReceiveStartOpens
<1>4. CASE ReceiveStartFails
  <2>1. "READY" \in FrameTypes /\ air # <<>> /\ rcv'.error \in {"CleanupFailed", "SinkOpen"}
        /\ rcv'.error \in Errors
    BY <1>4, RcvType DEF Errors, FrameTypes, ReceiveStartFails, Opens, Receives, ReceiverSession, NewSession,
       NoSession
  <2>2. PICK error \in Errors :
           error # "Cancelled" /\ AnswerToo(Refusal("READY", Received.id, 0, error))
    BY <1>4, <2>1 DEF ReceiveStartFails
  <2> QED BY <1>1, <2>1, <2>2, RefusalTold
<1>5. CASE ReceiverIgnores
  BY <1>5 DEF ReceiverIgnores, Drop
<1>6. CASE ReceiveDataDuplicate \/ ReceiveDataAccepted
  <2>1. "ACK" \in FrameTypes /\ air # <<>>
    BY <1>6 DEF FrameTypes, ReceiveDataDuplicate, ReceiveDataAccepted, NextData, Handles, Receives
  <2> QED BY <1>1, <1>6, <2>1, FrameTold DEF ReceiveDataDuplicate, ReceiveDataAccepted
<1>7. CASE ReceiveAhead
  <2>1. "NACK" \in FrameTypes /\ "UnexpectedSequence" \in Errors
    BY DEF FrameTypes, Errors
  <2> QED BY <1>1, <1>7, <2>1, RefusalTold DEF ReceiveAhead
<1>8. CASE ReceiveDataInvalid \/ ReceiveDataWriteFails \/ ReceiverInactivity
  <2> DEFINE Reasons == {"PacketCountMismatch", "ByteCountMismatch", "SinkWrite", "Timeout"}
  <2>1. PICK error \in Reasons : Answer(ErrorFrame(error)) \/ AnswerToo(ErrorFrame(error))
    BY <1>8 DEF ReceiveDataInvalid, ReceiveDataWriteFails, ReceiverInactivity
  <2>2. error \in Errors /\ error # "Cancelled"
    BY DEF Errors
  <2> QED BY <2>1, <2>2, ErrorTold
<1>9. CASE ReceiveEndAgain \/ ReceiveEndPublishes
  <2>1. "COMPLETE" \in FrameTypes
    BY DEF FrameTypes
  <2> QED BY <1>1, <1>9, <2>1, FrameTold DEF ReceiveEndAgain, ReceiveEndPublishes
<1>10. CASE ReceiveEndMismatch
  <2>1. "CrcMismatch" \in Errors /\ "PacketCountMismatch" \in Errors
    BY DEF Errors
  <2> QED BY <1>10, <2>1, ErrorTold DEF ReceiveEndMismatch
<1>11. CASE ReceiveEndSinkFails
  <2>1. PICK error \in {"SinkClose", "PublicationFailed"} : AnswerToo(ErrorFrame(error))
    BY <1>11 DEF ReceiveEndSinkFails
  <2>2. error \in Errors /\ error # "Cancelled"
    BY DEF Errors
  <2> QED BY <2>1, <2>2, ErrorTold
<1>12. CASE ReceiveCancel
  <2>1. "Cancelled" \in Errors
    BY DEF Errors
  <2> QED BY <1>12, <2>1, ErrorTold DEF ReceiveCancel
<1>13. CASE ReceiveGarbled
  <2>1. "ERROR" \in FrameTypes /\ "InvalidFrame" \in Errors /\ air # <<>>
    BY <1>13 DEF FrameTypes, Errors, ReceiveGarbled, Receives
  <2>2. CASE Answer(ErrorFrame("InvalidFrame"))
    BY <2>1, <2>2, ErrorTold
  <2>3. CASE Answer(Refusal("ERROR", Received.id, 0, "InvalidFrame"))
    BY <1>1, <2>1, <2>3, RefusalTold
  <2> QED BY <1>13, <2>2, <2>3 DEF ReceiveGarbled
<1>14. CASE ReceiverStop \/ ReceiverListen \/ RebootReceiver
  BY <1>14 DEF ReceiverStop, ReceiverListen, RebootReceiver
<1> QED BY <1>2, <1>3, <1>4, <1>5, <1>6, <1>7, <1>8, <1>9, <1>10, <1>11, <1>12, <1>13,
           <1>14 DEF RxTask

-----------------------------------------------------------------------------
(* The board knows what its session is about.                              *)

\* START carries the size that was drawn for its transfer.
LEMMA SentMetadata ==
    ASSUME TypeOK, IdsInv, NEW s \in Senders, SenderShape(s), NEW n \in 1 .. Len(air')
    PROVE  \/ \E m \in 1 .. Len(air) : air'[n] = air[m]
           \/ air'[n].type = "START" => air'[n].num = total[air'[n].id]
<1>1. \A f \in {Outbound(snd[s])} \cup Garbled(Outbound(snd[s])) :
         f.type = "START" => f.num = total[f.id]
  BY DEF Outbound, Garbled, Frame
<1>2. \A f \in {Outbound(snd[s])} \cup Garbled(Outbound(snd[s])) : f \in Frames
  <2>1. snd[s] \in SenderSession /\ total \in [Ids -> Nat] /\ snd[s].id \in Ids
    BY UsedIds DEF TypeOK, IdsInv, SenderShape
  <2> QED BY <2>1, OutboundType
<1>3. CASE air' = air
  BY <1>3
<1>4. ASSUME NEW f \in Frames, air' = Append(air, f)
      PROVE  air'[n] = f \/ \E m \in 1 .. Len(air) : air'[n] = air[m]
  <2>1. air \in Seq(Frames)
    BY DEF TypeOK
  <2> QED BY <1>4, <2>1, AppendElements
<1> QED BY <1>1, <1>2, <1>3, <1>4 DEF SenderShape

\* Sizes are drawn once, so what START announced stays the size of its transfer.
LEMMA MetadataStep ==
    ASSUME TypeOK, IdsInv, MetadataInv, SettledInv, ReceiveFlagExact, Next
    PROVE  MetadataInv'
<1>1. \A i \in Used : i \in Used' /\ total'[i] = total[i]
  <2>1. nextId' >= nextId /\ nextId \in Nat /\ nextId' \in Nat
    <3>1. nextId \in Nat /\ (UNCHANGED nextId \/ nextId' = nextId + 1)
      BY StepShape DEF SenderShape, Draws, Resets, ReceiverShape, senderVars, TypeOK
    <3> QED BY <3>1
  <2> QED BY <2>1, TotalStep DEF Used
<1>2. ASSUME NEW n \in 1 .. Len(air'), air'[n].type = "START"
      PROVE  air'[n].num = total'[air'[n].id]
  <2>1. CASE \E m \in 1 .. Len(air) : air'[n] = air[m]
    BY <1>1, <1>2, <2>1 DEF MetadataInv, IdsInv
  <2>2. CASE \E s \in Senders : SenderShape(s)
    BY <1>2, <2>1, <2>2, SentMetadata DEF SenderShape
  <2>3. CASE (\E s \in Senders : Draws(s) \/ Resets(s)) \/ ReceiverShape
    BY <2>1, <2>3, ReceiverAir DEF Draws, Resets, radioVars
  <2> QED BY <2>2, <2>3, StepShape
<1>3. /\ rcv'.state # "Idle" => rcv'.id \in Used /\ rcv'.total = total[rcv'.id]
      /\ rcv'.state = "Idle" => ~ rcv'.present
  <2>1. air # <<>> /\ Received.type = "START" =>
           Received.id \in Used /\ Received.num = total[Received.id]
    BY ReceivedPlace DEF MetadataInv, IdsInv
  <2>2. CASE UNCHANGED rcv
    BY <2>2 DEF MetadataInv
  <2>3. CASE Steps
    <3> USE <2>1 DEF MetadataInv
    <3>1. CASE Keeps
      BY <3>1 DEF Keeps
    <3>2. CASE Opened
      BY <3>2 DEF Opened, ActiveStates
    <3>3. CASE Ended
      BY <3>3 DEF Ended, Active, ActiveStates
    <3>4. CASE Accepts
      BY <3>4 DEF Accepts, Active, ActiveStates
    <3>5. CASE Finishes
      BY <3>5 DEF Finishes, Publishes, Active, ActiveStates
    <3>6. CASE Clears
      BY <3>6 DEF Clears, NoSession
    <3> QED BY <2>3, <3>1, <3>2, <3>3, <3>4, <3>5, <3>6 DEF Steps
  <2> QED BY <2>2, <2>3, EveryStep
<1> QED BY <1>1, <1>2, <1>3 DEF MetadataInv

-----------------------------------------------------------------------------
(* A settled transfer stays settled.                                       *)

\* A transfer that is settled stays settled.
LEMMA SettledStep ==
    ASSUME TypeOK, IdsInv, Next, NEW i, Settled(i)
    PROVE  Settled(i)'
<1>1. i \in Used' /\ NoMoreStart(i)'
  <2>1. nextId \in Nat /\ (UNCHANGED nextId \/ nextId' = nextId + 1)
    BY StepShape DEF SenderShape, Draws, Resets, ReceiverShape, senderVars, TypeOK
  <2> QED BY <2>1, NoMoreStartStep DEF Settled, Used
<1>2. i \notin PublishedIds'
  BY PublishedIdsStep DEF Settled, Publishes
<1>3. ~ (Active' /\ rcv'.id = i)
  <2>1. CASE \E s \in Senders : SenderShape(s) \/ Draws(s) \/ Resets(s)
    BY <2>1, SenderKeeps DEF Settled, Active
  <2>2. CASE ReceiverShape
    BY <2>2, ReceivedPlace DEF ReceiverShape, Settled, NoMoreStart, Active
  <2> QED BY <2>1, <2>2, StepShape
<1> QED BY <1>1, <1>2, <1>3 DEF Settled

\* A confirmed CANCEL settles its transfer: CANCEL follows the last START, and
\* its handler drops what else is on the air.
LEMMA CancelSettles ==
    ASSUME TypeOK, IdsInv, OrderInv, PublishedInv, SettledInv, ReceiveCancel,
           NEW i, i = rcv.id
    PROVE  Settled(i)' /\ rcv'.id = i
<1>1. /\ air # <<>> /\ Received.type = "CANCEL" /\ Received.id = rcv.id
      /\ UNCHANGED <<senderVars, published>>
  BY DEF ReceiveCancel, Handles, Receives, ToSender
<1>2. rcv.id \in Used /\ \A s \in Senders : snd[s].id = rcv.id => snd[s].state # "WaitingForReady"
  BY <1>1, ReceivedPlace DEF IdsInv, OrderInv
<1>3. air' = <<>>
  BY AnswerTells DEF ReceiveCancel, Tells
<1>4. rcv'.state = "Cancelled" /\ rcv'.id = rcv.id
  BY AbortEnds DEF ReceiveCancel
<1>5. rcv.id \notin PublishedIds
  BY DEF ReceiveCancel, PublishedInv, SettledInv
<1>6. i \in Used' /\ NoMoreStart(i)' /\ ~ Active' /\ i \notin PublishedIds'
  BY <1>1, <1>2, <1>3, <1>4, <1>5
  DEF senderVars, Used, NoMoreStart, Active, ActiveStates, PublishedIds
<1> QED BY <1>4, <1>6 DEF Settled

\* What a sender hears of a cancellation is settled.
LEMMA ConfirmedStep ==
    ASSUME TypeOK, IdsInv, OrderInv, PublishedInv, SettledInv, Next,
           NEW s \in Senders, NEW n \in 1 .. Len(answers'[s]),
           answers'[s][n].error = "Cancelled",
           NEW i, i = answers'[s][n].id
    PROVE  Settled(i)'
<1>1. CASE \E m \in 1 .. Len(answers[s]) : answers'[s][n] = answers[s][m]
  BY <1>1, SettledStep DEF SettledInv
<1>2. CASE RxTask \/ ReceiverStop \/ ReceiverListen \/ RebootReceiver
  <2>1. CASE UNCHANGED answers
    BY <1>1, <2>1
  <2>2. ASSUME NEW f \in Frames, Tells(f),
               f.error = "Cancelled" => ReceiveCancel /\ f.id = rcv.id
        PROVE  Settled(i)'
    <3>1. CASE answers'[s] = answers[s]
      BY <1>1, <3>1
    <3>2. CASE answers'[s] = Append(answers[s], f)
      <4>1. answers[s] \in Seq(Frames)
        BY DEF TypeOK
      <4>2. CASE answers'[s][n] = f
        BY <2>2, <4>2, CancelSettles
      <4> QED BY <1>1, <3>2, <4>1, <4>2, AppendElements
    <3> QED BY <2>2, <3>1, <3>2 DEF Tells
  <2> QED BY <1>2, <2>1, <2>2, ResponseOrigin
<1>3. CASE \E t \in Senders : SenderShape(t) \/ Draws(t) \/ Resets(t)
  <2>1. PICK t \in Senders : SenderShape(t) \/ Draws(t) \/ Resets(t)
    BY <1>3
  <2>2. answers[s] \in Seq(Frames)
    BY DEF TypeOK
  <2>3. \/ answers'[s] = answers[s] \/ answers'[s] = <<>>
        \/ answers[s] # <<>> /\ answers'[s] = Tail(answers[s])
    BY <2>1 DEF SenderShape, Draws, Resets, radioVars, TypeOK
  <2>4. CASE answers'[s] = answers[s]
    BY <1>1, <2>4
  <2>5. CASE answers'[s] = <<>>
    BY <2>5
  <2>6. CASE answers[s] # <<>> /\ answers'[s] = Tail(answers[s])
    BY <1>1, <2>2, <2>6, TailElements
  <2> QED BY <2>3, <2>4, <2>5, <2>6
<1>4. CASE \E t \in Senders : Begin(t) \/ SenderLoop(t) \/ Cancel(t) \/ RebootSender(t)
  BY <1>3, <1>4, SenderStepShape, BeginShape, RebootSenderShape
<1> QED BY <1>2, <1>4 DEF Next

\* What is settled, and what a finished session stands for, is not undone.
LEMMA SettledInvStep ==
    ASSUME TypeOK, IdsInv, OrderInv, PublishedInv, MetadataInv, SettledInv,
           ReceiveFlagExact, Next
    PROVE  SettledInv'
<1>1. \A s \in Senders : \A n \in 1 .. Len(answers'[s]) :
         answers'[s][n].error = "Cancelled" => \A i : i = answers'[s][n].id => Settled(i)'
  BY ConfirmedStep
<1>2. \A i : Settled(i) => Settled(i)'
  BY SettledStep
<1>3. CASE UNCHANGED <<rcv, listening, published>>
  <2>1. PublishedIds' = PublishedIds
    BY <1>3 DEF PublishedIds
  <2>2. /\ rcv'.state \in {"Failed", "Cancelled"} => rcv'.id \notin PublishedIds'
        /\ rcv'.state = "Completed" => ~ rcv'.present
        /\ rcv'.state = "Cancelled" /\ listening' => \A i : i = rcv'.id => Settled(i)'
    BY <1>2, <1>3, <2>1 DEF SettledInv
  <2> QED BY <1>1, <2>2 DEF SettledInv, Settled, NoMoreStart
<1>4. CASE Steps
  <2>1. Publishes \/ PublishedIds' = PublishedIds
    BY <1>4 DEF Steps, Keeps, Opened, Ended, Accepts, Finishes, Clears, PublishedIds
  <2>2. rcv'.state \in {"Failed", "Cancelled"} => rcv'.id \notin PublishedIds'
    <3>1. CASE Keeps
      BY <3>1 DEF Keeps, SettledInv, PublishedIds
    <3>2. CASE Ended
      <4>1. PublishedIds' = PublishedIds
        BY <3>2 DEF Ended, PublishedIds
      <4>2. Active \/ rcv.present \/ rcv.state \in {"Failed", "Cancelled"} =>
               rcv.id \notin PublishedIds
        BY RcvType DEF PublishedInv, SettledInv, MetadataInv, Active, ActiveStates,
           ReceiverSession, ReceiverStates
      <4>3. air # <<>> /\ Received.type = "START" => Received.id \notin PublishedIds
        BY ReceivedPlace DEF PublishedInv, NoMoreStart
      <4> QED BY <3>2, <4>1, <4>2, <4>3 DEF Ended
    <3> QED BY <1>4, <3>1, <3>2
        DEF Steps, Opened, Accepts, Finishes, Publishes, Clears, ActiveStates, NoSession
  <2>3. rcv'.state = "Completed" => ~ rcv'.present
    BY <1>4
    DEF Steps, Keeps, Opened, Ended, Accepts, Finishes, Clears, ActiveStates, NoSession, SettledInv
  <2>4. rcv'.state = "Cancelled" /\ listening' => \A i : i = rcv'.id => Settled(i)'
    <3>1. CASE Keeps
      BY <1>2, <3>1 DEF Keeps, SettledInv
    <3>2. CASE Ended
      BY <3>2, CancelSettles DEF Ended
    <3> QED BY <1>4, <3>1, <3>2
        DEF Steps, Opened, Accepts, Finishes, Publishes, Clears, ActiveStates, NoSession
  <2> QED BY <1>1, <2>2, <2>3, <2>4 DEF SettledInv, Settled, NoMoreStart
<1> QED BY <1>3, <1>4, EveryStep

\* The flag and the report of the board follow its session.
LEMMA BoardStep ==
    ASSUME TypeOK, IdsInv, OrderInv, PublishedInv, MetadataInv, SettledInv, BoardTruthful, Next
    PROVE  BoardTruthful'
<1> USE DEF BoardTruthful
<1>1. CASE UNCHANGED <<rcv, listening, published, apiId, report>>
  BY <1>1 DEF ReceiveFlagExact, ReportTruthful, Active, PublishedIds
<1>2. CASE Steps
  <2>1. SettledInv'
    BY SettledInvStep
  <2>2. ReceiveFlagExact'
    BY <1>2
    DEF ReceiveFlagExact, Steps, Keeps, Opened, Ended, Accepts, Finishes, Publishes, Clears,
        Active, ActiveStates, NoSession
  <2>3. ReportTruthful'
    <3> USE DEF ReportTruthful
    <3>1. CASE Keeps
      BY <3>1 DEF Keeps, Active, PublishedIds
    <3>2. CASE Opened
      BY <3>2 DEF Opened, Active
    <3>3. CASE Ended
      <4>1. PublishedIds' = PublishedIds
        BY <3>3 DEF Ended, PublishedIds
      <4>2. rcv'.id \notin PublishedIds'
        BY <2>1, <3>3 DEF Ended, SettledInv
      <4>3. CASE report' = report /\ (report.id # rcv'.id \/ ~ Active)
        <5>1. report'.state \notin {"Handshaking", "Transferring"}
          BY <3>3, <4>3 DEF Ended
        <5> QED BY <4>1, <4>3, <5>1
      <4>4. CASE report'.id = rcv'.id /\ report'.state \in {"Failed", "Cancelled"}
        BY <4>2, <4>4
      <4> QED BY <3>3, <4>3, <4>4 DEF Ended
    <3>4. CASE Accepts
      <4>1. PublishedIds' = PublishedIds
        BY <3>4 DEF Accepts, PublishedIds
      <4> QED BY <3>4, <4>1 DEF Accepts, Active
    <3>5. CASE Finishes
      <4>1. /\ rcv.id \in PublishedIds'
            /\ \A i : i \in PublishedIds' <=> i \in PublishedIds \/ i = rcv.id
        BY <3>5, PublishedIdsStep DEF Finishes
      <4> QED BY <3>5, <4>1 DEF Finishes
    <3>6. CASE Clears
      BY <3>6 DEF Clears, PublishedIds
    <3> QED BY <1>2, <3>1, <3>2, <3>3, <3>4, <3>5, <3>6 DEF Steps
  <2> QED BY <2>2, <2>3
<1> QED BY <1>1, <1>2, EveryStep

-----------------------------------------------------------------------------
(* No partial file is forgotten.                                           *)

\* No partial file is left that the session does not know it has to remove,
\* except those that were left before.
Remembers == partials' \ Known' \subseteq partials \ Known

\* abortStorage removes the file, or remembers it to be removed.
LEMMA AbortRemembers ==
    ASSUME TypeOK, NEW r \in {rcv, [rcv EXCEPT !.open = FALSE]}, NEW state, NEW error,
           Abort(r, state, error)
    PROVE  Remembers
<1>1. r.present = rcv.present /\ r.id = rcv.id
  BY RcvType DEF ReceiverSession
<1>2. CASE /\ rcv' = [r EXCEPT !.state = state, !.error = error, !.open = FALSE,
                               !.present = FALSE, !.cleanupFailed = FALSE]
           /\ partials' = IF r.present THEN partials \ {r.id} ELSE partials
  <2>1. ~ rcv'.present
    BY <1>2, RcvType DEF ReceiverSession
  <2> QED BY <1>1, <1>2, <2>1 DEF Remembers, Known
<1>3. ASSUME NEW left \in BOOLEAN, r.present,
             rcv' = [r EXCEPT !.state = state, !.error = "CleanupFailed",
                              !.open = FALSE, !.present = left, !.cleanupFailed = TRUE],
             partials' = IF left THEN partials ELSE partials \ {r.id}
      PROVE  Remembers
  <2>1. rcv'.present = left /\ rcv'.id = rcv.id
    BY <1>3, RcvType DEF ReceiverSession
  <2> QED BY <1>1, <1>3, <2>1 DEF Remembers, Known
<1> QED BY <1>2, <1>3 DEF Abort

\* A step that leaves session and flash alone forgets nothing.
LEMMA RestRemembers ==
    ASSUME UNCHANGED <<rcv, partials>>
    PROVE  Remembers
BY DEF Remembers, Known

\* A START that opens, or cannot open, its file remembers what it leaves.
LEMMA OpenRemembers ==
    ASSUME TypeOK, ReceiveStartOpens \/ ReceiveStartFails
    PROVE  Remembers
<1>1. /\ NewSession.id = Received.id /\ ~ NewSession.present
      /\ [NewSession EXCEPT !.state = "Failed", !.error = "SinkOpen"].present = FALSE
  BY DEF NewSession, NoSession
<1>2. CASE ReceiveStartOpens
  <2>1. rcv'.id = Received.id /\ rcv'.present
    BY <1>2 DEF ReceiveStartOpens, NewSession, NoSession
  <2> QED BY <1>2, <2>1 DEF ReceiveStartOpens, Cleaned, Remembers, Known
<1>3. CASE ReceiveStartFails
  <2>1. CASE /\ rcv.present
             /\ rcv' = [rcv EXCEPT !.state = "Failed", !.error = "CleanupFailed",
                                   !.cleanupFailed = TRUE]
             /\ UNCHANGED partials
    <3>1. rcv'.present = rcv.present /\ rcv'.id = rcv.id
      BY <2>1, RcvType DEF ReceiverSession
    <3> QED BY <2>1, <3>1 DEF Remembers, Known
  <2>2. CASE /\ rcv' = [NewSession EXCEPT !.state = "Failed", !.error = "SinkOpen"]
             /\ partials' \in {Cleaned, Cleaned \ {Received.id}}
    BY <1>1, <2>2 DEF Cleaned, Remembers, Known
  <2>3. CASE /\ rcv' = [NewSession EXCEPT !.state = "Failed", !.present = TRUE,
                                          !.error = "CleanupFailed"]
             /\ partials' = Cleaned
    <3>1. rcv'.present /\ rcv'.id = Received.id
      BY <2>3 DEF NewSession, NoSession
    <3> QED BY <2>3, <3>1 DEF Cleaned, Remembers, Known
  <2> QED BY <1>3, <2>1, <2>2, <2>3 DEF ReceiveStartFails
<1> QED BY <1>2, <1>3

\* So does every handler of the RX task,
LEMMA HandlerRemembers ==
    ASSUME TypeOK, RxTask
    PROVE  Remembers
<1>1. CASE ReceiveStartBusy \/ ReceiveStartAgain \/ ReceiverIgnores \/ ReceiveDataDuplicate
           \/ ReceiveAhead \/ ReceiveEndAgain
  BY <1>1, RestRemembers
  DEF ReceiveStartBusy, ReceiveStartAgain, ReceiverIgnores, Drop, ReceiveDataDuplicate,
      ReceiveAhead, ReceiveEndAgain, storageVars
<1>2. CASE ReceiveDataAccepted
  <2>1. rcv'.present = rcv.present /\ rcv'.id = rcv.id
    BY <1>2, RcvType DEF ReceiveDataAccepted, ReceiverSession
  <2> QED BY <1>2, <2>1 DEF ReceiveDataAccepted, storageVars, Remembers, Known
<1>3. CASE ReceiveDataInvalid \/ ReceiveDataWriteFails \/ ReceiveEndMismatch
           \/ ReceiveEndSinkFails
  <2>1. \E r \in {rcv, [rcv EXCEPT !.open = FALSE]} : \E error : Abort(r, "Failed", error)
    BY <1>3 DEF ReceiveDataInvalid, ReceiveDataWriteFails, ReceiveEndMismatch,
       ReceiveEndSinkFails, Fails
  <2> QED BY <2>1, AbortRemembers
<1>4. CASE ReceiveEndPublishes
  <2>1. ~ rcv'.present
    BY <1>4, RcvType DEF ReceiveEndPublishes, ReceiverSession
  <2> QED BY <1>4, <2>1 DEF ReceiveEndPublishes, Remembers, Known
<1>5. CASE ReceiveCancel \/ ReceiverInactivity
  BY <1>5, AbortRemembers, RestRemembers DEF ReceiveCancel, ReceiverInactivity
<1>6. CASE ReceiveGarbled
  BY <1>6, AbortRemembers, RestRemembers DEF ReceiveGarbled, Fails, storageVars
<1> QED BY <1>1, <1>2, <1>3, <1>4, <1>5, <1>6, OpenRemembers DEF RxTask

\* and so do STOP and RX.
LEMMA ControlRemembers ==
    ASSUME TypeOK, ReceiverStop \/ ReceiverListen
    PROVE  Remembers
<1>1. CASE ReceiverStop
  BY <1>1, AbortRemembers, RestRemembers DEF ReceiverStop
<1>2. CASE ReceiverListen
  <2>1. CASE rcv' = NoSession /\ partials' = Cleaned
    BY <2>1 DEF NoSession, Cleaned, Remembers, Known
  <2>2. CASE /\ rcv.present
             /\ rcv' = [rcv EXCEPT !.state = "Failed", !.error = "CleanupFailed",
                                   !.cleanupFailed = TRUE]
             /\ UNCHANGED partials
    <3>1. rcv'.present = rcv.present /\ rcv'.id = rcv.id
      BY <2>2, RcvType DEF ReceiverSession
    <3> QED BY <2>2, <3>1 DEF Remembers, Known
  <2> QED BY <1>2, <2>1, <2>2 DEF ReceiverListen
<1> QED BY <1>1, <1>2

-----------------------------------------------------------------------------
(* The theorems about the board.                                           *)

\* The inductive invariant: that of the delivery, and what the board says and keeps.
EndpointInv == DeliveryInv /\ BoardInv

\* It holds initially,
LEMMA EndpointInit == Init => EndpointInv
<1> SUFFICES ASSUME Init PROVE BoardInv
  BY DeliveryInit DEF EndpointInv
<1>1. MetadataInv /\ SettledInv
  BY DEF Init, MetadataInv, SettledInv, NoSession
<1>2. BoardTruthful
  BY DEF Init, BoardTruthful, ReceiveFlagExact, ReportTruthful, NoSession, Active, ActiveStates
<1> QED BY <1>1, <1>2 DEF BoardInv

\* while nothing changes,
LEMMA EndpointStutter ==
    ASSUME BoardInv, UNCHANGED vars
    PROVE  BoardInv'
<1> USE DEF vars, senderVars, radioVars, storageVars, appVars, BoardInv
<1>1. MetadataInv'
  BY DEF MetadataInv, Used
<1>2. SettledInv'
  BY DEF SettledInv, Settled, Used, NoMoreStart, Active, PublishedIds
<1>3. BoardTruthful'
  BY DEF BoardTruthful, ReceiveFlagExact, ReportTruthful, Active, PublishedIds
<1> QED BY <1>1, <1>2, <1>3

\* and after every step.
LEMMA EndpointStep == EndpointInv /\ [Next]_vars => EndpointInv'
<1> SUFFICES ASSUME EndpointInv, [Next]_vars PROVE BoardInv'
  BY DeliveryStep DEF EndpointInv
<1>1. CASE Next
  <2>1. /\ TypeOK /\ IdsInv /\ OrderInv /\ PublishedInv
        /\ MetadataInv /\ SettledInv /\ BoardTruthful /\ ReceiveFlagExact
    BY DEF EndpointInv, DeliveryInv, BoardInv, BoardTruthful
  <2> QED BY <1>1, <2>1, MetadataStep, SettledInvStep, BoardStep DEF BoardInv
<1>2. CASE UNCHANGED vars
  BY <1>2, EndpointStutter DEF EndpointInv
<1> QED BY <1>1, <1>2

\* The invariant of the endpoints holds throughout, in every instance.
THEOREM EndpointInvariant == Spec => []EndpointInv
BY EndpointInit, EndpointStep, PTL DEF Spec

\* active_api_receive_id_ names the active receive exactly while there is one,
\* and the status the board gives of a receive is never ahead of its flash nor
\* behind it, whatever is lost, repeated, stopped or reset.
THEOREM BoardIsTruthful == Spec => []BoardTruthful
<1>1. EndpointInv => BoardTruthful
  BY DEF EndpointInv, BoardInv
<1> QED BY <1>1, EndpointInvariant, PTL

\* Once handleCancel has cancelled a receive, or a sender can hear that it did,
\* no file of that transfer is published: not by a DATA or END that is still on
\* its way, nor by a START that would begin it again.
THEOREM CancellationIsFinal == Spec => []CancelConfirmedIsFinal
<1>1. EndpointInv => CancelConfirmedIsFinal
  BY DEF EndpointInv, BoardInv, SettledInv, Settled, CancelConfirmedIsFinal
<1> QED BY <1>1, EndpointInvariant, PTL

\* A START that arrives late or twice never reopens the transfer that the
\* receiver has just completed or cancelled.
THEOREM FinishedStaysFinished == Spec => NotReopened
<1>1. EndpointInv /\ [Next]_vars =>
         [rcv.state \in {"Completed", "Cancelled"} /\ Active' => rcv'.id # rcv.id]_vars
  <2> SUFFICES ASSUME EndpointInv, Next, rcv.state \in {"Completed", "Cancelled"}, Active'
               PROVE  rcv'.id # rcv.id
    OBVIOUS
  <2>1. /\ TypeOK /\ IdsInv /\ PublishedInv /\ ClaimInv /\ MetadataInv /\ SettledInv
        /\ ReceiveFlagExact
    BY DEF EndpointInv, DeliveryInv, BoardInv, BoardTruthful
  <2>2. ~ Active
    BY DEF Active, ActiveStates
  <2>3. CASE UNCHANGED rcv
    BY <2>2, <2>3 DEF Active
  <2>4. CASE Steps
    <3>1. Opened
      BY <2>2, <2>4
      DEF Steps, Keeps, Ended, Accepts, Finishes, Publishes, Clears, Active, ActiveStates,
          NoSession
    <3>2. NoMoreStart(rcv.id)
      BY <2>1, <3>1 DEF Opened, ClaimInv, PublishedInv, SettledInv, Settled
    <3> QED BY <2>1, <3>1, <3>2, ReceivedPlace DEF Opened, NoMoreStart
  <2> QED BY <2>1, <2>3, <2>4, EveryStep
<1> QED BY <1>1, EndpointInvariant, PTL DEF Spec, NotReopened

\* No error path of the receiver leaves a .part file behind that the session has
\* forgotten: only a reset of the board can.
THEOREM PartialsAreRemembered == Spec => NoOrphanedPartial
<1>1. DeliveryInv /\ [Next]_vars => [~ RebootReceiver => Remembers]_vars
  <2> SUFFICES ASSUME TypeOK, IdsInv, Next, ~ RebootReceiver PROVE Remembers
    BY DEF DeliveryInv
  <2>1. CASE \E s \in Senders : Begin(s) \/ SenderLoop(s) \/ Cancel(s) \/ RebootSender(s)
    <3>1. \E s \in Senders : SenderShape(s) \/ Draws(s) \/ Resets(s)
      BY <2>1, SenderStepShape, BeginShape, RebootSenderShape
    <3>2. UNCHANGED <<rcv, partials>>
      BY <3>1 DEF SenderShape, Draws, Resets, storageVars
    <3> QED BY <3>2, RestRemembers
  <2> QED BY <2>1, HandlerRemembers, ControlRemembers DEF Next
<1> QED BY <1>1, DeliveryInvariant, PTL DEF Spec, NoOrphanedPartial, Remembers

-----------------------------------------------------------------------------
(* Where the radio detects all noise, the two endpoints of a transfer      *)
(* never drift apart and never accuse each other of breaking the protocol. *)
(* The noise that the CRC of the radio misses is the only way to get a     *)
(* NACK, a wrong sequence or a wrong length.                               *)

\* The CRC of the radio detects all noise.
NoiseFree == "noise" \notin FaultKinds

\* An active session holds the first packets of its transfer.
SessionShape ==
    Active =>
        /\ Len(rcv.data) = rcv.exp
        /\ rcv.exp <= rcv.total
        /\ rcv.state = "WaitingForEnd" <=> rcv.exp = rcv.total
        /\ \A k \in 1 .. rcv.exp : rcv.data[k] = <<rcv.id, k - 1>>

\* Frame f on the air tells its receiver nothing that contradicts the session.
Fits(f) ==
    Active /\ rcv.id = f.id =>
        /\ f.type = "START" => rcv.exp = 0
        /\ f.type = "DATA" => f.num <= rcv.exp
        /\ f.type = "END" => rcv.state = "WaitingForEnd"

\* Frame f on the air is what the sender of its transfer sent, and not ahead of it.
Genuine(f) ==
    /\ f.type \in {"START", "DATA", "END", "CANCEL"}
    /\ f.type = "END" => f.num = total[f.id]
    /\ f.type = "DATA" =>
          /\ f.num < total[f.id]
          /\ f.body = <<f.id, f.num>>
          /\ NoMoreStart(f.id)
          /\ \A s \in Senders :
                snd[s].id = f.id /\ snd[s].state = "WaitingForDataAck" => f.num <= snd[s].cur
    /\ Fits(f)

\* So is everything on the air.
AirInv == \A n \in 1 .. Len(air) : Genuine(air[n])

\* A sender past READY sends no START again and has not passed the end.
SenderInv ==
    \A s \in Senders :
        /\ snd[s].state = "WaitingForReady" => snd[s].cur = 0
        /\ snd[s].state \in {"WaitingForDataAck", "WaitingForComplete"} =>
               /\ NoMoreStart(snd[s].id)
               /\ snd[s].state = "WaitingForDataAck" => snd[s].cur < total[snd[s].id]

\* Answer f in the FIFO of sender s is one that s may act on.
Sound(s, f) ==
    /\ f.id \in Used
    /\ f.type # "NACK"
    /\ f.error \notin Accusations
    /\ f.type = "READY" /\ f.error = "None" =>
          /\ f.num = 0
          /\ f.id = snd[s].id /\ snd[s].phase = "wait" /\ snd[s].state = "WaitingForReady" =>
                \A n \in 1 .. Len(air) : air[n].id = f.id => air[n].type # "START"
    /\ f.type = "ACK" /\ f.id = snd[s].id =>
          /\ snd[s].state # "WaitingForReady"
          /\ snd[s].state = "WaitingForDataAck" =>
                /\ f.num <= snd[s].cur
                /\ f.num = snd[s].cur /\ Active /\ rcv.id = f.id => rcv.exp > snd[s].cur
    /\ f.type = "COMPLETE" => f.num = total[f.id]

\* Every answer in every FIFO is one its sender may act on.
AnswersInv ==
    \A s \in Senders : \A n \in 1 .. Len(answers[s]) : Sound(s, answers[s][n])

\* What the two endpoints of a transfer know of each other.
AgreementInv ==
    /\ SessionShape
    /\ AirInv
    /\ SenderInv
    /\ AnswersInv
    /\ SequenceAgreement
    /\ NoProtocolBreakdown

-----------------------------------------------------------------------------
(* What a step of a sender does to the senders, their FIFOs and the air.   *)

\* The states in which a sender waits for an answer.
Working == {"WaitingForReady", "WaitingForDataAck", "WaitingForComplete"}

\* A frame in the FIFO of sender t that moves it on.
MovesOn(t, f) ==
    /\ f.id = snd[t].id
    /\ \/ snd[t].state = "WaitingForReady" /\ f.type = "READY" /\ f.error = "None"
       \/ snd[t].state = "WaitingForDataAck" /\ f.type = "ACK" /\ f.num = snd[t].cur

\* Sender t goes on to its next DATA, or to END.
Advances(t) ==
    /\ snd[t].phase = "wait" /\ UNCHANGED air
    /\ \E n \in 1 .. Len(answers[t]) : MovesOn(t, answers[t][n])
    /\ snd'[t].id = snd[t].id
    /\ snd'[t].cur = IF snd[t].state = "WaitingForReady" THEN snd[t].cur ELSE snd[t].cur + 1
    /\ snd'[t].state = IF snd'[t].cur < total[snd[t].id] THEN "WaitingForDataAck"
                                                         ELSE "WaitingForComplete"
    /\ snd'[t].phase = "send"

\* What becomes of sender t: it stays where it is, it ends, it begins or it goes on.
Fate(t) ==
    /\ snd'[t].error \notin Accusations
    /\ \/ snd'[t].id = snd[t].id /\ snd'[t].state = snd[t].state /\ snd'[t].cur = snd[t].cur
       \/ snd'[t].state \notin Working
       \/ /\ snd'[t].id = nextId /\ nextId' = nextId + 1
          /\ snd'[t].state = "WaitingForReady" /\ snd'[t].cur = 0 /\ snd'[t].phase = "send"
       \/ Advances(t)

\* A sender hears nothing new, and nothing old once it has transmitted.
FifoFate(t) ==
    \A n \in 1 .. Len(answers'[t]) :
        /\ \E m \in 1 .. Len(answers[t]) : answers'[t][n] = answers[t][m]
        /\ snd'[t].phase = "wait" =>
              /\ snd'[t] = snd[t]
              /\ \A k \in 1 .. Len(air') :
                    air'[k].id # snd[t].id \/ \E m \in 1 .. Len(air) : air'[k] = air[m]

\* A frame on the air is an old one, or the one its sender was about to send.
AirFate ==
    \A k \in 1 .. Len(air') :
        \/ \E m \in 1 .. Len(air) : air'[k] = air[m]
        \/ \E s \in Senders :
              /\ Live(s) /\ air'[k] = Outbound(snd[s])
              /\ snd'[s].id = snd[s].id /\ snd'[s].state = snd[s].state
              /\ snd'[s].cur = snd[s].cur

\* A step of a sending board, seen from everybody.
SenderStep ==
    /\ UNCHANGED rcv
    /\ AirFate
    /\ \A t \in Senders : Fate(t) /\ FifoFate(t)

\* What is left of a FIFO after a step of its own sender.
LEMMA OwnFifo ==
    ASSUME TypeOK, NEW s \in Senders,
           \/ answers'[s] = <<>>
           \/ /\ answers'[s] = answers[s] \/ (answers[s] # <<>> /\ answers'[s] = Tail(answers[s]))
              /\ snd'[s].phase # "wait" \/ (snd'[s] = snd[s] /\ UNCHANGED air)
    PROVE  FifoFate(s)
<1>1. answers[s] \in Seq(Frames)
  BY DEF TypeOK
<1>2. CASE answers'[s] = <<>>
  BY <1>2 DEF FifoFate
<1>3. CASE /\ answers'[s] = answers[s]
           /\ snd'[s].phase # "wait" \/ (snd'[s] = snd[s] /\ UNCHANGED air)
  BY <1>3 DEF FifoFate
<1>4. CASE /\ answers[s] # <<>> /\ answers'[s] = Tail(answers[s])
           /\ snd'[s].phase # "wait" \/ (snd'[s] = snd[s] /\ UNCHANGED air)
  BY <1>1, <1>4, TailElements DEF FifoFate
<1> QED BY <1>2, <1>3, <1>4

\* A step of one sender, seen from all of them.
LEMMA OneFate ==
    ASSUME TypeOK, IdsInv, NoiseFree, NoProtocolBreakdown, UNCHANGED rcv,
           NEW s \in Senders, NEW r \in SenderSession, snd' = [snd EXCEPT ![s] = r],
           Fate(s), FifoFate(s),
           \A t \in Senders \ {s} : answers'[t] = answers[t],
           \/ UNCHANGED air
           \/ /\ Live(s) /\ air' = Append(air, Outbound(snd[s]))
              /\ r.id = snd[s].id /\ r.state = snd[s].state /\ r.cur = snd[s].cur
    PROVE  SenderStep
<1>1. /\ snd'[s] = r
      /\ \A t \in Senders \ {s} : snd'[t] = snd[t]
  BY OneSender
<1>2. air \in Seq(Frames)
  BY DEF TypeOK
<1>3. Live(s) => Outbound(snd[s]) \in Frames /\ Outbound(snd[s]).id = snd[s].id
  <2>1. Live(s) => snd[s] \in SenderSession /\ total \in [Ids -> Nat] /\ snd[s].id \in Ids
    BY UsedIds DEF TypeOK, IdsInv
  <2> QED BY <2>1, OutboundType
<1>4. \A k \in 1 .. Len(air') :
         \/ \E m \in 1 .. Len(air) : air'[k] = air[m]
         \/ /\ Live(s) /\ air'[k] = Outbound(snd[s])
            /\ r.id = snd[s].id /\ r.state = snd[s].state /\ r.cur = snd[s].cur
  <2>1. CASE UNCHANGED air
    BY <2>1
  <2>2. CASE /\ Live(s) /\ air' = Append(air, Outbound(snd[s]))
             /\ r.id = snd[s].id /\ r.state = snd[s].state /\ r.cur = snd[s].cur
    BY <1>2, <1>3, <2>2, AppendElements
  <2> QED BY <2>1, <2>2
<1>5. AirFate
  BY <1>1, <1>4 DEF AirFate
<1>6. ASSUME NEW t \in Senders \ {s}
      PROVE  Fate(t) /\ FifoFate(t)
  <2>1. snd[t].error \notin Accusations
    BY DEF NoProtocolBreakdown, NoiseFree
  <2>2. Live(s) => snd[s].id # snd[t].id
    BY DEF IdsInv, Used
  <2>3. \A k \in 1 .. Len(air') :
           air'[k].id # snd[t].id \/ \E m \in 1 .. Len(air) : air'[k] = air[m]
    BY <1>3, <1>4, <2>2
  <2> QED BY <1>1, <2>1, <2>3 DEF Fate, FifoFate
<1> QED BY <1>5, <1>6 DEF SenderStep

\* Retrying keeps the place in the transfer, or ends it.
LEMMA RetryFate ==
    ASSUME TypeOK, IdsInv, NoiseFree, NoProtocolBreakdown, NEW s \in Senders, Live(s),
           snd'[s] = ScheduleRetry(snd[s])
    PROVE  Fate(s) /\ snd'[s].phase # "wait" /\ snd'[s] \in SenderSession
<1>1. snd[s] \in SenderSession /\ snd[s].error \notin Accusations
  BY DEF TypeOK, NoProtocolBreakdown, NoiseFree
<1>2. snd'[s] \in SenderSession
  BY <1>1, SenderTransitions DEF Live, Follows
<1>3. CASE snd[s].retry < MaxRetries
  <2>1. /\ snd'[s].id = snd[s].id /\ snd'[s].state = snd[s].state /\ snd'[s].cur = snd[s].cur
        /\ snd'[s].error = snd[s].error /\ snd'[s].phase = "send"
    BY <1>1, <1>3 DEF ScheduleRetry, SenderSession
  <2> QED BY <1>1, <1>2, <2>1 DEF Fate
<1>4. CASE ~ (snd[s].retry < MaxRetries)
  <2>1. /\ snd'[s].state \notin Working /\ snd'[s].phase = "off"
        /\ snd'[s].error \notin Accusations
    BY <1>1, <1>4
    DEF ScheduleRetry, Withdraw, Halt, SenderSession, Working, Accusations
  <2> QED BY <1>2, <2>1 DEF Fate
<1> QED BY <1>3, <1>4

\* A sender that transmits, or has failed to.
LEMMA TransmitFate ==
    ASSUME TypeOK, IdsInv, NoiseFree, NoProtocolBreakdown, NEW s \in Senders,
           Transmit(s) \/ FirstAttemptUnseen(s) \/ TransmitFails(s)
    PROVE  SenderStep
<1> DEFINE w == [snd[s] EXCEPT !.phase = "wait"]
           a == [snd[s] EXCEPT !.phase = "resend"]
<1>1. /\ snd[s] \in SenderSession /\ snd[s].error \notin Accusations /\ Live(s)
      /\ UNCHANGED rcv
  BY DEF TypeOK, NoProtocolBreakdown, NoiseFree, IdsInv, Transmit, FirstAttemptUnseen,
     TransmitFails, ToReceiver
<1>2. /\ w \in SenderSession /\ w.phase = "wait"
      /\ a \in SenderSession /\ a.phase = "resend"
      /\ \A q \in {w, a} : /\ q.id = snd[s].id /\ q.state = snd[s].state
                           /\ q.cur = snd[s].cur /\ q.error = snd[s].error
  BY <1>1 DEF SenderSession, Phases
<1> HIDE DEF w, a
<1>3. CASE Transmit(s)
  <2>1. snd' = [snd EXCEPT ![s] = w] /\ snd'[s] = w
    BY <1>3 DEF Transmit, w, TypeOK
  <2>2. UNCHANGED air \/ air' = Append(air, Outbound(snd[s]))
    BY <1>3 DEF Transmit, Radiate, Inject, NoiseFree
  <2>3. answers'[s] = <<>> /\ \A t \in Senders \ {s} : answers'[t] = answers[t]
    BY <1>3 DEF Transmit, TypeOK
  <2>4. Fate(s) /\ FifoFate(s)
    BY <1>1, <1>2, <2>1, <2>3, OwnFifo DEF Fate
  <2> QED BY <1>1, <1>2, <2>1, <2>2, <2>3, <2>4, OneFate
<1>4. CASE FirstAttemptUnseen(s)
  <2>1. snd' = [snd EXCEPT ![s] = a] /\ snd'[s] = a
    BY <1>4 DEF FirstAttemptUnseen, a, TypeOK
  <2>2. air' = Append(air, Outbound(snd[s])) /\ UNCHANGED answers
    BY <1>4 DEF FirstAttemptUnseen
  <2>3. Fate(s) /\ FifoFate(s)
    BY <1>1, <1>2, <2>1, <2>2, OwnFifo DEF Fate
  <2> QED BY <1>1, <1>2, <2>1, <2>2, <2>3, OneFate
<1>5. CASE TransmitFails(s)
  <2>1. /\ snd' = [snd EXCEPT ![s] = ScheduleRetry(snd[s])]
        /\ snd'[s] = ScheduleRetry(snd[s])
        /\ UNCHANGED <<air, answers>>
    BY <1>5 DEF TransmitFails, radioVars, TypeOK
  <2>2. Fate(s) /\ FifoFate(s) /\ snd'[s] \in SenderSession
    BY <1>1, <2>1, RetryFate, OwnFifo
  <2> QED BY <1>1, <2>1, <2>2, OneFate
<1> QED BY <1>3, <1>4, <1>5

\* A sender that waits in vain, or is told to stop.
LEMMA QuietFate ==
    ASSUME TypeOK, IdsInv, NoiseFree, NoProtocolBreakdown, NEW s \in Senders,
           ResponseTimeout(s) \/ SenderInactivity(s) \/ Cancel(s)
    PROVE  SenderStep
<1>1. /\ snd[s] \in SenderSession /\ Live(s)
      /\ UNCHANGED <<rcv, air, answers>>
  BY DEF TypeOK, IdsInv, ResponseTimeout, SenderInactivity, Cancel, ToReceiver, radioVars, Live,
     Terminal
<1>2. CASE ResponseTimeout(s)
  <2>1. /\ snd' = [snd EXCEPT ![s] = ScheduleRetry(snd[s])]
        /\ snd'[s] = ScheduleRetry(snd[s])
    BY <1>2 DEF ResponseTimeout, TypeOK
  <2>2. Fate(s) /\ FifoFate(s) /\ snd'[s] \in SenderSession
    BY <1>1, <2>1, RetryFate, OwnFifo
  <2> QED BY <1>1, <2>1, <2>2, OneFate
<1>3. CASE SenderInactivity(s) \/ Cancel(s)
  <2>1. PICK r \in {Withdraw(snd[s]), Halt(snd[s], "Timeout"),
                    [snd[s] EXCEPT !.state = "Cancelling", !.error = "Cancelled",
                                   !.retry = 0, !.phase = "send"]} :
           snd' = [snd EXCEPT ![s] = r]
    BY <1>3 DEF SenderInactivity, Cancel
  <2>2. /\ r \in SenderSession /\ r.state \notin Working /\ r.phase # "wait"
        /\ r.error \notin Accusations
    BY ZenonT(60), <1>1, ZeroRetries
       DEF Withdraw, Halt, SenderSession, SenderStates, Phases, Errors, Working,
       Accusations
  <2>3. snd'[s] = r
    BY <2>1, <2>2, OneSender
  <2>4. Fate(s) /\ FifoFate(s)
    BY <1>1, <2>2, <2>3, OwnFifo DEF Fate
  <2> QED BY <1>1, <2>1, <2>2, <2>4, OneFate
<1> QED BY <1>2, <1>3

\* A sender that hears a frame leaves the air and the other FIFOs alone.
LEMMA HeardFate ==
    ASSUME TypeOK, IdsInv, NoiseFree, NoProtocolBreakdown, NEW s \in Senders, Hears(s),
           NEW r \in SenderSession, snd' = [snd EXCEPT ![s] = r],
           r = snd[s] \/ (r.phase # "wait" /\ Fate(s))
    PROVE  SenderStep
<1>1. /\ UNCHANGED <<rcv, air>>
      /\ answers[s] # <<>> /\ answers'[s] = Tail(answers[s])
      /\ \A t \in Senders \ {s} : answers'[t] = answers[t]
  BY DEF Hears, ToReceiver, TypeOK
<1>2. snd'[s] = r /\ snd[s].error \notin Accusations
  BY OneSender DEF NoProtocolBreakdown, NoiseFree
<1>3. Fate(s) /\ FifoFate(s)
  BY <1>1, <1>2, OwnFifo DEF Fate
<1> QED BY <1>1, <1>3, OneFate

\* What the waiting sender takes from its FIFO is sound.
LEMMA HeardSound ==
    ASSUME TypeOK, AnswersInv, NEW s \in Senders, Hears(s)
    PROVE  /\ 1 \in 1 .. Len(answers[s]) /\ Heard(s) = answers[s][1]
           /\ Sound(s, Heard(s))
<1>1. answers[s] \in Seq(Frames) /\ answers[s] # <<>>
  BY DEF TypeOK, Hears
<1>2. 1 \in 1 .. Len(answers[s]) /\ Heard(s) = answers[s][1]
  BY <1>1 DEF Heard
<1> QED BY <1>2 DEF AnswersInv

\* prepareNext goes on, or ends because the source cannot be read.
LEMMA PrepareFate ==
    ASSUME TypeOK, IdsInv, NoiseFree, NoProtocolBreakdown, NEW s \in Senders, Hears(s),
           NEW n \in 1 .. Len(answers[s]), MovesOn(s, answers[s][n]),
           NEW q \in SenderSession, PrepareNext(s, q),
           q.id = snd[s].id, q.error = snd[s].error,
           q.cur = IF snd[s].state = "WaitingForReady" THEN snd[s].cur ELSE snd[s].cur + 1
    PROVE  SenderStep
<1>1. snd[s].error \notin Accusations /\ snd[s].phase = "wait" /\ UNCHANGED air
  BY DEF NoProtocolBreakdown, NoiseFree, Hears
<1> DEFINE e == [q EXCEPT !.state = "WaitingForComplete", !.phase = "send"]
           d == [q EXCEPT !.state = "WaitingForDataAck", !.phase = "send"]
           h == Halt(q, "SourceRead")
           past == q.cur >= total[q.id]
<1>2. /\ e \in SenderSession /\ e.state = "WaitingForComplete" /\ e.phase = "send"
      /\ d \in SenderSession /\ d.state = "WaitingForDataAck" /\ d.phase = "send"
      /\ \A r \in {e, d} : r.id = q.id /\ r.cur = q.cur /\ r.error = q.error
      /\ h \in SenderSession /\ h.state \notin Working /\ h.phase # "wait"
      /\ h.error \notin Accusations
  BY ZenonT(60) DEF SenderSession, SenderStates, Phases, Halt, Errors, Working, Accusations
<1>3. \/ past /\ snd' = [snd EXCEPT ![s] = e]
      \/ ~ past /\ snd' = [snd EXCEPT ![s] = d]
      \/ snd' = [snd EXCEPT ![s] = h]
  BY DEF PrepareNext
<1>4. past <=> ~ (q.cur < total[snd[s].id])
  <2>1. snd[s].id \in Ids
    BY UsedIds DEF IdsInv, Hears
  <2> QED BY SMTT(30), <2>1 DEF TypeOK, SenderSession
<1> HIDE DEF e, d, h, past
<1>5. ASSUME NEW r \in {e, d}, snd' = [snd EXCEPT ![s] = r],
             r.state = IF past THEN "WaitingForComplete" ELSE "WaitingForDataAck"
      PROVE  SenderStep
  <2>1. snd'[s] = r /\ r \in SenderSession /\ r.phase = "send"
    BY <1>2, <1>5, OneSender
  <2>2. Fate(s)
    BY <1>1, <1>2, <1>4, <1>5, <2>1 DEF Fate, Advances
  <2> QED BY <1>5, <2>1, <2>2, HeardFate
<1>6. CASE snd' = [snd EXCEPT ![s] = h]
  <2>1. snd'[s] = h
    BY <1>2, <1>6, OneSender
  <2>2. Fate(s)
    BY <1>2, <2>1 DEF Fate
  <2> QED BY <1>2, <1>6, <2>2, HeardFate
<1> QED BY <1>2, <1>3, <1>5, <1>6

\* A sender that hears something.
LEMMA HearsFate ==
    ASSUME TypeOK, IdsInv, NoiseFree, NoProtocolBreakdown, AnswersInv, NEW s \in Senders,
           \/ SenderIgnores(s) \/ SenderHearsError(s) \/ SenderHearsReady(s)
           \/ SenderHearsAck(s) \/ SenderHearsNack(s) \/ SenderHearsComplete(s)
    PROVE  SenderStep
<1> DEFINE f == Heard(s)
<1>1. Hears(s)
  BY DEF SenderIgnores, SenderHearsError, SenderHearsReady, SenderHearsAck, SenderHearsNack,
     SenderHearsComplete, HearsAwaited
<1>2. /\ 1 \in 1 .. Len(answers[s]) /\ f = answers[s][1] /\ Sound(s, f)
      /\ snd[s] \in SenderSession /\ f \in Frames
  BY <1>1, HeardSound, HeardType
<1>3. \A e \in Errors \ Accusations :
         /\ Halt(snd[s], e) \in SenderSession /\ Halt(snd[s], e).state \notin Working
         /\ Halt(snd[s], e).phase # "wait" /\ Halt(snd[s], e).error \notin Accusations
  BY <1>2 DEF Halt, SenderSession, SenderStates, Phases, Working
<1>4. /\ Withdraw(snd[s]) \in SenderSession /\ Withdraw(snd[s]).state \notin Working
      /\ Withdraw(snd[s]).phase # "wait" /\ Withdraw(snd[s]).error \notin Accusations
  BY <1>2 DEF Withdraw, SenderSession, SenderStates, Phases, Working, Errors, Accusations
<1>5. ASSUME NEW r \in SenderSession, snd' = [snd EXCEPT ![s] = r],
             r.state \notin Working, r.phase # "wait", r.error \notin Accusations
      PROVE  SenderStep
  <2>1. snd'[s] = r
    BY <1>5, OneSender
  <2>2. Fate(s)
    BY <1>5, <2>1 DEF Fate
  <2> QED BY <1>1, <1>5, <2>2, HeardFate
<1>6. CASE SenderIgnores(s)
  <2>1. snd' = [snd EXCEPT ![s] = snd[s]]
    BY <1>6 DEF SenderIgnores, TypeOK
  <2> QED BY <1>1, <1>2, <2>1, HeardFate
<1>7. CASE SenderHearsError(s)
  <2>1. f.error \in Errors \ Accusations
    BY <1>2 DEF Sound, Frames
  <2>2. snd' = [snd EXCEPT ![s] = Withdraw(snd[s])]
        \/ snd' = [snd EXCEPT ![s] = Halt(snd[s], f.error)]
    BY <1>7 DEF SenderHearsError
  <2> QED BY <1>3, <1>4, <1>5, <2>1, <2>2
<1>8. CASE SenderHearsReady(s)
  <2>1. /\ snd[s].state = "WaitingForReady" /\ f.id = snd[s].id /\ f.type = "READY"
        /\ f.error = "None" => f.num = 0
        /\ f.error \in Errors \ Accusations
    BY <1>2, <1>8 DEF SenderHearsReady, HearsAwaited, Awaited, Sound, Frames
  <2>2. CASE f.error = "None"
    <3> DEFINE q == [snd[s] EXCEPT !.retry = 0]
    <3>1. q \in SenderSession /\ q.id = snd[s].id /\ q.error = snd[s].error /\ q.cur = snd[s].cur
      BY <1>2, ZeroRetries DEF SenderSession
    <3>2. PrepareNext(s, q)
      BY <1>8, <2>1, <2>2 DEF SenderHearsReady
    <3>3. MovesOn(s, answers[s][1])
      BY <1>2, <2>1, <2>2 DEF MovesOn
    <3> HIDE DEF q
    <3> QED BY <1>1, <1>2, <2>1, <3>1, <3>2, <3>3, PrepareFate
  <2>3. CASE f.error # "None"
    <3>1. snd' = [snd EXCEPT ![s] = Halt(snd[s], f.error)]
      BY <1>8, <2>3 DEF SenderHearsReady
    <3> QED BY <1>3, <1>5, <2>1, <3>1
  <2> QED BY <2>2, <2>3
<1>9. CASE SenderHearsAck(s)
  <2>1. /\ snd[s].state = "WaitingForDataAck" /\ f.id = snd[s].id /\ f.type = "ACK"
        /\ f.num >= snd[s].cur /\ f.num <= snd[s].cur
        /\ f.num \in Nat /\ snd[s].cur \in Nat
    BY <1>2, <1>9 DEF SenderHearsAck, HearsAwaited, Awaited, Sound, Frames, SenderSession
  <2> DEFINE q == [snd[s] EXCEPT !.retry = 0, !.cur = @ + 1]
  <2>2. /\ q \in SenderSession /\ q.id = snd[s].id /\ q.error = snd[s].error
        /\ q.cur = snd[s].cur + 1
    BY <1>2, ZeroRetries DEF SenderSession
  <2>3. PrepareNext(s, q)
    BY <1>9, <2>1 DEF SenderHearsAck
  <2>4. MovesOn(s, answers[s][1])
    BY <1>2, <2>1 DEF MovesOn
  <2> HIDE DEF q
  <2> QED BY <1>1, <1>2, <2>1, <2>2, <2>3, <2>4, PrepareFate
<1>10. CASE SenderHearsNack(s)
  BY <1>2, <1>10 DEF SenderHearsNack, HearsAwaited, Sound
<1>11. CASE SenderHearsComplete(s)
  <2> DEFINE c == [snd[s] EXCEPT !.state = "Completed", !.phase = "off"]
  <2>1. f.num = total[snd[s].id]
    BY <1>2, <1>11 DEF SenderHearsComplete, HearsAwaited, Awaited, Sound
  <2>2. snd' = [snd EXCEPT ![s] = c]
    BY <1>11, <2>1 DEF SenderHearsComplete
  <2>3. c \in SenderSession /\ c.state \notin Working /\ c.phase # "wait"
        /\ c.error \notin Accusations
    BY <1>2 DEF SenderSession, SenderStates, Phases, Working, NoProtocolBreakdown, NoiseFree
  <2> HIDE DEF c
  <2> QED BY <1>5, <2>2, <2>3
<1> QED BY <1>6, <1>7, <1>8, <1>9, <1>10, <1>11

\* A sender that begins a transfer, or forgets one in a reset.
LEMMA BeginFate ==
    ASSUME TypeOK, IdsInv, NoiseFree, NoProtocolBreakdown, NEW s \in Senders,
           Begin(s) \/ RebootSender(s)
    PROVE  SenderStep
<1> DEFINE start == [NoTransfer EXCEPT !.state = "WaitingForReady", !.id = nextId,
                                       !.phase = "send"]
           failed == Halt(NoTransfer, "SourceRead")
<1>1. /\ start \in SenderSession /\ start.id = nextId /\ start.state = "WaitingForReady"
      /\ start.cur = 0 /\ start.phase = "send" /\ start.error \notin Accusations
  BY SessionTypes DEF TypeOK, NoTransfer, SenderSession, SenderStates, Phases, Accusations
<1>2. /\ failed \in SenderSession /\ NoTransfer \in SenderSession
      /\ \A r \in {failed, NoTransfer} : /\ r.state \notin Working /\ r.phase # "wait"
                                         /\ r.error \notin Accusations
  BY SessionTypes DEF Halt, NoTransfer, SenderSession, SenderStates, Phases, Errors, Working,
     Accusations
<1>3. /\ UNCHANGED <<rcv, air>>
      /\ answers'[s] = answers[s] \/ answers'[s] = <<>>
      /\ \A t \in Senders \ {s} : answers'[t] = answers[t]
  BY DEF Begin, RebootSender, radioVars, ToReceiver, TypeOK
<1>4. \/ snd' = [snd EXCEPT ![s] = start] /\ nextId' = nextId + 1
      \/ snd' = [snd EXCEPT ![s] = failed]
      \/ snd' = [snd EXCEPT ![s] = NoTransfer]
  BY DEF Begin, RebootSender
<1> HIDE DEF start, failed
<1>5. ASSUME NEW r \in {start, failed, NoTransfer}, snd' = [snd EXCEPT ![s] = r],
             r = start => nextId' = nextId + 1
      PROVE  SenderStep
  <2>1. snd'[s] = r /\ r \in SenderSession /\ r.phase # "wait"
    BY <1>1, <1>2, <1>5, OneSender
  <2>2. FifoFate(s)
    BY <1>3, <2>1, OwnFifo
  <2>3. Fate(s)
    BY <1>1, <1>2, <1>5, <2>1 DEF Fate
  <2> QED BY <1>3, <1>5, <2>1, <2>2, <2>3, OneFate
<1>6. start # failed /\ start # NoTransfer
  BY <1>1, <1>2 DEF Working
<1> QED BY <1>4, <1>5, <1>6

\* Every step of a sending board is such a step.
LEMMA SenderFates ==
    ASSUME TypeOK, IdsInv, NoiseFree, NoProtocolBreakdown, AnswersInv, NEW s \in Senders,
           Begin(s) \/ SenderLoop(s) \/ Cancel(s) \/ RebootSender(s)
    PROVE  SenderStep
BY TransmitFate, QuietFate, HearsFate, BeginFate DEF SenderLoop

-----------------------------------------------------------------------------
(* The endpoints agree after a step of a sender.                           *)

\* What such a step leaves of the transfers it is not about.
LEMMA StepFrame ==
    ASSUME TypeOK, IdsInv, Next, SenderStep
    PROVE  /\ \A i \in Used : /\ i \in Used' /\ i # nextId /\ total'[i] = total[i]
                              /\ NoMoreStart(i) => NoMoreStart(i)'
           /\ \A t \in Senders : snd[t].state \in Working => snd[t].id \in Used
           /\ Active' = Active /\ (Active => rcv.id \in Used)
<1>1. nextId \in Nat /\ (UNCHANGED nextId \/ nextId' = nextId + 1)
  BY StepShape DEF SenderShape, Draws, Resets, ReceiverShape, senderVars, TypeOK
<1> QED BY <1>1, TotalStep, NoMoreStartStep DEF Used, IdsInv, Live, Working, Terminal, SenderStep, Active

\* The receiver still expects what the sender has outstanding, or the next packet,
LEMMA SendersAgree ==
    ASSUME TypeOK, IdsInv, MetadataInv, AgreementInv, NoiseFree, Next, SenderStep
    PROVE  SequenceAgreement'
<1> USE DEF AgreementInv
<1> SUFFICES ASSUME NEW t \in Senders, Active, rcv.id = snd'[t].id, snd'[t].state \in Working
             PROVE  /\ snd'[t].state = "WaitingForReady" => rcv.exp = 0
                    /\ snd'[t].state = "WaitingForDataAck" =>
                          rcv.exp \in {snd'[t].cur, snd'[t].cur + 1}
                    /\ snd'[t].state = "WaitingForComplete" => rcv.state = "WaitingForEnd"
  BY StepFrame DEF SequenceAgreement, SenderStep, Working
<1>1. Fate(t) /\ rcv.id # nextId
  BY StepFrame DEF SenderStep
<1>2. CASE /\ snd'[t].id = snd[t].id /\ snd'[t].state = snd[t].state
           /\ snd'[t].cur = snd[t].cur
  BY <1>2 DEF SequenceAgreement, NoiseFree
<1>3. CASE Advances(t)
  <2>1. PICK n \in 1 .. Len(answers[t]) : MovesOn(t, answers[t][n])
    BY <1>3 DEF Advances
  <2>2. Sound(t, answers[t][n]) /\ rcv.id = snd[t].id
    BY <1>3 DEF AnswersInv, Advances
  <2>3. rcv.exp = snd'[t].cur
    BY <1>3, <2>1, <2>2, RcvType
    DEF Advances, MovesOn, Sound, SequenceAgreement, NoiseFree, SenderInv, TypeOK, SenderSession
  <2>4. rcv.exp <= rcv.total /\ rcv.total = total[snd[t].id]
    BY <2>2 DEF SessionShape, MetadataInv, Active, ActiveStates
  <2>5. ~ (rcv.exp < rcv.total) => rcv.state = "WaitingForEnd"
    BY <2>4, RcvType DEF SessionShape
  <2> QED BY <1>3, <2>3, <2>4, <2>5 DEF Advances
<1> QED BY <1>1, <1>2, <1>3 DEF Fate

\* the senders still know where they are in their transfers,
LEMMA SendersKnow ==
    ASSUME TypeOK, IdsInv, AgreementInv, NoiseFree, Next, SenderStep
    PROVE  SenderInv'
<1> USE DEF AgreementInv
<1>1. ASSUME NEW t \in Senders, NEW i, i = snd'[t].id
      PROVE  /\ snd'[t].state = "WaitingForReady" => snd'[t].cur = 0
             /\ snd'[t].state \in {"WaitingForDataAck", "WaitingForComplete"} =>
                   /\ NoMoreStart(i)'
                   /\ snd'[t].state = "WaitingForDataAck" => snd'[t].cur < total'[i]
  <2>1. Fate(t)
    BY DEF SenderStep
  <2>2. CASE /\ snd'[t].id = snd[t].id /\ snd'[t].state = snd[t].state
             /\ snd'[t].cur = snd[t].cur
    BY <1>1, <2>2, StepFrame DEF SenderInv, Working
  <2>3. CASE Advances(t)
    <3>1. PICK n \in 1 .. Len(answers[t]) : MovesOn(t, answers[t][n])
      BY <2>3 DEF Advances
    <3>2. Sound(t, answers[t][n])
      BY DEF AnswersInv
    <3>3. i \in Used /\ i = snd[t].id /\ total'[i] = total[i]
      BY <1>1, <2>3, <3>1, StepFrame DEF Advances, MovesOn, Working
    <3>4. \A s \in Senders : snd'[s].id = i => snd'[s].state # "WaitingForReady"
      <4>1. ASSUME NEW s \in Senders, snd'[s].id = i, snd'[s].state = "WaitingForReady"
            PROVE  s = t
        <5>1. Fate(s) /\ i # nextId /\ i # 0
          BY <3>3, StepFrame DEF SenderStep, Used
        <5>2. snd[s].id = i
          BY <4>1, <5>1 DEF Fate, Working, Advances
        <5> QED BY <3>3, <5>1, <5>2 DEF IdsInv
      <4>2. snd'[t].state # "WaitingForReady"
        BY <2>3 DEF Advances
      <4> QED BY <4>1, <4>2
    <3>5. \A k \in 1 .. Len(air') : air'[k].id = i => air'[k].type # "START"
      BY <2>3, <3>1, <3>2, <3>3 DEF Advances, MovesOn, Sound, SenderInv, NoMoreStart
    <3> QED BY <2>3, <3>3, <3>4, <3>5 DEF Advances, NoMoreStart
  <2>4. CASE snd'[t].state \notin Working
    BY <2>4 DEF Working
  <2> QED BY <2>1, <2>2, <2>3, <2>4 DEF Fate
<1> QED BY <1>1 DEF SenderInv, NoMoreStart

\* A frame on the air stays one that tells its receiver nothing wrong.
LEMMA GenuineStays ==
    ASSUME TypeOK, IdsInv, AgreementInv, NoiseFree, Next, SenderStep,
           NEW m \in 1 .. Len(air), NEW f, f = air[m]
    PROVE  Genuine(f)'
<1>1. Genuine(f) /\ f.id \in Used /\ f.id # 0 /\ f \in Frames
  BY DEF AgreementInv, AirInv, IdsInv, Used, TypeOK
<1>2. total'[f.id] = total[f.id] /\ f.id # nextId /\ (NoMoreStart(f.id) => NoMoreStart(f.id)')
  <2> DEFINE i == f.id
  <2> HIDE DEF i
  <2>1. i \in Used => total'[i] = total[i] /\ i # nextId /\ (NoMoreStart(i) => NoMoreStart(i)')
    BY StepFrame
  <2> QED BY <1>1, <2>1 DEF i
<1>3. ASSUME NEW s \in Senders, f.type = "DATA", snd'[s].id = f.id,
             snd'[s].state = "WaitingForDataAck"
      PROVE  f.num <= snd'[s].cur
  <2>1. /\ Fate(s) /\ NoMoreStart(f.id)
        /\ snd[s].id = f.id /\ snd[s].state = "WaitingForDataAck" => f.num <= snd[s].cur
        /\ f.num \in Nat /\ snd[s].cur \in Nat
    BY <1>1, <1>3 DEF SenderStep, Genuine, Frames, TypeOK, SenderSession
  <2>2. CASE snd'[s].id = snd[s].id /\ snd'[s].state = snd[s].state /\ snd'[s].cur = snd[s].cur
    BY <1>3, <2>1, <2>2
  <2>3. CASE Advances(s)
    <3>1. snd[s].state = "WaitingForDataAck"
      BY <1>3, <2>1, <2>3 DEF Advances, MovesOn, NoMoreStart
    <3> QED BY <1>3, <2>1, <2>3, <3>1 DEF Advances
  <2> QED BY <1>2, <1>3, <2>1, <2>2, <2>3 DEF Fate, Working
<1>4. Fits(f)'
  BY <1>1 DEF Genuine, Fits, SenderStep, Active
<1> QED BY <1>1, <1>2, <1>3, <1>4 DEF Genuine

\* The frame a sender puts on the air is one of these.
LEMMA GenuineSent ==
    ASSUME TypeOK, IdsInv, AgreementInv, NoiseFree, Next, SenderStep,
           NEW s \in Senders, Live(s), NEW f, f = Outbound(snd[s]),
           snd'[s].id = snd[s].id, snd'[s].state = snd[s].state, snd'[s].cur = snd[s].cur,
           NEW i, i = snd[s].id
    PROVE  Genuine(f)'
<1>1. /\ i \in Used /\ i # 0 /\ total'[i] = total[i]
      /\ NoMoreStart(i) => NoMoreStart(i)'
      /\ f.id = i /\ UNCHANGED rcv
  <2>1. i \in Used /\ i # 0
    BY DEF IdsInv, Used
  <2>2. f.id = i
    BY DEF Outbound, Frame
  <2> QED BY <2>1, <2>2, StepFrame DEF SenderStep
<1>2. ASSUME NEW t \in Senders, snd'[t].id = i, snd'[t].state = "WaitingForDataAck"
      PROVE  t = s
  <2>1. Fate(t) /\ i # nextId
    BY <1>1, StepFrame DEF SenderStep
  <2>2. snd[t].id = i
    BY <1>2, <2>1 DEF Fate, Working, Advances
  <2> QED BY <1>1, <2>2 DEF IdsInv
<1>3. /\ SenderInv /\ SequenceAgreement
  BY DEF AgreementInv
<1>4. Active /\ rcv.id = i =>
         /\ snd[s].state = "WaitingForReady" => rcv.exp = 0
         /\ snd[s].state = "WaitingForDataAck" => snd[s].cur <= rcv.exp
         /\ snd[s].state = "WaitingForComplete" => rcv.state = "WaitingForEnd"
  <2>1. snd[s].cur \in Nat /\ rcv.exp \in Nat
    BY RcvType DEF TypeOK, SenderSession
  <2> QED BY <1>3, <2>1 DEF SequenceAgreement, NoiseFree
<1>5. CASE snd[s].state = "WaitingForReady"
  <2>1. f.type = "START"
    BY <1>5 DEF Outbound, Frame
  <2> QED BY <1>1, <1>4, <1>5, <2>1 DEF Genuine, Fits, Active
<1>6. CASE snd[s].state = "WaitingForDataAck"
  <2>1. f.type = "DATA" /\ f.num = snd[s].cur /\ f.body = <<i, snd[s].cur>>
    BY <1>6 DEF Outbound, Frame
  <2>2. NoMoreStart(i)' /\ f.num < total'[i]
    BY <1>1, <1>3, <1>6, <2>1 DEF SenderInv
  <2>3. \A t \in Senders : snd'[t].id = i /\ snd'[t].state = "WaitingForDataAck" =>
                              f.num <= snd'[t].cur
    BY <1>2, <2>1 DEF TypeOK, SenderSession
  <2>4. Fits(f)'
    BY <1>1, <1>4, <1>6, <2>1 DEF Fits, Active
  <2> QED BY <1>1, <2>1, <2>2, <2>3, <2>4 DEF Genuine
<1>7. CASE snd[s].state = "WaitingForComplete"
  <2>1. f.type = "END" /\ f.num = total[i]
    BY <1>7 DEF Outbound, Frame
  <2> QED BY <1>1, <1>4, <1>7, <2>1 DEF Genuine, Fits, Active
<1>8. CASE snd[s].state \notin Working
  <2>1. f.type = "CANCEL"
    BY <1>8 DEF Outbound, Frame, Working
  <2> QED BY <1>1, <2>1 DEF Genuine, Fits
<1> QED BY <1>5, <1>6, <1>7, <1>8 DEF Working

\* and what they send is genuine.
LEMMA SendersSend ==
    ASSUME TypeOK, IdsInv, AgreementInv, NoiseFree, Next, SenderStep
    PROVE  AirInv'
<1>1. ASSUME NEW k \in 1 .. Len(air'), NEW f, f = air'[k]
      PROVE  Genuine(f)'
  BY <1>1, GenuineStays, GenuineSent DEF SenderStep, AirFate
<1> QED BY <1>1 DEF AirInv, Genuine, Fits, NoMoreStart

\* What is in the FIFO of a sender stays something it may act on.
LEMMA SendersHear ==
    ASSUME TypeOK, IdsInv, AgreementInv, NoiseFree, Next, SenderStep
    PROVE  AnswersInv'
<1> SUFFICES ASSUME NEW t \in Senders, NEW n \in 1 .. Len(answers'[t]),
                    NEW f, f = answers'[t][n]
             PROVE  Sound(t, f)'
  BY DEF AnswersInv, Sound
<1>1. PICK m \in 1 .. Len(answers[t]) : f = answers[t][m]
  BY DEF SenderStep, FifoFate
<1>2. /\ Sound(t, f) /\ f.id \in Used /\ f.id \in Used' /\ f.id # nextId
      /\ total'[f.id] = total[f.id] /\ UNCHANGED rcv /\ Fate(t)
  <2>1. Sound(t, f) /\ UNCHANGED rcv /\ Fate(t)
    BY <1>1 DEF AgreementInv, AnswersInv, SenderStep
  <2>2. f.id \in Used
    BY <2>1 DEF Sound
  <2> QED BY <2>1, <2>2, StepFrame
<1>3. f \in Frames /\ f.num \in Nat /\ snd[t].cur \in Nat
  <2>1. answers[t] \in Seq(Frames) /\ snd[t] \in SenderSession
    BY DEF TypeOK
  <2>2. f \in Frames
    BY <1>1, <2>1
  <2> QED BY <2>1, <2>2 DEF Frames, SenderSession
<1>4. ASSUME f.type = "READY", f.error = "None", f.id = snd'[t].id, snd'[t].phase = "wait",
             snd'[t].state = "WaitingForReady"
      PROVE  \A k \in 1 .. Len(air') : air'[k].id = f.id => air'[k].type # "START"
  <2>1. /\ snd'[t] = snd[t]
        /\ \A k \in 1 .. Len(air') :
              air'[k].id # snd[t].id \/ \E j \in 1 .. Len(air) : air'[k] = air[j]
    BY <1>4 DEF SenderStep, FifoFate
  <2> QED BY <1>2, <1>4, <2>1 DEF Sound
<1>5. ASSUME f.type = "ACK", f.id = snd'[t].id
      PROVE  /\ snd'[t].state # "WaitingForReady"
             /\ snd'[t].state = "WaitingForDataAck" =>
                   /\ f.num <= snd'[t].cur
                   /\ f.num = snd'[t].cur /\ Active /\ rcv.id = f.id => rcv.exp > snd'[t].cur
  <2>1. CASE /\ snd'[t].id = snd[t].id /\ snd'[t].state = snd[t].state
             /\ snd'[t].cur = snd[t].cur
    BY <1>2, <1>5, <2>1 DEF Sound
  <2>2. CASE Advances(t)
    <3>1. snd[t].state = "WaitingForDataAck" /\ f.num <= snd[t].cur
      BY <1>2, <1>5, <2>2 DEF Sound, Advances, MovesOn
    <3>2. snd'[t].cur = snd[t].cur + 1
      BY <2>2, <3>1 DEF Advances
    <3> QED BY <1>3, <2>2, <3>1, <3>2 DEF Advances
  <2> QED BY <1>2, <1>5, <2>1, <2>2 DEF Fate, Working
<1> QED BY <1>2, <1>4, <1>5 DEF Sound, Active

\* A step of a sending board keeps the agreement.
LEMMA SendersKeepAgreement ==
    ASSUME TypeOK, IdsInv, MetadataInv, AgreementInv, NoiseFree, Next, SenderStep
    PROVE  AgreementInv'
<1>1. SessionShape'
  BY DEF AgreementInv, SessionShape, SenderStep, Active
<1>2. NoProtocolBreakdown'
  BY DEF AgreementInv, NoProtocolBreakdown, SenderStep, Fate
<1> QED BY <1>1, <1>2, SendersAgree, SendersKnow, SendersSend, SendersHear DEF AgreementInv

-----------------------------------------------------------------------------
(* What a step of the receiving board does to its session and its peers.   *)

\* START opens a session that has everything still before it.
BeginsToReceive ==
    /\ air # <<>> /\ Received.type = "START" /\ rcv'.id = Received.id
    /\ rcv'.exp = 0 /\ rcv'.data = <<>> /\ rcv'.total \in Nat
    /\ rcv'.state = IF rcv'.total = 0 THEN "WaitingForEnd" ELSE "Receiving"

\* The next DATA is written.
Receives1 ==
    /\ air # <<>> /\ Received.type = "DATA" /\ Received.id = rcv.id
    /\ Received.num = rcv.exp /\ rcv.state = "Receiving"
    /\ rcv'.id = rcv.id /\ rcv'.total = rcv.total /\ rcv'.exp = rcv.exp + 1
    /\ rcv'.data = Append(rcv.data, Received.body)
    /\ rcv'.state = IF rcv.exp + 1 = rcv.total THEN "WaitingForEnd" ELSE "Receiving"

\* What becomes of the session: it stays, begins, takes a packet, or ends.
SessionFate ==
    \/ UNCHANGED rcv
    \/ /\ rcv'.error \notin Accusations /\ air' = <<>>
       /\ ~ Active' \/ BeginsToReceive \/ Receives1

\* Response f accuses nobody, and a sender may act on it.
Reply(f) ==
    /\ f.id \in Used
    /\ f.type # "NACK" /\ f.error \notin Accusations
    /\ f.type = "READY" /\ f.error = "None" => f.num = 0
    /\ f.type = "COMPLETE" => f.num = total[f.id]
    /\ f.type = "ACK" =>
          /\ f.id = rcv'.id /\ f.num < rcv'.exp
          /\ NoMoreStart(f.id)
          /\ \A s \in Senders :
                snd[s].id = f.id /\ snd[s].state = "WaitingForDataAck" => f.num <= snd[s].cur

\* What becomes of the FIFOs: only such answers are added to them.
AnswerFate ==
    \/ UNCHANGED answers
    \/ \E f \in Frames : Tells(f) /\ Reply(f)

\* abortStorage gives the reason it was called with, or that cleaning up failed.
LEMMA AbortFate ==
    ASSUME TypeOK, NEW r \in {rcv, [rcv EXCEPT !.open = FALSE]},
           NEW state \in {"Failed", "Cancelled"}, NEW error \in Errors \ Accusations,
           Abort(r, state, error)
    PROVE  rcv'.error \notin Accusations /\ ~ Active'
<1>1. rcv'.error \in {error, "CleanupFailed"} /\ rcv'.state = state
  BY RcvType DEF Abort, ReceiverSession
<1>2. "CleanupFailed" \notin Accusations
  BY DEF Accusations
<1> QED BY <1>1, <1>2 DEF Active, ActiveStates

\* What the RX task takes from its FIFO is genuine.
LEMMA ReceivedGenuine ==
    ASSUME TypeOK, IdsInv, AirInv, air # <<>>
    PROVE  /\ Genuine(Received) /\ Received.id \in Used /\ Received.id # 0
           /\ Received.id \in Nat /\ Received.num \in Nat
BY ReceivedPlace, ReceivedType DEF AirInv, IdsInv, Used

\* START is answered, and perhaps opens a session.
LEMMA StartFate ==
    ASSUME TypeOK, IdsInv, MetadataInv, AgreementInv, NoiseFree,
           \/ ReceiveStartBusy \/ ReceiveStartAgain
           \/ ReceiveStartOpens \/ ReceiveStartFails
    PROVE  SessionFate /\ AnswerFate
<1>1. /\ air # <<>> /\ Received.type = "START" /\ Received.num = total[Received.id]
      /\ Genuine(Received) /\ Received.id \in Used /\ Received.id \in Nat /\ Received.num \in Nat
  BY ReceivedGenuine, ReceivedPlace DEF ReceiveStartBusy, ReceiveStartAgain, ReceiveStartOpens,
     ReceiveStartFails, Opens, Receives, AgreementInv, MetadataInv
<1>2. /\ "READY" \in FrameTypes /\ "Busy" \in Errors \ Accusations
      /\ {"CleanupFailed", "SinkOpen"} \subseteq Errors \ Accusations
      /\ "None" \notin Accusations
  BY DEF FrameTypes, Errors, Accusations
<1>3. CASE ReceiveStartBusy
  <2>1. PICK f \in Frames : /\ Tells(f)
                            /\ f.type = "READY" /\ f.id = Received.id /\ f.error = "Busy"
    BY <1>1, <1>2, <1>3, RefusalTold DEF ReceiveStartBusy
  <2>2. Reply(f)
    BY <1>1, <1>2, <2>1 DEF Reply
  <2> QED BY <1>3, <2>1, <2>2 DEF ReceiveStartBusy, SessionFate, AnswerFate
<1>4. CASE ReceiveStartAgain
  <2>1. rcv.id = Received.id /\ rcv.exp = 0 /\ rcv.id \in Nat
    BY <1>1, <1>4 DEF ReceiveStartAgain, Genuine, Fits
  <2>2. PICK f \in Frames : /\ Tells(f)
                            /\ f.type = "READY" /\ f.id = Received.id /\ f.num = 0
                            /\ f.error = "None"
    BY <1>2, <1>4, <2>1, FrameTold DEF ReceiveStartAgain
  <2>3. Reply(f)
    BY <1>1, <1>2, <2>2 DEF Reply
  <2> QED BY <1>4, <2>2, <2>3 DEF ReceiveStartAgain, SessionFate, AnswerFate
<1>5. CASE ReceiveStartOpens
  <2>1. PICK f \in Frames : /\ Tells(f)
                            /\ f.type = "READY" /\ f.id = Received.id /\ f.num = 0
                            /\ f.error = "None"
    BY <1>1, <1>2, <1>5, FrameTold DEF ReceiveStartOpens
  <2>2. Reply(f)
    BY <1>1, <1>2, <2>1 DEF Reply
  <2>3. /\ rcv'.id = Received.id /\ rcv'.total = Received.num /\ rcv'.exp = 0
        /\ rcv'.data = <<>> /\ rcv'.error = "None"
        /\ rcv'.state = IF Received.num = 0 THEN "WaitingForEnd" ELSE "Receiving"
    BY <1>5 DEF ReceiveStartOpens, NewSession, NoSession
  <2> QED BY <1>1, <1>2, <2>1, <2>2, <2>3 DEF SessionFate, BeginsToReceive, AnswerFate, Tells
<1>6. CASE ReceiveStartFails
  <2>1. rcv'.error \in {"CleanupFailed", "SinkOpen"} /\ ~ Active'
    <3>1. rcv'.error \in {"CleanupFailed", "SinkOpen"} /\ rcv'.state = "Failed"
      BY <1>6, RcvType DEF ReceiveStartFails, ReceiverSession, NewSession, NoSession
    <3> QED BY <3>1 DEF Active, ActiveStates
  <2>2. PICK error \in {"CleanupFailed", "SinkOpen"} :
           rcv'.error = error /\ AnswerToo(Refusal("READY", Received.id, 0, error))
    BY <1>6, <2>1 DEF ReceiveStartFails
  <2>3. PICK f \in Frames : /\ Tells(f)
                            /\ f.type = "READY" /\ f.id = Received.id /\ f.error = error
    BY <1>1, <1>2, <2>2, RefusalTold
  <2>4. Reply(f)
    BY <1>1, <1>2, <2>2, <2>3 DEF Reply
  <2> QED BY <1>2, <2>1, <2>3, <2>4 DEF SessionFate, AnswerFate, Tells
<1> QED BY <1>3, <1>4, <1>5, <1>6

\* DATA is acknowledged, and written if it is new.
LEMMA DataFate ==
    ASSUME TypeOK, IdsInv, AgreementInv, NoiseFree,
           ReceiveDataDuplicate \/ ReceiveDataAccepted
    PROVE  SessionFate /\ AnswerFate
<1>1. /\ air # <<>> /\ Received.type = "DATA" /\ Received.id = rcv.id /\ Active
      /\ Genuine(Received) /\ Received.id \in Used /\ Received.id \in Nat /\ Received.num \in Nat
  BY ReceivedGenuine DEF ReceiveDataDuplicate, ReceiveDataAccepted, NextData, Handles, Receives,
     AgreementInv
<1>2. "ACK" \in FrameTypes /\ "None" \notin Accusations /\ rcv.error \notin Accusations
  BY DEF FrameTypes, Accusations, AgreementInv, NoProtocolBreakdown, NoiseFree
<1>3. PICK f \in Frames : /\ Tells(f)
                          /\ f.type = "ACK" /\ f.id = rcv.id /\ f.num = Received.num
                          /\ f.error = "None"
  BY <1>1, <1>2, FrameTold DEF ReceiveDataDuplicate, ReceiveDataAccepted
<1>4. CASE ReceiveDataDuplicate
  <2>1. UNCHANGED rcv /\ Received.num < rcv.exp
    BY <1>4 DEF ReceiveDataDuplicate
  <2>2. Reply(f)
    BY <1>1, <1>2, <1>3, <2>1 DEF Reply, Genuine
  <2> QED BY <1>3, <2>1, <2>2 DEF SessionFate, AnswerFate
<1>5. CASE ReceiveDataAccepted
  <2>1. /\ Received.num = rcv.exp /\ rcv.state = "Receiving"
        /\ rcv'.id = rcv.id /\ rcv'.total = rcv.total /\ rcv'.exp = rcv.exp + 1
        /\ rcv'.data = Append(rcv.data, Received.body) /\ rcv'.error = rcv.error
        /\ rcv'.state = IF rcv.exp + 1 = rcv.total THEN "WaitingForEnd" ELSE "Receiving"
    BY <1>5, RcvType DEF ReceiveDataAccepted, NextData, ReceiverSession
  <2>2. Reply(f)
    BY <1>1, <1>2, <1>3, <2>1 DEF Reply, Genuine
  <2> QED BY <1>1, <1>2, <1>3, <2>1, <2>2 DEF SessionFate, Receives1, AnswerFate, Tells
<1> QED BY <1>4, <1>5

\* Once END is on the air, what was written is the whole file.
LEMMA WholeFile ==
    ASSUME TypeOK, MetadataInv, SessionShape, rcv.state = "WaitingForEnd"
    PROVE  /\ rcv.total = total[rcv.id] /\ Len(rcv.data) = rcv.total
           /\ CrcMatches
<1>1. /\ rcv.data \in Seq(Payload) /\ rcv.exp \in Nat /\ rcv.total = total[rcv.id]
      /\ Len(rcv.data) = rcv.exp /\ rcv.exp = rcv.total
      /\ \A k \in 1 .. rcv.exp : rcv.data[k] = <<rcv.id, k - 1>>
  BY RcvType DEF MetadataInv, SessionShape, Active, ActiveStates
<1> DEFINE N == total[rcv.id]
           d == rcv.data
           i == rcv.id
<1>2. d \in Seq(Payload) /\ N \in Nat /\ Len(d) = N /\ \A k \in 1 .. N : d[k] = <<i, k - 1>>
  BY <1>1
<1> HIDE DEF N, d, i
<1>3. d = [k \in 1 .. N |-> <<i, k - 1>>]
  <2>1. d \in [1 .. N -> Payload]
    BY <1>2
  <2>2. d = [k \in 1 .. N |-> d[k]]
    BY <2>1
  <2> QED BY <1>2, <2>2
<1> QED BY <1>1, <1>3 DEF CrcMatches, FileOf, N, d, i

\* NACK, a wrong number or length and a frame that does not decode need noise.
LEMMA NoRefusals ==
    ASSUME TypeOK, IdsInv, MetadataInv, AgreementInv, NoiseFree
    PROVE  /\ ~ ReceiveAhead /\ ~ ReceiveDataInvalid
           /\ ~ ReceiveEndMismatch /\ ~ ReceiveGarbled
<1> USE DEF AgreementInv
<1>1. air # <<>> => Genuine(Received) /\ Received.id # 0 /\ Received.num \in Nat
  BY ReceivedGenuine
<1>2. rcv.exp \in Nat /\ rcv.total \in Nat
  BY RcvType
<1>3. ~ ReceiveAhead
  BY <1>1, <1>2 DEF ReceiveAhead, Handles, Receives, Genuine, Fits
<1>4. ASSUME ReceiveDataInvalid
      PROVE  FALSE
  <2>1. /\ Received.num = rcv.exp /\ Received.num < total[rcv.id]
        /\ Received.body = <<rcv.id, Received.num>> /\ rcv.id # 0
        /\ rcv.state = "WaitingForEnd" \/ Received.body = Short
    BY <1>1, <1>4 DEF ReceiveDataInvalid, NextData, Handles, Receives, Genuine
  <2>2. CASE rcv.state = "WaitingForEnd"
    BY <1>2, <2>1, <2>2, WholeFile DEF SessionShape, Active, ActiveStates
  <2>3. CASE Received.body = Short
    BY <2>1, <2>3 DEF Short
  <2> QED BY <2>1, <2>2, <2>3
<1>5. ASSUME ReceiveEndMismatch
      PROVE  FALSE
  <2>1. Received.num = total[rcv.id] /\ rcv.state = "WaitingForEnd"
    BY <1>1, <1>5 DEF ReceiveEndMismatch, EndsTransfer, Handles, Receives, Genuine
  <2> QED BY <1>5, <2>1, WholeFile DEF ReceiveEndMismatch, CountsMatch
<1>6. ~ ReceiveGarbled
  BY <1>1 DEF ReceiveGarbled, Receives, Genuine
<1> QED BY <1>3, <1>4, <1>5, <1>6

\* END is confirmed with the size that was announced.
LEMMA EndFate ==
    ASSUME TypeOK, IdsInv, MetadataInv, AgreementInv, NoiseFree,
           ReceiveEndAgain \/ ReceiveEndPublishes
    PROVE  SessionFate /\ AnswerFate
<1>1. /\ rcv.id \in Nat /\ rcv.total \in Nat
      /\ rcv.id \in Used /\ rcv.total = total[rcv.id]
  BY RcvType DEF ReceiveEndAgain, ReceiveEndPublishes, EndsTransfer, MetadataInv
<1>2. "COMPLETE" \in FrameTypes /\ "None" \notin Accusations
  BY DEF FrameTypes, Accusations
<1>3. PICK f \in Frames : /\ Tells(f)
                          /\ f.type = "COMPLETE" /\ f.id = rcv.id /\ f.num = rcv.total
                          /\ f.error = "None"
  BY <1>1, <1>2, FrameTold DEF ReceiveEndAgain, ReceiveEndPublishes
<1>4. Reply(f)
  BY <1>1, <1>2, <1>3 DEF Reply
<1>5. CASE ReceiveEndAgain
  BY <1>3, <1>4, <1>5 DEF ReceiveEndAgain, SessionFate, AnswerFate
<1>6. CASE ReceiveEndPublishes
  <2>1. rcv'.error = "None" /\ rcv'.state = "Completed"
    BY <1>6, RcvType DEF ReceiveEndPublishes, ReceiverSession
  <2> QED BY <1>2, <1>3, <1>4, <2>1 DEF SessionFate, AnswerFate, Tells, Active, ActiveStates
<1> QED BY <1>5, <1>6

\* An error of the board itself ends the session, and its peer is told so.
LEMMA ErrorFate ==
    ASSUME TypeOK, IdsInv, MetadataInv, rcv.state # "Idle",
           NEW error \in Errors \ Accusations,
           Answer(ErrorFrame(error)) \/ AnswerToo(ErrorFrame(error)),
           \/ \E r \in {rcv, [rcv EXCEPT !.open = FALSE]}, state \in {"Failed", "Cancelled"} :
                 Abort(r, state, error)
           \/ UNCHANGED rcv
    PROVE  SessionFate /\ AnswerFate
<1>1. PICK f \in Frames : /\ Tells(f)
                          /\ f.type = "ERROR" /\ f.id = rcv.id /\ f.error = error
  BY ErrorTold
<1>2. Reply(f)
  BY <1>1 DEF Reply, MetadataInv
<1> QED BY <1>1, <1>2, AbortFate DEF SessionFate, AnswerFate, Tells

\* The rest of the RX task.
LEMMA EndingFate ==
    ASSUME TypeOK, IdsInv, MetadataInv,
           \/ ReceiverIgnores \/ ReceiveDataWriteFails \/ ReceiveEndSinkFails
           \/ ReceiveCancel \/ ReceiverInactivity
    PROVE  SessionFate /\ AnswerFate
<1>1. {"SinkWrite", "SinkClose", "PublicationFailed", "Cancelled", "Timeout"}
         \subseteq Errors \ Accusations
  BY DEF Errors, Accusations
<1>2. CASE ReceiverIgnores
  BY <1>2 DEF ReceiverIgnores, Drop, SessionFate, AnswerFate
<1>3. CASE ReceiveDataWriteFails
  BY <1>1, <1>3, ErrorFate DEF ReceiveDataWriteFails, NextData, Active, ActiveStates, Fails
<1>4. CASE ReceiveEndSinkFails
  <2>1. PICK error \in {"SinkClose", "PublicationFailed"} :
           Fails([rcv EXCEPT !.open = FALSE], error) /\ AnswerToo(ErrorFrame(error))
    BY <1>4 DEF ReceiveEndSinkFails
  <2> QED BY <1>1, <1>4, <2>1, ErrorFate DEF ReceiveEndSinkFails, EndsTransfer, Fails
<1>5. CASE ReceiveCancel
  BY <1>1, <1>5, ErrorFate DEF ReceiveCancel, Active, ActiveStates
<1>6. CASE ReceiverInactivity
  BY <1>1, <1>6, ErrorFate DEF ReceiverInactivity, Active, ActiveStates
<1> QED BY <1>2, <1>3, <1>4, <1>5, <1>6

\* The controls of the board answer nobody.
LEMMA ControlFate ==
    ASSUME TypeOK, NoProtocolBreakdown, NoiseFree,
           ReceiverStop \/ ReceiverListen \/ RebootReceiver
    PROVE  SessionFate /\ AnswerFate
<1>1. UNCHANGED answers /\ air' = <<>>
  BY DEF ReceiverStop, ReceiverListen, RebootReceiver
<1>2. "Cancelled" \in Errors \ Accusations
  BY DEF Errors, Accusations
<1>3. CASE UNCHANGED rcv
  BY <1>1, <1>3 DEF SessionFate, AnswerFate
<1>4. CASE Abort(rcv, "Cancelled", "Cancelled")
  BY <1>1, <1>2, <1>4, AbortFate DEF SessionFate, AnswerFate
<1>5. CASE rcv' = NoSession
  BY <1>1, <1>5 DEF NoSession, SessionFate, AnswerFate, Accusations, Active, ActiveStates
<1>6. CASE rcv' = [rcv EXCEPT !.state = "Failed", !.error = "CleanupFailed",
                              !.cleanupFailed = TRUE]
  <2>1. rcv'.state = "Failed" /\ rcv'.error = "CleanupFailed"
    BY <1>6, RcvType DEF ReceiverSession
  <2> QED BY <1>1, <2>1 DEF SessionFate, AnswerFate, Accusations, Active, ActiveStates
<1> QED BY <1>3, <1>4, <1>5, <1>6 DEF ReceiverStop, ReceiverListen, RebootReceiver

\* Every step of the receiving board is such a step.
LEMMA ReceiverFates ==
    ASSUME TypeOK, IdsInv, MetadataInv, AgreementInv, NoiseFree,
           RxTask \/ ReceiverStop \/ ReceiverListen \/ RebootReceiver
    PROVE  SessionFate /\ AnswerFate
BY NoRefusals, StartFate, DataFate, EndFate, EndingFate, ControlFate DEF RxTask, AgreementInv

-----------------------------------------------------------------------------
(* The endpoints agree after a step of the receiving board.                *)

\* A step of the receiving board, seen from everybody.
ReceiverStep == ReceiverShape /\ SessionFate /\ AnswerFate

\* What such a step leaves of senders and air.
LEMMA ReceiverFrame ==
    ASSUME TypeOK, IdsInv, ReceiverStep
    PROVE  /\ UNCHANGED <<snd, total, nextId>> /\ Used' = Used
           /\ \A k \in 1 .. Len(air') : \E m \in 1 .. Len(air) : air'[k] = air[m]
           /\ \A i : NoMoreStart(i) => NoMoreStart(i)'
<1>1. /\ UNCHANGED <<snd, total, nextId>>
      /\ \A k \in 1 .. Len(air') : \E m \in 1 .. Len(air) : air'[k] = air[m]
  BY ReceiverAir DEF ReceiverStep, ReceiverShape, senderVars
<1> QED BY <1>1 DEF Used, NoMoreStart

\* The session still holds the first packets of its transfer.
LEMMA ReceiverShapes ==
    ASSUME TypeOK, IdsInv, SessionShape, AirInv, ReceiverStep
    PROVE  SessionShape'
<1>1. CASE UNCHANGED rcv
  BY <1>1 DEF SessionShape, Active
<1>2. CASE ~ Active'
  BY <1>2 DEF SessionShape
<1>3. CASE BeginsToReceive
  <2>1. Len(rcv'.data) = 0
    BY <1>3 DEF BeginsToReceive
  <2> QED BY <1>3, <2>1 DEF BeginsToReceive, SessionShape
<1>4. CASE Receives1
  <2>1. /\ rcv.data \in Seq(Payload) /\ rcv.exp \in Nat /\ rcv.total \in Nat
        /\ Len(rcv.data) = rcv.exp /\ rcv.exp <= rcv.total
        /\ ~ (rcv.exp = rcv.total)
        /\ \A k \in 1 .. rcv.exp : rcv.data[k] = <<rcv.id, k - 1>>
    BY <1>4, RcvType DEF Receives1, SessionShape, Active, ActiveStates
  <2>2. Received.body = <<rcv.id, rcv.exp>> /\ Received.body \in Payload
    BY <1>4, ReceivedGenuine, ReceivedType DEF Receives1, Genuine, Frames
  <2> DEFINE d == rcv.data
             b == Received.body
  <2>3. d \in Seq(Payload) /\ b \in Payload
    BY <2>1, <2>2
  <2> HIDE DEF d, b
  <2>4. /\ Len(Append(d, b)) = Len(d) + 1
        /\ Append(d, b)[Len(d) + 1] = b
        /\ \A k \in 1 .. Len(d) : Append(d, b)[k] = d[k]
    BY <2>3
  <2>5. /\ Len(rcv'.data) = rcv.exp + 1
        /\ rcv'.data[rcv.exp + 1] = <<rcv.id, rcv.exp>>
        /\ \A k \in 1 .. rcv.exp : rcv'.data[k] = <<rcv.id, k - 1>>
    BY <1>4, <2>1, <2>2, <2>4 DEF Receives1, d, b
  <2>6. \A k \in 1 .. rcv.exp + 1 : rcv'.data[k] = <<rcv.id, k - 1>>
    <3>1. \A k \in 1 .. rcv.exp + 1 : k \in 1 .. rcv.exp \/ k = rcv.exp + 1
      BY <2>1
    <3>2. (rcv.exp + 1) - 1 = rcv.exp
      BY <2>1
    <3> QED BY <2>5, <3>1, <3>2
  <2>7. /\ rcv'.exp = rcv.exp + 1 /\ rcv'.total = rcv.total /\ rcv'.id = rcv.id
        /\ rcv.exp + 1 <= rcv.total
        /\ rcv'.state = IF rcv.exp + 1 = rcv.total THEN "WaitingForEnd" ELSE "Receiving"
    BY <1>4, <2>1 DEF Receives1
  <2> QED BY <2>5, <2>6, <2>7 DEF SessionShape
<1> QED BY <1>1, <1>2, <1>3, <1>4 DEF ReceiverStep, SessionFate

\* What is left on the air is as genuine as it was.
LEMMA ReceiverLeaves ==
    ASSUME TypeOK, IdsInv, AirInv, ReceiverStep
    PROVE  AirInv'
<1>1. CASE air' = <<>>
  BY <1>1 DEF AirInv
<1>2. CASE UNCHANGED rcv
  <2>1. ASSUME NEW k \in 1 .. Len(air'), NEW f, f = air'[k]
        PROVE  Genuine(f)'
    <3>1. Genuine(f)
      BY <2>1, ReceiverFrame DEF AirInv
    <3>2. NoMoreStart(f.id) => NoMoreStart(f.id)'
      <4> DEFINE i == f.id
      <4> HIDE DEF i
      <4>1. NoMoreStart(i) => NoMoreStart(i)'
        BY ReceiverFrame
      <4> QED BY <4>1 DEF i
    <3> QED BY <1>2, <3>1, <3>2, ReceiverFrame DEF Genuine, Fits, Active
  <2> QED BY <2>1 DEF AirInv, Genuine, Fits, NoMoreStart
<1> QED BY <1>1, <1>2 DEF ReceiverStep, SessionFate

\* The receiver expects what its sender has outstanding, or the next packet.
LEMMA ReceiverAgrees ==
    ASSUME TypeOK, IdsInv, AgreementInv, NoiseFree, ReceiverStep
    PROVE  SequenceAgreement'
<1> USE DEF AgreementInv
<1>1. UNCHANGED snd
  BY ReceiverFrame
<1>2. CASE UNCHANGED rcv
  BY <1>1, <1>2 DEF SequenceAgreement, Active
<1>3. CASE ~ Active'
  BY <1>3 DEF SequenceAgreement
<1>4. CASE BeginsToReceive
  <2>1. ~ NoMoreStart(Received.id)
    BY <1>4, ReceivedPlace DEF BeginsToReceive, NoMoreStart
  <2>2. \A s \in Senders : snd[s].id = Received.id =>
                              snd[s].state \notin {"WaitingForDataAck", "WaitingForComplete"}
    BY <2>1 DEF SenderInv
  <2> QED BY <1>1, <1>4, <2>2 DEF BeginsToReceive, SequenceAgreement
<1>5. CASE Receives1
  <2>1. Genuine(Received) /\ Active /\ rcv.exp \in Nat
    BY <1>5, ReceivedGenuine, RcvType DEF Receives1, Active, ActiveStates
  <2> SUFFICES ASSUME NEW s \in Senders, snd[s].id = rcv.id
               PROVE  /\ snd[s].state \notin {"WaitingForReady", "WaitingForComplete"}
                      /\ snd[s].state = "WaitingForDataAck" => rcv.exp + 1 = snd[s].cur + 1
    BY <1>1, <1>5 DEF Receives1, SequenceAgreement
  <2>2. snd[s].cur \in Nat
    BY DEF TypeOK, SenderSession
  <2>3. snd[s].state # "WaitingForReady"
    BY <1>5, <2>1 DEF Receives1, Genuine, NoMoreStart
  <2>4. snd[s].state # "WaitingForComplete"
    BY <1>5, <2>1 DEF Receives1, SequenceAgreement, NoiseFree
  <2>5. snd[s].state = "WaitingForDataAck" =>
           rcv.exp <= snd[s].cur /\ rcv.exp \in {snd[s].cur, snd[s].cur + 1}
    BY <1>5, <2>1 DEF Receives1, Genuine, SequenceAgreement, NoiseFree
  <2> QED BY <2>1, <2>2, <2>3, <2>4, <2>5
<1> QED BY <1>2, <1>3, <1>4, <1>5 DEF ReceiverStep, SessionFate

\* What the senders have in their FIFOs, old and new, they may act on.
LEMMA ReceiverAnswers ==
    ASSUME TypeOK, IdsInv, AgreementInv, NoiseFree, ReceiverStep
    PROVE  AnswersInv'
<1> USE DEF AgreementInv
<1>1. ASSUME NEW t \in Senders, NEW m \in 1 .. Len(answers[t]), NEW f, f = answers[t][m]
      PROVE  Sound(t, f)'
  <2>1. /\ Sound(t, f) /\ UNCHANGED <<snd, total>> /\ Used' = Used
        /\ \A k \in 1 .. Len(air') : \E j \in 1 .. Len(air) : air'[k] = air[j]
    BY <1>1, ReceiverFrame DEF AnswersInv
  <2>2. ASSUME f.id = snd[t].id, snd[t].state = "WaitingForDataAck",
               Active', rcv'.id = f.id
        PROVE  Active /\ rcv.id = f.id /\ rcv'.exp >= rcv.exp
    <3>1. CASE UNCHANGED rcv
      BY <2>2, <3>1, RcvType DEF Active
    <3>2. CASE BeginsToReceive
      BY <2>2, <3>2, ReceivedPlace DEF BeginsToReceive, SenderInv, NoMoreStart
    <3>3. CASE Receives1
      BY <2>2, <3>3, RcvType DEF Receives1, Active, ActiveStates
    <3> QED BY <2>2, <3>1, <3>2, <3>3 DEF ReceiverStep, SessionFate
  <2>3. snd[t].cur \in Nat /\ rcv.exp \in Nat /\ rcv'.exp \in Nat
    BY RcvType DEF TypeOK, SenderSession, ReceiverStep, ReceiverShape, ReceiverSession
  <2>4. Active' <=> rcv'.state \in ActiveStates
    BY DEF Active
  <2> QED BY <2>1, <2>2, <2>3, <2>4 DEF Sound
<1>2. ASSUME NEW f \in Frames, Tells(f), Reply(f), NEW t \in Senders
      PROVE  Sound(t, f)'
  <2>1. UNCHANGED <<snd, total>> /\ Used' = Used /\ air' = <<>>
    BY <1>2, ReceiverFrame DEF Tells
  <2>2. snd[t].cur \in Nat /\ f.num \in Nat /\ rcv'.exp \in Nat
    BY DEF TypeOK, SenderSession, Frames, ReceiverStep, ReceiverShape, ReceiverSession
  <2> QED BY <1>2, <2>1, <2>2 DEF Reply, Sound, NoMoreStart
<1>3. ASSUME NEW t \in Senders, NEW n \in 1 .. Len(answers'[t]), NEW f, f = answers'[t][n]
      PROVE  Sound(t, f)'
  <2>1. CASE answers'[t] = answers[t]
    BY <1>1, <1>3, <2>1
  <2>2. ASSUME NEW g \in Frames, Tells(g), Reply(g), answers'[t] = Append(answers[t], g)
        PROVE  Sound(t, f)'
    <3>1. answers[t] \in Seq(Frames)
      BY DEF TypeOK
    <3>2. CASE f = g
      BY <1>2, <2>2, <3>2
    <3>3. CASE \E m \in 1 .. Len(answers[t]) : f = answers[t][m]
      BY <1>1, <3>3
    <3> QED BY <1>3, <2>2, <3>1, <3>2, <3>3, AppendElements
  <2> QED BY <2>1, <2>2 DEF ReceiverStep, AnswerFate, Tells
<1> QED BY <1>3 DEF AnswersInv, Sound

\* A step of the receiving board keeps the agreement.
LEMMA ReceiverKeepsAgreement ==
    ASSUME TypeOK, IdsInv, AgreementInv, NoiseFree, ReceiverStep
    PROVE  AgreementInv'
<1>1. SenderInv'
  BY ReceiverFrame DEF AgreementInv, SenderInv, NoMoreStart
<1>2. NoProtocolBreakdown'
  BY ReceiverFrame DEF AgreementInv, NoProtocolBreakdown, ReceiverStep, SessionFate
<1> QED BY <1>1, <1>2, ReceiverShapes, ReceiverLeaves, ReceiverAgrees, ReceiverAnswers
        DEF AgreementInv

-----------------------------------------------------------------------------
(* The theorems.                                                           *)

\* The inductive invariant: without noise, the endpoints agree as well.
CalmInv == EndpointInv /\ (NoiseFree => AgreementInv)

\* It holds initially,
LEMMA CalmInit == Init => CalmInv
<1> SUFFICES ASSUME Init PROVE AgreementInv
  BY EndpointInit DEF CalmInv
<1>1. SessionShape /\ AirInv /\ AnswersInv /\ SequenceAgreement
  BY DEF Init, SessionShape, AirInv, AnswersInv, SequenceAgreement, NoSession, Active, ActiveStates
<1>2. SenderInv /\ NoProtocolBreakdown
  BY DEF Init, SenderInv, NoProtocolBreakdown, NoSession, NoTransfer, Accusations
<1> QED BY <1>1, <1>2 DEF AgreementInv

\* while nothing changes,
LEMMA CalmStutter ==
    ASSUME AgreementInv, UNCHANGED vars
    PROVE  AgreementInv'
<1> USE DEF vars, senderVars, radioVars, storageVars, appVars, AgreementInv
<1>1. SessionShape' /\ SequenceAgreement' /\ NoProtocolBreakdown'
  BY DEF SessionShape, SequenceAgreement, NoProtocolBreakdown, Active
<1>2. AirInv' /\ SenderInv'
  BY DEF AirInv, Genuine, Fits, NoMoreStart, SenderInv, Active
<1>3. AnswersInv'
  BY DEF AnswersInv, Sound, Used, Active
<1> QED BY <1>1, <1>2, <1>3

\* and after every step.
LEMMA CalmStep == CalmInv /\ [Next]_vars => CalmInv'
<1> SUFFICES ASSUME EndpointInv, AgreementInv, NoiseFree, [Next]_vars PROVE AgreementInv'
  BY EndpointStep DEF CalmInv, NoiseFree
<1>1. TypeOK /\ IdsInv /\ MetadataInv /\ NoProtocolBreakdown /\ AnswersInv
  BY DEF EndpointInv, DeliveryInv, BoardInv, AgreementInv
<1>2. CASE UNCHANGED vars
  BY <1>2, CalmStutter
<1>3. CASE Next /\ \E s \in Senders : Begin(s) \/ SenderLoop(s) \/ Cancel(s) \/ RebootSender(s)
  <2>1. SenderStep
    BY <1>1, <1>3, SenderFates
  <2> QED BY <1>1, <1>3, <2>1, SendersKeepAgreement
<1>4. CASE RxTask \/ ReceiverStop \/ ReceiverListen \/ RebootReceiver
  <2>1. ReceiverStep
    BY <1>1, <1>4, ReceiverFates, ReceiverStepShape DEF ReceiverStep
  <2> QED BY <1>1, <2>1, ReceiverKeepsAgreement
<1> QED BY <1>2, <1>3, <1>4 DEF Next

\* The invariant of agreement holds throughout, in every instance.
THEOREM CalmInvariant == Spec => []CalmInv
BY CalmInit, CalmStep, PTL DEF Spec

\* Where the radio's CRC detects all noise, the two endpoints never drift apart
\* and neither ever accuses the other: however frames and answers are lost,
\* repeated or late, and whoever is cancelled, stopped or reset, the receiver
\* expects the DATA its sender has outstanding or the next one.
THEOREM EndpointsNeverDrift == Spec => []EndpointsAgree
<1>1. CalmInv => EndpointsAgree
  BY DEF CalmInv, AgreementInv, NoiseFree, EndpointsAgree, SequenceAgreement,
     NoProtocolBreakdown
<1> QED BY <1>1, CalmInvariant, PTL

-----------------------------------------------------------------------------
(* The arithmetic of packets.                                              *)

\* Division with remainder, for a divisor that is not a number.
LEMMA Division ==
    ASSUME NEW m \in Nat, NEW d \in Nat \ {0}
    PROVE  /\ m \div d \in Nat
           /\ d * (m \div d) <= m
           /\ m < d * (m \div d) + d
  OBVIOUS

LEMMA Monotone ==
    ASSUME NEW a \in Nat, NEW b \in Nat, NEW d \in Nat, a <= b
    PROVE  a * d <= b * d
  OBVIOUS

\* The packets of a size: one fewer would not hold it, and so many do.
LEMMA CountBounds ==
    ASSUME NEW n \in 1..MaxSize
    PROVE  /\ PacketCount(n) \in 1..Seqs
           /\ (PacketCount(n) - 1) * Cap < n
           /\ n <= PacketCount(n) * Cap
  <1> USE SizeAssumption
  <1> DEFINE m == n + Cap - 1
             q == m \div Cap
  <1>1. MaxSize \in Nat /\ n \in Nat /\ n >= 1 /\ n <= Seqs * Cap
    BY DEF MaxSize
  <1>2. m \in Nat /\ m < Word
    BY <1>1
  <1>3. m % Word = m
    BY <1>2
  <1>4. PacketCount(n) = q
    BY <1>1, <1>3 DEF PacketCount
  <1> HIDE DEF m
  <1>5. q \in Nat /\ Cap * q <= m /\ m < Cap * q + Cap
    BY <1>2, Division
  <1> HIDE DEF q
  <1>6. q # 0
    BY <1>5, <1>1 DEF m
  <1>7. (q - 1) * Cap = Cap * q - Cap /\ q * Cap = Cap * q
    BY <1>5
  <1>8. (q - 1) * Cap < n /\ n <= q * Cap
    BY <1>5, <1>7, <1>1 DEF m
  <1>9. q <= Seqs
    <2>1. SUFFICES ASSUME q >= Seqs + 1 PROVE FALSE
      BY <1>5
    <2>2. (q - 1) * Cap >= Seqs * Cap
      <3>1. q - 1 \in Nat /\ Seqs \in Nat /\ Cap \in Nat /\ Seqs <= q - 1
        BY <2>1, <1>5
      <3> QED BY <3>1, Monotone
    <2>3. (q - 1) * Cap \in Int /\ Seqs * Cap \in Int
      BY <1>5
    <2>4. (q - 1) * Cap < Seqs * Cap
      <3> DEFINE a == (q - 1) * Cap
                 b == Seqs * Cap
      <3>1. a \in Int /\ b \in Int /\ a < n /\ n <= b /\ n \in Nat
        BY <2>3, <1>8, <1>1
      <3> HIDE DEF a, b
      <3>2. a < b
        BY <3>1
      <3> QED BY <3>2 DEF a, b
    <2> QED BY <2>2, <2>3, <2>4
  <1> QED BY <1>4, <1>5, <1>6, <1>8, <1>9

\* The pieces of supported metadata: every one holds something and fits, all
\* but the last are full, and before the last there is less than the size.
LEMMA Pieces ==
    ASSUME NEW n \in Nat, NEW packets \in Nat, Supported(n, packets),
           NEW s \in 0..(packets - 1)
    PROVE  /\ packets \in 1..Seqs
           /\ (packets - 1) * Cap < n
           /\ ExpectedPayload(n, packets, s) \in 1..Cap
           /\ s + 1 < packets => ExpectedPayload(n, packets, s) = Cap
           /\ s + 1 = packets => ExpectedPayload(n, packets, s) = n - (packets - 1) * Cap
  <1> USE SizeAssumption
  <1>1. packets >= 1 /\ packets = PacketCount(n) /\ n <= MaxSize /\ MaxSize \in Nat
    BY DEF Supported, MaxSize
  <1>2. n \in 1..MaxSize
    BY <1>1 DEF PacketCount
  <1>3. /\ packets \in 1..Seqs
        /\ (packets - 1) * Cap < n
        /\ n <= packets * Cap
    BY <1>1, <1>2, CountBounds
  <1>4. packets * Cap = (packets - 1) * Cap + Cap /\ (packets - 1) * Cap \in Nat
    <2>1. packets - 1 \in Nat /\ packets = (packets - 1) + 1 /\ Cap \in Nat
      BY <1>1
    <2>2. ((packets - 1) + 1) * Cap = (packets - 1) * Cap + Cap
      BY <2>1
    <2> QED BY <2>1, <2>2
  <1> DEFINE before == (packets - 1) * Cap
  <1> HIDE DEF before
  <1>5. n - before \in 1..Cap
    BY <1>3, <1>4 DEF before
  <1>6. ExpectedPayload(n, packets, s) = IF s + 1 < packets THEN Cap ELSE n - before
    BY <1>1 DEF ExpectedPayload, before
  <1>7. ExpectedPayload(n, packets, s) \in 1..Cap
    BY <1>5, <1>6
  <1>8. s + 1 = packets => ExpectedPayload(n, packets, s) = n - before
    BY <1>6, <1>1
  <1> QED BY <1>3, <1>6, <1>7, <1>8 DEF before

-----------------------------------------------------------------------------
(* The inductive invariant.                                                *)

Numbers ==
    /\ size \in Nat /\ size < Word /\ count \in Nat /\ count < Word
    /\ current \in 0..count /\ expected \in 0..count
    /\ current <= expected /\ expected <= current + 1

\* Nothing moves under metadata that is not supported.
OnlySupported ==
    Supported(size, count) \/ (expected = 0 /\ bytes = 0 /\ wire = NoFrame)

FrameIsCurrent ==
    wire # NoFrame =>
        /\ current < count
        /\ wire = [number |-> current, sequence |-> current,
                   length |-> ExpectedPayload(size, count, current)]

Inv ==
    /\ Numbers
    /\ OnlySupported
    /\ FrameIsCurrent
    /\ refused = FALSE
    /\ PiecesAddUp

LEMMA InitInv == SizesInit => Inv
  <1> SUFFICES ASSUME SizesInit PROVE Inv
    OBVIOUS
  <1> USE SizeAssumption DEF SizesInit
  <1>1. Numbers
    BY DEF Numbers
  <1>2. bytes = 0 /\ expected = 0 /\ expected * Cap = 0
    BY DEF SizesInit
  <1>3. PiecesAddUp
    BY <1>1, <1>2 DEF PiecesAddUp, Numbers
  <1> QED BY <1>1, <1>3 DEF Inv, OnlySupported, FrameIsCurrent

\* What a frame of the invariant looks like to the receiver.
LEMMA FrameFacts ==
    ASSUME Inv, wire # NoFrame
    PROVE  /\ Supported(size, count) /\ current < count /\ count \in 1..Seqs
           /\ wire.sequence = current
           /\ wire.length = ExpectedPayload(size, count, current)
  <1>1. Supported(size, count) /\ current < count
    BY DEF Inv, OnlySupported, FrameIsCurrent
  <1>2. count \in Nat /\ size \in Nat /\ current \in 0..(count - 1)
    BY <1>1 DEF Inv, Numbers
  <1>3. count \in 1..Seqs
    BY <1>1, <1>2, Pieces
  <1> QED BY <1>1, <1>3 DEF Inv, FrameIsCurrent

LEMMA SendKeepsInv == ASSUME Inv, SendData PROVE Inv'
  <1> USE SizeAssumption
  <1>1. /\ Supported(size, count) /\ count \in Nat /\ size \in Nat
        /\ current \in 0..(count - 1)
    BY DEF SendData, Inv, Numbers
  <1>2. ExpectedPayload(size, count, current) \in 1..Cap /\ count \in 1..Seqs
    BY <1>1, Pieces
  <1>3. current < Seqs /\ OnWire(current) = current
    BY <1>1, <1>2 DEF OnWire
  <1>4. /\ wire' = [number |-> current, sequence |-> current,
                    length |-> ExpectedPayload(size, count, current)]
        /\ refused' = refused
        /\ UNCHANGED <<size, count, current, expected, bytes>>
    BY <1>1, <1>2, <1>3 DEF SendData
  <1>5. Numbers' /\ PiecesAddUp' /\ refused' = FALSE
    BY <1>4 DEF Inv, Numbers, PiecesAddUp
  <1>6. OnlySupported'
    BY <1>1, <1>4 DEF OnlySupported, Supported, PacketCount
  <1>7. ExpectedPayload(size, count, current)' = ExpectedPayload(size, count, current)
    BY <1>4 DEF ExpectedPayload, Supported, PacketCount
  <1>8. FrameIsCurrent'
    BY <1>1, <1>4, <1>7 DEF FrameIsCurrent
  <1> QED BY <1>5, <1>6, <1>8 DEF Inv

LEMMA OldKeepsInv == ASSUME Inv, ReceiveOld PROVE Inv'
  <1>1. wire # NoFrame /\ wire' = NoFrame /\ current' \in {current, current + 1}
    BY DEF ReceiveOld, Acknowledge
  <1>2. UNCHANGED <<size, count, expected, bytes, refused>>
    BY DEF ReceiveOld
  <1>3. current < expected
    BY <1>1, FrameFacts DEF ReceiveOld, IsOld
  <1>4. Numbers'
    <2>1. /\ current \in Nat /\ count \in Nat /\ expected \in Nat
          /\ expected <= count /\ expected = current + 1
      BY <1>3 DEF Inv, Numbers
    <2>2. current' = current \/ current' = current + 1
      BY <1>1
    <2>3. current' \in 0..count /\ current' <= expected /\ expected <= current' + 1
      BY <2>1, <2>2
    <2> QED BY <1>2, <2>3 DEF Inv, Numbers
  <1>5. Supported(size, count)'
    BY <1>1, <1>2, FrameFacts DEF Supported, PacketCount
  <1> QED BY <1>1, <1>2, <1>4, <1>5
          DEF Inv, OnlySupported, FrameIsCurrent, PiecesAddUp

LEMMA NewKeepsInv == ASSUME Inv, ReceiveNew PROVE Inv'
  <1> USE SizeAssumption
  <1>1. wire # NoFrame /\ ~IsOld(wire.sequence, expected)
    BY DEF ReceiveNew
  <1>2. expected = current /\ current < count
    <2>1. current \in Nat /\ expected \in Nat /\ current <= expected
      BY DEF Inv, Numbers
    <2>2. ~(current < expected) /\ current < count
      BY <1>1, FrameFacts DEF IsOld
    <2> QED BY <2>1, <2>2
  <1>3. IsDue
    BY <1>1, <1>2, FrameFacts DEF IsDue
  <1>4. /\ expected' = expected + 1 /\ bytes' = bytes + wire.length
        /\ wire' = NoFrame /\ current' \in {current, current + 1}
        /\ UNCHANGED <<size, count, refused>>
    BY <1>3 DEF ReceiveNew, Acknowledge
  <1>5. Numbers'
    <2>1. /\ current \in Nat /\ count \in Nat /\ expected' = current + 1
          /\ expected' \in 0..count
      BY <1>2, <1>4 DEF Inv, Numbers
    <2>2. current' \in 0..count /\ current' <= expected' /\ expected' <= current' + 1
      BY <1>4, <2>1
    <2> QED BY <1>4, <2>1, <2>2 DEF Inv, Numbers
  <1>6. Supported(size, count)'
    BY <1>1, <1>4, FrameFacts DEF Supported, PacketCount
  <1>7. PiecesAddUp'
    <2>1. /\ Supported(size, count) /\ count \in Nat /\ size \in Nat
          /\ expected \in 0..(count - 1)
      <3>1. count \in Nat /\ size \in Nat /\ expected \in Nat
        BY DEF Inv, Numbers
      <3>2. Supported(size, count) /\ expected < count
        BY <1>1, <1>2, FrameFacts
      <3> QED BY <3>1, <3>2
    <2>2. wire.length = ExpectedPayload(size, count, expected)
      BY <1>1, <1>2, FrameFacts
    <2>3. bytes = expected * Cap
      BY <1>2 DEF Inv, PiecesAddUp
    <2>4. (expected + 1) * Cap = expected * Cap + Cap /\ expected * Cap \in Nat
      BY <2>1
    <2>5. CASE expected + 1 < count
      <3>1. wire.length = Cap
        BY <2>1, <2>2, <2>5, Pieces
      <3>2. bytes' = (expected + 1) * Cap
        BY <1>4, <2>3, <2>4, <3>1
      <3> QED BY <1>4, <2>5, <3>2 DEF PiecesAddUp
    <2>6. CASE expected + 1 = count
      <3>1. wire.length = size - (count - 1) * Cap /\ count - 1 = expected
        BY <2>1, <2>2, <2>6, Pieces
      <3>2. bytes' = size
        BY <1>4, <2>1, <2>3, <2>4, <3>1
      <3>3. ~(expected' < count') /\ count' # 0
        BY <1>4, <2>1, <2>6
      <3> QED BY <1>4, <3>2, <3>3 DEF PiecesAddUp
    <2> QED BY <2>1, <2>5, <2>6
  <1> QED BY <1>4, <1>5, <1>6, <1>7
          DEF Inv, OnlySupported, FrameIsCurrent

LEMMA InvInductive == Inv /\ [SizesNext]_sizesVars => Inv'
  <1>1. ASSUME Inv, UNCHANGED sizesVars PROVE Inv'
    BY <1>1 DEF sizesVars, Inv, Numbers, OnlySupported, FrameIsCurrent,
                PiecesAddUp, Supported, PacketCount, ExpectedPayload
  <1> QED BY <1>1, SendKeepsInv, OldKeepsInv, NewKeepsInv DEF SizesNext

THEOREM Invariance == SizesSpec => []Inv
  BY InitInv, InvInductive, PTL DEF SizesSpec

-----------------------------------------------------------------------------
(* What follows from it.                                                   *)

\* Every variable stays in its range: in particular no packet is empty or
\* larger than a frame's payload, and the receiver never counts more bytes than
\* START announced.
THEOREM TypeCorrect == SizesSpec => []SizesTypeOK
  <1> USE SizeAssumption
  <1>1. Inv => SizesTypeOK
    <2> SUFFICES ASSUME Inv PROVE SizesTypeOK
      OBVIOUS
    <2>1. /\ size \in 0..(Word - 1) /\ count \in 0..(Word - 1)
          /\ current \in 0..count /\ expected \in 0..count /\ refused \in BOOLEAN
      <3>1. Word \in Nat
        OBVIOUS
      <3>2. refused \in BOOLEAN
        BY DEF Inv
      <3>3. size \in Nat /\ size < Word /\ count \in Nat /\ count < Word
        BY DEF Inv, Numbers
      <3>4. size \in 0..(Word - 1) /\ count \in 0..(Word - 1)
        BY <3>1, <3>3
      <3> QED BY <3>2, <3>4 DEF Inv, Numbers
    <2>2. bytes \in 0..size
      <3>1. CASE expected < count /\ expected > 0
        <4>1. Supported(size, count) /\ size \in Nat /\ count \in Nat /\ expected \in 0..(count - 1)
          BY <2>1, <3>1 DEF Inv, OnlySupported
        <4>2. (count - 1) * Cap < size /\ (count - 1) * Cap \in Int
          BY <4>1, Pieces
        <4>3. expected * Cap <= (count - 1) * Cap /\ expected * Cap \in Nat
          BY <4>1, Monotone
        <4>4. bytes = expected * Cap
          BY <3>1 DEF Inv, PiecesAddUp
        <4> DEFINE a == expected * Cap
                   b == (count - 1) * Cap
        <4>5. a <= b /\ b < size /\ a \in Nat /\ b \in Int /\ size \in Nat
          BY <4>1, <4>2, <4>3
        <4> HIDE DEF a, b
        <4>6. a \in 0..size
          BY <4>5
        <4> QED BY <4>4, <4>6 DEF a
      <3>2. CASE expected = 0
        <4>1. expected * Cap = 0
          BY <3>2
        <4> QED BY <2>1, <3>2, <4>1 DEF Inv, PiecesAddUp
      <3>3. CASE expected = count /\ count # 0
        BY <2>1, <3>3 DEF Inv, PiecesAddUp
      <3> QED BY <2>1, <3>1, <3>2, <3>3
    <2>3. wire # NoFrame => wire \in [number : 0..(count - 1), sequence : 0..(Seqs - 1),
                                      length : 1..Cap]
      <3> SUFFICES ASSUME wire # NoFrame
                   PROVE  wire \in [number : 0..(count - 1), sequence : 0..(Seqs - 1),
                                    length : 1..Cap]
        OBVIOUS
      <3>1. Supported(size, count) /\ current < count /\ count \in 1..Seqs
        BY FrameFacts
      <3>2. ExpectedPayload(size, count, current) \in 1..Cap
        BY <2>1, <3>1, Pieces
      <3>3. current \in 0..(count - 1) /\ current \in 0..(Seqs - 1)
        BY <2>1, <3>1
      <3> QED BY <3>2, <3>3 DEF Inv, FrameIsCurrent
    <2> QED BY <2>1, <2>2, <2>3 DEF SizesTypeOK
  <1> QED BY <1>1, Invariance, PTL

\* A packet's 32 bit number and its 16 bit sequence are the same number.
THEOREM NumbersAlwaysAgree == SizesSpec => []NumbersAgree
  <1>1. Inv => NumbersAgree
    BY DEF Inv, FrameIsCurrent, NumbersAgree
  <1> QED BY <1>1, Invariance, PTL

\* No packet of a supported file is refused for its number or its length.
THEOREM NeverRefused == SizesSpec => []NothingRefused
  <1>1. Inv => NothingRefused
    BY DEF Inv, NothingRefused
  <1> QED BY <1>1, Invariance, PTL

\* What the receiver has counted is what START announced, when all is in.
THEOREM PiecesAlwaysAddUp == SizesSpec => []PiecesAddUp
  <1>1. Inv => PiecesAddUp
    BY DEF Inv
  <1> QED BY <1>1, Invariance, PTL

\* The three together: both sides cut and count every supported file alike.
THEOREM SizesAlwaysAgree == SizesSpec => []SizesAgree
  <1>1. NumbersAgree /\ NothingRefused /\ PiecesAddUp => SizesAgree
    BY DEF SizesAgree
  <1> QED BY <1>1, NumbersAlwaysAgree, NeverRefused, PiecesAlwaysAddUp, PTL

=============================================================================
