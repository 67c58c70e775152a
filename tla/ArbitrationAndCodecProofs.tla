-------------------------- MODULE ArbitrationAndCodecProofs --------------------------
(***************************************************************************)
(* Proofs about two parts that share no state.                             *)
(*                                                                         *)
(* RadioArbitration, for every count of passes and whether or not a        *)
(* command may keep loop_mutex_: ArbitrationInv is inductive.  Each of its *)
(* conjuncts has a lemma that every step of Next keeps it; the theorems    *)
(* follow at the end of that section.                                      *)
(*                                                                         *)
(* ProtocolCodec, for every number of values of a byte, every packet and   *)
(* every name: a number is the sum of its bytes and has no others, so that *)
(* storing and loading are inverse to each other; each type of packet then *)
(* has a lemma of what its frame carries, one that it is read back, and    *)
(* one that a frame that decode accepts is the frame of what was read.     *)
(***************************************************************************)
EXTENDS RadioArbitration, ProtocolCodec, SequenceTheorems, TLAPS

-----------------------------------------------------------------------------
(* The arbitration: types.                                                 *)

\* The configurations that the code builds are configurations.
LEMMA LoopTypes ==
    /\ NoLoop \in LoopConfigs
    /\ \A m \in Modes, i \in BOOLEAN, n \in 0 .. MaxPasses :
          [active |-> TRUE, mode |-> m, infinite |-> i, remaining |-> n] \in LoopConfigs
    /\ \A l \in LoopConfigs, n \in 0 .. MaxPasses :
          [l EXCEPT !.remaining = n] \in LoopConfigs
<1>1. NoLoop \in LoopConfigs
  BY ArbitrationAssumption DEF NoLoop, LoopConfigs
<1>2. \A m \in Modes, i \in BOOLEAN, n \in 0 .. MaxPasses :
          [active |-> TRUE, mode |-> m, infinite |-> i, remaining |-> n] \in LoopConfigs
  BY DEF LoopConfigs
<1>3. \A l \in LoopConfigs, n \in 0 .. MaxPasses :
          [l EXCEPT !.remaining = n] \in LoopConfigs
  BY DEF LoopConfigs
<1> QED BY <1>1, <1>2, <1>3

\* Likewise for what the worker remembers of an iteration.
LEMMA WorkerTypes ==
    /\ Resting \in Workers
    /\ \A m \in Modes \cup {"None"} : [Resting EXCEPT !.pc = "take", !.mode = m] \in Workers
    /\ \A w \in Workers, b \in BOOLEAN :
          /\ [w EXCEPT !.pc = "off"] \in Workers
          /\ [w EXCEPT !.pc = "load", !.ok = b] \in Workers
          /\ [w EXCEPT !.pc = "account", !.stopped = b] \in Workers
<1>1. Resting \in Workers
  BY DEF Resting, Workers, Stages
<1>2. \A m \in Modes \cup {"None"} : [Resting EXCEPT !.pc = "take", !.mode = m] \in Workers
  BY DEF Resting, Workers, Stages
<1>3. ASSUME NEW w \in Workers, NEW b \in BOOLEAN
      PROVE  /\ [w EXCEPT !.pc = "off"] \in Workers
             /\ [w EXCEPT !.pc = "load", !.ok = b] \in Workers
             /\ [w EXCEPT !.pc = "account", !.stopped = b] \in Workers
  BY DEF Workers, Stages
<1> QED BY <1>1, <1>2, <1>3

\* Every step leaves a configuration of that type.
LEMMA LoopTypePreserved ==
    ASSUME TypeOK, Next
    PROVE  loop' \in LoopConfigs
<1> USE DEF TypeOK, DataTypes, looping
<1>1. CASE \E c \in Commands : Dispatch(c)
  BY <1>1 DEF Dispatch
<1>2. CASE Admission \/ RadioCommand \/ ModeCommand \/ SessionCommand \/ Expire
  BY <1>2 DEF Admission, Reserve, Refuse, StopAsk, StopSeen, StopTimeout, StopLast,
     RadioCommand, CommandStop, CommandSettle, CommandChannel, CommandRx, CommandRxBusy,
     CommandText, TextSent, ModeCommand, CommandTestOn, CommandTestOff, SessionCommand,
     CommandUploadBegin, CommandDownloadBegin, CommandUploadEnd, CommandDownloadEnd, Expire
<1>3. ASSUME NEW mode \in Modes, NEW infinite \in BOOLEAN, NEW count \in 0 .. MaxPasses,
             StartLoop(mode, infinite, count)
      PROVE  loop' \in LoopConfigs
  BY <1>3, LoopTypes DEF StartLoop
<1>4. 1 .. MaxPasses \subseteq 0 .. MaxPasses /\ 0 \in 0 .. MaxPasses /\ 1 \in 0 .. MaxPasses
  BY ArbitrationAssumption
<1>5. CASE LoopCommand
  BY <1>5, <1>3, <1>4 DEF LoopCommand, CommandKey, TakeLoop, RadioBusy, CommandTx,
     CommandTxHex, CommandStored, Modes
<1>6. CASE Iteration
  BY <1>6 DEF Iteration, Snapshot, PassBegins, PassEnds, BurstBegins, BurstEnds, BurstStuck,
     LoadStop, NotAccounted
<1>7. Remaining \in 0 .. MaxPasses
  BY ArbitrationAssumption DEF Remaining, LoopConfigs
<1>8. ClearLoop => loop' \in LoopConfigs
  BY LoopTypes DEF ClearLoop
<1>9. CASE Accounting
  <2>1. CASE AccountPass
    BY <2>1, <1>7, <1>8, LoopTypes DEF AccountPass
  <2>2. CASE AccountBurst \/ BurstOver
    BY <2>2, <1>8 DEF AccountBurst, BurstOver
  <2> QED BY <1>9, <2>1, <2>2 DEF Accounting
<1>10. CASE RxTask
  BY <1>10 DEF RxTask, RxPoll, RxDrain, RxTimeout, RxLeave
<1> QED
  BY <1>1, <1>2, <1>5, <1>6, <1>9, <1>10 DEF Next, Command, Worker

\* Every step leaves the worker in an iteration of that type.
LEMMA WorkerTypePreserved ==
    ASSUME TypeOK, Next
    PROVE  worker' \in Workers
<1> USE DEF TypeOK, DataTypes, FlagTypes
<1>1. CASE \E c \in Commands : Dispatch(c)
  BY <1>1 DEF Dispatch
<1>2. CASE Command \/ Expire \/ RxTask
  BY <1>2 DEF Command, Admission, Reserve, Refuse, StopAsk, StopSeen, StopTimeout, StopLast,
     RadioCommand, CommandStop, CommandSettle, CommandChannel, CommandRx, CommandRxBusy,
     CommandText, TextSent, LoopCommand, CommandKey, TakeLoop, RadioBusy, CommandTx,
     CommandTxHex, CommandStored, ModeCommand, CommandTestOn, CommandTestOff, SessionCommand,
     CommandUploadBegin, CommandDownloadBegin, CommandUploadEnd, CommandDownloadEnd, Expire,
     RxTask, RxPoll, RxDrain, RxTimeout, RxLeave
<1>3. CASE Snapshot
  BY <1>3, WorkerTypes DEF Snapshot, LoopConfigs
<1>4. CASE PassBegins \/ BurstBegins \/ BurstEnds
  BY <1>4 DEF PassBegins, BurstBegins, BurstEnds, Workers, Stages
<1>5. CASE PassEnds
  <2>1. PICK ok \in BOOLEAN : worker' = [worker EXCEPT !.pc = "load", !.ok = ok]
    BY <1>5 DEF PassEnds
  <2> QED BY <2>1, WorkerTypes
<1>6. CASE BurstStuck \/ Accounting
  BY <1>6, WorkerTypes DEF BurstStuck, Accounting, AccountPass, AccountBurst, BurstOver, Rests
<1>7. CASE LoadStop
  BY <1>7, WorkerTypes DEF LoadStop
<1>8. CASE NotAccounted
  BY <1>8, WorkerTypes DEF NotAccounted, Rests
<1> QED
  BY <1>1, <1>2, <1>3, <1>4, <1>5, <1>6, <1>7, <1>8 DEF Next, Worker, Iteration

\* Every flag stays a flag.
LEMMA FlagTypesPreserved ==
    ASSUME ArbitrationInv, Next
    PROVE  FlagTypes'
<1> USE DEF ArbitrationInv, TypeOK, FlagTypes, At, RadioFree, locks, host, looping, Answer,
        LoopFree, Goes, Acts, EnsureStandby, StartLoop, Refused, ResetUpload, ResetDownload,
        WorkerAt, flags, Rests, ClearLoop, Paused
<1>1. CASE \E c \in Commands : Dispatch(c)
  BY <1>1 DEF Dispatch
<1>2. CASE Admission
  <2>1. CASE Reserve
    BY ZenonT(30), <2>1 DEF Reserve
  <2>2. CASE Refuse
    BY ZenonT(30), <2>2 DEF Refuse
  <2>3. CASE StopAsk
    <3>1. loop.active \in BOOLEAN
      BY DEF TypeOK, DataTypes, LoopConfigs
    <3> QED BY <2>3, <3>1 DEF StopAsk
  <2>4. CASE StopSeen
    BY ZenonT(30), <2>4 DEF StopSeen
  <2>5. CASE StopTimeout
    BY ZenonT(30), <2>5 DEF StopTimeout
  <2>6. CASE StopLast
    BY ZenonT(30), <2>6 DEF StopLast
  <2> QED BY <1>2, <2>1, <2>2, <2>3, <2>4, <2>5, <2>6 DEF Admission
<1>3. CASE RadioCommand
  BY ZenonT(30), <1>3 DEF CommandStop, CommandSettle, CommandChannel, CommandRx,
     CommandRxBusy, CommandText, TextSent, RadioCommand
<1>4. CASE LoopCommand
  BY ZenonT(30), <1>4 DEF CommandKey, TakeLoop, RadioBusy, CommandTx, CommandTxHex,
     CommandStored, LoopCommand
<1>5. CASE ModeCommand
  BY ZenonT(30), <1>5 DEF CommandTestOn, CommandTestOff, ModeCommand
<1>6. CASE SessionCommand
  BY ZenonT(30), <1>6 DEF CommandUploadBegin, CommandDownloadBegin, CommandUploadEnd,
     CommandDownloadEnd, SessionCommand
<1>7. CASE Expire
  BY ZenonT(30), <1>7 DEF Expire
<1>8. CASE Iteration
  BY ZenonT(30), <1>8 DEF Snapshot, PassBegins, PassEnds, BurstBegins, BurstEnds,
     BurstStuck, LoadStop, NotAccounted, Iteration
<1>9. CASE Accounting
  BY ZenonT(30), <1>9 DEF AccountPass, AccountBurst, BurstOver, Accounting
<1>10. CASE RxTask
  BY ZenonT(30), <1>10 DEF RxPoll, RxDrain, RxTimeout, RxLeave, RxTask
<1> QED
  BY <1>1, <1>2, <1>3, <1>4, <1>5, <1>6, <1>7, <1>8, <1>9, <1>10 DEF Next, Command, Worker

\* Every other variable keeps its type.
LEMMA DataTypesPreserved ==
    ASSUME ArbitrationInv, Next
    PROVE  DataTypes'
<1> USE DEF ArbitrationInv, TypeOK, DataTypes, At, RadioFree, Route, locks, host, looping,
        Answer, LoopFree, Goes, Acts, Standbys, Settlers, RadioStates, EnsureStandby,
        StartLoop, Stored, StoredFree, Refused, ResetUpload, ResetDownload, WorkerAt, flags,
        Rests, LoopUnavailable, Remaining, ClearLoop, Paused, NeedsReservation, Tasks,
        Commands, Places, Idle, Replies, Allowed, StopsLoop, Cancels, Starters, Sessions
<1>1. CASE \E c \in Commands : Dispatch(c)
  BY <1>1, LoopTypePreserved, WorkerTypePreserved, ArbitrationAssumption DEF Dispatch
<1>2. CASE Admission
  BY SMTT(30), <1>2, LoopTypePreserved, WorkerTypePreserved, ArbitrationAssumption DEF
     Reserve, Refuse, StopAsk, StopSeen, StopTimeout, StopLast, Admission
<1>3. CASE RadioCommand
  BY SMTT(30), <1>3, LoopTypePreserved, WorkerTypePreserved, ArbitrationAssumption DEF
     CommandStop, CommandSettle, CommandChannel, CommandRx, CommandRxBusy, CommandText,
     TextSent, RadioCommand
<1>4. CASE LoopCommand
  <2>1. CASE CommandKey
    BY SMTT(30), <2>1, LoopTypePreserved, WorkerTypePreserved, ArbitrationAssumption DEF
       CommandKey
  <2>2. CASE TakeLoop
    BY SMTT(30), <2>2, LoopTypePreserved, WorkerTypePreserved, ArbitrationAssumption DEF
       TakeLoop
  <2>3. CASE RadioBusy
    BY SMTT(30), <2>3, LoopTypePreserved, WorkerTypePreserved, ArbitrationAssumption DEF
       RadioBusy
  <2>4. CASE CommandTx
    BY SMTT(30), <2>4, LoopTypePreserved, WorkerTypePreserved, ArbitrationAssumption DEF
       CommandTx
  <2>5. CASE CommandTxHex
    BY SMTT(30), <2>5, LoopTypePreserved, WorkerTypePreserved, ArbitrationAssumption DEF
       CommandTxHex
  <2>6. CASE CommandStored
    BY SMTT(30), <2>6, LoopTypePreserved, WorkerTypePreserved, ArbitrationAssumption DEF
       CommandStored
  <2> QED BY <1>4, <2>1, <2>2, <2>3, <2>4, <2>5, <2>6 DEF LoopCommand
<1>5. CASE ModeCommand
  BY SMTT(30), <1>5, LoopTypePreserved, WorkerTypePreserved, ArbitrationAssumption DEF
     CommandTestOn, CommandTestOff, ModeCommand
<1>6. CASE SessionCommand
  BY SMTT(30), <1>6, LoopTypePreserved, WorkerTypePreserved, ArbitrationAssumption DEF
     CommandUploadBegin, CommandDownloadBegin, CommandUploadEnd, CommandDownloadEnd,
     SessionCommand
<1>7. CASE Expire
  BY SMTT(30), <1>7, LoopTypePreserved, WorkerTypePreserved, ArbitrationAssumption DEF
     Expire
<1>8. CASE Iteration
  <2>1. CASE Snapshot
    BY SMTT(30), <2>1, LoopTypePreserved, WorkerTypePreserved, ArbitrationAssumption DEF
       Snapshot
  <2>2. CASE PassBegins
    BY SMTT(30), <2>2, LoopTypePreserved, WorkerTypePreserved, ArbitrationAssumption DEF
       PassBegins
  <2>3. CASE PassEnds
    BY SMTT(30), <2>3, LoopTypePreserved, WorkerTypePreserved, ArbitrationAssumption DEF
       PassEnds
  <2>4. CASE BurstBegins
    BY SMTT(30), <2>4, LoopTypePreserved, WorkerTypePreserved, ArbitrationAssumption DEF
       BurstBegins
  <2>5. CASE BurstEnds
    BY SMTT(30), <2>5, LoopTypePreserved, WorkerTypePreserved, ArbitrationAssumption DEF
       BurstEnds
  <2>6. CASE BurstStuck
    BY SMTT(30), <2>6, LoopTypePreserved, WorkerTypePreserved, ArbitrationAssumption DEF
       BurstStuck
  <2>7. CASE LoadStop
    BY SMTT(30), <2>7, LoopTypePreserved, WorkerTypePreserved, ArbitrationAssumption DEF
       LoadStop
  <2>8. CASE NotAccounted
    BY SMTT(30), <2>8, LoopTypePreserved, WorkerTypePreserved, ArbitrationAssumption DEF
       NotAccounted
  <2> QED BY <1>8, <2>1, <2>2, <2>3, <2>4, <2>5, <2>6, <2>7, <2>8 DEF Iteration
<1>9. CASE Accounting
  BY SMTT(30), <1>9, LoopTypePreserved, WorkerTypePreserved, ArbitrationAssumption DEF
     AccountPass, AccountBurst, BurstOver, Accounting
<1>10. CASE RxTask
  BY SMTT(30), <1>10, LoopTypePreserved, WorkerTypePreserved, ArbitrationAssumption DEF
     RxPoll, RxDrain, RxTimeout, RxLeave, RxTask
<1> QED
  BY <1>1, <1>2, <1>3, <1>4, <1>5, <1>6, <1>7, <1>8, <1>9, <1>10 DEF Next, Command, Worker

\* A command holds what its place says it holds, and has waited for the loop that
\* it must not meet.
LEMMA CommandInvPreserved ==
    ASSUME ArbitrationInv, Next
    PROVE  CommandInv'
<1> USE DEF ArbitrationInv, TypeOK, DataTypes, FlagTypes, CommandInv, LockInv, WorkerInv,
        PauseHasCause, WorkerRunsItsLoop, ReceiveExclusion, TestModeIsSilent, At, RadioFree,
        Route, locks, host, looping, Answer, LoopFree, Goes, Acts, Standbys, Settlers,
        RadioStates, EnsureStandby, StartLoop, Stored, StoredFree, Refused, ResetUpload,
        ResetDownload, WorkerAt, Resting, flags, Rests, LoopUnavailable, Remaining,
        ClearLoop, Paused, NeedsReservation, Tasks, LoopConfigs, Commands, Places, Idle,
        Replies, Workers, Allowed, StopsLoop, Modes, NoLoop, Cancels, Starters, Sessions,
        Stages
<1>1. CASE \E c \in Commands : Dispatch(c)
  BY <1>1 DEF Dispatch
<1>2. CASE Admission
  BY SMTT(30), <1>2 DEF Reserve, Refuse, StopAsk, StopSeen, StopTimeout, StopLast,
     Admission
<1>3. CASE RadioCommand
  BY SMTT(30), <1>3 DEF CommandStop, CommandSettle, CommandChannel, CommandRx,
     CommandRxBusy, CommandText, TextSent, RadioCommand
<1>4. CASE LoopCommand
  BY SMTT(30), <1>4 DEF CommandKey, TakeLoop, RadioBusy, CommandTx, CommandTxHex,
     CommandStored, LoopCommand
<1>5. CASE ModeCommand
  BY SMTT(30), <1>5 DEF CommandTestOn, CommandTestOff, ModeCommand
<1>6. CASE SessionCommand
  BY SMTT(30), <1>6 DEF CommandUploadBegin, CommandDownloadBegin, CommandUploadEnd,
     CommandDownloadEnd, SessionCommand
<1>7. CASE Expire
  BY SMTT(30), <1>7 DEF Expire
<1>8. CASE Iteration
  <2>1. CASE Snapshot
    BY SMTT(30), <2>1 DEF Snapshot
  <2>2. CASE PassBegins
    BY SMTT(30), <2>2 DEF PassBegins
  <2>3. CASE PassEnds
    BY SMTT(30), <2>3 DEF PassEnds
  <2>4. CASE BurstBegins
    BY SMTT(30), <2>4 DEF BurstBegins
  <2>5. CASE BurstEnds
    BY SMTT(30), <2>5 DEF BurstEnds
  <2>6. CASE BurstStuck
    BY SMTT(30), <2>6 DEF BurstStuck
  <2>7. CASE LoadStop
    BY SMTT(30), <2>7 DEF LoadStop
  <2>8. CASE NotAccounted
    BY SMTT(30), <2>8 DEF NotAccounted
  <2> QED BY <1>8, <2>1, <2>2, <2>3, <2>4, <2>5, <2>6, <2>7, <2>8 DEF Iteration
<1>9. CASE Accounting
  <2>1. CASE AccountPass
    BY SMTT(30), <2>1 DEF AccountPass
  <2>2. CASE AccountBurst
    BY SMTT(30), <2>2 DEF AccountBurst
  <2>3. CASE BurstOver
    BY SMTT(30), <2>3 DEF BurstOver
  <2> QED BY <1>9, <2>1, <2>2, <2>3 DEF Accounting
<1>10. CASE RxTask
  BY SMTT(30), <1>10 DEF RxPoll, RxDrain, RxTimeout, RxLeave, RxTask
<1> QED
  BY <1>1, <1>2, <1>3, <1>4, <1>5, <1>6, <1>7, <1>8, <1>9, <1>10 DEF Next, Command, Worker

\* The holder of a mutex is where it holds it; the RX task has the radio only
\* while nothing pauses it.
LEMMA LockInvPreserved ==
    ASSUME ArbitrationInv, Next
    PROVE  LockInv'
<1> USE DEF ArbitrationInv, TypeOK, DataTypes, FlagTypes, CommandInv, LockInv, WorkerInv,
        PauseHasCause, WorkerRunsItsLoop, ReceiveExclusion, TestModeIsSilent, At, RadioFree,
        Route, locks, host, looping, Answer, LoopFree, Goes, Acts, Standbys, Settlers,
        RadioStates, EnsureStandby, StartLoop, Stored, StoredFree, Refused, ResetUpload,
        ResetDownload, WorkerAt, Resting, flags, Rests, LoopUnavailable, Remaining,
        ClearLoop, Paused, NeedsReservation, Tasks, LoopConfigs, Commands, Places, Idle,
        Replies, Workers, Allowed, StopsLoop, Modes, NoLoop, Cancels, Starters, Sessions,
        Stages
<1>1. CASE \E c \in Commands : Dispatch(c)
  BY <1>1 DEF Dispatch
<1>2. CASE Admission
  BY SMTT(30), <1>2 DEF Reserve, Refuse, StopAsk, StopSeen, StopTimeout, StopLast,
     Admission
<1>3. CASE RadioCommand
  BY SMTT(30), <1>3 DEF CommandStop, CommandSettle, CommandChannel, CommandRx,
     CommandRxBusy, CommandText, TextSent, RadioCommand
<1>4. CASE LoopCommand
  BY SMTT(30), <1>4 DEF CommandKey, TakeLoop, RadioBusy, CommandTx, CommandTxHex,
     CommandStored, LoopCommand
<1>5. CASE ModeCommand
  BY SMTT(30), <1>5 DEF CommandTestOn, CommandTestOff, ModeCommand
<1>6. CASE SessionCommand
  BY SMTT(30), <1>6 DEF CommandUploadBegin, CommandDownloadBegin, CommandUploadEnd,
     CommandDownloadEnd, SessionCommand
<1>7. CASE Expire
  BY SMTT(30), <1>7 DEF Expire
<1>8. CASE Iteration
  <2>1. CASE Snapshot
    BY SMTT(30), <2>1 DEF Snapshot
  <2>2. CASE PassBegins
    BY SMTT(30), <2>2 DEF PassBegins
  <2>3. CASE PassEnds
    BY SMTT(30), <2>3 DEF PassEnds
  <2>4. CASE BurstBegins
    BY SMTT(30), <2>4 DEF BurstBegins
  <2>5. CASE BurstEnds
    BY SMTT(30), <2>5 DEF BurstEnds
  <2>6. CASE BurstStuck
    BY SMTT(30), <2>6 DEF BurstStuck
  <2>7. CASE LoadStop
    BY SMTT(30), <2>7 DEF LoadStop
  <2>8. CASE NotAccounted
    BY SMTT(30), <2>8 DEF NotAccounted
  <2> QED BY <1>8, <2>1, <2>2, <2>3, <2>4, <2>5, <2>6, <2>7, <2>8 DEF Iteration
<1>9. CASE Accounting
  <2>1. CASE AccountPass
    BY SMTT(30), <2>1 DEF AccountPass
  <2>2. CASE AccountBurst
    BY SMTT(30), <2>2 DEF AccountBurst
  <2>3. CASE BurstOver
    BY SMTT(30), <2>3 DEF BurstOver
  <2> QED BY <1>9, <2>1, <2>2, <2>3 DEF Accounting
<1>10. CASE RxTask
  BY SMTT(30), <1>10 DEF RxPoll, RxDrain, RxTimeout, RxLeave, RxTask
<1> QED
  BY <1>1, <1>2, <1>3, <1>4, <1>5, <1>6, <1>7, <1>8, <1>9, <1>10 DEF Next, Command, Worker

\* The pause between bursts belongs to the carrier loop alone.
LEMMA WorkerInvPreserved ==
    ASSUME ArbitrationInv, Next
    PROVE  WorkerInv'
<1> USE DEF ArbitrationInv, TypeOK, DataTypes, FlagTypes, CommandInv, LockInv, WorkerInv,
        PauseHasCause, WorkerRunsItsLoop, ReceiveExclusion, TestModeIsSilent, At, RadioFree,
        Route, locks, host, looping, Answer, LoopFree, Goes, Acts, Standbys, Settlers,
        RadioStates, EnsureStandby, StartLoop, Stored, StoredFree, Refused, ResetUpload,
        ResetDownload, WorkerAt, Resting, flags, Rests, LoopUnavailable, Remaining,
        ClearLoop, Paused, NeedsReservation, Tasks, LoopConfigs, Commands, Places, Idle,
        Replies, Workers, Allowed, StopsLoop, Modes, NoLoop, Cancels, Starters, Sessions,
        Stages
<1>1. CASE \E c \in Commands : Dispatch(c)
  BY <1>1 DEF Dispatch
<1>2. CASE Admission
  BY SMTT(30), <1>2 DEF Reserve, Refuse, StopAsk, StopSeen, StopTimeout, StopLast,
     Admission
<1>3. CASE RadioCommand
  BY SMTT(30), <1>3 DEF CommandStop, CommandSettle, CommandChannel, CommandRx,
     CommandRxBusy, CommandText, TextSent, RadioCommand
<1>4. CASE LoopCommand
  BY SMTT(30), <1>4 DEF CommandKey, TakeLoop, RadioBusy, CommandTx, CommandTxHex,
     CommandStored, LoopCommand
<1>5. CASE ModeCommand
  BY SMTT(30), <1>5 DEF CommandTestOn, CommandTestOff, ModeCommand
<1>6. CASE SessionCommand
  BY SMTT(30), <1>6 DEF CommandUploadBegin, CommandDownloadBegin, CommandUploadEnd,
     CommandDownloadEnd, SessionCommand
<1>7. CASE Expire
  BY SMTT(30), <1>7 DEF Expire
<1>8. CASE Iteration
  <2>1. CASE Snapshot
    BY SMTT(30), <2>1 DEF Snapshot
  <2>2. CASE PassBegins
    BY SMTT(30), <2>2 DEF PassBegins
  <2>3. CASE PassEnds
    BY SMTT(30), <2>3 DEF PassEnds
  <2>4. CASE BurstBegins
    BY SMTT(30), <2>4 DEF BurstBegins
  <2>5. CASE BurstEnds
    BY SMTT(30), <2>5 DEF BurstEnds
  <2>6. CASE BurstStuck
    BY SMTT(30), <2>6 DEF BurstStuck
  <2>7. CASE LoadStop
    BY SMTT(30), <2>7 DEF LoadStop
  <2>8. CASE NotAccounted
    BY SMTT(30), <2>8 DEF NotAccounted
  <2> QED BY <1>8, <2>1, <2>2, <2>3, <2>4, <2>5, <2>6, <2>7, <2>8 DEF Iteration
<1>9. CASE Accounting
  <2>1. CASE AccountPass
    BY SMTT(30), <2>1 DEF AccountPass
  <2>2. CASE AccountBurst
    BY SMTT(30), <2>2 DEF AccountBurst
  <2>3. CASE BurstOver
    BY SMTT(30), <2>3 DEF BurstOver
  <2> QED BY <1>9, <2>1, <2>2, <2>3 DEF Accounting
<1>10. CASE RxTask
  BY SMTT(30), <1>10 DEF RxPoll, RxDrain, RxTimeout, RxLeave, RxTask
<1> QED
  BY <1>1, <1>2, <1>3, <1>4, <1>5, <1>6, <1>7, <1>8, <1>9, <1>10 DEF Next, Command, Worker

\* The flags follow the sessions and the loop.
LEMMA PauseHasCausePreserved ==
    ASSUME ArbitrationInv, Next
    PROVE  PauseHasCause'
<1> USE DEF ArbitrationInv, TypeOK, DataTypes, FlagTypes, CommandInv, LockInv, WorkerInv,
        PauseHasCause, WorkerRunsItsLoop, ReceiveExclusion, TestModeIsSilent, At, RadioFree,
        Route, locks, host, looping, Answer, LoopFree, Goes, Acts, Standbys, Settlers,
        RadioStates, EnsureStandby, StartLoop, Stored, StoredFree, Refused, ResetUpload,
        ResetDownload, WorkerAt, Resting, flags, Rests, LoopUnavailable, Remaining,
        ClearLoop, Paused, NeedsReservation, Tasks, LoopConfigs, Commands, Places, Idle,
        Replies, Workers, Allowed, StopsLoop, Modes, NoLoop, Cancels, Starters, Sessions,
        Stages
<1>1. CASE \E c \in Commands : Dispatch(c)
  BY <1>1 DEF Dispatch
<1>2. CASE Admission
  BY SMTT(30), <1>2 DEF Reserve, Refuse, StopAsk, StopSeen, StopTimeout, StopLast,
     Admission
<1>3. CASE RadioCommand
  BY SMTT(30), <1>3 DEF CommandStop, CommandSettle, CommandChannel, CommandRx,
     CommandRxBusy, CommandText, TextSent, RadioCommand
<1>4. CASE LoopCommand
  BY SMTT(30), <1>4 DEF CommandKey, TakeLoop, RadioBusy, CommandTx, CommandTxHex,
     CommandStored, LoopCommand
<1>5. CASE ModeCommand
  BY SMTT(30), <1>5 DEF CommandTestOn, CommandTestOff, ModeCommand
<1>6. CASE SessionCommand
  BY SMTT(30), <1>6 DEF CommandUploadBegin, CommandDownloadBegin, CommandUploadEnd,
     CommandDownloadEnd, SessionCommand
<1>7. CASE Expire
  BY SMTT(30), <1>7 DEF Expire
<1>8. CASE Iteration
  <2>1. CASE Snapshot
    BY SMTT(30), <2>1 DEF Snapshot
  <2>2. CASE PassBegins
    BY SMTT(30), <2>2 DEF PassBegins
  <2>3. CASE PassEnds
    BY SMTT(30), <2>3 DEF PassEnds
  <2>4. CASE BurstBegins
    BY SMTT(30), <2>4 DEF BurstBegins
  <2>5. CASE BurstEnds
    BY SMTT(30), <2>5 DEF BurstEnds
  <2>6. CASE BurstStuck
    BY SMTT(30), <2>6 DEF BurstStuck
  <2>7. CASE LoadStop
    BY SMTT(30), <2>7 DEF LoadStop
  <2>8. CASE NotAccounted
    BY SMTT(30), <2>8 DEF NotAccounted
  <2> QED BY <1>8, <2>1, <2>2, <2>3, <2>4, <2>5, <2>6, <2>7, <2>8 DEF Iteration
<1>9. CASE Accounting
  <2>1. CASE AccountPass
    BY SMTT(30), <2>1 DEF AccountPass
  <2>2. CASE AccountBurst
    BY SMTT(30), <2>2 DEF AccountBurst
  <2>3. CASE BurstOver
    BY SMTT(30), <2>3 DEF BurstOver
  <2> QED BY <1>9, <2>1, <2>2, <2>3 DEF Accounting
<1>10. CASE RxTask
  BY SMTT(30), <1>10 DEF RxPoll, RxDrain, RxTimeout, RxLeave, RxTask
<1> QED
  BY <1>1, <1>2, <1>3, <1>4, <1>5, <1>6, <1>7, <1>8, <1>9, <1>10 DEF Next, Command, Worker

\* A loop is neither cleared nor replaced while the worker is in an iteration.
LEMMA WorkerRunsItsLoopPreserved ==
    ASSUME ArbitrationInv, Next
    PROVE  WorkerRunsItsLoop'
<1> USE DEF ArbitrationInv, TypeOK, DataTypes, FlagTypes, CommandInv, LockInv, WorkerInv,
        PauseHasCause, WorkerRunsItsLoop, ReceiveExclusion, TestModeIsSilent, At, RadioFree,
        Route, locks, host, looping, Answer, LoopFree, Goes, Acts, Standbys, Settlers,
        RadioStates, EnsureStandby, StartLoop, Stored, StoredFree, Refused, ResetUpload,
        ResetDownload, WorkerAt, Resting, flags, Rests, LoopUnavailable, Remaining,
        ClearLoop, Paused, NeedsReservation, Tasks, LoopConfigs, Commands, Places, Idle,
        Replies, Workers, Allowed, StopsLoop, Modes, NoLoop, Cancels, Starters, Sessions,
        Stages
<1>1. CASE \E c \in Commands : Dispatch(c)
  BY <1>1 DEF Dispatch
<1>2. CASE Admission
  BY SMTT(30), <1>2 DEF Reserve, Refuse, StopAsk, StopSeen, StopTimeout, StopLast,
     Admission
<1>3. CASE RadioCommand
  BY SMTT(30), <1>3 DEF CommandStop, CommandSettle, CommandChannel, CommandRx,
     CommandRxBusy, CommandText, TextSent, RadioCommand
<1>4. CASE LoopCommand
  BY SMTT(30), <1>4 DEF CommandKey, TakeLoop, RadioBusy, CommandTx, CommandTxHex,
     CommandStored, LoopCommand
<1>5. CASE ModeCommand
  BY SMTT(30), <1>5 DEF CommandTestOn, CommandTestOff, ModeCommand
<1>6. CASE SessionCommand
  BY SMTT(30), <1>6 DEF CommandUploadBegin, CommandDownloadBegin, CommandUploadEnd,
     CommandDownloadEnd, SessionCommand
<1>7. CASE Expire
  BY SMTT(30), <1>7 DEF Expire
<1>8. CASE Iteration
  <2>1. CASE Snapshot
    BY SMTT(30), <2>1 DEF Snapshot
  <2>2. CASE PassBegins
    BY SMTT(30), <2>2 DEF PassBegins
  <2>3. CASE PassEnds
    BY SMTT(30), <2>3 DEF PassEnds
  <2>4. CASE BurstBegins
    BY SMTT(30), <2>4 DEF BurstBegins
  <2>5. CASE BurstEnds
    BY SMTT(30), <2>5 DEF BurstEnds
  <2>6. CASE BurstStuck
    BY SMTT(30), <2>6 DEF BurstStuck
  <2>7. CASE LoadStop
    BY SMTT(30), <2>7 DEF LoadStop
  <2>8. CASE NotAccounted
    BY SMTT(30), <2>8 DEF NotAccounted
  <2> QED BY <1>8, <2>1, <2>2, <2>3, <2>4, <2>5, <2>6, <2>7, <2>8 DEF Iteration
<1>9. CASE Accounting
  <2>1. CASE AccountPass
    BY SMTT(30), <2>1 DEF AccountPass
  <2>2. CASE AccountBurst
    BY SMTT(30), <2>2 DEF AccountBurst
  <2>3. CASE BurstOver
    BY SMTT(30), <2>3 DEF BurstOver
  <2> QED BY <1>9, <2>1, <2>2, <2>3 DEF Accounting
<1>10. CASE RxTask
  BY SMTT(30), <1>10 DEF RxPoll, RxDrain, RxTimeout, RxLeave, RxTask
<1> QED
  BY <1>1, <1>2, <1>3, <1>4, <1>5, <1>6, <1>7, <1>8, <1>9, <1>10 DEF Next, Command, Worker

\* Standby is answered only when nothing is left that could end it.
LEMMA StandbyIsFinalPreserved ==
    ASSUME ArbitrationInv, Next
    PROVE  StandbyIsFinal'
<1> USE DEF ArbitrationInv, TypeOK, DataTypes, FlagTypes, CommandInv, LockInv, WorkerInv,
        PauseHasCause, WorkerRunsItsLoop, ReceiveExclusion, TestModeIsSilent,
        StandbyIsFinal, At, RadioFree, Route, locks, host, looping, Answer, LoopFree, Goes,
        Acts, Standbys, Settlers, RadioStates, EnsureStandby, StartLoop, Stored, StoredFree,
        Refused, ResetUpload, ResetDownload, WorkerAt, Resting, flags, Rests,
        LoopUnavailable, Remaining, ClearLoop, Paused, NeedsReservation, Tasks, LoopConfigs,
        Commands, Places, Idle, Replies, Workers, Allowed, StopsLoop, Modes, NoLoop,
        Cancels, Starters, Sessions, Stages
<1>1. CASE \E c \in Commands : Dispatch(c)
  BY <1>1 DEF Dispatch
<1>2. CASE Admission
  BY SMTT(30), <1>2 DEF Reserve, Refuse, StopAsk, StopSeen, StopTimeout, StopLast,
     Admission
<1>3. CASE RadioCommand
  BY SMTT(30), <1>3 DEF CommandStop, CommandSettle, CommandChannel, CommandRx,
     CommandRxBusy, CommandText, TextSent, RadioCommand
<1>4. CASE LoopCommand
  BY SMTT(30), <1>4 DEF CommandKey, TakeLoop, RadioBusy, CommandTx, CommandTxHex,
     CommandStored, LoopCommand
<1>5. CASE ModeCommand
  BY SMTT(30), <1>5 DEF CommandTestOn, CommandTestOff, ModeCommand
<1>6. CASE SessionCommand
  BY SMTT(30), <1>6 DEF CommandUploadBegin, CommandDownloadBegin, CommandUploadEnd,
     CommandDownloadEnd, SessionCommand
<1>7. CASE Expire
  BY SMTT(30), <1>7 DEF Expire
<1>8. CASE Iteration
  <2>1. CASE Snapshot
    BY SMTT(30), <2>1 DEF Snapshot
  <2>2. CASE PassBegins
    BY SMTT(30), <2>2 DEF PassBegins
  <2>3. CASE PassEnds
    BY SMTT(30), <2>3 DEF PassEnds
  <2>4. CASE BurstBegins
    BY SMTT(30), <2>4 DEF BurstBegins
  <2>5. CASE BurstEnds
    BY SMTT(30), <2>5 DEF BurstEnds
  <2>6. CASE BurstStuck
    BY SMTT(30), <2>6 DEF BurstStuck
  <2>7. CASE LoadStop
    BY SMTT(30), <2>7 DEF LoadStop
  <2>8. CASE NotAccounted
    BY SMTT(30), <2>8 DEF NotAccounted
  <2> QED BY <1>8, <2>1, <2>2, <2>3, <2>4, <2>5, <2>6, <2>7, <2>8 DEF Iteration
<1>9. CASE Accounting
  <2>1. CASE AccountPass
    BY SMTT(30), <2>1 DEF AccountPass
  <2>2. CASE AccountBurst
    BY SMTT(30), <2>2 DEF AccountBurst
  <2>3. CASE BurstOver
    BY SMTT(30), <2>3 DEF BurstOver
  <2> QED BY <1>9, <2>1, <2>2, <2>3 DEF Accounting
<1>10. CASE RxTask
  BY SMTT(30), <1>10 DEF RxPoll, RxDrain, RxTimeout, RxLeave, RxTask
<1> QED
  BY <1>1, <1>2, <1>3, <1>4, <1>5, <1>6, <1>7, <1>8, <1>9, <1>10 DEF Next, Command, Worker

\* A receive begins only while nothing pauses RX, and RX is paused only while
\* there is no receive.
LEMMA ReceiveExclusionPreserved ==
    ASSUME ArbitrationInv, Next
    PROVE  ReceiveExclusion'
<1> USE DEF ArbitrationInv, TypeOK, DataTypes, FlagTypes, CommandInv, LockInv, WorkerInv,
        PauseHasCause, WorkerRunsItsLoop, ReceiveExclusion, TestModeIsSilent, At, RadioFree,
        Route, locks, host, looping, Answer, LoopFree, Goes, Acts, Standbys, Settlers,
        RadioStates, EnsureStandby, StartLoop, Stored, StoredFree, Refused, ResetUpload,
        ResetDownload, WorkerAt, Resting, flags, Rests, LoopUnavailable, Remaining,
        ClearLoop, Paused, NeedsReservation, Tasks, LoopConfigs, Commands, Places, Idle,
        Replies, Workers, Allowed, StopsLoop, Modes, NoLoop, Cancels, Starters, Sessions,
        Stages
<1>1. CASE \E c \in Commands : Dispatch(c)
  BY <1>1 DEF Dispatch
<1>2. CASE Admission
  <2>1. CASE Reserve
    BY SMTT(30), <2>1 DEF Reserve
  <2>2. CASE Refuse
    BY SMTT(30), <2>2 DEF Refuse
  <2>3. CASE StopAsk
    BY SMTT(30), <2>3 DEF StopAsk
  <2>4. CASE StopSeen
    BY SMTT(30), <2>4 DEF StopSeen
  <2>5. CASE StopTimeout
    BY SMTT(30), <2>5 DEF StopTimeout
  <2>6. CASE StopLast
    BY SMTT(30), <2>6 DEF StopLast
  <2> QED BY <1>2, <2>1, <2>2, <2>3, <2>4, <2>5, <2>6 DEF Admission
<1>3. CASE RadioCommand
  <2>1. CASE CommandStop
    BY SMTT(30), <2>1 DEF CommandStop
  <2>2. CASE CommandSettle
    BY SMTT(30), <2>2 DEF CommandSettle
  <2>3. CASE CommandChannel
    BY SMTT(30), <2>3 DEF CommandChannel
  <2>4. CASE CommandRx
    <3>1. UNCHANGED Paused
      BY <2>4 DEF CommandRx
    <3>2. receiving' => receiving
      BY <2>4 DEF CommandRx
    <3> QED BY <3>1, <3>2
  <2>5. CASE CommandRxBusy
    BY SMTT(30), <2>5 DEF CommandRxBusy
  <2>6. CASE CommandText
    BY SMTT(30), <2>6 DEF CommandText
  <2>7. CASE TextSent
    BY SMTT(30), <2>7 DEF TextSent
  <2> QED BY <1>3, <2>1, <2>2, <2>3, <2>4, <2>5, <2>6, <2>7 DEF RadioCommand
<1>4. CASE LoopCommand
  BY ZenonT(30), <1>4 DEF CommandKey, TakeLoop, RadioBusy, CommandTx, CommandTxHex,
     CommandStored, LoopCommand
<1>5. CASE ModeCommand
  <2>1. CASE CommandTestOn
    BY SMTT(30), <2>1 DEF CommandTestOn
  <2>2. CASE CommandTestOff
    BY SMTT(30), <2>2 DEF CommandTestOff
  <2> QED BY <1>5, <2>1, <2>2 DEF ModeCommand
<1>6. CASE SessionCommand
  <2>1. CASE CommandUploadBegin
    BY SMTT(30), <2>1 DEF CommandUploadBegin
  <2>2. CASE CommandDownloadBegin
    BY SMTT(30), <2>2 DEF CommandDownloadBegin
  <2>3. CASE CommandUploadEnd
    BY SMTT(30), <2>3 DEF CommandUploadEnd
  <2>4. CASE CommandDownloadEnd
    BY SMTT(30), <2>4 DEF CommandDownloadEnd
  <2> QED BY <1>6, <2>1, <2>2, <2>3, <2>4 DEF SessionCommand
<1>7. CASE Expire
  BY SMTT(30), <1>7 DEF Expire
<1>8. CASE Iteration
  BY ZenonT(30), <1>8 DEF Snapshot, PassBegins, PassEnds, BurstBegins, BurstEnds,
     BurstStuck, LoadStop, NotAccounted, Iteration
<1>9. CASE Accounting
  BY ZenonT(30), <1>9 DEF AccountPass, AccountBurst, BurstOver, Accounting
<1>10. CASE RxTask
  <2>1. CASE RxPoll
    BY SMTT(30), <2>1 DEF RxPoll
  <2>2. CASE RxDrain
    BY SMTT(30), <2>2 DEF RxDrain
  <2>3. CASE RxTimeout
    BY SMTT(30), <2>3 DEF RxTimeout
  <2>4. CASE RxLeave
    BY SMTT(30), <2>4 DEF RxLeave
  <2> QED BY <1>10, <2>1, <2>2, <2>3, <2>4 DEF RxTask
<1> QED
  BY <1>1, <1>2, <1>3, <1>4, <1>5, <1>6, <1>7, <1>8, <1>9, <1>10 DEF Next, Command, Worker

\* Test mode begins in silence, and what it lets in is silent.
LEMMA TestModeIsSilentPreserved ==
    ASSUME ArbitrationInv, Next
    PROVE  TestModeIsSilent'
<1> USE DEF ArbitrationInv, TypeOK, DataTypes, FlagTypes, CommandInv, LockInv, WorkerInv,
        PauseHasCause, WorkerRunsItsLoop, ReceiveExclusion, TestModeIsSilent, At, RadioFree,
        Route, locks, host, looping, Answer, LoopFree, Goes, Acts, Standbys, Settlers,
        RadioStates, EnsureStandby, StartLoop, Stored, StoredFree, Refused, ResetUpload,
        ResetDownload, WorkerAt, Resting, flags, Rests, LoopUnavailable, Remaining,
        ClearLoop, Paused, NeedsReservation, Tasks, LoopConfigs, Commands, Places, Idle,
        Replies, Workers, Allowed, StopsLoop, Modes, NoLoop, Cancels, Starters, Sessions,
        Stages
<1>1. CASE \E c \in Commands : Dispatch(c)
  BY <1>1 DEF Dispatch
<1>2. CASE Admission
  <2>1. CASE Reserve
    BY SMTT(30), <2>1 DEF Reserve
  <2>2. CASE Refuse
    BY SMTT(30), <2>2 DEF Refuse
  <2>3. CASE StopAsk
    BY SMTT(30), <2>3 DEF StopAsk
  <2>4. CASE StopSeen
    BY SMTT(30), <2>4 DEF StopSeen
  <2>5. CASE StopTimeout
    BY SMTT(30), <2>5 DEF StopTimeout
  <2>6. CASE StopLast
    BY SMTT(30), <2>6 DEF StopLast
  <2> QED BY <1>2, <2>1, <2>2, <2>3, <2>4, <2>5, <2>6 DEF Admission
<1>3. CASE RadioCommand
  <2>1. CASE CommandStop
    BY SMTT(30), <2>1 DEF CommandStop
  <2>2. CASE CommandSettle
    BY SMTT(30), <2>2 DEF CommandSettle
  <2>3. CASE CommandChannel
    BY SMTT(30), <2>3 DEF CommandChannel
  <2>4. CASE CommandRx
    BY SMTT(30), <2>4 DEF CommandRx
  <2>5. CASE CommandRxBusy
    BY SMTT(30), <2>5 DEF CommandRxBusy
  <2>6. CASE CommandText
    BY SMTT(30), <2>6 DEF CommandText
  <2>7. CASE TextSent
    BY SMTT(30), <2>7 DEF TextSent
  <2> QED BY <1>3, <2>1, <2>2, <2>3, <2>4, <2>5, <2>6, <2>7 DEF RadioCommand
<1>4. CASE LoopCommand
  <2>1. CASE CommandKey
    BY SMTT(30), <2>1 DEF CommandKey
  <2>2. CASE TakeLoop
    BY SMTT(30), <2>2 DEF TakeLoop
  <2>3. CASE RadioBusy
    BY SMTT(30), <2>3 DEF RadioBusy
  <2>4. CASE CommandTx
    BY SMTT(30), <2>4 DEF CommandTx
  <2>5. CASE CommandTxHex
    BY SMTT(30), <2>5 DEF CommandTxHex
  <2>6. CASE CommandStored
    BY SMTT(30), <2>6 DEF CommandStored
  <2> QED BY <1>4, <2>1, <2>2, <2>3, <2>4, <2>5, <2>6 DEF LoopCommand
<1>5. CASE ModeCommand
  <2>1. CASE CommandTestOn
    <3>1. CASE testMode
      BY SMTT(30), <2>1, <3>1 DEF CommandTestOn
    <3>2. CASE ~ testMode
      <4>1. ~ receiving' /\ ~ loop'.active
        BY SMTT(30), <2>1, <3>2 DEF CommandTestOn
      <4>2. testMode' => radio' \notin {"RxListening", "CwTest"}
        BY SMTT(30), <2>1, <3>2 DEF CommandTestOn
      <4> QED BY <4>1, <4>2
    <3> QED BY <3>1, <3>2
  <2>2. CASE CommandTestOff
    BY SMTT(30), <2>2 DEF CommandTestOff
  <2> QED BY <1>5, <2>1, <2>2 DEF ModeCommand
<1>6. CASE SessionCommand
  <2>1. CASE CommandUploadBegin
    BY SMTT(30), <2>1 DEF CommandUploadBegin
  <2>2. CASE CommandDownloadBegin
    BY SMTT(30), <2>2 DEF CommandDownloadBegin
  <2>3. CASE CommandUploadEnd
    BY SMTT(30), <2>3 DEF CommandUploadEnd
  <2>4. CASE CommandDownloadEnd
    BY SMTT(30), <2>4 DEF CommandDownloadEnd
  <2> QED BY <1>6, <2>1, <2>2, <2>3, <2>4 DEF SessionCommand
<1>7. CASE Expire
  <2>1. CASE Expire
    BY SMTT(30), <2>1 DEF Expire
  <2> QED BY <1>7, <2>1
<1>8. CASE Iteration
  <2>1. CASE Snapshot
    BY SMTT(30), <2>1 DEF Snapshot
  <2>2. CASE PassBegins
    BY SMTT(30), <2>2 DEF PassBegins
  <2>3. CASE PassEnds
    BY SMTT(30), <2>3 DEF PassEnds
  <2>4. CASE BurstBegins
    BY SMTT(30), <2>4 DEF BurstBegins
  <2>5. CASE BurstEnds
    BY SMTT(30), <2>5 DEF BurstEnds
  <2>6. CASE BurstStuck
    BY SMTT(30), <2>6 DEF BurstStuck
  <2>7. CASE LoadStop
    BY SMTT(30), <2>7 DEF LoadStop
  <2>8. CASE NotAccounted
    BY SMTT(30), <2>8 DEF NotAccounted
  <2> QED BY <1>8, <2>1, <2>2, <2>3, <2>4, <2>5, <2>6, <2>7, <2>8 DEF Iteration
<1>9. CASE Accounting
  <2>1. CASE AccountPass
    BY SMTT(30), <2>1 DEF AccountPass
  <2>2. CASE AccountBurst
    BY SMTT(30), <2>2 DEF AccountBurst
  <2>3. CASE BurstOver
    BY SMTT(30), <2>3 DEF BurstOver
  <2> QED BY <1>9, <2>1, <2>2, <2>3 DEF Accounting
<1>10. CASE RxTask
  <2>1. CASE RxPoll
    BY SMTT(30), <2>1 DEF RxPoll
  <2>2. CASE RxDrain
    BY SMTT(30), <2>2 DEF RxDrain
  <2>3. CASE RxTimeout
    BY SMTT(30), <2>3 DEF RxTimeout
  <2>4. CASE RxLeave
    BY SMTT(30), <2>4 DEF RxLeave
  <2> QED BY <1>10, <2>1, <2>2, <2>3, <2>4 DEF RxTask
<1> QED
  BY <1>1, <1>2, <1>3, <1>4, <1>5, <1>6, <1>7, <1>8, <1>9, <1>10 DEF Next, Command, Worker

\* Starting a loop withdraws the stop request.
LEMMA StopWasMeantPreserved ==
    ASSUME ArbitrationInv, Next
    PROVE  StopWasMeant'
<1> USE DEF ArbitrationInv, StopWasMeant, At, RadioFree, locks, host, looping, Answer,
        LoopFree, Goes, Acts, EnsureStandby, StartLoop, Refused, ResetUpload, ResetDownload,
        WorkerAt, flags, Rests, ClearLoop, Paused
<1>1. CASE \E c \in Commands : Dispatch(c)
  BY <1>1 DEF Dispatch
<1>2. CASE Admission
  BY ZenonT(30), <1>2 DEF Reserve, Refuse, StopAsk, StopSeen, StopTimeout, StopLast,
     Admission
<1>3. CASE RadioCommand
  BY ZenonT(30), <1>3 DEF CommandStop, CommandSettle, CommandChannel, CommandRx,
     CommandRxBusy, CommandText, TextSent, RadioCommand
<1>4. CASE LoopCommand
  BY ZenonT(30), <1>4 DEF CommandKey, TakeLoop, RadioBusy, CommandTx, CommandTxHex,
     CommandStored, LoopCommand
<1>5. CASE ModeCommand
  BY ZenonT(30), <1>5 DEF CommandTestOn, CommandTestOff, ModeCommand
<1>6. CASE SessionCommand
  BY ZenonT(30), <1>6 DEF CommandUploadBegin, CommandDownloadBegin, CommandUploadEnd,
     CommandDownloadEnd, SessionCommand
<1>7. CASE Expire
  BY ZenonT(30), <1>7 DEF Expire
<1>8. CASE Iteration
  BY ZenonT(30), <1>8 DEF Snapshot, PassBegins, PassEnds, BurstBegins, BurstEnds,
     BurstStuck, LoadStop, NotAccounted, Iteration
<1>9. CASE Accounting
  BY ZenonT(30), <1>9 DEF AccountPass, AccountBurst, BurstOver, Accounting
<1>10. CASE RxTask
  BY ZenonT(30), <1>10 DEF RxPoll, RxDrain, RxTimeout, RxLeave, RxTask
<1> QED
  BY <1>1, <1>2, <1>3, <1>4, <1>5, <1>6, <1>7, <1>8, <1>9, <1>10 DEF Next, Command, Worker

\* Nobody but the worker touches a loop that is active: commands start one only
\* when there is none.
LEMMA CommandsAndPasses ==
    ASSUME ArbitrationInv, (\E c \in Commands : Dispatch(c)) \/ Command \/ Expire \/ RxTask
    PROVE  /\ UNCHANGED worker
           /\ \/ UNCHANGED <<loop, passes>>
              \/ /\ ~ loop.active
                 /\ \/ \E mode \in Modes : StartLoop(mode, TRUE, 0)
                    \/ \E mode \in {"Tx", "Morse"}, count \in 1 .. MaxPasses :
                          StartLoop(mode, FALSE, count)
<1> USE DEF looping, passes
<1>1. CASE (\E c \in Commands : Dispatch(c)) \/ Expire \/ RxTask
  BY <1>1 DEF Dispatch, Expire, RxTask, RxPoll, RxDrain, RxTimeout, RxLeave
<1>2. CASE Admission \/ RadioCommand \/ ModeCommand \/ SessionCommand
  BY <1>2 DEF Admission, Reserve, Refuse, StopAsk, StopSeen, StopTimeout, StopLast,
     RadioCommand, CommandStop, CommandSettle, CommandChannel, CommandRx, CommandRxBusy,
     CommandText, TextSent, ModeCommand, CommandTestOn, CommandTestOff, SessionCommand,
     CommandUploadBegin, CommandDownloadBegin, CommandUploadEnd, CommandDownloadEnd
<1>3. 1 \in 1 .. MaxPasses
  BY ArbitrationAssumption
<1>4. CASE CommandKey
  <2>1. ~ loop.active
    BY <1>4 DEF CommandKey, At, ArbitrationInv, CommandInv, StopsLoop, Starters
  <2> QED BY <1>3, <1>4, <2>1 DEF CommandKey, Modes
<1>5. CASE CommandTx
  <2>1. ~ loop.active
    BY <1>5 DEF CommandTx, At, ArbitrationInv, CommandInv
  <2> QED BY <1>5, <2>1 DEF CommandTx, Modes
<1>6. CASE CommandTxHex
  BY <1>3, <1>6 DEF CommandTxHex, StoredFree, Modes
<1>7. CASE TakeLoop \/ RadioBusy \/ CommandStored
  BY <1>7 DEF TakeLoop, RadioBusy, CommandStored
<1> QED BY <1>1, <1>2, <1>4, <1>5, <1>6, <1>7 DEF Command, LoopCommand

\* The counts of a loop keep their bounds.
LEMMA PassTypesPreserved ==
    ASSUME ArbitrationInv, Next
    PROVE  PassTypes'
<1> USE DEF passes, looping
<1>1. /\ MaxPasses \in Nat /\ MaxMissed \in Nat /\ PassTypes
      /\ owed \in Int /\ missed \in Nat /\ repeats \in Nat
  BY ArbitrationAssumption DEF ArbitrationInv, TypeOK, PassTypes
<1>2. UNCHANGED passes => PassTypes'
  BY <1>1 DEF PassTypes
<1>3. ASSUME NEW mode, NEW infinite, NEW count \in 0 .. MaxPasses,
             StartLoop(mode, infinite, count)
      PROVE  PassTypes'
  BY <1>1, <1>3 DEF StartLoop, PassTypes
<1>4. CASE (\E c \in Commands : Dispatch(c)) \/ Command \/ Expire \/ RxTask
  <2>1. \/ UNCHANGED passes
        \/ \E mode \in Modes, infinite \in BOOLEAN, count \in 0 .. MaxPasses :
              StartLoop(mode, infinite, count)
    <3>1. 0 \in 0 .. MaxPasses /\ 1 .. MaxPasses \subseteq 0 .. MaxPasses
          /\ {"Tx", "Morse"} \subseteq Modes
      BY <1>1 DEF Modes
    <3>2. \/ UNCHANGED passes
          \/ \E mode \in Modes : StartLoop(mode, TRUE, 0)
          \/ \E mode \in {"Tx", "Morse"}, count \in 1 .. MaxPasses :
                StartLoop(mode, FALSE, count)
      BY <1>4, CommandsAndPasses
    <3> QED BY <3>1, <3>2
  <2> QED BY <1>2, <1>3, <2>1
<1>5. CASE PassEnds
  <2>1. /\ owed' = owed \/ (owed' = owed - 1 /\ owed + repeats >= 0)
        /\ UNCHANGED <<missed, repeats>>
    BY <1>5 DEF PassEnds
  <2> QED BY <1>1, <2>1 DEF PassTypes
<1>6. CASE NotAccounted
  <2>1. /\ missed < MaxMissed /\ missed' = missed + 1 /\ UNCHANGED owed
        /\ repeats' = repeats \/ repeats' = repeats + 1
    BY <1>6 DEF NotAccounted, LoopUnavailable
  <2> QED BY <1>1, <2>1 DEF PassTypes
<1>7. CASE Snapshot \/ PassBegins \/ BurstBegins \/ BurstEnds \/ BurstStuck \/ LoadStop
  BY <1>2, <1>7 DEF Snapshot, PassBegins, BurstBegins, BurstEnds, BurstStuck, LoadStop
<1>8. CASE Accounting
  BY <1>2, <1>8 DEF Accounting, AccountPass, AccountBurst, BurstOver, ClearLoop
<1> QED BY <1>4, <1>5, <1>6, <1>7, <1>8 DEF Next, Worker, Iteration

-----------------------------------------------------------------------------
\* A board that boots satisfies the invariant.
LEMMA InitSatisfies == Init => ArbitrationInv
<1> SUFFICES ASSUME Init PROVE ArbitrationInv
  OBVIOUS
<1> USE DEF Init
<1>1. DataTypes
  <2>1. loop \in LoopConfigs
    BY LoopTypes
  <2>2. worker \in Workers
    BY WorkerTypes
  <2>3. radio \in RadioStates /\ radioLock \in Tasks /\ reply \in Replies
    BY DEF RadioStates, Tasks, Replies
  <2>4. loopLock \in {"none", "command"} /\ cmd \in [name : Commands, pc : Places] \cup {Idle}
    OBVIOUS
  <2> QED BY ONLY <2>1, <2>2, <2>3, <2>4 DEF DataTypes
<1>2. FlagTypes /\ PassTypes
  <2>1. PassTypes
    BY ArbitrationAssumption DEF PassTypes
  <2> QED BY Zenon, <2>1 DEF FlagTypes
<1>3. CommandInv /\ LockInv /\ WorkerInv
  BY DEF CommandInv, LockInv, WorkerInv, Idle, Resting, NoLoop, Paused
<1>4. ReceiveExclusion /\ PauseHasCause /\ WorkerRunsItsLoop
  BY DEF ReceiveExclusion, PauseHasCause, WorkerRunsItsLoop, NoLoop, Resting
<1>5. StandbyIsFinal /\ StopWasMeant /\ TestModeIsSilent
  BY DEF StandbyIsFinal, StopWasMeant, TestModeIsSilent, NoLoop
<1> QED BY <1>1, <1>2, <1>3, <1>4, <1>5 DEF ArbitrationInv, TypeOK

\* No step of a command, of the worker or of the RX task leaves it.
LEMMA StepPreserves == ArbitrationInv /\ [Next]_vars => ArbitrationInv'
<1> SUFFICES ASSUME ArbitrationInv, [Next]_vars PROVE ArbitrationInv'
  OBVIOUS
<1>1. CASE Next
  BY <1>1, DataTypesPreserved, FlagTypesPreserved, PassTypesPreserved, CommandInvPreserved,
     LockInvPreserved,
     WorkerInvPreserved, ReceiveExclusionPreserved, PauseHasCausePreserved,
     WorkerRunsItsLoopPreserved, StandbyIsFinalPreserved, StopWasMeantPreserved,
     TestModeIsSilentPreserved DEF ArbitrationInv, TypeOK
<1>2. CASE UNCHANGED vars
  <2> USE <1>2 DEF ArbitrationInv, vars, flags, locks, host, looping, passes
  <2>1. TypeOK'
    BY Zenon DEF TypeOK, DataTypes, FlagTypes, PassTypes
  <2>2. CommandInv' /\ LockInv' /\ WorkerInv'
    BY DEF CommandInv, LockInv, WorkerInv, Paused, Allowed, StopsLoop
  <2>3. ReceiveExclusion' /\ PauseHasCause' /\ WorkerRunsItsLoop'
    BY DEF ReceiveExclusion, Paused, PauseHasCause, WorkerRunsItsLoop
  <2>4. StandbyIsFinal' /\ StopWasMeant' /\ TestModeIsSilent'
    BY DEF StandbyIsFinal, StopWasMeant, TestModeIsSilent
  <2> QED BY <2>1, <2>2, <2>3, <2>4
<1> QED BY <1>1, <1>2

\* The flags, locks and places of commands, worker and RX task always fit
\* together as ArbitrationInv says.
THEOREM ArbitrationInvariant == Spec => []ArbitrationInv
<1>1. Init => ArbitrationInv
  BY InitSatisfies
<1>2. ArbitrationInv /\ [Next]_vars => ArbitrationInv'
  BY StepPreserves
<1> QED BY <1>1, <1>2, PTL DEF Spec

\* Every variable keeps its type; the count of a loop never falls below zero.
THEOREM TypeCorrectness == Spec => []TypeOK
<1>1. ArbitrationInv => TypeOK
  BY DEF ArbitrationInv
<1> QED BY <1>1, ArbitrationInvariant, PTL

\* No receive is under way while a command that reserved the receiver, a
\* transfer with the PC or a queued loop is.
THEOREM ReceiveIsExclusive == Spec => []ReceiveExclusion
<1>1. ArbitrationInv => ReceiveExclusion
  BY DEF ArbitrationInv
<1> QED BY <1>1, ArbitrationInvariant, PTL

\* Each of the flags that pause RX is set exactly while its cause lasts.
THEOREM PauseIsJustified == Spec => []PauseHasCause
<1>1. ArbitrationInv => PauseHasCause
  BY DEF ArbitrationInv
<1> QED BY <1>1, ArbitrationInvariant, PTL

\* The worker's snapshot of the loop is never stale.
THEOREM SnapshotIsCurrent == Spec => []WorkerRunsItsLoop
<1>1. ArbitrationInv => WorkerRunsItsLoop
  BY DEF ArbitrationInv
<1> QED BY <1>1, ArbitrationInvariant, PTL

\* After a command has answered that the radio is in standby, it is, and stays
\* so until the next command.
THEOREM StandbyHolds == Spec => []StandbyIsFinal
<1>1. ArbitrationInv => StandbyIsFinal
  BY DEF ArbitrationInv
<1> QED BY <1>1, ArbitrationInvariant, PTL

\* No loop is stopped by a request that was made for an earlier one.
THEOREM StopIsMeant == Spec => []StopWasMeant
<1>1. ArbitrationInv => StopWasMeant
  BY DEF ArbitrationInv
<1> QED BY <1>1, ArbitrationInvariant, PTL

\* Nothing listens or transmits in test mode.
THEOREM TestModeHolds == Spec => []TestModeIsSilent
<1>1. ArbitrationInv => TestModeIsSilent
  BY DEF ArbitrationInv
<1> QED BY <1>1, ArbitrationInvariant, PTL

-----------------------------------------------------------------------------
\* During a receive no command but those without a reservation is past its
\* admission, there is no loop, and the worker rests.
LEMMA Undisturbed ==
    ASSUME ArbitrationInv, receiving
    PROVE  /\ ~ reserved /\ ~ loop.active /\ worker.pc = "idle"
           /\ cmd.pc \in {"idle", "reserve"} \/ ~ NeedsReservation(cmd.name)
BY DEF ArbitrationInv, ReceiveExclusion, Paused, PauseHasCause, WorkerRunsItsLoop, CommandInv

\* One step: a receive is dropped, or taken out of RX, by the RX task or STOP.
LEMMA StepUndisturbed ==
    ASSUME ArbitrationInv, [Next]_vars, receiving,
           ~ receiving' \/ (radio = "RxListening" /\ radio' # radio)
    PROVE  radioLock = "rx" \/ cmd.name = "STOP"
<1> USE Undisturbed
<1>1. CASE UNCHANGED vars
  BY <1>1 DEF vars
<1>2. CASE (\E c \in Commands : Dispatch(c)) \/ Admission \/ Expire
  BY <1>2 DEF Dispatch, Admission, Reserve, Refuse, StopAsk, StopSeen, StopTimeout, StopLast,
     Expire
<1>3. CASE RadioCommand
  <2>1. CASE CommandStop
    BY <2>1 DEF CommandStop, Acts
  <2>2. CASE CommandRx \/ CommandRxBusy
    BY <2>2 DEF CommandRx, CommandRxBusy
  <2>3. CASE CommandSettle \/ CommandChannel \/ CommandText \/ TextSent
    BY <2>3 DEF CommandSettle, CommandChannel, CommandText, TextSent, Acts, At,
       NeedsReservation, Cancels, Settlers, ArbitrationInv, CommandInv
  <2> QED BY <1>3, <2>1, <2>2, <2>3 DEF RadioCommand
<1>4. CASE LoopCommand
  <2>1. CASE CommandTxHex
    BY <2>1 DEF CommandTxHex, StoredFree
  <2> QED BY <1>4, <2>1 DEF LoopCommand, CommandKey, TakeLoop, RadioBusy, CommandTx,
       CommandStored
<1>5. CASE ModeCommand \/ SessionCommand
  BY <1>5 DEF ModeCommand, CommandTestOn, CommandTestOff, SessionCommand, CommandUploadBegin,
     CommandDownloadBegin, CommandUploadEnd, CommandDownloadEnd, Acts, At, NeedsReservation,
     Cancels
<1>6. CASE Worker
  BY <1>6 DEF Worker, Iteration, Accounting, Snapshot, PassBegins, PassEnds, BurstBegins,
     BurstEnds, BurstStuck, LoadStop, NotAccounted, AccountPass, AccountBurst, BurstOver,
     WorkerAt
<1>7. CASE RxTask
  BY <1>7 DEF RxTask, RxPoll, RxDrain, RxTimeout, RxLeave
<1> QED BY <1>1, <1>2, <1>3, <1>4, <1>5, <1>6, <1>7 DEF Next, Command

\* A receive is ended by the RX task or by STOP, by nothing else: neither by a
\* repeated RX nor by a loop, a transfer with the PC or an expiry.
THEOREM ReceiveIsUndisturbed == Spec => ReceiveUndisturbed
<1>1. ArbitrationInv /\ [Next]_vars =>
        [ receiving /\ (~ receiving' \/ (radio = "RxListening" /\ radio' # radio))
          => radioLock = "rx" \/ cmd.name = "STOP" ]_vars
  BY StepUndisturbed
<1> QED BY <1>1, ArbitrationInvariant, PTL DEF Spec, ReceiveUndisturbed

\* One step: DELETED is answered under both mutexes, with nothing using a file.
LEMMA StepDeletes ==
    ASSUME ArbitrationInv, [Next]_vars, reply' = "deleted", reply # "deleted"
    PROVE  worker.pc = "idle" /\ ~ receiving /\ ~ upload /\ ~ download /\ radioLock # "rx"
<1> USE DEF Answer
<1>1. CASE UNCHANGED vars
  BY <1>1 DEF vars
<1>2. CASE (\E c \in Commands : Dispatch(c)) \/ Admission \/ Expire
  BY <1>2 DEF Dispatch, Admission, Reserve, Refuse, StopAsk, StopSeen, StopTimeout, StopLast,
     Goes, Expire
<1>3. CASE RadioCommand
  BY <1>3 DEF RadioCommand, CommandStop, CommandSettle, CommandChannel, CommandRx,
     CommandRxBusy, CommandText, TextSent, Goes
<1>4. CASE CommandStored
  BY <1>4 DEF CommandStored, StoredFree, RadioFree, ArbitrationInv, WorkerRunsItsLoop
<1>5. CASE CommandKey \/ TakeLoop \/ RadioBusy \/ CommandTx \/ CommandTxHex
  BY <1>5 DEF CommandKey, TakeLoop, RadioBusy, CommandTx, CommandTxHex, Goes
<1>6. CASE ModeCommand \/ SessionCommand
  BY <1>6 DEF ModeCommand, CommandTestOn, CommandTestOff, SessionCommand, CommandUploadBegin,
     CommandDownloadBegin, CommandUploadEnd, CommandDownloadEnd, Refused
<1>7. CASE Worker \/ RxTask
  BY <1>7 DEF Worker, Iteration, Accounting, Snapshot, PassBegins, PassEnds, BurstBegins,
     BurstEnds, BurstStuck, LoadStop, NotAccounted, AccountPass, AccountBurst, BurstOver,
     RxTask, RxPoll, RxDrain, RxTimeout, RxLeave
<1> QED BY <1>1, <1>2, <1>3, <1>4, <1>5, <1>6, <1>7 DEF Next, Command, LoopCommand

\* STORAGE DELETE never removes a file under the worker, a receive or a
\* transfer with the PC.
THEOREM DeleteExcludesUse == Spec => DeleteIsExclusive
<1>1. ArbitrationInv /\ [Next]_vars =>
        [ reply' = "deleted" /\ reply # "deleted"
          => worker.pc = "idle" /\ ~ receiving /\ ~ upload /\ ~ download
             /\ radioLock # "rx" ]_vars
  BY StepDeletes
<1> QED BY <1>1, ArbitrationInvariant, PTL DEF Spec, DeleteIsExclusive

-----------------------------------------------------------------------------
(* The passes of a loop.                                                   *)

\* A pass has been made and is not yet counted.
Uncounted == worker.pc \in {"load", "account"} /\ worker.ok

\* What a counted loop still has to do is what it owes, but for that pass and
\* for those that it made and could not count.
PassInv ==
    /\ owed + repeats >= 0
    /\ worker.pc \in {"take", "run"} => ~ worker.ok
    /\ loop.active /\ ~ loop.infinite =>
          /\ loop.mode # "Cw"
          /\ IF Uncounted THEN loop.remaining = owed + repeats + 1
                          ELSE loop.remaining = owed + repeats /\ loop.remaining >= 1

\* A command, an expiry or the RX task keeps the count.
LEMMA CommandsKeepCount ==
    ASSUME ArbitrationInv, PassInv,
           (\E c \in Commands : Dispatch(c)) \/ Command \/ Expire \/ RxTask
    PROVE  PassInv'
<1>1. CASE UNCHANGED <<loop, passes, worker>>
  BY <1>1 DEF PassInv, Uncounted, passes
<1>2. ASSUME UNCHANGED worker, ~ loop.active,
             NEW mode \in Modes, NEW infinite \in BOOLEAN, NEW count \in Nat,
             StartLoop(mode, infinite, count), infinite \/ (mode # "Cw" /\ count >= 1)
      PROVE  PassInv'
  <2>1. /\ loop'.mode = mode /\ loop'.infinite = infinite /\ loop'.remaining = count
        /\ owed' = count /\ repeats' = 0
    BY <1>2 DEF StartLoop
  <2>2. worker.pc = "idle"
    BY <1>2 DEF ArbitrationInv, WorkerRunsItsLoop
  <2> QED BY <1>2, <2>1, <2>2 DEF PassInv, Uncounted
<1>3. UNCHANGED worker
  BY CommandsAndPasses
<1>4. CASE /\ ~ loop.active
           /\ \E mode \in Modes : StartLoop(mode, TRUE, 0)
  BY <1>2, <1>3, <1>4
<1>5. CASE /\ ~ loop.active
           /\ \E mode \in {"Tx", "Morse"}, count \in 1 .. MaxPasses :
                 StartLoop(mode, FALSE, count)
  <2>1. PICK mode \in {"Tx", "Morse"}, count \in 1 .. MaxPasses : StartLoop(mode, FALSE, count)
    BY <1>5
  <2>2. mode \in Modes /\ mode # "Cw" /\ count \in Nat /\ count >= 1
    BY DEF Modes
  <2> QED BY <1>2, <1>3, <1>5, <2>1, <2>2
<1> QED BY <1>1, <1>3, <1>4, <1>5, CommandsAndPasses

\* The worker counts each pass it has made, once.
LEMMA WorkerKeepsCount ==
    ASSUME ArbitrationInv, PassInv, Worker
    PROVE  PassInv'
<1> USE DEF looping, passes
<1>1. /\ owed \in Int /\ repeats \in Int /\ loop.remaining \in Int /\ loop.infinite \in BOOLEAN
      /\ worker.ok \in BOOLEAN /\ worker \in Workers /\ loop \in LoopConfigs
  BY ArbitrationAssumption DEF ArbitrationInv, TypeOK, DataTypes, PassTypes, LoopConfigs,
     Workers
<1>2. CASE Snapshot
  <2>1. /\ worker'.pc = "take" /\ worker'.ok = FALSE /\ UNCHANGED <<loop, passes>>
        /\ worker.pc = "idle"
    BY <1>2 DEF Snapshot, Resting, WorkerAt
  <2> QED BY <2>1 DEF PassInv, Uncounted
<1>3. CASE PassBegins
  <2>1. /\ UNCHANGED <<loop, passes>> /\ worker.pc = "take"
        /\ worker'.ok = worker.ok /\ worker'.pc \in {"run", "load"}
    BY <1>1, <1>3 DEF PassBegins, WorkerAt, Workers
  <2> QED BY <2>1 DEF PassInv, Uncounted
<1>4. CASE PassEnds
  <2>1. PICK ok \in BOOLEAN :
          /\ worker' = [worker EXCEPT !.pc = "load", !.ok = ok]
          /\ owed' = IF ok /\ ~ loop.infinite /\ owed + repeats >= 0 THEN owed - 1 ELSE owed
    BY <1>4 DEF PassEnds
  <2>2. /\ worker.pc = "run" /\ UNCHANGED <<loop, repeats>> /\ worker'.pc = "load"
        /\ worker'.ok = ok
    BY <1>1, <1>4, <2>1 DEF PassEnds, WorkerAt, Workers
  <2>3. loop.active
    BY <2>2 DEF ArbitrationInv, WorkerRunsItsLoop
  <2> QED BY <1>1, <2>1, <2>2, <2>3 DEF PassInv, Uncounted
<1>5. CASE BurstBegins \/ BurstEnds \/ BurstStuck
  <2>1. UNCHANGED <<loop, passes>> /\ worker.mode = "Cw" /\ worker.pc # "idle"
    BY <1>5 DEF BurstBegins, BurstEnds, BurstStuck, WorkerAt
  <2>2. loop.active /\ loop.infinite
    BY <1>1, <2>1 DEF PassInv, ArbitrationInv, WorkerRunsItsLoop
  <2>3. worker'.pc \in {"take", "run"} => ~ worker'.ok
    BY <1>1, <1>5 DEF BurstBegins, BurstEnds, BurstStuck, WorkerAt, Rests, Resting, PassInv,
       Workers
  <2> QED BY <2>1, <2>2, <2>3 DEF PassInv
<1>6. CASE LoadStop
  <2>1. /\ UNCHANGED <<loop, passes>> /\ worker.pc = "load"
        /\ worker'.pc = "account" /\ worker'.ok = worker.ok
    BY <1>1, <1>6 DEF LoadStop, WorkerAt, Workers
  <2> QED BY <2>1 DEF PassInv, Uncounted
<1>7. CASE NotAccounted
  <2>1. /\ UNCHANGED <<loop, owed>> /\ worker'.pc \in {"off", "idle"}
        /\ repeats' = IF worker.ok /\ ~ loop.infinite THEN repeats + 1 ELSE repeats
    BY <1>1, <1>7 DEF NotAccounted, Rests, Resting, Workers
  <2>2. worker.pc \in {"account", "off", "failed"} /\ loop.active /\ loop.mode = worker.mode
    BY <1>7 DEF NotAccounted, ArbitrationInv, WorkerRunsItsLoop
  <2>3. CASE worker.pc = "account"
    BY <1>1, <2>1, <2>2, <2>3 DEF PassInv, Uncounted
  <2>4. CASE worker.pc # "account"
    <3>1. loop.infinite
      BY <1>1, <2>2, <2>4 DEF ArbitrationInv, WorkerInv, PassInv
    <3> QED BY <1>1, <2>1, <3>1 DEF PassInv
  <2> QED BY <2>3, <2>4
<1>8. ASSUME ClearLoop, worker'.pc \notin {"take", "run"} PROVE PassInv'
  BY <1>8 DEF ClearLoop, NoLoop, PassInv
<1>9. ASSUME UNCHANGED <<loop, passes>>, worker'.pc \notin {"take", "run"}, loop.infinite
      PROVE  PassInv'
  BY <1>9 DEF PassInv
<1>10. Rests => worker'.pc = "idle"
  BY DEF Rests, Resting
<1>11. CASE AccountPass
  <2>1. worker.pc = "account" /\ loop.active /\ loop.mode = worker.mode /\ worker'.pc = "idle"
    BY <1>10, <1>11 DEF AccountPass, WorkerAt, ArbitrationInv, WorkerRunsItsLoop
  <2>2. CASE ClearLoop
    BY <1>8, <2>1, <2>2
  <2>3. CASE ~ ClearLoop
    <3>1. /\ worker.ok /\ (loop.infinite \/ Remaining # 0)
          /\ loop' = [loop EXCEPT !.remaining = Remaining] /\ UNCHANGED passes
      BY <1>11, <2>1, <2>3 DEF AccountPass
    <3>2. /\ loop'.remaining = Remaining /\ loop'.active = loop.active
          /\ loop'.infinite = loop.infinite /\ loop'.mode = loop.mode
      BY <1>1, <3>1 DEF LoopConfigs
    <3> QED BY <1>1, <2>1, <3>1, <3>2 DEF PassInv, Uncounted, Remaining
  <2> QED BY <2>2, <2>3
<1>12. CASE AccountBurst \/ BurstOver
  <2>1. worker.mode = "Cw" /\ worker.pc # "idle"
    BY <1>12 DEF AccountBurst, BurstOver, WorkerAt, ArbitrationInv, WorkerInv
  <2>2. loop.active /\ loop.infinite
    BY <1>1, <2>1 DEF PassInv, ArbitrationInv, WorkerRunsItsLoop
  <2>3. worker'.pc \notin {"take", "run"}
    BY <1>1, <1>10, <1>12 DEF AccountBurst, BurstOver, Workers
  <2>4. ClearLoop \/ UNCHANGED <<loop, passes>>
    BY <1>12 DEF AccountBurst, BurstOver
  <2> QED BY <1>8, <1>9, <2>2, <2>3, <2>4
<1> QED
  BY <1>2, <1>3, <1>4, <1>5, <1>6, <1>7, <1>11, <1>12 DEF Worker, Iteration, Accounting

\* A file is sent and a message keyed at most as often as was asked for, and
\* once more for each complete pass that could not be counted because a command
\* kept loop_mutex_ for 50 ms (main.cpp runTxLoopIteration).
THEOREM PassesAreAsAsked == Spec => []PassesAsAsked
<1>1. Init => PassInv
  BY DEF Init, PassInv, NoLoop, Resting
<1>2. ArbitrationInv /\ PassInv /\ [Next]_vars => PassInv'
  <2> SUFFICES ASSUME ArbitrationInv, PassInv, [Next]_vars PROVE PassInv'
    OBVIOUS
  <2>1. CASE UNCHANGED vars
    BY <2>1 DEF vars, looping, passes, PassInv, Uncounted
  <2> QED BY <2>1, CommandsKeepCount, WorkerKeepsCount DEF Next
<1>3. PassInv => PassesAsAsked
  BY DEF PassInv, PassesAsAsked
<1> QED BY <1>1, <1>2, <1>3, ArbitrationInvariant, PTL DEF Spec

-----------------------------------------------------------------------------
(* The codec: numbers and their bytes.                                     *)

\* Division with remainder, for a divisor that is not a number.
LEMMA Division ==
    ASSUME NEW m \in Nat, NEW d \in Nat \ {0}
    PROVE  /\ m \div d \in Nat /\ m % d \in 0..(d - 1)
           /\ m = d * (m \div d) + (m % d)
OBVIOUS

LEMMA Monotone ==
    ASSUME NEW a \in Nat, NEW b \in Nat, NEW d \in Nat, a <= b
    PROVE  a * d <= b * d
OBVIOUS

\* A quotient and a remainder are the only ones.
LEMMA Quotient ==
    ASSUME NEW d \in Nat \ {0}, NEW q \in Nat, NEW r \in Nat, r < d
    PROVE  (d * q + r) \div d = q /\ (d * q + r) % d = r
<1> DEFINE n == d * q + r
           k == n \div d
<1>1. d * q \in Nat
    OBVIOUS
<1>2. n \in Nat
    BY <1>1
<1>3. k \in Nat /\ n = d * k + (n % d) /\ n % d \in 0..(d - 1)
    <2> HIDE DEF n
    <2>1. QED  BY <1>2, Division
<1> HIDE DEF k
<1>4. \A a \in Nat, b \in Nat : a < b => d * a + d <= d * b
    <2> TAKE a \in Nat, b \in Nat
    <2>1. d * (a + 1) = d * a + d /\ a + 1 \in Nat
        OBVIOUS
    <2>2. a < b => d * (a + 1) <= d * b
        BY <2>1, Monotone
    <2>3. QED  BY <2>1, <2>2
<1>5. d * k \in Nat
    BY <1>3
<1>6. ~(k < q)
    <2>1. n < d * k + d
        BY <1>2, <1>3, <1>5
    <2>2. QED  BY <1>1, <1>3, <1>4, <1>5, <2>1
<1>7. ~(q < k)
    <2>1. n < d * q + d
        BY <1>1
    <2>2. d * k <= n
        BY <1>2, <1>3, <1>5
    <2>3. QED  BY <1>1, <1>2, <1>3, <1>4, <1>5, <2>1, <2>2
<1>8. k = q
    BY <1>3, <1>6, <1>7
<1>9. n % d = r
    BY <1>1, <1>3, <1>8
<1>10. QED  BY <1>8, <1>9 DEF k

\* The number of two, and of four bytes.
Pair(a, b) == a + b * Base
Four(a, b, c, d) == a + b * Base + c * (Base * Base) + d * (Base * Base * Base)

LEMMA Weights ==
    ASSUME CodecAssumption
    PROVE  /\ Base \in Nat /\ Base > 24 /\ Base # 0
           /\ Base * Base \in Nat \ {0} /\ Base * Base * Base \in Nat \ {0}
           /\ MaxPacketCount = Base * Base /\ MaxPacketCount \in Nat \ {0}
<1>1. Base \in Nat /\ Base > 24
    BY DEF CodecAssumption
<1>2. Base * Base \in Nat \ {0}
    BY <1>1
<1>3. (Base * Base) * Base \in Nat \ {0}
    BY <1>1, <1>2
<1>4. QED  BY <1>1, <1>2, <1>3 DEF MaxPacketCount

\* A byte more, in front of a number.
LEMMA InFront ==
    ASSUME CodecAssumption, NEW n \in Nat, NEW m \in Nat, n < m, NEW a \in Byte
    PROVE  a + n * Base \in Nat /\ a + n * Base < m * Base
<1>1. Base \in Nat /\ a \in Nat /\ a < Base
    BY Weights DEF Byte
<1>2. n * Base \in Nat /\ m * Base \in Nat
    BY <1>1
<1>3. (n + 1) * Base <= m * Base
    BY <1>1, Monotone
<1>4. (n + 1) * Base = n * Base + Base
    BY <1>1
<1>5. QED  BY <1>1, <1>2, <1>3, <1>4

\* What division takes off is the byte in front.
LEMMA Behind ==
    ASSUME CodecAssumption, NEW n \in Nat, NEW a \in Byte
    PROVE  (a + n * Base) \div Base = n /\ (a + n * Base) % Base = a
<1>1. Base \in Nat \ {0} /\ a \in Nat /\ a < Base
    BY Weights DEF Byte
<1>2. (Base * n + a) \div Base = n /\ (Base * n + a) % Base = a
    BY <1>1, Quotient
<1>3. Base * n + a = a + n * Base
    BY <1>1
<1>4. QED  BY <1>2, <1>3

\* A number is its last byte in front of the rest.
LEMMA Digits ==
    ASSUME CodecAssumption, NEW n \in Nat
    PROVE  /\ n % Base \in Byte /\ n \div Base \in Nat
           /\ n = (n % Base) + (n \div Base) * Base
           /\ \A m \in Nat : n < m * Base => n \div Base < m
<1>1. Base \in Nat \ {0}
    BY Weights
<1>2. n % Base \in Byte /\ n \div Base \in Nat /\ n = Base * (n \div Base) + (n % Base)
    BY <1>1, Division DEF Byte
<1> DEFINE q == n \div Base
           r == n % Base
<1>3. q \in Nat /\ r \in Nat /\ n = Base * q + r
    BY <1>1, <1>2 DEF Byte
<1> HIDE DEF q, r
<1>4. Base * q = q * Base /\ q * Base \in Nat /\ n = r + q * Base
    BY <1>1, <1>3
<1>5. ASSUME NEW m \in Nat, n < m * Base
      PROVE  q < m
    <2>1. m <= q => m * Base <= q * Base
        BY <1>1, <1>3, Monotone
    <2>2. m * Base \in Nat
        BY <1>1
    <2>3. QED  BY <1>3, <1>4, <1>5, <2>1, <2>2
<1>6. QED  BY <1>2, <1>4, <1>5 DEF q, r

\* Two divisions are one by the product.
LEMMA Twice ==
    ASSUME NEW m \in Nat, NEW d \in Nat \ {0}, NEW e \in Nat \ {0}
    PROVE  m \div (d * e) = (m \div d) \div e
<1>1. PICK q \in Nat : q = m \div d
    BY Division
<1>2. PICK r \in Nat : r < d /\ m = d * q + r
    <2>1. m % d \in 0..(d - 1) /\ m = d * (m \div d) + (m % d)
        BY Division
    <2>2. QED  BY <1>1, <2>1
<1>3. PICK k \in Nat : k = q \div e
    BY Division
<1>4. PICK s \in Nat : s < e /\ q = e * k + s
    <2>1. q % e \in 0..(e - 1) /\ q = e * (q \div e) + (q % e)
        BY Division
    <2>2. QED  BY <1>3, <2>1
<1>5. d * e \in Nat \ {0}
    BY SMT
<1>6. d * s \in Nat /\ d * s + r < d * e
    <2>1. /\ d * s \in Nat /\ d * e \in Nat /\ s + 1 <= e /\ (s + 1) * d = d * s + d
          /\ e * d = d * e
        BY <1>4
    <2>2. (s + 1) * d <= e * d
        BY <1>4, <2>1, Monotone
    <2>3. QED  BY <1>2, <2>1, <2>2
<1>7. m = (d * e) * k + (d * s + r)
    <2>1. d * (e * k + s) = (d * e) * k + d * s
        BY <1>4
    <2>2. (d * e) * k \in Nat
        BY <1>5
    <2>3. QED  BY <1>2, <1>4, <1>6, <2>1, <2>2
<1>8. ((d * e) * k + (d * s + r)) \div (d * e) = k
    <2>1. PICK w \in Nat \ {0} : w = d * e
        BY <1>5
    <2>2. PICK z \in Nat : z = d * s + r
        BY <1>2, <1>6
    <2>3. (w * k + z) \div w = k
        BY <1>6, <2>1, <2>2, Quotient
    <2>4. QED  BY <2>1, <2>2, <2>3
<1>9. QED  BY <1>1, <1>3, <1>7, <1>8

\* Bytes of the number, number of the bytes.
LEMMA PairBytes ==
    ASSUME CodecAssumption, NEW a \in Byte, NEW b \in Byte
    PROVE  /\ Pair(a, b) \in HalfWord
           /\ Pair(a, b) % Base = a /\ (Pair(a, b) \div Base) % Base = b
<1>1. Base \in Nat \ {0} /\ a \in Nat /\ b \in Nat /\ a < Base /\ b < Base
    BY Weights DEF Byte
<1>2. Pair(a, b) \in Nat /\ Pair(a, b) < Base * Base
    <2>1. a + b * Base \in Nat /\ a + b * Base < Base * Base
        BY <1>1, InFront
    <2>2. QED  BY <2>1 DEF Pair
<1>3. Pair(a, b) % Base = a /\ Pair(a, b) \div Base = b
    BY <1>1, Behind DEF Pair
<1>4. b % Base = b
    BY <1>1
<1>5. QED  BY <1>2, <1>3, <1>4, Weights DEF HalfWord

LEMMA PairOf ==
    ASSUME CodecAssumption, NEW n \in HalfWord
    PROVE  /\ n % Base \in Byte /\ (n \div Base) % Base \in Byte
           /\ Pair(n % Base, (n \div Base) % Base) = n
<1>1. Base \in Nat \ {0} /\ n \in Nat /\ n < Base * Base
    BY Weights DEF HalfWord
<1>2. /\ n % Base \in Byte /\ n \div Base \in Nat /\ n \div Base < Base
      /\ n = (n % Base) + (n \div Base) * Base
    BY <1>1, Digits
<1>3. (n \div Base) % Base = n \div Base
    BY <1>1, <1>2
<1>4. n \div Base \in Byte
    BY <1>1, <1>2 DEF Byte
<1>5. QED  BY <1>2, <1>3, <1>4 DEF Pair

\* A number of four bytes is one byte in front of a number of three, and so on.
LEMMA FourNested ==
    ASSUME CodecAssumption, NEW a \in Nat, NEW b \in Nat, NEW c \in Nat, NEW d \in Nat
    PROVE  Four(a, b, c, d) = a + (b + (c + d * Base) * Base) * Base
<1>1. Base \in Nat
    BY Weights
<1>2. (c + d * Base) * Base = c * Base + d * (Base * Base)
    BY <1>1
<1>3. (b + (c * Base + d * (Base * Base))) * Base
        = b * Base + c * (Base * Base) + d * (Base * Base * Base)
    BY <1>1
<1>4. /\ b * Base \in Nat /\ c * (Base * Base) \in Nat
      /\ d * (Base * Base * Base) \in Nat
    BY Weights
<1>5. QED  BY <1>2, <1>3, <1>4 DEF Four

LEMMA Longer ==
    ASSUME CodecAssumption, NEW n \in Nat, NEW m \in Nat \ {0}, n < m, NEW a \in Byte
    PROVE  \E l \in Nat : /\ l = a + n * Base /\ l < m * Base
                          /\ l \div Base = n /\ l % Base = a
<1>1. a + n * Base \in Nat /\ a + n * Base < m * Base
    BY InFront
<1>2. (a + n * Base) \div Base = n /\ (a + n * Base) % Base = a
    BY Behind
<1>3. QED  BY <1>1, <1>2

LEMMA FourBytes ==
    ASSUME CodecAssumption, NEW a \in Byte, NEW b \in Byte, NEW c \in Byte, NEW d \in Byte
    PROVE  LET n == Four(a, b, c, d)
           IN  /\ n \in Word32
               /\ n % Base = a /\ (n \div Base) % Base = b
               /\ (n \div (Base * Base)) % Base = c
               /\ (n \div (Base * Base * Base)) % Base = d
<1>1. /\ Base \in Nat \ {0} /\ a \in Nat /\ b \in Nat /\ c \in Nat /\ d \in Nat /\ d < Base
      /\ Base * Base \in Nat \ {0} /\ Base * Base * Base \in Nat \ {0}
    BY Weights DEF Byte
<1>2. PICK w \in Nat \ {0} : w = Base * Base
    BY <1>1
<1>3. PICK v \in Nat \ {0} : v = w * Base
    BY <1>1, <1>2
<1>4. PICK k \in Nat : k = c + d * Base /\ k < w /\ k \div Base = d /\ k % Base = c
    <2>1. \E k \in Nat : /\ k = c + d * Base /\ k < Base * Base
                         /\ k \div Base = d /\ k % Base = c
        BY <1>1, Longer
    <2>2. QED  BY <1>2, <2>1
<1>5. PICK l \in Nat : l = b + k * Base /\ l < v /\ l \div Base = k /\ l % Base = b
    <2>1. \E l \in Nat : /\ l = b + k * Base /\ l < w * Base
                         /\ l \div Base = k /\ l % Base = b
        BY <1>4, Longer
    <2>2. QED  BY <1>3, <2>1
<1>6. PICK n \in Nat : n = a + l * Base /\ n < v * Base /\ n \div Base = l /\ n % Base = a
    BY <1>5, Longer
<1>7. n = Four(a, b, c, d)
    BY <1>1, <1>4, <1>5, <1>6, FourNested
<1>8. n \div w = k
    <2>1. n \div (Base * Base) = (n \div Base) \div Base
        BY <1>1, ZenonT(30), Twice
    <2>2. QED  BY <1>2, <1>5, <1>6, <2>1
<1>9. n \div v = d
    <2>1. n \div (w * Base) = (n \div w) \div Base
        BY <1>1, ZenonT(30), Twice
    <2>2. QED  BY <1>3, <1>4, <1>8, <2>1
<1>10. d % Base = d
    BY <1>1
<1>11. n \in Word32
    <2>1. v * Base = w * w /\ w * w \in Nat
        BY <1>1, <1>2, <1>3
    <2>2. n < w * w
        BY <1>6, <2>1
    <2>3. QED  BY <1>2, <2>1, <2>2, Weights DEF Word32
<1>12. Base * Base * Base = v
    BY <1>2, <1>3
<1>13. QED
    <2> DEFINE m == Four(a, b, c, d)
    <2>1. m \in Word32 /\ m % Base = a /\ (m \div Base) % Base = b
        BY <1>5, <1>6, <1>7, <1>11
    <2>2. (m \div (Base * Base)) % Base = c
        BY <1>2, <1>4, <1>7, <1>8
    <2>3. (m \div (Base * Base * Base)) % Base = d
        BY <1>7, <1>9, <1>10, <1>12
    <2>4. QED  BY <2>1, <2>2, <2>3 DEF m

LEMMA FourOf ==
    ASSUME CodecAssumption, NEW n \in Word32
    PROVE  /\ n % Base \in Byte /\ (n \div Base) % Base \in Byte
           /\ (n \div (Base * Base)) % Base \in Byte
           /\ (n \div (Base * Base * Base)) % Base \in Byte
           /\ Four(n % Base, (n \div Base) % Base, (n \div (Base * Base)) % Base,
                   (n \div (Base * Base * Base)) % Base) = n
<1>1. /\ Base \in Nat \ {0} /\ Base * Base \in Nat \ {0} /\ Base * Base * Base \in Nat \ {0}
      /\ n \in Nat
    BY Weights DEF Word32
<1>2. n < (Base * Base * Base) * Base
    <2>1. PICK w \in Nat \ {0} : w = Base * Base
        BY <1>1
    <2>2. w * w = (w * Base) * Base
        BY <1>1, <2>1
    <2>3. n < w * w /\ w * w \in Nat
        <3>1. w * w \in Nat
            BY SMT
        <3>2. QED  BY <2>1, <3>1, Weights DEF Word32
    <2>4. QED  BY <2>1, <2>2, <2>3
<1>3. PICK l \in Nat : /\ l = n \div Base /\ l < (Base * Base) * Base /\ n % Base \in Byte
                       /\ n = (n % Base) + l * Base
    BY <1>1, <1>2, Digits
<1>4. PICK k \in Nat : /\ k = l \div Base /\ k < Base * Base /\ l % Base \in Byte
                       /\ l = (l % Base) + k * Base
    BY <1>1, <1>3, Digits
<1>5. PICK j \in Nat : /\ j = k \div Base /\ j < Base /\ k % Base \in Byte
                       /\ k = (k % Base) + j * Base
    BY <1>1, <1>4, Digits
<1>6. j % Base = j /\ j \in Byte
    BY <1>1, <1>5 DEF Byte
<1>7. n \div (Base * Base) = k
    BY <1>1, <1>3, <1>4, Twice
<1>8. n \div (Base * Base * Base) = j
    <2>1. PICK w \in Nat \ {0} : w = Base * Base
        BY <1>1
    <2>2. n \div (w * Base) = (n \div w) \div Base
        BY <1>1, ZenonT(30), Twice
    <2>3. QED  BY <1>5, <1>7, <2>1, <2>2
<1>9. Four(n % Base, l % Base, k % Base, j) = n
    <2>1. n % Base \in Nat /\ l % Base \in Nat /\ k % Base \in Nat
        BY <1>3, <1>4, <1>5, Weights DEF Byte
    <2>2. QED  BY <1>3, <1>4, <1>5, <2>1, FourNested
<1>10. QED  BY <1>3, <1>4, <1>5, <1>6, <1>7, <1>8, <1>9

-----------------------------------------------------------------------------
(* The frame.                                                              *)

Frames == [1..FrameSize -> Byte]

\* Two frames have the same bytes but for n behind a place.
Beside(f, g, offset, n) ==
    \A i \in 1..FrameSize : i \notin (offset + 1)..(offset + n) => g[i] = f[i]

\* What is read beside the place is read as it was.
LEMMA ReadBeside ==
    ASSUME NEW f \in Frames, NEW g \in Frames, NEW offset \in Nat, NEW n \in Nat,
           Beside(f, g, offset, n)
    PROVE  /\ \A k \in 0..(FrameSize - 4) :
                 k + 4 <= offset \/ offset + n <= k => LoadLe32(g, k) = LoadLe32(f, k)
           /\ \A k \in 0..(FrameSize - 2) :
                 k + 2 <= offset \/ offset + n <= k => LoadLe16(g, k) = LoadLe16(f, k)
           /\ \A k \in 0..FrameSize : offset + n <= k /\ AllZero(f, k) => AllZero(g, k)
<1>1. ASSUME NEW k \in 0..(FrameSize - 4), k + 4 <= offset \/ offset + n <= k
      PROVE  LoadLe32(g, k) = LoadLe32(f, k)
    <2>1. /\ g[k + 1] = f[k + 1] /\ g[k + 2] = f[k + 2]
          /\ g[k + 3] = f[k + 3] /\ g[k + 4] = f[k + 4]
        BY <1>1 DEF Beside, FrameSize
    <2>2. QED  BY <2>1 DEF LoadLe32
<1>2. ASSUME NEW k \in 0..(FrameSize - 2), k + 2 <= offset \/ offset + n <= k
      PROVE  LoadLe16(g, k) = LoadLe16(f, k)
    <2>1. g[k + 1] = f[k + 1] /\ g[k + 2] = f[k + 2]
        BY <1>2 DEF Beside, FrameSize
    <2>2. QED  BY <2>1 DEF LoadLe16
<1>3. ASSUME NEW k \in 0..FrameSize, offset + n <= k, AllZero(f, k)
      PROVE  AllZero(g, k)
    BY <1>3 DEF Beside, AllZero, FrameSize
<1>4. QED  BY <1>1, <1>2, <1>3

LEMMA PutIs ==
    ASSUME CodecAssumption, NEW f \in Frames, NEW offset \in 0..FrameSize,
           NEW n \in 0..(FrameSize - offset), NEW bytes,
           \A i \in 1..n : bytes[i] \in Byte
    PROVE  LET g == Put(f, offset, n, bytes)
           IN  /\ g \in Frames /\ Beside(f, g, offset, n)
               /\ \A i \in 1..n : g[offset + i] = bytes[i]
<1> DEFINE g == Put(f, offset, n, bytes)
<1>1. \A i \in 1..FrameSize :
         g[i] = IF i \in (offset + 1)..(offset + n) THEN bytes[i - offset] ELSE f[i]
    BY DEF Put
<1>2. \A i \in (offset + 1)..(offset + n) : i - offset \in 1..n
    OBVIOUS
<1>3. g \in Frames
    BY <1>2 DEF Put, Frames
<1>4. Beside(f, g, offset, n)
    BY <1>1 DEF Beside
<1>5. ASSUME NEW i \in 1..n
      PROVE  g[offset + i] = bytes[i]
    <2>1. /\ offset + i \in 1..FrameSize /\ offset + i \in (offset + 1)..(offset + n)
          /\ (offset + i) - offset = i
        BY DEF FrameSize
    <2>2. QED  BY <1>1, <2>1
<1>6. QED  BY <1>3, <1>4, <1>5

LEMMA StoreByteIs ==
    ASSUME CodecAssumption, NEW f \in Frames, NEW offset \in 0..(FrameSize - 1), NEW b \in Byte
    PROVE  LET g == StoreByte(f, offset, b)
           IN  g \in Frames /\ Beside(f, g, offset, 1) /\ g[offset + 1] = b
<1> DEFINE bytes == <<b>>
<1>1. \A i \in 1..1 : bytes[i] \in Byte
    OBVIOUS
<1>2. bytes[1] = b
    OBVIOUS
<1>3. offset \in 0..FrameSize /\ 1 \in 0..(FrameSize - offset) /\ 1 \in 1..1
    BY DEF FrameSize
<1> HIDE DEF bytes
<1>4. /\ Put(f, offset, 1, bytes) \in Frames /\ Beside(f, Put(f, offset, 1, bytes), offset, 1)
      /\ \A i \in 1..1 : Put(f, offset, 1, bytes)[offset + i] = bytes[i]
    BY <1>1, <1>3, PutIs
<1>5. QED  BY <1>2, <1>3, <1>4 DEF StoreByte, bytes

LEMMA StoreLe16Is ==
    ASSUME CodecAssumption, NEW f \in Frames, NEW offset \in 0..(FrameSize - 2),
           NEW n \in HalfWord
    PROVE  LET g == StoreLe16(f, offset, n)
           IN  g \in Frames /\ Beside(f, g, offset, 2) /\ LoadLe16(g, offset) = n
<1> DEFINE bytes == <<n % Base, (n \div Base) % Base>>
           g == Put(f, offset, 2, bytes)
<1>1. bytes[1] = n % Base /\ bytes[2] = (n \div Base) % Base
    OBVIOUS
<1>2. bytes[1] \in Byte /\ bytes[2] \in Byte /\ Pair(bytes[1], bytes[2]) = n
    BY <1>1, PairOf
<1>3. /\ offset \in 0..FrameSize /\ 2 \in 0..(FrameSize - offset)
      /\ 1 \in 1..2 /\ 2 \in 1..2
    BY DEF FrameSize
<1>4. StoreLe16(f, offset, n) = g
    BY DEF StoreLe16
<1> HIDE DEF bytes
<1>5. \A i \in 1..2 : bytes[i] \in Byte
    <2>1. \A i \in 1..2 : i = 1 \/ i = 2
        OBVIOUS
    <2>2. QED  BY <1>2, <2>1
<1>6. g \in Frames /\ Beside(f, g, offset, 2) /\ \A i \in 1..2 : g[offset + i] = bytes[i]
    BY <1>3, <1>5, PutIs
<1>7. LoadLe16(g, offset) = n
    BY <1>2, <1>3, <1>6 DEF LoadLe16, Pair
<1> HIDE DEF g
<1>8. QED  BY <1>4, <1>6, <1>7

LEMMA StoreLe32Is ==
    ASSUME CodecAssumption, NEW f \in Frames, NEW offset \in 0..(FrameSize - 4),
           NEW n \in Word32
    PROVE  LET g == StoreLe32(f, offset, n)
           IN  g \in Frames /\ Beside(f, g, offset, 4) /\ LoadLe32(g, offset) = n
<1> DEFINE bytes == <<n % Base, (n \div Base) % Base, (n \div (Base * Base)) % Base,
                      (n \div (Base * Base * Base)) % Base>>
           g == Put(f, offset, 4, bytes)
<1>1. /\ bytes[1] = n % Base /\ bytes[2] = (n \div Base) % Base
      /\ bytes[3] = (n \div (Base * Base)) % Base
      /\ bytes[4] = (n \div (Base * Base * Base)) % Base
    OBVIOUS
<1>2. /\ bytes[1] \in Byte /\ bytes[2] \in Byte /\ bytes[3] \in Byte /\ bytes[4] \in Byte
      /\ Four(bytes[1], bytes[2], bytes[3], bytes[4]) = n
    BY <1>1, FourOf
<1>3. /\ offset \in 0..FrameSize /\ 4 \in 0..(FrameSize - offset)
      /\ 1 \in 1..4 /\ 2 \in 1..4 /\ 3 \in 1..4 /\ 4 \in 1..4
    BY DEF FrameSize
<1>4. StoreLe32(f, offset, n) = g
    BY DEF StoreLe32
<1> HIDE DEF bytes
<1>5. \A i \in 1..4 : bytes[i] \in Byte
    <2>1. \A i \in 1..4 : i = 1 \/ i = 2 \/ i = 3 \/ i = 4
        OBVIOUS
    <2>2. QED  BY <1>2, <2>1
<1>6. g \in Frames /\ Beside(f, g, offset, 4) /\ \A i \in 1..4 : g[offset + i] = bytes[i]
    BY <1>3, <1>5, PutIs
<1>7. LoadLe32(g, offset) = n
    <2>1. /\ g[offset + 1] = bytes[1] /\ g[offset + 2] = bytes[2]
          /\ g[offset + 3] = bytes[3] /\ g[offset + 4] = bytes[4]
        BY <1>3, <1>6
    <2> HIDE DEF g
    <2>2. QED  BY <1>2, <2>1 DEF LoadLe32, Four
<1> HIDE DEF g
<1>8. QED  BY <1>4, <1>6, <1>7

\* What is read is a number of its width, and only these bytes are read so.
LEMMA Load32Is ==
    ASSUME CodecAssumption, NEW f \in Frames, NEW offset \in 0..(FrameSize - 4)
    PROVE  /\ LoadLe32(f, offset) \in Word32
           /\ \A g \in Frames :
                 LoadLe32(g, offset) = LoadLe32(f, offset) =>
                    \A i \in (offset + 1)..(offset + 4) : g[i] = f[i]
<1>1. ASSUME NEW g \in Frames
      PROVE  /\ g[offset + 1] \in Byte /\ g[offset + 2] \in Byte
             /\ g[offset + 3] \in Byte /\ g[offset + 4] \in Byte
             /\ LoadLe32(g, offset)
                  = Four(g[offset + 1], g[offset + 2], g[offset + 3], g[offset + 4])
    <2>1. /\ offset + 1 \in 1..FrameSize /\ offset + 2 \in 1..FrameSize
          /\ offset + 3 \in 1..FrameSize /\ offset + 4 \in 1..FrameSize
        BY DEF FrameSize
    <2>2. /\ g[offset + 1] \in Byte /\ g[offset + 2] \in Byte
          /\ g[offset + 3] \in Byte /\ g[offset + 4] \in Byte
        BY <2>1 DEF Frames
    <2>3. QED  BY <2>2 DEF LoadLe32, Four
<1>2. LoadLe32(f, offset) \in Word32
    BY <1>1, FourBytes
<1>3. ASSUME NEW g \in Frames, LoadLe32(g, offset) = LoadLe32(f, offset)
      PROVE  \A i \in (offset + 1)..(offset + 4) : g[i] = f[i]
    <2>1. PICK n : n = LoadLe32(f, offset)
        OBVIOUS
    <2>2. ASSUME NEW h \in Frames, LoadLe32(h, offset) = n
          PROVE  /\ h[offset + 1] = n % Base /\ h[offset + 2] = (n \div Base) % Base
                 /\ h[offset + 3] = (n \div (Base * Base)) % Base
                 /\ h[offset + 4] = (n \div (Base * Base * Base)) % Base
        BY <1>1, <2>2, FourBytes
    <2>3. /\ g[offset + 1] = f[offset + 1] /\ g[offset + 2] = f[offset + 2]
          /\ g[offset + 3] = f[offset + 3] /\ g[offset + 4] = f[offset + 4]
        BY <1>3, <2>1, <2>2
    <2>4. \A i \in (offset + 1)..(offset + 4) :
             i = offset + 1 \/ i = offset + 2 \/ i = offset + 3 \/ i = offset + 4
        OBVIOUS
    <2>5. QED  BY <2>3, <2>4
<1>4. QED  BY <1>2, <1>3

LEMMA Load16Is ==
    ASSUME CodecAssumption, NEW f \in Frames, NEW offset \in 0..(FrameSize - 2)
    PROVE  /\ LoadLe16(f, offset) \in HalfWord
           /\ \A g \in Frames :
                 LoadLe16(g, offset) = LoadLe16(f, offset) =>
                    \A i \in (offset + 1)..(offset + 2) : g[i] = f[i]
<1>1. ASSUME NEW g \in Frames
      PROVE  /\ g[offset + 1] \in Byte /\ g[offset + 2] \in Byte
             /\ LoadLe16(g, offset) = Pair(g[offset + 1], g[offset + 2])
    <2>1. offset + 1 \in 1..FrameSize /\ offset + 2 \in 1..FrameSize
        BY DEF FrameSize
    <2>2. g[offset + 1] \in Byte /\ g[offset + 2] \in Byte
        BY <2>1 DEF Frames
    <2>3. QED  BY <2>2 DEF LoadLe16, Pair
<1>2. LoadLe16(f, offset) \in HalfWord
    BY <1>1, PairBytes
<1>3. ASSUME NEW g \in Frames, LoadLe16(g, offset) = LoadLe16(f, offset)
      PROVE  \A i \in (offset + 1)..(offset + 2) : g[i] = f[i]
    <2>1. g[offset + 1] = f[offset + 1] /\ g[offset + 2] = f[offset + 2]
        BY <1>1, <1>3, PairBytes
    <2>2. \A i \in (offset + 1)..(offset + 2) : i = offset + 1 \/ i = offset + 2
        OBVIOUS
    <2>3. QED  BY <2>1, <2>2
<1>4. QED  BY <1>2, <1>3

-----------------------------------------------------------------------------
(* The packets.                                                            *)

LEMMA ZeroFields ==
    ASSUME CodecAssumption
    PROVE  /\ 0 \in Word32 /\ 0 \in HalfWord /\ 0 \in Byte /\ ErrorNone \in Byte
           /\ EmptyField \in [1..ExtensionBytes -> Byte]
           /\ [i \in 1..Capacity |-> 0] \in [1..Capacity -> Byte]
           /\ 1..25 \subseteq Byte \cup {25}
<1>1. Base \in Nat /\ Base > 24
    BY Weights
<1>2. 0 \in Byte /\ ErrorNone \in Byte /\ Nul \in Byte /\ 1..25 \subseteq Byte \cup {25}
    BY <1>1 DEF Byte, ErrorNone, Nul
<1>3. 0 \in HalfWord
    BY Weights DEF HalfWord
<1>4. 0 \in Word32
    <2>1. PICK w \in Nat \ {0} : w = MaxPacketCount
        BY Weights
    <2>2. w * w \in Nat \ {0}
        OBVIOUS
    <2>3. QED  BY <2>1, <2>2 DEF Word32
<1>5. QED  BY <1>2, <1>3, <1>4 DEF EmptyField

\* The numbers of the types are different.
LEMMA TypesAre ==
    /\ StartType = 1 /\ ReadyType = 2 /\ DataType = 3 /\ AckType = 4 /\ NackType = 5
    /\ EndType = 6 /\ CompleteType = 7 /\ ErrorType = 8 /\ CancelType = 9
BY DEF StartType, ReadyType, DataType, AckType, NackType, EndType, CompleteType, ErrorType,
       CancelType

LEMMA EmptyIs ==
    ASSUME CodecAssumption
    PROVE  EmptyPacket \in PacketFields /\ StartType..CancelType = 1..9
BY ZeroFields DEF EmptyPacket, PacketFields, StartType, CancelType, ErrorType

LEMMA MadeStart ==
    ASSUME CodecAssumption, NEW id \in Word32, NEW size \in Word32, NEW count \in Word32,
           NEW crc \in Word32, NEW mark \in Byte,
           NEW extension \in [1..ExtensionBytes -> Byte]
    PROVE  LET p == StartPacket(id, size, count, crc, mark, extension)
           IN
           /\ p.type = StartType
           /\ p.transfer_id = id
           /\ p.total_size = size
           /\ p.total_packets = count
           /\ p.crc32 = crc
           /\ p.flags = mark
           /\ p.extension = extension
           /\ p \in Sendable
<1> DEFINE p == StartPacket(id, size, count, crc, mark, extension)
<1>1. p.type = StartType
    BY DEF StartPacket, EmptyPacket
<1>2. /\ p.transfer_id = id /\ p.total_size = size /\ p.total_packets = count
      /\ p.crc32 = crc /\ p.flags = mark /\ p.extension = extension
    BY DEF StartPacket, EmptyPacket
<1>3. p \in PacketFields
    <2>1. PICK p0 \in PacketFields : p0 = [EmptyPacket EXCEPT !.type = StartType]
        <3>1. StartType \in StartType..CancelType
            BY EmptyIs DEF StartType
        <3>2. QED  BY <3>1, EmptyIs DEF PacketFields
    <2>2. PICK p1 \in PacketFields : p1 = [p0 EXCEPT !.transfer_id = id]
        BY DEF PacketFields
    <2>3. PICK p2 \in PacketFields : p2 = [p1 EXCEPT !.total_size = size]
        BY DEF PacketFields
    <2>4. PICK p3 \in PacketFields : p3 = [p2 EXCEPT !.total_packets = count]
        BY DEF PacketFields
    <2>5. PICK p4 \in PacketFields : p4 = [p3 EXCEPT !.crc32 = crc]
        BY DEF PacketFields
    <2>6. PICK p5 \in PacketFields : p5 = [p4 EXCEPT !.flags = mark]
        BY DEF PacketFields
    <2>7. PICK p6 \in PacketFields : p6 = [p5 EXCEPT !.extension = extension]
        BY DEF PacketFields
    <2>8. QED  BY <2>1, <2>2, <2>3, <2>4, <2>5, <2>6, <2>7 DEF StartPacket
<1>4. Carried(p) = p
    BY <1>1, <1>2, TypesAre DEF Carried
<1>5. QED  BY <1>1, <1>2, <1>3, <1>4 DEF Sendable

LEMMA MadeReady ==
    ASSUME CodecAssumption, NEW id \in Word32, NEW next \in Word32, NEW accepted \in {0, 1},
           NEW error \in Byte
    PROVE  LET p == ReadyPacket(id, next, accepted, error)
           IN
           /\ p.type = ReadyType
           /\ p.transfer_id = id
           /\ p.expected_sequence = next
           /\ p.accepted = accepted
           /\ p.error = error
           /\ p \in Sendable
<1> DEFINE p == ReadyPacket(id, next, accepted, error)
<1>1. p.type = ReadyType
    BY DEF ReadyPacket, EmptyPacket
<1>2. /\ p.transfer_id = id /\ p.expected_sequence = next /\ p.accepted = accepted
      /\ p.error = error
    BY DEF ReadyPacket, EmptyPacket
<1>3. p \in PacketFields
    <2>1. PICK p0 \in PacketFields : p0 = [EmptyPacket EXCEPT !.type = ReadyType]
        <3>1. ReadyType \in StartType..CancelType
            BY EmptyIs DEF ReadyType
        <3>2. QED  BY <3>1, EmptyIs DEF PacketFields
    <2>2. PICK p1 \in PacketFields : p1 = [p0 EXCEPT !.transfer_id = id]
        BY DEF PacketFields
    <2>3. PICK p2 \in PacketFields : p2 = [p1 EXCEPT !.expected_sequence = next]
        BY DEF PacketFields
    <2>4. PICK p3 \in PacketFields : p3 = [p2 EXCEPT !.accepted = accepted]
        BY DEF PacketFields
    <2>5. PICK p4 \in PacketFields : p4 = [p3 EXCEPT !.error = error]
        BY DEF PacketFields
    <2>6. QED  BY <2>1, <2>2, <2>3, <2>4, <2>5 DEF ReadyPacket
<1>4. Carried(p) = p
    BY <1>1, <1>2, TypesAre DEF Carried
<1>5. QED  BY <1>1, <1>2, <1>3, <1>4 DEF Sendable

LEMMA MadeAck ==
    ASSUME CodecAssumption, NEW id \in Word32, NEW number \in HalfWord
    PROVE  LET p == AckPacket(id, number)
           IN
           /\ p.type = AckType
           /\ p.transfer_id = id
           /\ p.sequence = number
           /\ p \in Sendable
<1> DEFINE p == AckPacket(id, number)
<1>1. p.type = AckType
    BY DEF AckPacket, EmptyPacket
<1>2. p.transfer_id = id /\ p.sequence = number
    BY DEF AckPacket, EmptyPacket
<1>3. p \in PacketFields
    <2>1. PICK p0 \in PacketFields : p0 = [EmptyPacket EXCEPT !.type = AckType]
        <3>1. AckType \in StartType..CancelType
            BY EmptyIs DEF AckType
        <3>2. QED  BY <3>1, EmptyIs DEF PacketFields
    <2>2. PICK p1 \in PacketFields : p1 = [p0 EXCEPT !.transfer_id = id]
        BY DEF PacketFields
    <2>3. PICK p2 \in PacketFields : p2 = [p1 EXCEPT !.sequence = number]
        BY DEF PacketFields
    <2>4. QED  BY <2>1, <2>2, <2>3 DEF AckPacket
<1>4. Carried(p) = p
    BY <1>1, <1>2, TypesAre DEF Carried
<1>5. QED  BY <1>1, <1>2, <1>3, <1>4 DEF Sendable

LEMMA MadeNack ==
    ASSUME CodecAssumption, NEW id \in Word32, NEW next \in Word32, NEW error \in Byte
    PROVE  LET p == NackPacket(id, next, error)
           IN
           /\ p.type = NackType
           /\ p.transfer_id = id
           /\ p.expected_sequence = next
           /\ p.error = error
           /\ p \in Sendable
<1> DEFINE p == NackPacket(id, next, error)
<1>1. p.type = NackType
    BY DEF NackPacket, EmptyPacket
<1>2. p.transfer_id = id /\ p.expected_sequence = next /\ p.error = error
    BY DEF NackPacket, EmptyPacket
<1>3. p \in PacketFields
    <2>1. PICK p0 \in PacketFields : p0 = [EmptyPacket EXCEPT !.type = NackType]
        <3>1. NackType \in StartType..CancelType
            BY EmptyIs DEF NackType
        <3>2. QED  BY <3>1, EmptyIs DEF PacketFields
    <2>2. PICK p1 \in PacketFields : p1 = [p0 EXCEPT !.transfer_id = id]
        BY DEF PacketFields
    <2>3. PICK p2 \in PacketFields : p2 = [p1 EXCEPT !.expected_sequence = next]
        BY DEF PacketFields
    <2>4. PICK p3 \in PacketFields : p3 = [p2 EXCEPT !.error = error]
        BY DEF PacketFields
    <2>5. QED  BY <2>1, <2>2, <2>3, <2>4 DEF NackPacket
<1>4. Carried(p) = p
    BY <1>1, <1>2, TypesAre DEF Carried
<1>5. QED  BY <1>1, <1>2, <1>3, <1>4 DEF Sendable

LEMMA MadeEnd ==
    ASSUME CodecAssumption, NEW id \in Word32, NEW size \in Word32, NEW count \in Word32,
           NEW crc \in Word32
    PROVE  LET p == EndPacket(id, size, count, crc)
           IN
           /\ p.type = EndType
           /\ p.transfer_id = id
           /\ p.total_size = size
           /\ p.total_packets = count
           /\ p.crc32 = crc
           /\ p \in Sendable
<1> DEFINE p == EndPacket(id, size, count, crc)
<1>1. p.type = EndType
    BY DEF EndPacket, EmptyPacket
<1>2. p.transfer_id = id /\ p.total_size = size /\ p.total_packets = count /\ p.crc32 = crc
    BY DEF EndPacket, EmptyPacket
<1>3. p \in PacketFields
    <2>1. PICK p0 \in PacketFields : p0 = [EmptyPacket EXCEPT !.type = EndType]
        <3>1. EndType \in StartType..CancelType
            BY EmptyIs DEF EndType
        <3>2. QED  BY <3>1, EmptyIs DEF PacketFields
    <2>2. PICK p1 \in PacketFields : p1 = [p0 EXCEPT !.transfer_id = id]
        BY DEF PacketFields
    <2>3. PICK p2 \in PacketFields : p2 = [p1 EXCEPT !.total_size = size]
        BY DEF PacketFields
    <2>4. PICK p3 \in PacketFields : p3 = [p2 EXCEPT !.total_packets = count]
        BY DEF PacketFields
    <2>5. PICK p4 \in PacketFields : p4 = [p3 EXCEPT !.crc32 = crc]
        BY DEF PacketFields
    <2>6. QED  BY <2>1, <2>2, <2>3, <2>4, <2>5 DEF EndPacket
<1>4. Carried(p) = p
    BY <1>1, <1>2, TypesAre DEF Carried
<1>5. QED  BY <1>1, <1>2, <1>3, <1>4 DEF Sendable

LEMMA MadeComplete ==
    ASSUME CodecAssumption, NEW id \in Word32, NEW size \in Word32, NEW crc \in Word32,
           NEW error \in Byte
    PROVE  LET p == CompletePacket(id, size, crc, error)
           IN
           /\ p.type = CompleteType
           /\ p.transfer_id = id
           /\ p.total_size = size
           /\ p.crc32 = crc
           /\ p.error = error
           /\ p \in Sendable
<1> DEFINE p == CompletePacket(id, size, crc, error)
<1>1. p.type = CompleteType
    BY DEF CompletePacket, EmptyPacket
<1>2. p.transfer_id = id /\ p.total_size = size /\ p.crc32 = crc /\ p.error = error
    BY DEF CompletePacket, EmptyPacket
<1>3. p \in PacketFields
    <2>1. PICK p0 \in PacketFields : p0 = [EmptyPacket EXCEPT !.type = CompleteType]
        <3>1. CompleteType \in StartType..CancelType
            BY EmptyIs DEF CompleteType
        <3>2. QED  BY <3>1, EmptyIs DEF PacketFields
    <2>2. PICK p1 \in PacketFields : p1 = [p0 EXCEPT !.transfer_id = id]
        BY DEF PacketFields
    <2>3. PICK p2 \in PacketFields : p2 = [p1 EXCEPT !.total_size = size]
        BY DEF PacketFields
    <2>4. PICK p3 \in PacketFields : p3 = [p2 EXCEPT !.crc32 = crc]
        BY DEF PacketFields
    <2>5. PICK p4 \in PacketFields : p4 = [p3 EXCEPT !.error = error]
        BY DEF PacketFields
    <2>6. QED  BY <2>1, <2>2, <2>3, <2>4, <2>5 DEF CompletePacket
<1>4. Carried(p) = p
    BY <1>1, <1>2, TypesAre DEF Carried
<1>5. QED  BY <1>1, <1>2, <1>3, <1>4 DEF Sendable

LEMMA MadeError ==
    ASSUME CodecAssumption, NEW id \in Word32, NEW error \in Byte, NEW relevant \in Word32,
           NEW state \in Byte
    PROVE  LET p == ErrorPacket(id, error, relevant, state)
           IN
           /\ p.type = ErrorType
           /\ p.transfer_id = id
           /\ p.error = error
           /\ p.relevant_sequence = relevant
           /\ p.state = state
           /\ p \in Sendable
<1> DEFINE p == ErrorPacket(id, error, relevant, state)
<1>1. p.type = ErrorType
    BY DEF ErrorPacket, EmptyPacket
<1>2. p.transfer_id = id /\ p.error = error /\ p.relevant_sequence = relevant /\ p.state = state
    BY DEF ErrorPacket, EmptyPacket
<1>3. p \in PacketFields
    <2>1. PICK p0 \in PacketFields : p0 = [EmptyPacket EXCEPT !.type = ErrorType]
        <3>1. ErrorType \in StartType..CancelType
            BY EmptyIs DEF ErrorType
        <3>2. QED  BY <3>1, EmptyIs DEF PacketFields
    <2>2. PICK p1 \in PacketFields : p1 = [p0 EXCEPT !.transfer_id = id]
        BY DEF PacketFields
    <2>3. PICK p2 \in PacketFields : p2 = [p1 EXCEPT !.error = error]
        BY DEF PacketFields
    <2>4. PICK p3 \in PacketFields : p3 = [p2 EXCEPT !.relevant_sequence = relevant]
        BY DEF PacketFields
    <2>5. PICK p4 \in PacketFields : p4 = [p3 EXCEPT !.state = state]
        BY DEF PacketFields
    <2>6. QED  BY <2>1, <2>2, <2>3, <2>4, <2>5 DEF ErrorPacket
<1>4. Carried(p) = p
    BY <1>1, <1>2, TypesAre DEF Carried
<1>5. QED  BY <1>1, <1>2, <1>3, <1>4 DEF Sendable

LEMMA MadeCancel ==
    ASSUME CodecAssumption, NEW id \in Word32, NEW error \in Byte
    PROVE  LET p == CancelPacket(id, error)
           IN
           /\ p.type = CancelType
           /\ p.transfer_id = id
           /\ p.error = error
           /\ p \in Sendable
<1> DEFINE p == CancelPacket(id, error)
<1>1. p.type = CancelType
    BY DEF CancelPacket, EmptyPacket
<1>2. p.transfer_id = id /\ p.error = error
    BY DEF CancelPacket, EmptyPacket
<1>3. p \in PacketFields
    <2>1. PICK p0 \in PacketFields : p0 = [EmptyPacket EXCEPT !.type = CancelType]
        <3>1. CancelType \in StartType..CancelType
            BY EmptyIs DEF CancelType
        <3>2. QED  BY <3>1, EmptyIs DEF PacketFields
    <2>2. PICK p1 \in PacketFields : p1 = [p0 EXCEPT !.transfer_id = id]
        BY DEF PacketFields
    <2>3. PICK p2 \in PacketFields : p2 = [p1 EXCEPT !.error = error]
        BY DEF PacketFields
    <2>4. QED  BY <2>1, <2>2, <2>3 DEF CancelPacket
<1>4. Carried(p) = p
    BY <1>1, <1>2, TypesAre DEF Carried
<1>5. QED  BY <1>1, <1>2, <1>3, <1>4 DEF Sendable

\* First(n, ...) once more changes nothing.
LEMMA FirstOnce ==
    ASSUME NEW n, NEW bytes
    PROVE  First(n, First(n, bytes)) = First(n, bytes)
BY DEF First

LEMMA FirstIs ==
    ASSUME CodecAssumption, NEW n \in Byte, NEW bytes \in [1..Capacity -> Byte]
    PROVE  First(n, bytes) \in [1..Capacity -> Byte]
BY ZeroFields DEF First

LEMMA MadeData ==
    ASSUME CodecAssumption, NEW id \in Word32, NEW number \in HalfWord, NEW length \in Byte,
           NEW payload \in [1..Capacity -> Byte], payload = First(length, payload)
    PROVE  LET p == DataPacket(id, number, length, payload)
           IN
           /\ p.type = DataType
           /\ p.transfer_id = id
           /\ p.sequence = number
           /\ p.payload_length = length
           /\ p.payload = payload
           /\ p \in Sendable
<1> DEFINE p == DataPacket(id, number, length, payload)
<1>1. p.type = DataType
    BY DEF DataPacket, EmptyPacket
<1>2. /\ p.transfer_id = id /\ p.sequence = number /\ p.payload_length = length
      /\ p.payload = payload
    BY DEF DataPacket, EmptyPacket
<1>3. p \in PacketFields
    <2>1. PICK p0 \in PacketFields : p0 = [EmptyPacket EXCEPT !.type = DataType]
        <3>1. DataType \in StartType..CancelType
            BY EmptyIs DEF DataType
        <3>2. QED  BY <3>1, EmptyIs DEF PacketFields
    <2>2. PICK p1 \in PacketFields : p1 = [p0 EXCEPT !.transfer_id = id]
        BY DEF PacketFields
    <2>3. PICK p2 \in PacketFields : p2 = [p1 EXCEPT !.sequence = number]
        BY DEF PacketFields
    <2>4. PICK p3 \in PacketFields : p3 = [p2 EXCEPT !.payload_length = length]
        BY DEF PacketFields
    <2>5. PICK p4 \in PacketFields : p4 = [p3 EXCEPT !.payload = payload]
        BY DEF PacketFields
    <2>6. QED  BY <2>1, <2>2, <2>3, <2>4, <2>5 DEF DataPacket
<1>4. Carried(p) = p
    <2>1. Carried(p) = DataPacket(p.transfer_id, p.sequence, p.payload_length,
                                  First(p.payload_length, p.payload))
        BY <1>1, TypesAre DEF Carried
    <2>2. QED  BY <1>2, <2>1
<1>5. QED  BY <1>1, <1>2, <1>3, <1>4 DEF Sendable

-----------------------------------------------------------------------------
(* What encode makes.                                                      *)

\* g is f with n bytes put behind the place.
Appended(f, g, offset, n) ==
    /\ g \in Frames
    /\ \A i \in 1..offset : g[i] = f[i]
    /\ \A k \in 0..(offset - 4) : LoadLe32(g, k) = LoadLe32(f, k)
    /\ \A k \in 0..(offset - 2) : LoadLe16(g, k) = LoadLe16(f, k)
    /\ AllZero(f, offset) => AllZero(g, offset + n)

LEMMA AppendedIs ==
    ASSUME NEW f \in Frames, NEW g \in Frames, NEW offset \in 0..FrameSize,
           NEW n \in 0..(FrameSize - offset), Beside(f, g, offset, n)
    PROVE  Appended(f, g, offset, n)
<1>1. \A i \in 1..offset : g[i] = f[i]
    BY DEF Beside, FrameSize
<1>2. /\ \A k \in 0..(offset - 4) : LoadLe32(g, k) = LoadLe32(f, k)
      /\ \A k \in 0..(offset - 2) : LoadLe16(g, k) = LoadLe16(f, k)
    <2>1. /\ \A k \in 0..(offset - 4) : k \in 0..(FrameSize - 4) /\ k + 4 <= offset
          /\ \A k \in 0..(offset - 2) : k \in 0..(FrameSize - 2) /\ k + 2 <= offset
        BY DEF FrameSize
    <2>2. QED  BY <2>1, ReadBeside
<1>3. AllZero(f, offset) => AllZero(g, offset + n)
    BY DEF Beside, AllZero, FrameSize
<1>4. QED  BY <1>1, <1>2, <1>3 DEF Appended

LEMMA AppendByte ==
    ASSUME CodecAssumption, NEW f \in Frames, NEW offset \in 0..(FrameSize - 1), NEW b \in Byte
    PROVE  LET g == StoreByte(f, offset, b)
           IN  Appended(f, g, offset, 1) /\ g[offset + 1] = b
<1>1. offset \in 0..FrameSize /\ 1 \in 0..(FrameSize - offset)
    BY DEF FrameSize
<1>2. QED  BY <1>1, StoreByteIs, AppendedIs

LEMMA AppendLe16 ==
    ASSUME CodecAssumption, NEW f \in Frames, NEW offset \in 0..(FrameSize - 2),
           NEW n \in HalfWord
    PROVE  LET g == StoreLe16(f, offset, n)
           IN  Appended(f, g, offset, 2) /\ LoadLe16(g, offset) = n
<1>1. offset \in 0..FrameSize /\ 2 \in 0..(FrameSize - offset)
    BY DEF FrameSize
<1>2. QED  BY <1>1, StoreLe16Is, AppendedIs

LEMMA AppendLe32 ==
    ASSUME CodecAssumption, NEW f \in Frames, NEW offset \in 0..(FrameSize - 4),
           NEW n \in Word32
    PROVE  LET g == StoreLe32(f, offset, n)
           IN  Appended(f, g, offset, 4) /\ LoadLe32(g, offset) = n
<1>1. offset \in 0..FrameSize /\ 4 \in 0..(FrameSize - offset)
    BY DEF FrameSize
<1>2. QED  BY <1>1, StoreLe32Is, AppendedIs

\* The common header of a packet.
Headed(f, p) ==
    /\ f \in Frames
    /\ f[1] = Magic[1] /\ f[2] = Magic[2] /\ f[3] = Magic[3] /\ f[4] = Version
    /\ f[5] = p.type
    /\ LoadLe32(f, 5) = p.transfer_id

\* The values of the fields lie in their widths.
LEMMA FieldsAre ==
    ASSUME NEW p \in PacketFields
    PROVE  /\ p.type \in StartType..CancelType
           /\ p.transfer_id \in Word32 /\ p.total_size \in Word32 /\ p.total_packets \in Word32
           /\ p.crc32 \in Word32 /\ p.flags \in Byte
           /\ p.extension \in [1..ExtensionBytes -> Byte]
           /\ p.sequence \in HalfWord /\ p.expected_sequence \in Word32
           /\ p.payload_length \in Byte /\ p.payload \in [1..Capacity -> Byte]
           /\ p.accepted \in {0, 1} /\ p.error \in Byte
           /\ p.relevant_sequence \in Word32 /\ p.state \in Byte
BY DEF PacketFields

LEMMA CommonIs ==
    ASSUME CodecAssumption, NEW p \in PacketFields
    PROVE  Headed(WriteCommon(p), p) /\ AllZero(WriteCommon(p), 9)
<1> DEFINE zeros == [i \in 1..FrameSize |-> 0]
           head == Magic \o <<Version, p.type>>
           f == Put(zeros, 0, 5, head)
<1>1. zeros \in Frames /\ AllZero(zeros, 0)
    BY ZeroFields DEF Frames, AllZero
<1>2. /\ head[1] = Magic[1] /\ head[2] = Magic[2] /\ head[3] = Magic[3]
      /\ head[4] = Version /\ head[5] = p.type
    BY DEF Magic
<1>3. \A i \in 1..5 : head[i] \in Byte
    <2>1. Base \in Nat /\ Base > 24 /\ p.type \in 1..9
        BY Weights, FieldsAre DEF StartType, CancelType
    <2>2. /\ head[1] \in Byte /\ head[2] \in Byte /\ head[3] \in Byte
          /\ head[4] \in Byte /\ head[5] \in Byte
        <3> HIDE DEF head
        <3>1. QED  BY <1>2, <2>1 DEF Byte, Magic, Version
    <2>3. \A i \in 1..5 : i = 1 \/ i = 2 \/ i = 3 \/ i = 4 \/ i = 5
        OBVIOUS
    <2> HIDE DEF head
    <2>4. QED  BY <2>2, <2>3
<1> HIDE DEF zeros, head
<1>4. 0 \in 0..FrameSize /\ 5 \in 0..(FrameSize - 0)
    BY DEF FrameSize
<1>5. f \in Frames /\ Appended(zeros, f, 0, 5) /\ \A i \in 1..5 : f[0 + i] = head[i]
    <2>1. f \in Frames /\ Beside(zeros, f, 0, 5) /\ \A i \in 1..5 : f[0 + i] = head[i]
        BY <1>1, <1>3, <1>4, PutIs
    <2>2. QED  BY <1>1, <1>4, <2>1, AppendedIs
<1> HIDE DEF f
<1>6. AllZero(f, 5) /\ \A i \in 1..5 : f[i] = head[i]
    <2>1. \A i \in 1..5 : 0 + i = i
        OBVIOUS
    <2>2. QED  BY <1>1, <1>5, <2>1 DEF Appended
<1>7. PICK g : g = StoreLe32(f, 5, p.transfer_id)
    OBVIOUS
<1>8. g = WriteCommon(p)
    BY <1>7 DEF WriteCommon, f, zeros, head
<1>9. Appended(f, g, 5, 4) /\ LoadLe32(g, 5) = p.transfer_id
    <2>1. 5 \in 0..(FrameSize - 4)
        BY DEF FrameSize
    <2>2. QED  BY <1>5, <1>7, <2>1, FieldsAre, AppendLe32
<1>10. AllZero(g, 9) /\ g \in Frames /\ \A i \in 1..5 : g[i] = head[i]
    BY <1>6, <1>9 DEF Appended
<1>11. Headed(g, p)
    BY <1>2, <1>9, <1>10 DEF Headed
<1>12. QED  BY <1>8, <1>10, <1>11

\* Nothing behind the header changes it.
LEMMA HeadedKept ==
    ASSUME NEW p, NEW f, NEW g, NEW offset \in 9..FrameSize, NEW n,
           Headed(f, p), Appended(f, g, offset, n)
    PROVE  Headed(g, p)
<1>1. g \in Frames /\ \A i \in 1..5 : g[i] = f[i]
    BY DEF Appended
<1>2. 5 \in 0..(offset - 4)
    OBVIOUS
<1>3. LoadLe32(g, 5) = LoadLe32(f, 5)
    BY <1>2 DEF Appended
<1>4. QED  BY <1>1, <1>3 DEF Headed

\* One byte, or a number, more, after the header.
LEMMA ThenByte ==
    ASSUME CodecAssumption, NEW p, NEW f \in Frames, NEW offset \in 9..(FrameSize - 1),
           NEW b \in Byte, Headed(f, p), AllZero(f, offset)
    PROVE  \E g \in Frames :
              /\ g = StoreByte(f, offset, b) /\ g[offset + 1] = b
              /\ Appended(f, g, offset, 1) /\ Headed(g, p) /\ AllZero(g, offset + 1)
<1>1. offset \in 9..FrameSize /\ offset \in 0..(FrameSize - 1)
    BY DEF FrameSize
<1>2. PICK g : g = StoreByte(f, offset, b)
    OBVIOUS
<1>3. Appended(f, g, offset, 1) /\ g[offset + 1] = b
    BY <1>1, <1>2, AppendByte
<1>4. g \in Frames /\ AllZero(g, offset + 1)
    BY <1>3 DEF Appended
<1>5. Headed(g, p)
    BY <1>1, <1>3, HeadedKept
<1>6. QED  BY <1>2, <1>3, <1>4, <1>5

LEMMA ThenLe16 ==
    ASSUME CodecAssumption, NEW p, NEW f \in Frames, NEW offset \in 9..(FrameSize - 2),
           NEW n \in HalfWord, Headed(f, p), AllZero(f, offset)
    PROVE  \E g \in Frames :
              /\ g = StoreLe16(f, offset, n) /\ LoadLe16(g, offset) = n
              /\ Appended(f, g, offset, 2) /\ Headed(g, p) /\ AllZero(g, offset + 2)
<1>1. offset \in 9..FrameSize /\ offset \in 0..(FrameSize - 2)
    BY DEF FrameSize
<1>2. PICK g : g = StoreLe16(f, offset, n)
    OBVIOUS
<1>3. Appended(f, g, offset, 2) /\ LoadLe16(g, offset) = n
    BY <1>1, <1>2, AppendLe16
<1>4. g \in Frames /\ AllZero(g, offset + 2)
    BY <1>3 DEF Appended
<1>5. Headed(g, p)
    BY <1>1, <1>3, HeadedKept
<1>6. QED  BY <1>2, <1>3, <1>4, <1>5

LEMMA ThenLe32 ==
    ASSUME CodecAssumption, NEW p, NEW f \in Frames, NEW offset \in 9..(FrameSize - 4),
           NEW n \in Word32, Headed(f, p), AllZero(f, offset)
    PROVE  \E g \in Frames :
              /\ g = StoreLe32(f, offset, n) /\ LoadLe32(g, offset) = n
              /\ Appended(f, g, offset, 4) /\ Headed(g, p) /\ AllZero(g, offset + 4)
<1>1. offset \in 9..FrameSize /\ offset \in 0..(FrameSize - 4)
    BY DEF FrameSize
<1>2. PICK g : g = StoreLe32(f, offset, n)
    OBVIOUS
<1>3. Appended(f, g, offset, 4) /\ LoadLe32(g, offset) = n
    BY <1>1, <1>2, AppendLe32
<1>4. g \in Frames /\ AllZero(g, offset + 4)
    BY <1>3 DEF Appended
<1>5. Headed(g, p)
    BY <1>1, <1>3, HeadedKept
<1>6. QED  BY <1>2, <1>3, <1>4, <1>5

LEMMA ThenBytes ==
    ASSUME CodecAssumption, NEW p, NEW f \in Frames, NEW offset \in 9..FrameSize,
           NEW n \in 0..(FrameSize - offset), NEW bytes, \A i \in 1..n : bytes[i] \in Byte,
           Headed(f, p), AllZero(f, offset)
    PROVE  \E g \in Frames :
              /\ g = Put(f, offset, n, bytes) /\ \A i \in 1..n : g[offset + i] = bytes[i]
              /\ Appended(f, g, offset, n) /\ Headed(g, p) /\ AllZero(g, offset + n)
<1>1. offset \in 0..FrameSize
    BY DEF FrameSize
<1>2. PICK g : g = Put(f, offset, n, bytes)
    OBVIOUS
<1>3. /\ g \in Frames /\ Beside(f, g, offset, n)
      /\ \A i \in 1..n : g[offset + i] = bytes[i]
    BY <1>1, <1>2, PutIs
<1>4. Appended(f, g, offset, n)
    BY <1>1, <1>3, AppendedIs
<1>5. AllZero(g, offset + n)
    BY <1>4 DEF Appended
<1>6. Headed(g, p)
    BY <1>4, HeadedKept
<1>7. QED  BY <1>2, <1>3, <1>4, <1>5, <1>6

\* The offsets of the fields lie in the frame.
LEMMA Offsets ==
    /\ 9 \in 9..(FrameSize - 4) /\ 10 \in 9..(FrameSize - 4) /\ 13 \in 9..(FrameSize - 4)
    /\ 17 \in 9..(FrameSize - 4) /\ 9 \in 9..(FrameSize - 2)
    /\ 9 \in 9..(FrameSize - 1) /\ 11 \in 9..(FrameSize - 1) /\ 13 \in 9..(FrameSize - 1)
    /\ 14 \in 9..(FrameSize - 1) /\ 17 \in 9..(FrameSize - 1) /\ 21 \in 9..(FrameSize - 1)
    /\ 12 \in 9..FrameSize /\ 22 \in 9..FrameSize /\ FrameSize - 22 = 10 /\ FrameSize - 12 = 20
BY DEF FrameSize

LEMMA SizesAre ==
    ASSUME CodecAssumption, NEW p \in PacketFields, NEW f \in Frames, Headed(f, p),
           AllZero(f, 9)
    PROVE  \E g \in Frames :
              /\ g = WriteSizes(f, p) /\ Headed(g, p) /\ AllZero(g, 21)
              /\ LoadLe32(g, 9) = p.total_size /\ LoadLe32(g, 13) = p.total_packets
              /\ LoadLe32(g, 17) = p.crc32
<1>1. PICK g1 \in Frames :
         /\ g1 = StoreLe32(f, 9, p.total_size) /\ LoadLe32(g1, 9) = p.total_size
         /\ Headed(g1, p) /\ AllZero(g1, 13)
    <2>1. 9 + 4 = 13
        OBVIOUS
    <2>2. QED  BY <2>1, FieldsAre, Offsets, ThenLe32
<1>2. PICK g2 \in Frames :
         /\ g2 = StoreLe32(g1, 13, p.total_packets) /\ LoadLe32(g2, 13) = p.total_packets
         /\ Appended(g1, g2, 13, 4) /\ Headed(g2, p) /\ AllZero(g2, 17)
    <2>1. 13 + 4 = 17
        OBVIOUS
    <2>2. QED  BY <1>1, <2>1, FieldsAre, Offsets, ThenLe32
<1>3. PICK g3 \in Frames :
         /\ g3 = StoreLe32(g2, 17, p.crc32) /\ LoadLe32(g3, 17) = p.crc32
         /\ Appended(g2, g3, 17, 4) /\ Headed(g3, p) /\ AllZero(g3, 21)
    <2>1. 17 + 4 = 21
        OBVIOUS
    <2>2. QED  BY <1>2, <2>1, FieldsAre, Offsets, ThenLe32
<1>4. LoadLe32(g2, 9) = p.total_size
    <2>1. 9 \in 0..(13 - 4)
        OBVIOUS
    <2>2. QED  BY <1>1, <1>2, <2>1 DEF Appended
<1>5. LoadLe32(g3, 9) = p.total_size /\ LoadLe32(g3, 13) = p.total_packets
    <2>1. 9 \in 0..(17 - 4) /\ 13 \in 0..(17 - 4)
        OBVIOUS
    <2>2. QED  BY <1>2, <1>3, <1>4, <2>1 DEF Appended
<1>6. g3 = WriteSizes(f, p)
    BY <1>1, <1>2, <1>3 DEF WriteSizes
<1>7. QED  BY <1>3, <1>5, <1>6

LEMMA EncodedStart ==
    ASSUME CodecAssumption, NEW p \in PacketFields, p.type = StartType
    PROVE  \E f \in Frames :
              /\ f = Encode(p) /\ Headed(f, p)
              /\ LoadLe32(f, 9) = p.total_size /\ LoadLe32(f, 13) = p.total_packets
              /\ LoadLe32(f, 17) = p.crc32 /\ f[22] = p.flags
              /\ \A i \in 1..ExtensionBytes : f[22 + i] = p.extension[i]
<1>1. PICK f0 \in Frames : f0 = WriteCommon(p) /\ Headed(f0, p) /\ AllZero(f0, 9)
    BY CommonIs DEF Headed
<1>2. PICK f1 \in Frames :
         /\ f1 = WriteSizes(f0, p) /\ Headed(f1, p) /\ AllZero(f1, 21)
         /\ LoadLe32(f1, 9) = p.total_size /\ LoadLe32(f1, 13) = p.total_packets
         /\ LoadLe32(f1, 17) = p.crc32
    BY <1>1, SizesAre
<1>3. PICK f2 \in Frames :
         /\ f2 = StoreByte(f1, 21, p.flags) /\ f2[22] = p.flags
         /\ Appended(f1, f2, 21, 1) /\ Headed(f2, p) /\ AllZero(f2, 22)
    <2>1. 21 + 1 = 22
        OBVIOUS
    <2>2. QED  BY <1>2, <2>1, FieldsAre, Offsets, ThenByte
<1>4. PICK f \in Frames :
         /\ f = Put(f2, 22, ExtensionBytes, p.extension)
         /\ \A i \in 1..ExtensionBytes : f[22 + i] = p.extension[i]
         /\ Appended(f2, f, 22, ExtensionBytes) /\ Headed(f, p)
    <2>1. ExtensionBytes \in 0..(FrameSize - 22)
        BY Offsets DEF ExtensionBytes
    <2>2. \A i \in 1..ExtensionBytes : p.extension[i] \in Byte
        BY FieldsAre
    <2>3. QED  BY <1>3, <2>1, <2>2, Offsets, ThenBytes
<1>5. /\ LoadLe32(f2, 9) = p.total_size /\ LoadLe32(f2, 13) = p.total_packets
      /\ LoadLe32(f2, 17) = p.crc32
    <2>1. 9 \in 0..(21 - 4) /\ 13 \in 0..(21 - 4) /\ 17 \in 0..(21 - 4)
        OBVIOUS
    <2>2. QED  BY <1>2, <1>3, <2>1 DEF Appended
<1>6. /\ LoadLe32(f, 9) = p.total_size /\ LoadLe32(f, 13) = p.total_packets
      /\ LoadLe32(f, 17) = p.crc32 /\ f[22] = p.flags
    <2>1. 9 \in 0..(22 - 4) /\ 13 \in 0..(22 - 4) /\ 17 \in 0..(22 - 4) /\ 22 \in 1..22
        OBVIOUS
    <2>2. QED  BY <1>3, <1>4, <1>5, <2>1 DEF Appended
<1>7. f = Encode(p)
    BY <1>1, <1>2, <1>3, <1>4, TypesAre DEF Encode, WriteBody
<1>8. QED  BY <1>4, <1>6, <1>7

LEMMA EncodedEnd ==
    ASSUME CodecAssumption, NEW p \in PacketFields, p.type = EndType
    PROVE  \E f \in Frames :
              /\ f = Encode(p) /\ Headed(f, p) /\ AllZero(f, 21)
              /\ LoadLe32(f, 9) = p.total_size /\ LoadLe32(f, 13) = p.total_packets
              /\ LoadLe32(f, 17) = p.crc32
<1>1. PICK f0 \in Frames : f0 = WriteCommon(p) /\ Headed(f0, p) /\ AllZero(f0, 9)
    BY CommonIs DEF Headed
<1>2. PICK f \in Frames :
         /\ f = WriteSizes(f0, p) /\ Headed(f, p) /\ AllZero(f, 21)
         /\ LoadLe32(f, 9) = p.total_size /\ LoadLe32(f, 13) = p.total_packets
         /\ LoadLe32(f, 17) = p.crc32
    BY <1>1, SizesAre
<1>3. f = Encode(p)
    BY <1>1, <1>2, TypesAre DEF Encode, WriteBody
<1>4. QED  BY <1>2, <1>3

LEMMA NextIs ==
    ASSUME CodecAssumption, NEW p \in PacketFields, NEW f \in Frames, Headed(f, p),
           AllZero(f, 9)
    PROVE  \E g \in Frames :
              /\ g = WriteNext(f, p) /\ Headed(g, p) /\ AllZero(g, 13)
              /\ LoadLe32(g, 9) = p.expected_sequence
<1>1. 9 + 4 = 13
    OBVIOUS
<1>2. QED  BY <1>1, FieldsAre, Offsets, ThenLe32 DEF WriteNext

LEMMA EncodedReady ==
    ASSUME CodecAssumption, NEW p \in PacketFields, p.type = ReadyType
    PROVE  \E f \in Frames :
              /\ f = Encode(p) /\ Headed(f, p) /\ AllZero(f, 15)
              /\ LoadLe32(f, 9) = p.expected_sequence /\ f[14] = p.accepted /\ f[15] = p.error
<1>1. PICK f0 \in Frames : f0 = WriteCommon(p) /\ Headed(f0, p) /\ AllZero(f0, 9)
    BY CommonIs DEF Headed
<1>2. PICK f1 \in Frames :
         /\ f1 = WriteNext(f0, p) /\ Headed(f1, p) /\ AllZero(f1, 13)
         /\ LoadLe32(f1, 9) = p.expected_sequence
    BY <1>1, NextIs
<1>3. PICK f2 \in Frames :
         /\ f2 = StoreByte(f1, 13, p.accepted) /\ f2[14] = p.accepted
         /\ Appended(f1, f2, 13, 1) /\ Headed(f2, p) /\ AllZero(f2, 14)
    <2>1. 13 + 1 = 14
        OBVIOUS
    <2>2. p.accepted \in Byte
        BY FieldsAre, Weights DEF Byte
    <2>3. QED  BY <1>2, <2>1, <2>2, Offsets, ThenByte
<1>4. PICK f \in Frames :
         /\ f = StoreByte(f2, 14, p.error) /\ f[15] = p.error
         /\ Appended(f2, f, 14, 1) /\ Headed(f, p) /\ AllZero(f, 15)
    <2>1. 14 + 1 = 15
        OBVIOUS
    <2>2. QED  BY <1>3, <2>1, FieldsAre, Offsets, ThenByte
<1>5. LoadLe32(f, 9) = p.expected_sequence /\ f[14] = p.accepted
    <2>1. 9 \in 0..(13 - 4) /\ 9 \in 0..(14 - 4) /\ 14 \in 1..14
        OBVIOUS
    <2>2. LoadLe32(f2, 9) = p.expected_sequence
        BY <1>2, <1>3, <2>1 DEF Appended
    <2>3. QED  BY <1>3, <1>4, <2>1, <2>2 DEF Appended
<1>6. f = Encode(p)
    BY <1>1, <1>2, <1>3, <1>4, TypesAre DEF Encode, WriteBody
<1>7. QED  BY <1>4, <1>5, <1>6

LEMMA EncodedNack ==
    ASSUME CodecAssumption, NEW p \in PacketFields, p.type = NackType
    PROVE  \E f \in Frames :
              /\ f = Encode(p) /\ Headed(f, p) /\ AllZero(f, 14)
              /\ LoadLe32(f, 9) = p.expected_sequence /\ f[14] = p.error
<1>1. PICK f0 \in Frames : f0 = WriteCommon(p) /\ Headed(f0, p) /\ AllZero(f0, 9)
    BY CommonIs DEF Headed
<1>2. PICK f1 \in Frames :
         /\ f1 = WriteNext(f0, p) /\ Headed(f1, p) /\ AllZero(f1, 13)
         /\ LoadLe32(f1, 9) = p.expected_sequence
    BY <1>1, NextIs
<1>3. PICK f \in Frames :
         /\ f = StoreByte(f1, 13, p.error) /\ f[14] = p.error
         /\ Appended(f1, f, 13, 1) /\ Headed(f, p) /\ AllZero(f, 14)
    <2>1. 13 + 1 = 14
        OBVIOUS
    <2>2. QED  BY <1>2, <2>1, FieldsAre, Offsets, ThenByte
<1>4. LoadLe32(f, 9) = p.expected_sequence
    <2>1. 9 \in 0..(13 - 4)
        OBVIOUS
    <2>2. QED  BY <1>2, <1>3, <2>1 DEF Appended
<1>5. f = Encode(p)
    BY <1>1, <1>2, <1>3, TypesAre DEF Encode, WriteBody
<1>6. QED  BY <1>3, <1>4, <1>5

LEMMA EncodedAck ==
    ASSUME CodecAssumption, NEW p \in PacketFields, p.type = AckType
    PROVE  \E f \in Frames :
              /\ f = Encode(p) /\ Headed(f, p) /\ AllZero(f, 11)
              /\ LoadLe16(f, 9) = p.sequence
<1>1. PICK f0 \in Frames : f0 = WriteCommon(p) /\ Headed(f0, p) /\ AllZero(f0, 9)
    BY CommonIs DEF Headed
<1>2. PICK f \in Frames :
         /\ f = StoreLe16(f0, 9, p.sequence) /\ LoadLe16(f, 9) = p.sequence
         /\ Headed(f, p) /\ AllZero(f, 11)
    <2>1. 9 + 2 = 11
        OBVIOUS
    <2>2. QED  BY <1>1, <2>1, FieldsAre, Offsets, ThenLe16
<1>3. f = Encode(p)
    BY <1>1, <1>2, TypesAre DEF Encode, WriteBody
<1>4. QED  BY <1>2, <1>3

LEMMA EncodedData ==
    ASSUME CodecAssumption, NEW p \in PacketFields, p.type = DataType,
           p.payload_length \in 1..Capacity
    PROVE  \E f \in Frames :
              /\ f = Encode(p) /\ Headed(f, p) /\ AllZero(f, 12 + p.payload_length)
              /\ LoadLe16(f, 9) = p.sequence /\ f[12] = p.payload_length
              /\ \A i \in 1..p.payload_length : f[12 + i] = p.payload[i]
<1>1. PICK f0 \in Frames : f0 = WriteCommon(p) /\ Headed(f0, p) /\ AllZero(f0, 9)
    BY CommonIs DEF Headed
<1>2. PICK f1 \in Frames :
         /\ f1 = StoreLe16(f0, 9, p.sequence) /\ LoadLe16(f1, 9) = p.sequence
         /\ Headed(f1, p) /\ AllZero(f1, 11)
    <2>1. 9 + 2 = 11
        OBVIOUS
    <2>2. QED  BY <1>1, <2>1, FieldsAre, Offsets, ThenLe16
<1>3. PICK f2 \in Frames :
         /\ f2 = StoreByte(f1, 11, p.payload_length) /\ f2[12] = p.payload_length
         /\ Appended(f1, f2, 11, 1) /\ Headed(f2, p) /\ AllZero(f2, 12)
    <2>1. 11 + 1 = 12
        OBVIOUS
    <2>2. QED  BY <1>2, <2>1, FieldsAre, Offsets, ThenByte
<1>4. PICK n \in 1..Capacity : n = p.payload_length
    OBVIOUS
<1>5. PICK f \in Frames :
         /\ f = Put(f2, 12, n, p.payload) /\ \A i \in 1..n : f[12 + i] = p.payload[i]
         /\ Appended(f2, f, 12, n) /\ Headed(f, p) /\ AllZero(f, 12 + n)
    <2>1. n \in 0..(FrameSize - 12)
        BY Offsets DEF Capacity
    <2>2. \A i \in 1..n : p.payload[i] \in Byte
        <3>1. p.payload \in [1..Capacity -> Byte]
            BY FieldsAre
        <3>2. \A i \in 1..n : i \in 1..Capacity
            BY DEF Capacity
        <3>3. QED  BY <3>1, <3>2
    <2>3. QED  BY <1>3, <2>1, <2>2, Offsets, ThenBytes
<1>6. LoadLe16(f, 9) = p.sequence /\ f[12] = p.payload_length
    <2>1. 9 \in 0..(11 - 2) /\ 9 \in 0..(12 - 2) /\ 12 \in 1..12
        OBVIOUS
    <2>2. LoadLe16(f2, 9) = p.sequence
        BY <1>2, <1>3, <2>1 DEF Appended
    <2>3. QED  BY <1>3, <1>5, <2>1, <2>2 DEF Appended
<1>7. f = Encode(p)
    BY <1>1, <1>2, <1>3, <1>4, <1>5, TypesAre DEF Encode, WriteBody
<1>8. QED  BY <1>4, <1>5, <1>6, <1>7

LEMMA EncodedComplete ==
    ASSUME CodecAssumption, NEW p \in PacketFields, p.type = CompleteType
    PROVE  \E f \in Frames :
              /\ f = Encode(p) /\ Headed(f, p) /\ AllZero(f, 18)
              /\ LoadLe32(f, 9) = p.total_size /\ LoadLe32(f, 13) = p.crc32
              /\ f[18] = p.error
<1>1. PICK f0 \in Frames : f0 = WriteCommon(p) /\ Headed(f0, p) /\ AllZero(f0, 9)
    BY CommonIs DEF Headed
<1>2. PICK f1 \in Frames :
         /\ f1 = StoreLe32(f0, 9, p.total_size) /\ LoadLe32(f1, 9) = p.total_size
         /\ Headed(f1, p) /\ AllZero(f1, 13)
    <2>1. 9 + 4 = 13
        OBVIOUS
    <2>2. QED  BY <1>1, <2>1, FieldsAre, Offsets, ThenLe32
<1>3. PICK f2 \in Frames :
         /\ f2 = StoreLe32(f1, 13, p.crc32) /\ LoadLe32(f2, 13) = p.crc32
         /\ Appended(f1, f2, 13, 4) /\ Headed(f2, p) /\ AllZero(f2, 17)
    <2>1. 13 + 4 = 17
        OBVIOUS
    <2>2. QED  BY <1>2, <2>1, FieldsAre, Offsets, ThenLe32
<1>4. PICK f \in Frames :
         /\ f = StoreByte(f2, 17, p.error) /\ f[18] = p.error
         /\ Appended(f2, f, 17, 1) /\ Headed(f, p) /\ AllZero(f, 18)
    <2>1. 17 + 1 = 18
        OBVIOUS
    <2>2. QED  BY <1>3, <2>1, FieldsAre, Offsets, ThenByte
<1>5. LoadLe32(f, 9) = p.total_size /\ LoadLe32(f, 13) = p.crc32
    <2>1. 9 \in 0..(13 - 4) /\ 9 \in 0..(17 - 4) /\ 13 \in 0..(17 - 4)
        OBVIOUS
    <2>2. LoadLe32(f2, 9) = p.total_size
        BY <1>2, <1>3, <2>1 DEF Appended
    <2>3. QED  BY <1>3, <1>4, <2>1, <2>2 DEF Appended
<1>6. f = Encode(p)
    BY <1>1, <1>2, <1>3, <1>4, TypesAre DEF Encode, WriteBody
<1>7. QED  BY <1>4, <1>5, <1>6

LEMMA EncodedError ==
    ASSUME CodecAssumption, NEW p \in PacketFields, p.type = ErrorType
    PROVE  \E f \in Frames :
              /\ f = Encode(p) /\ Headed(f, p) /\ AllZero(f, 15)
              /\ f[10] = p.error /\ LoadLe32(f, 10) = p.relevant_sequence /\ f[15] = p.state
<1>1. PICK f0 \in Frames : f0 = WriteCommon(p) /\ Headed(f0, p) /\ AllZero(f0, 9)
    BY CommonIs DEF Headed
<1>2. PICK f1 \in Frames :
         /\ f1 = StoreByte(f0, 9, p.error) /\ f1[10] = p.error
         /\ Headed(f1, p) /\ AllZero(f1, 10)
    <2>1. 9 + 1 = 10
        OBVIOUS
    <2>2. QED  BY <1>1, <2>1, FieldsAre, Offsets, ThenByte
<1>3. PICK f2 \in Frames :
         /\ f2 = StoreLe32(f1, 10, p.relevant_sequence)
         /\ LoadLe32(f2, 10) = p.relevant_sequence
         /\ Appended(f1, f2, 10, 4) /\ Headed(f2, p) /\ AllZero(f2, 14)
    <2>1. 10 + 4 = 14
        OBVIOUS
    <2>2. QED  BY <1>2, <2>1, FieldsAre, Offsets, ThenLe32
<1>4. PICK f \in Frames :
         /\ f = StoreByte(f2, 14, p.state) /\ f[15] = p.state
         /\ Appended(f2, f, 14, 1) /\ Headed(f, p) /\ AllZero(f, 15)
    <2>1. 14 + 1 = 15
        OBVIOUS
    <2>2. QED  BY <1>3, <2>1, FieldsAre, Offsets, ThenByte
<1>5. f[10] = p.error /\ LoadLe32(f, 10) = p.relevant_sequence
    <2>1. 10 \in 1..10 /\ 10 \in 1..14 /\ 10 \in 0..(14 - 4)
        OBVIOUS
    <2>2. f2[10] = p.error
        BY <1>2, <1>3, <2>1 DEF Appended
    <2>3. QED  BY <1>3, <1>4, <2>1, <2>2 DEF Appended
<1>6. f = Encode(p)
    BY <1>1, <1>2, <1>3, <1>4, TypesAre DEF Encode, WriteBody
<1>7. QED  BY <1>4, <1>5, <1>6

LEMMA EncodedCancel ==
    ASSUME CodecAssumption, NEW p \in PacketFields, p.type = CancelType
    PROVE  \E f \in Frames :
              /\ f = Encode(p) /\ Headed(f, p) /\ AllZero(f, 10) /\ f[10] = p.error
<1>1. PICK f0 \in Frames : f0 = WriteCommon(p) /\ Headed(f0, p) /\ AllZero(f0, 9)
    BY CommonIs DEF Headed
<1>2. PICK f \in Frames :
         /\ f = StoreByte(f0, 9, p.error) /\ f[10] = p.error
         /\ Headed(f, p) /\ AllZero(f, 10)
    <2>1. 9 + 1 = 10
        OBVIOUS
    <2>2. QED  BY <1>1, <2>1, FieldsAre, Offsets, ThenByte
<1>3. f = Encode(p)
    BY <1>1, <1>2, TypesAre DEF Encode, WriteBody
<1>4. QED  BY <1>2, <1>3

-----------------------------------------------------------------------------
(* What is read of it.                                                     *)

LEMMA HeaderIs ==
    ASSUME NEW p \in PacketFields, NEW f \in Frames, Headed(f, p)
    PROVE  HasHeader(f)
<1>1. \A i \in 1..3 : i = 1 \/ i = 2 \/ i = 3
    OBVIOUS
<1>2. QED  BY <1>1, FieldsAre DEF Headed, HasHeader

\* What a frame says its packet is, is in its header.
LEMMA HeaderOf ==
    ASSUME NEW p, NEW f \in Frames, HasHeader(f), p.type = f[5],
           p.transfer_id = LoadLe32(f, 5)
    PROVE  Headed(f, p)
<1>1. 1 \in 1..3 /\ 2 \in 1..3 /\ 3 \in 1..3
    OBVIOUS
<1>2. QED  BY <1>1 DEF Headed, HasHeader

\* Two frames with one header have the first nine bytes in common.
LEMMA SameHead ==
    ASSUME CodecAssumption, NEW p, NEW f \in Frames, NEW g \in Frames,
           Headed(f, p), Headed(g, p)
    PROVE  \A i \in 1..9 : g[i] = f[i]
<1>1. g[1] = f[1] /\ g[2] = f[2] /\ g[3] = f[3] /\ g[4] = f[4] /\ g[5] = f[5]
    BY DEF Headed
<1>2. \A i \in (5 + 1)..(5 + 4) : g[i] = f[i]
    <2>1. 5 \in 0..(FrameSize - 4)
        BY DEF FrameSize
    <2>2. LoadLe32(g, 5) = LoadLe32(f, 5)
        BY DEF Headed
    <2>3. QED  BY <2>1, <2>2, Load32Is
<1>3. \A i \in 1..9 : \/ i = 1 \/ i = 2 \/ i = 3 \/ i = 4 \/ i = 5
                      \/ i \in (5 + 1)..(5 + 4)
    OBVIOUS
<1>4. QED  BY <1>1, <1>2, <1>3

\* The places of the numbers.
LEMMA NumberPlaces ==
    /\ 5 \in 0..(FrameSize - 4) /\ 9 \in 0..(FrameSize - 4) /\ 10 \in 0..(FrameSize - 4)
    /\ 13 \in 0..(FrameSize - 4) /\ 17 \in 0..(FrameSize - 4) /\ 9 \in 0..(FrameSize - 2)
    /\ \A i \in 1..ExtensionBytes : 22 + i \in 1..FrameSize
    /\ \A i \in 1..Capacity : 12 + i \in 1..FrameSize
    /\ \A i \in 1..32 : i \in 1..FrameSize
BY DEF FrameSize, ExtensionBytes, Capacity

\* Frames that agree in every byte are one.
LEMMA BytesAre ==
    ASSUME CodecAssumption, NEW f \in Frames
    PROVE  /\ f[10] \in Byte /\ f[12] \in Byte /\ f[14] \in Byte /\ f[15] \in Byte
           /\ f[18] \in Byte /\ f[22] \in Byte
           /\ f[14] <= 1 => f[14] \in {0, 1}
<1>1. /\ 10 \in 1..FrameSize /\ 12 \in 1..FrameSize /\ 14 \in 1..FrameSize
      /\ 15 \in 1..FrameSize /\ 18 \in 1..FrameSize /\ 22 \in 1..FrameSize
    BY DEF FrameSize
<1>2. /\ f[10] \in Byte /\ f[12] \in Byte /\ f[14] \in Byte /\ f[15] \in Byte
      /\ f[18] \in Byte /\ f[22] \in Byte
    BY <1>1 DEF Frames
<1>3. f[14] <= 1 => f[14] \in {0, 1}
    <2>1. f[14] \in Nat
        BY <1>2, Weights DEF Byte
    <2>2. QED  BY <2>1
<1>4. QED  BY <1>2, <1>3

LEMMA SameFrame ==
    ASSUME NEW f \in Frames, NEW g \in Frames, \A i \in 1..FrameSize : g[i] = f[i]
    PROVE  g = f
<1>1. /\ g = [i \in 1..FrameSize |-> g[i]] /\ f = [i \in 1..FrameSize |-> f[i]]
    BY DEF Frames
<1>2. [i \in 1..FrameSize |-> g[i]] = [i \in 1..FrameSize |-> f[i]]
    OBVIOUS
<1>3. QED  BY <1>1, <1>2

LEMMA ReadAck ==
    ASSUME CodecAssumption, NEW p \in Sendable, p.type = AckType
    PROVE  \E f \in Frames :
              /\ f = Encode(p) /\ Headed(f, p) /\ Fields(f) = p /\ AllZero(f, Used(p))
<1>1. p \in PacketFields /\ p = Carried(p)
    BY DEF Sendable
<1>2. p = AckPacket(p.transfer_id, p.sequence)
    BY <1>1, TypesAre DEF Carried
<1>3. PICK f \in Frames :
         /\ f = Encode(p) /\ Headed(f, p) /\ AllZero(f, 11)
         /\ LoadLe16(f, 9) = p.sequence
    BY <1>1, EncodedAck
<1>4. f[5] = AckType /\ LoadLe32(f, 5) = p.transfer_id
    BY <1>3 DEF Headed
<1>5. Fields(f) = p
    <2>1. Fields(f) = AckPacket(LoadLe32(f, 5), LoadLe16(f, 9))
        BY <1>4, TypesAre DEF Fields
    <2>2. QED  BY <1>2, <1>3, <1>4, <2>1
<1>6. Used(p) = 11
    BY TypesAre DEF Used
<1>7. QED  BY <1>3, <1>5, <1>6

LEMMA AgainAck ==
    ASSUME CodecAssumption, NEW f \in Frames, HasHeader(f), f[5] = AckType,
           AllZero(f, 11)
    PROVE  Fields(f) \in Sendable /\ Encode(Fields(f)) = f
<1>1. PICK p : p = AckPacket(LoadLe32(f, 5), LoadLe16(f, 9))
    OBVIOUS
<1>2. Fields(f) = p
    BY <1>1, TypesAre DEF Fields
<1>3. /\ p \in Sendable /\ p.type = AckType
      /\ p.transfer_id = LoadLe32(f, 5) /\ p.sequence = LoadLe16(f, 9)
    <2>1. LoadLe32(f, 5) \in Word32 /\ LoadLe16(f, 9) \in HalfWord
        BY NumberPlaces, Load32Is, Load16Is
    <2>2. QED  BY <1>1, <2>1, MadeAck
<1>4. PICK g \in Frames :
         /\ g = Encode(p) /\ Headed(g, p) /\ AllZero(g, 11)
         /\ LoadLe16(g, 9) = p.sequence
    <2>1. p \in PacketFields
        BY <1>3 DEF Sendable
    <2>2. QED  BY <1>3, <2>1, EncodedAck
<1>5. \A i \in 1..9 : g[i] = f[i]
    <2>1. Headed(f, p)
        BY <1>3, HeaderOf
    <2>2. QED  BY <1>4, <2>1, SameHead
<1>6. \A i \in (9 + 1)..(9 + 2) : g[i] = f[i]
    BY <1>3, <1>4, NumberPlaces, Load16Is
<1>7. \A i \in (11 + 1)..FrameSize : g[i] = f[i]
    BY <1>4 DEF AllZero
<1>8. \A i \in 1..FrameSize :
         \/ i \in 1..9 \/ i \in (9 + 1)..(9 + 2) \/ i \in (11 + 1)..FrameSize
    BY DEF FrameSize
<1>9. g = f
    <2>1. \A i \in 1..FrameSize : g[i] = f[i]
        BY <1>5, <1>6, <1>7, <1>8
    <2>2. QED  BY <2>1, SameFrame
<1>10. QED  BY <1>2, <1>3, <1>4, <1>9

LEMMA ReadNack ==
    ASSUME CodecAssumption, NEW p \in Sendable, p.type = NackType
    PROVE  \E f \in Frames :
              /\ f = Encode(p) /\ Headed(f, p) /\ Fields(f) = p /\ AllZero(f, Used(p))
<1>1. p \in PacketFields /\ p = Carried(p)
    BY DEF Sendable
<1>2. p = NackPacket(p.transfer_id, p.expected_sequence, p.error)
    BY <1>1, TypesAre DEF Carried
<1>3. PICK f \in Frames :
         /\ f = Encode(p) /\ Headed(f, p) /\ AllZero(f, 14)
         /\ LoadLe32(f, 9) = p.expected_sequence /\ f[14] = p.error
    BY <1>1, EncodedNack
<1>4. f[5] = NackType /\ LoadLe32(f, 5) = p.transfer_id
    BY <1>3 DEF Headed
<1>5. Fields(f) = p
    <2>1. Fields(f) = NackPacket(LoadLe32(f, 5), LoadLe32(f, 9), f[14])
        BY <1>4, TypesAre DEF Fields
    <2>2. QED  BY <1>2, <1>3, <1>4, <2>1
<1>6. Used(p) = 14
    BY TypesAre DEF Used
<1>7. QED  BY <1>3, <1>5, <1>6

LEMMA AgainNack ==
    ASSUME CodecAssumption, NEW f \in Frames, HasHeader(f), f[5] = NackType,
           AllZero(f, 14)
    PROVE  Fields(f) \in Sendable /\ Encode(Fields(f)) = f
<1>1. PICK p : p = NackPacket(LoadLe32(f, 5), LoadLe32(f, 9), f[14])
    OBVIOUS
<1>2. Fields(f) = p
    BY <1>1, TypesAre DEF Fields
<1>3. /\ p \in Sendable /\ p.type = NackType
      /\ p.transfer_id = LoadLe32(f, 5) /\ p.expected_sequence = LoadLe32(f, 9)
      /\ p.error = f[14]
    <2>1. LoadLe32(f, 5) \in Word32 /\ LoadLe32(f, 9) \in Word32
        BY NumberPlaces, Load32Is, Load16Is
    <2>2. f[14] \in Byte
        BY BytesAre
    <2>3. QED  BY <1>1, <2>1, <2>2, MadeNack
<1>4. PICK g \in Frames :
         /\ g = Encode(p) /\ Headed(g, p) /\ AllZero(g, 14)
         /\ LoadLe32(g, 9) = p.expected_sequence /\ g[14] = p.error
    <2>1. p \in PacketFields
        BY <1>3 DEF Sendable
    <2>2. QED  BY <1>3, <2>1, EncodedNack
<1>5. \A i \in 1..9 : g[i] = f[i]
    <2>1. Headed(f, p)
        BY <1>3, HeaderOf
    <2>2. QED  BY <1>4, <2>1, SameHead
<1>6. \A i \in (9 + 1)..(9 + 4) : g[i] = f[i]
    BY <1>3, <1>4, NumberPlaces, Load32Is
<1>7. g[14] = f[14]
    BY <1>3, <1>4
<1>8. \A i \in (14 + 1)..FrameSize : g[i] = f[i]
    BY <1>4 DEF AllZero
<1>9. \A i \in 1..FrameSize :
         \/ i \in 1..9 \/ i \in (9 + 1)..(9 + 4) \/ i = 14 \/ i \in (14 + 1)..FrameSize
    BY DEF FrameSize
<1>10. g = f
    <2>1. \A i \in 1..FrameSize : g[i] = f[i]
        BY <1>5, <1>6, <1>7, <1>8, <1>9
    <2>2. QED  BY <2>1, SameFrame
<1>11. QED  BY <1>2, <1>3, <1>4, <1>10

LEMMA ReadEnd ==
    ASSUME CodecAssumption, NEW p \in Sendable, p.type = EndType
    PROVE  \E f \in Frames :
              /\ f = Encode(p) /\ Headed(f, p) /\ Fields(f) = p /\ AllZero(f, Used(p))
<1>1. p \in PacketFields /\ p = Carried(p)
    BY DEF Sendable
<1>2. p = EndPacket(p.transfer_id, p.total_size, p.total_packets, p.crc32)
    BY <1>1, TypesAre DEF Carried
<1>3. PICK f \in Frames :
         /\ f = Encode(p) /\ Headed(f, p) /\ AllZero(f, 21)
         /\ LoadLe32(f, 9) = p.total_size /\ LoadLe32(f, 13) = p.total_packets
         /\ LoadLe32(f, 17) = p.crc32
    BY <1>1, EncodedEnd
<1>4. f[5] = EndType /\ LoadLe32(f, 5) = p.transfer_id
    BY <1>3 DEF Headed
<1>5. Fields(f) = p
    <2>1. Fields(f) = EndPacket(LoadLe32(f, 5), LoadLe32(f, 9), LoadLe32(f, 13),
                                LoadLe32(f, 17))
        BY <1>4, TypesAre DEF Fields
    <2>2. QED  BY <1>2, <1>3, <1>4, <2>1
<1>6. Used(p) = 21
    BY TypesAre DEF Used
<1>7. QED  BY <1>3, <1>5, <1>6

LEMMA AgainEnd ==
    ASSUME CodecAssumption, NEW f \in Frames, HasHeader(f), f[5] = EndType,
           AllZero(f, 21)
    PROVE  Fields(f) \in Sendable /\ Encode(Fields(f)) = f
<1>1. PICK p : p = EndPacket(LoadLe32(f, 5), LoadLe32(f, 9), LoadLe32(f, 13), LoadLe32(f, 17))
    OBVIOUS
<1>2. Fields(f) = p
    BY <1>1, TypesAre DEF Fields
<1>3. /\ p \in Sendable /\ p.type = EndType
      /\ p.transfer_id = LoadLe32(f, 5) /\ p.total_size = LoadLe32(f, 9)
      /\ p.total_packets = LoadLe32(f, 13) /\ p.crc32 = LoadLe32(f, 17)
    <2>1. /\ LoadLe32(f, 5) \in Word32 /\ LoadLe32(f, 9) \in Word32
          /\ LoadLe32(f, 13) \in Word32 /\ LoadLe32(f, 17) \in Word32
        BY NumberPlaces, Load32Is, Load16Is
    <2>2. QED  BY <1>1, <2>1, MadeEnd
<1>4. PICK g \in Frames :
         /\ g = Encode(p) /\ Headed(g, p) /\ AllZero(g, 21)
         /\ LoadLe32(g, 9) = p.total_size /\ LoadLe32(g, 13) = p.total_packets
         /\ LoadLe32(g, 17) = p.crc32
    <2>1. p \in PacketFields
        BY <1>3 DEF Sendable
    <2>2. QED  BY <1>3, <2>1, EncodedEnd
<1>5. \A i \in 1..9 : g[i] = f[i]
    <2>1. Headed(f, p)
        BY <1>3, HeaderOf
    <2>2. QED  BY <1>4, <2>1, SameHead
<1>6. \A i \in (9 + 1)..(9 + 4) : g[i] = f[i]
    BY <1>3, <1>4, NumberPlaces, Load32Is
<1>7. \A i \in (13 + 1)..(13 + 4) : g[i] = f[i]
    BY <1>3, <1>4, NumberPlaces, Load32Is
<1>8. \A i \in (17 + 1)..(17 + 4) : g[i] = f[i]
    BY <1>3, <1>4, NumberPlaces, Load32Is
<1>9. \A i \in (21 + 1)..FrameSize : g[i] = f[i]
    BY <1>4 DEF AllZero
<1>10. \A i \in 1..FrameSize :
         \/ i \in 1..9 \/ i \in (9 + 1)..(9 + 4) \/ i \in (13 + 1)..(13 + 4)
         \/ i \in (17 + 1)..(17 + 4) \/ i \in (21 + 1)..FrameSize
    BY DEF FrameSize
<1>11. g = f
    <2>1. \A i \in 1..FrameSize : g[i] = f[i]
        BY <1>5, <1>6, <1>7, <1>8, <1>9, <1>10
    <2>2. QED  BY <2>1, SameFrame
<1>12. QED  BY <1>2, <1>3, <1>4, <1>11

LEMMA ReadComplete ==
    ASSUME CodecAssumption, NEW p \in Sendable, p.type = CompleteType
    PROVE  \E f \in Frames :
              /\ f = Encode(p) /\ Headed(f, p) /\ Fields(f) = p /\ AllZero(f, Used(p))
<1>1. p \in PacketFields /\ p = Carried(p)
    BY DEF Sendable
<1>2. p = CompletePacket(p.transfer_id, p.total_size, p.crc32, p.error)
    BY <1>1, TypesAre DEF Carried
<1>3. PICK f \in Frames :
         /\ f = Encode(p) /\ Headed(f, p) /\ AllZero(f, 18)
         /\ LoadLe32(f, 9) = p.total_size /\ LoadLe32(f, 13) = p.crc32 /\ f[18] = p.error
    BY <1>1, EncodedComplete
<1>4. f[5] = CompleteType /\ LoadLe32(f, 5) = p.transfer_id
    BY <1>3 DEF Headed
<1>5. Fields(f) = p
    <2>1. Fields(f) = CompletePacket(LoadLe32(f, 5), LoadLe32(f, 9), LoadLe32(f, 13), f[18])
        BY <1>4, TypesAre DEF Fields
    <2>2. QED  BY <1>2, <1>3, <1>4, <2>1
<1>6. Used(p) = 18
    BY TypesAre DEF Used
<1>7. QED  BY <1>3, <1>5, <1>6

LEMMA AgainComplete ==
    ASSUME CodecAssumption, NEW f \in Frames, HasHeader(f), f[5] = CompleteType,
           AllZero(f, 18)
    PROVE  Fields(f) \in Sendable /\ Encode(Fields(f)) = f
<1>1. PICK p : p = CompletePacket(LoadLe32(f, 5), LoadLe32(f, 9), LoadLe32(f, 13), f[18])
    OBVIOUS
<1>2. Fields(f) = p
    BY <1>1, TypesAre DEF Fields
<1>3. /\ p \in Sendable /\ p.type = CompleteType
      /\ p.transfer_id = LoadLe32(f, 5) /\ p.total_size = LoadLe32(f, 9)
      /\ p.crc32 = LoadLe32(f, 13) /\ p.error = f[18]
    <2>1. LoadLe32(f, 5) \in Word32 /\ LoadLe32(f, 9) \in Word32 /\ LoadLe32(f, 13) \in Word32
        BY NumberPlaces, Load32Is, Load16Is
    <2>2. f[18] \in Byte
        BY BytesAre
    <2>3. QED  BY <1>1, <2>1, <2>2, MadeComplete
<1>4. PICK g \in Frames :
         /\ g = Encode(p) /\ Headed(g, p) /\ AllZero(g, 18)
         /\ LoadLe32(g, 9) = p.total_size /\ LoadLe32(g, 13) = p.crc32 /\ g[18] = p.error
    <2>1. p \in PacketFields
        BY <1>3 DEF Sendable
    <2>2. QED  BY <1>3, <2>1, EncodedComplete
<1>5. \A i \in 1..9 : g[i] = f[i]
    <2>1. Headed(f, p)
        BY <1>3, HeaderOf
    <2>2. QED  BY <1>4, <2>1, SameHead
<1>6. \A i \in (9 + 1)..(9 + 4) : g[i] = f[i]
    BY <1>3, <1>4, NumberPlaces, Load32Is
<1>7. \A i \in (13 + 1)..(13 + 4) : g[i] = f[i]
    BY <1>3, <1>4, NumberPlaces, Load32Is
<1>8. g[18] = f[18]
    BY <1>3, <1>4
<1>9. \A i \in (18 + 1)..FrameSize : g[i] = f[i]
    BY <1>4 DEF AllZero
<1>10. \A i \in 1..FrameSize :
         \/ i \in 1..9 \/ i \in (9 + 1)..(9 + 4) \/ i \in (13 + 1)..(13 + 4) \/ i = 18
         \/ i \in (18 + 1)..FrameSize
    BY DEF FrameSize
<1>11. g = f
    <2>1. \A i \in 1..FrameSize : g[i] = f[i]
        BY <1>5, <1>6, <1>7, <1>8, <1>9, <1>10
    <2>2. QED  BY <2>1, SameFrame
<1>12. QED  BY <1>2, <1>3, <1>4, <1>11

LEMMA ReadError ==
    ASSUME CodecAssumption, NEW p \in Sendable, p.type = ErrorType
    PROVE  \E f \in Frames :
              /\ f = Encode(p) /\ Headed(f, p) /\ Fields(f) = p /\ AllZero(f, Used(p))
<1>1. p \in PacketFields /\ p = Carried(p)
    BY DEF Sendable
<1>2. p = ErrorPacket(p.transfer_id, p.error, p.relevant_sequence, p.state)
    BY <1>1, TypesAre DEF Carried
<1>3. PICK f \in Frames :
         /\ f = Encode(p) /\ Headed(f, p) /\ AllZero(f, 15)
         /\ f[10] = p.error /\ LoadLe32(f, 10) = p.relevant_sequence /\ f[15] = p.state
    BY <1>1, EncodedError
<1>4. f[5] = ErrorType /\ LoadLe32(f, 5) = p.transfer_id
    BY <1>3 DEF Headed
<1>5. Fields(f) = p
    <2>1. Fields(f) = ErrorPacket(LoadLe32(f, 5), f[10], LoadLe32(f, 10), f[15])
        BY <1>4, TypesAre DEF Fields
    <2>2. QED  BY <1>2, <1>3, <1>4, <2>1
<1>6. Used(p) = 15
    BY TypesAre DEF Used
<1>7. QED  BY <1>3, <1>5, <1>6

LEMMA AgainError ==
    ASSUME CodecAssumption, NEW f \in Frames, HasHeader(f), f[5] = ErrorType,
           AllZero(f, 15)
    PROVE  Fields(f) \in Sendable /\ Encode(Fields(f)) = f
<1>1. PICK p : p = ErrorPacket(LoadLe32(f, 5), f[10], LoadLe32(f, 10), f[15])
    OBVIOUS
<1>2. Fields(f) = p
    BY <1>1, TypesAre DEF Fields
<1>3. /\ p \in Sendable /\ p.type = ErrorType
      /\ p.transfer_id = LoadLe32(f, 5) /\ p.error = f[10]
      /\ p.relevant_sequence = LoadLe32(f, 10) /\ p.state = f[15]
    <2>1. LoadLe32(f, 5) \in Word32 /\ LoadLe32(f, 10) \in Word32
        BY NumberPlaces, Load32Is, Load16Is
    <2>2. f[10] \in Byte /\ f[15] \in Byte
        BY BytesAre
    <2>3. QED  BY <1>1, <2>1, <2>2, MadeError
<1>4. PICK g \in Frames :
         /\ g = Encode(p) /\ Headed(g, p) /\ AllZero(g, 15)
         /\ g[10] = p.error /\ LoadLe32(g, 10) = p.relevant_sequence /\ g[15] = p.state
    <2>1. p \in PacketFields
        BY <1>3 DEF Sendable
    <2>2. QED  BY <1>3, <2>1, EncodedError
<1>5. \A i \in 1..9 : g[i] = f[i]
    <2>1. Headed(f, p)
        BY <1>3, HeaderOf
    <2>2. QED  BY <1>4, <2>1, SameHead
<1>6. g[10] = f[10]
    BY <1>3, <1>4
<1>7. \A i \in (10 + 1)..(10 + 4) : g[i] = f[i]
    BY <1>3, <1>4, NumberPlaces, Load32Is
<1>8. g[15] = f[15]
    BY <1>3, <1>4
<1>9. \A i \in (15 + 1)..FrameSize : g[i] = f[i]
    BY <1>4 DEF AllZero
<1>10. \A i \in 1..FrameSize :
         \/ i \in 1..9 \/ i = 10 \/ i \in (10 + 1)..(10 + 4) \/ i = 15
         \/ i \in (15 + 1)..FrameSize
    BY DEF FrameSize
<1>11. g = f
    <2>1. \A i \in 1..FrameSize : g[i] = f[i]
        BY <1>5, <1>6, <1>7, <1>8, <1>9, <1>10
    <2>2. QED  BY <2>1, SameFrame
<1>12. QED  BY <1>2, <1>3, <1>4, <1>11

LEMMA ReadCancel ==
    ASSUME CodecAssumption, NEW p \in Sendable, p.type = CancelType
    PROVE  \E f \in Frames :
              /\ f = Encode(p) /\ Headed(f, p) /\ Fields(f) = p /\ AllZero(f, Used(p))
<1>1. p \in PacketFields /\ p = Carried(p)
    BY DEF Sendable
<1>2. p = CancelPacket(p.transfer_id, p.error)
    BY <1>1, TypesAre DEF Carried
<1>3. PICK f \in Frames :
         /\ f = Encode(p) /\ Headed(f, p) /\ AllZero(f, 10)
         /\ f[10] = p.error
    BY <1>1, EncodedCancel
<1>4. f[5] = CancelType /\ LoadLe32(f, 5) = p.transfer_id
    BY <1>3 DEF Headed
<1>5. Fields(f) = p
    <2>1. Fields(f) = CancelPacket(LoadLe32(f, 5), f[10])
        BY <1>4, TypesAre DEF Fields
    <2>2. QED  BY <1>2, <1>3, <1>4, <2>1
<1>6. Used(p) = 10
    BY TypesAre DEF Used
<1>7. QED  BY <1>3, <1>5, <1>6

LEMMA AgainCancel ==
    ASSUME CodecAssumption, NEW f \in Frames, HasHeader(f), f[5] = CancelType,
           AllZero(f, 10)
    PROVE  Fields(f) \in Sendable /\ Encode(Fields(f)) = f
<1>1. PICK p : p = CancelPacket(LoadLe32(f, 5), f[10])
    OBVIOUS
<1>2. Fields(f) = p
    BY <1>1, TypesAre DEF Fields
<1>3. /\ p \in Sendable /\ p.type = CancelType
      /\ p.transfer_id = LoadLe32(f, 5) /\ p.error = f[10]
    <2>1. LoadLe32(f, 5) \in Word32
        BY NumberPlaces, Load32Is, Load16Is
    <2>2. f[10] \in Byte
        BY BytesAre
    <2>3. QED  BY <1>1, <2>1, <2>2, MadeCancel
<1>4. PICK g \in Frames :
         /\ g = Encode(p) /\ Headed(g, p) /\ AllZero(g, 10)
         /\ g[10] = p.error
    <2>1. p \in PacketFields
        BY <1>3 DEF Sendable
    <2>2. QED  BY <1>3, <2>1, EncodedCancel
<1>5. \A i \in 1..9 : g[i] = f[i]
    <2>1. Headed(f, p)
        BY <1>3, HeaderOf
    <2>2. QED  BY <1>4, <2>1, SameHead
<1>6. g[10] = f[10]
    BY <1>3, <1>4
<1>7. \A i \in (10 + 1)..FrameSize : g[i] = f[i]
    BY <1>4 DEF AllZero
<1>8. \A i \in 1..FrameSize :
         \/ i \in 1..9 \/ i = 10 \/ i \in (10 + 1)..FrameSize
    BY DEF FrameSize
<1>9. g = f
    <2>1. \A i \in 1..FrameSize : g[i] = f[i]
        BY <1>5, <1>6, <1>7, <1>8
    <2>2. QED  BY <2>1, SameFrame
<1>10. QED  BY <1>2, <1>3, <1>4, <1>9

LEMMA ReadReady ==
    ASSUME CodecAssumption, NEW p \in Sendable, p.type = ReadyType
    PROVE  \E f \in Frames :
              /\ f = Encode(p) /\ Headed(f, p) /\ Fields(f) = p /\ AllZero(f, Used(p))
              /\ f[14] <= 1
<1>1. p \in PacketFields /\ p = Carried(p)
    BY DEF Sendable
<1>2. p = ReadyPacket(p.transfer_id, p.expected_sequence, p.accepted, p.error)
    BY <1>1, TypesAre DEF Carried
<1>3. PICK f \in Frames :
         /\ f = Encode(p) /\ Headed(f, p) /\ AllZero(f, 15)
         /\ LoadLe32(f, 9) = p.expected_sequence /\ f[14] = p.accepted /\ f[15] = p.error
    BY <1>1, EncodedReady
<1>4. f[5] = ReadyType /\ LoadLe32(f, 5) = p.transfer_id
    BY <1>3 DEF Headed
<1>5. p.accepted \in {0, 1} /\ f[14] = p.accepted
    BY <1>1, <1>3, FieldsAre
<1>6. f[14] <= 1 /\ (IF f[14] # 0 THEN 1 ELSE 0) = p.accepted
    BY <1>5
<1>7. Fields(f) = p
    <2>1. Fields(f) = ReadyPacket(LoadLe32(f, 5), LoadLe32(f, 9),
                                  IF f[14] # 0 THEN 1 ELSE 0, f[15])
        BY <1>4, TypesAre DEF Fields
    <2>2. QED  BY <1>2, <1>3, <1>4, <1>6, <2>1
<1>8. Used(p) = 15
    BY TypesAre DEF Used
<1>9. QED  BY <1>3, <1>6, <1>7, <1>8

LEMMA AgainReady ==
    ASSUME CodecAssumption, NEW f \in Frames, HasHeader(f), f[5] = ReadyType,
           AllZero(f, 15), f[14] <= 1
    PROVE  Fields(f) \in Sendable /\ Encode(Fields(f)) = f
<1>1. PICK p : p = ReadyPacket(LoadLe32(f, 5), LoadLe32(f, 9), f[14], f[15])
    OBVIOUS
<1>2. Fields(f) = p
    <2>1. Fields(f) = ReadyPacket(LoadLe32(f, 5), LoadLe32(f, 9),
                                  IF f[14] # 0 THEN 1 ELSE 0, f[15])
        BY TypesAre DEF Fields
    <2>2. f[14] \in {0, 1}
        BY BytesAre
    <2>3. (IF f[14] # 0 THEN 1 ELSE 0) = f[14]
        BY <2>2
    <2>4. QED  BY <1>1, <2>1, <2>3
<1>3. /\ p \in Sendable /\ p.type = ReadyType
      /\ p.transfer_id = LoadLe32(f, 5) /\ p.expected_sequence = LoadLe32(f, 9)
      /\ p.accepted = f[14] /\ p.error = f[15]
    <2>1. LoadLe32(f, 5) \in Word32 /\ LoadLe32(f, 9) \in Word32
        BY NumberPlaces, Load32Is, Load16Is
    <2>2. f[14] \in {0, 1} /\ f[15] \in Byte
        BY BytesAre
    <2>3. QED  BY <1>1, <2>1, <2>2, MadeReady
<1>4. PICK g \in Frames :
         /\ g = Encode(p) /\ Headed(g, p) /\ AllZero(g, 15)
         /\ LoadLe32(g, 9) = p.expected_sequence /\ g[14] = p.accepted /\ g[15] = p.error
    <2>1. p \in PacketFields
        BY <1>3 DEF Sendable
    <2>2. QED  BY <1>3, <2>1, EncodedReady
<1>5. \A i \in 1..9 : g[i] = f[i]
    <2>1. Headed(f, p)
        BY <1>3, HeaderOf
    <2>2. QED  BY <1>4, <2>1, SameHead
<1>6. \A i \in (9 + 1)..(9 + 4) : g[i] = f[i]
    BY <1>3, <1>4, NumberPlaces, Load32Is
<1>7. g[14] = f[14]
    BY <1>3, <1>4
<1>8. g[15] = f[15]
    BY <1>3, <1>4
<1>9. \A i \in (15 + 1)..FrameSize : g[i] = f[i]
    BY <1>4 DEF AllZero
<1>10. \A i \in 1..FrameSize :
         \/ i \in 1..9 \/ i \in (9 + 1)..(9 + 4) \/ i = 14 \/ i = 15
         \/ i \in (15 + 1)..FrameSize
    BY DEF FrameSize
<1>11. g = f
    <2>1. \A i \in 1..FrameSize : g[i] = f[i]
        BY <1>5, <1>6, <1>7, <1>8, <1>9, <1>10
    <2>2. QED  BY <2>1, SameFrame
<1>12. QED  BY <1>2, <1>3, <1>4, <1>11

LEMMA ReadStart ==
    ASSUME CodecAssumption, NEW p \in Sendable, p.type = StartType
    PROVE  \E f \in Frames :
              /\ f = Encode(p) /\ Headed(f, p) /\ Fields(f) = p /\ AllZero(f, Used(p))
<1>1. p \in PacketFields /\ p = Carried(p)
    BY DEF Sendable
<1>2. p = StartPacket(p.transfer_id, p.total_size, p.total_packets, p.crc32, p.flags,
                      p.extension)
    BY <1>1, TypesAre DEF Carried
<1>3. PICK f \in Frames :
         /\ f = Encode(p) /\ Headed(f, p)
         /\ LoadLe32(f, 9) = p.total_size /\ LoadLe32(f, 13) = p.total_packets
         /\ LoadLe32(f, 17) = p.crc32 /\ f[22] = p.flags
         /\ \A i \in 1..ExtensionBytes : f[22 + i] = p.extension[i]
    BY <1>1, EncodedStart
<1>4. f[5] = StartType /\ LoadLe32(f, 5) = p.transfer_id
    BY <1>3 DEF Headed
<1>5. [i \in 1..ExtensionBytes |-> f[22 + i]] = p.extension
    <2>1. p.extension = [i \in 1..ExtensionBytes |-> p.extension[i]]
        BY <1>1, FieldsAre
    <2>2. QED  BY <1>3, <2>1
<1>6. Fields(f) = p
    <2>1. Fields(f) = StartPacket(LoadLe32(f, 5), LoadLe32(f, 9), LoadLe32(f, 13),
                                  LoadLe32(f, 17), f[22],
                                  [i \in 1..ExtensionBytes |-> f[22 + i]])
        BY <1>4, TypesAre DEF Fields
    <2>2. QED  BY <1>2, <1>3, <1>4, <1>5, <2>1
<1>7. AllZero(f, Used(p))
    <2>1. Used(p) = FrameSize
        BY TypesAre DEF Used
    <2>2. (FrameSize + 1)..FrameSize = {}
        BY DEF FrameSize
    <2>3. QED  BY <2>1, <2>2 DEF AllZero
<1>8. QED  BY <1>3, <1>6, <1>7

LEMMA AgainStart ==
    ASSUME CodecAssumption, NEW f \in Frames, HasHeader(f), f[5] = StartType
    PROVE  Fields(f) \in Sendable /\ Encode(Fields(f)) = f
<1>1. PICK ext \in [1..ExtensionBytes -> Byte] :
         ext = [i \in 1..ExtensionBytes |-> f[22 + i]]
    <2>1. \A i \in 1..ExtensionBytes : f[22 + i] \in Byte
        BY NumberPlaces DEF Frames
    <2>2. QED  BY <2>1
<1>2. PICK p : p = StartPacket(LoadLe32(f, 5), LoadLe32(f, 9), LoadLe32(f, 13),
                               LoadLe32(f, 17), f[22], ext)
    OBVIOUS
<1>3. Fields(f) = p
    BY <1>1, <1>2, TypesAre DEF Fields
<1>4. /\ p \in Sendable /\ p.type = StartType
      /\ p.transfer_id = LoadLe32(f, 5) /\ p.total_size = LoadLe32(f, 9)
      /\ p.total_packets = LoadLe32(f, 13) /\ p.crc32 = LoadLe32(f, 17)
      /\ p.flags = f[22] /\ p.extension = ext
    <2>1. /\ LoadLe32(f, 5) \in Word32 /\ LoadLe32(f, 9) \in Word32
          /\ LoadLe32(f, 13) \in Word32 /\ LoadLe32(f, 17) \in Word32
        BY NumberPlaces, Load32Is
    <2>2. f[22] \in Byte
        BY BytesAre
    <2>3. PICK id \in Word32 : id = LoadLe32(f, 5)
        BY <2>1
    <2>4. PICK size \in Word32 : size = LoadLe32(f, 9)
        BY <2>1
    <2>5. PICK count \in Word32 : count = LoadLe32(f, 13)
        BY <2>1
    <2>6. PICK crc \in Word32 : crc = LoadLe32(f, 17)
        BY <2>1
    <2>7. PICK mark \in Byte : mark = f[22]
        BY <2>2
    <2>8. p = StartPacket(id, size, count, crc, mark, ext)
        BY <1>2, <2>3, <2>4, <2>5, <2>6, <2>7
    <2>9. /\ p \in Sendable /\ p.type = StartType
          /\ p.transfer_id = id /\ p.total_size = size /\ p.total_packets = count
          /\ p.crc32 = crc /\ p.flags = mark /\ p.extension = ext
        BY <2>8, MadeStart
    <2>10. QED  BY <2>3, <2>4, <2>5, <2>6, <2>7, <2>9
<1>5. PICK g \in Frames :
         /\ g = Encode(p) /\ Headed(g, p)
         /\ LoadLe32(g, 9) = p.total_size /\ LoadLe32(g, 13) = p.total_packets
         /\ LoadLe32(g, 17) = p.crc32 /\ g[22] = p.flags
         /\ \A i \in 1..ExtensionBytes : g[22 + i] = p.extension[i]
    <2>1. p \in PacketFields
        BY <1>4 DEF Sendable
    <2>2. QED  BY <1>4, <2>1, EncodedStart
<1>6. \A i \in 1..9 : g[i] = f[i]
    <2>1. Headed(f, p)
        BY <1>4, HeaderOf
    <2>2. QED  BY <1>5, <2>1, SameHead
<1>7. \A i \in (9 + 1)..(9 + 4) : g[i] = f[i]
    <2>1. LoadLe32(g, 9) = LoadLe32(f, 9)
        BY <1>4, <1>5
    <2>2. QED  BY <2>1, NumberPlaces, Load32Is
<1>8. \A i \in (13 + 1)..(13 + 4) : g[i] = f[i]
    <2>1. LoadLe32(g, 13) = LoadLe32(f, 13)
        BY <1>4, <1>5
    <2>2. QED  BY <2>1, NumberPlaces, Load32Is
<1>9. \A i \in (17 + 1)..(17 + 4) : g[i] = f[i]
    <2>1. LoadLe32(g, 17) = LoadLe32(f, 17)
        BY <1>4, <1>5
    <2>2. QED  BY <2>1, NumberPlaces, Load32Is
<1>10. g[22] = f[22]
    BY <1>4, <1>5
<1>11. \A i \in 23..FrameSize : g[i] = f[i]
    <2>1. ASSUME NEW j \in 1..ExtensionBytes
          PROVE  g[22 + j] = f[22 + j]
        BY <1>1, <1>4, <1>5
    <2>2. \A i \in 23..FrameSize : i - 22 \in 1..ExtensionBytes /\ 22 + (i - 22) = i
        BY DEF FrameSize, ExtensionBytes
    <2>3. QED  BY <2>1, <2>2
<1>12. \A i \in 1..FrameSize :
          \/ i \in 1..9 \/ i \in (9 + 1)..(9 + 4) \/ i \in (13 + 1)..(13 + 4)
          \/ i \in (17 + 1)..(17 + 4) \/ i = 22 \/ i \in 23..FrameSize
    BY DEF FrameSize
<1>13. g = f
    <2>1. \A i \in 1..FrameSize : g[i] = f[i]
        BY <1>6, <1>7, <1>8, <1>9, <1>10, <1>11, <1>12
    <2>2. QED  BY <2>1, SameFrame
<1>14. QED  BY <1>3, <1>4, <1>5, <1>13

LEMMA ReadData ==
    ASSUME CodecAssumption, NEW p \in Sendable, p.type = DataType,
           p.payload_length \in 1..Capacity
    PROVE  \E f \in Frames :
              /\ f = Encode(p) /\ Headed(f, p) /\ Fields(f) = p /\ AllZero(f, Used(p))
<1>1. p \in PacketFields /\ p = Carried(p)
    BY DEF Sendable
<1>2. p = DataPacket(p.transfer_id, p.sequence, p.payload_length,
                     First(p.payload_length, p.payload))
    BY <1>1, TypesAre DEF Carried
<1>3. PICK f \in Frames :
         /\ f = Encode(p) /\ Headed(f, p) /\ AllZero(f, 12 + p.payload_length)
         /\ LoadLe16(f, 9) = p.sequence /\ f[12] = p.payload_length
         /\ \A i \in 1..p.payload_length : f[12 + i] = p.payload[i]
    BY <1>1, EncodedData
<1>4. f[5] = DataType /\ LoadLe32(f, 5) = p.transfer_id
    BY <1>3 DEF Headed
<1>5. First(f[12], [i \in 1..Capacity |-> f[12 + i]]) = First(p.payload_length, p.payload)
    <2>1. PICK n \in 1..Capacity : n = p.payload_length
        OBVIOUS
    <2>2. ASSUME NEW i \in 1..Capacity
          PROVE  (IF i <= n THEN [j \in 1..Capacity |-> f[12 + j]][i] ELSE 0)
                     = (IF i <= n THEN p.payload[i] ELSE 0)
        <3>1. i <= n => i \in 1..n
            BY DEF Capacity
        <3>2. QED  BY <1>3, <2>1, <3>1
    <2>3. QED  BY <1>3, <2>1, <2>2 DEF First
<1>6. Fields(f) = p
    <2>1. Fields(f) = DataPacket(LoadLe32(f, 5), LoadLe16(f, 9), f[12],
                                 First(f[12], [i \in 1..Capacity |-> f[12 + i]]))
        BY <1>4, TypesAre DEF Fields
    <2>2. QED  BY <1>2, <1>3, <1>4, <1>5, <2>1
<1>7. Used(p) = 12 + p.payload_length
    BY TypesAre DEF Used
<1>8. QED  BY <1>3, <1>6, <1>7

LEMMA AgainData ==
    ASSUME CodecAssumption, NEW f \in Frames, HasHeader(f), f[5] = DataType,
           f[12] \in 1..Capacity, AllZero(f, 12 + f[12])
    PROVE  Fields(f) \in Sendable /\ Encode(Fields(f)) = f
<1>1. PICK n \in 1..Capacity : n = f[12] /\ n \in Byte
    BY BytesAre
<1>2. PICK body \in [1..Capacity -> Byte] : body = [i \in 1..Capacity |-> f[12 + i]]
    <2>1. \A i \in 1..Capacity : f[12 + i] \in Byte
        BY NumberPlaces DEF Frames
    <2>2. QED  BY <2>1
<1>3. PICK data \in [1..Capacity -> Byte] : data = First(n, body) /\ data = First(n, data)
    BY <1>1, FirstIs, FirstOnce
<1>4. PICK p : p = DataPacket(LoadLe32(f, 5), LoadLe16(f, 9), n, data)
    OBVIOUS
<1>5. Fields(f) = p
    BY <1>1, <1>2, <1>3, <1>4, TypesAre DEF Fields
<1>6. /\ p \in Sendable /\ p.type = DataType
      /\ p.transfer_id = LoadLe32(f, 5) /\ p.sequence = LoadLe16(f, 9)
      /\ p.payload_length = n /\ p.payload = data
    <2>1. LoadLe32(f, 5) \in Word32 /\ LoadLe16(f, 9) \in HalfWord
        BY NumberPlaces, Load32Is, Load16Is
    <2>2. QED  BY <1>1, <1>3, <1>4, <2>1, MadeData
<1>7. PICK g \in Frames :
         /\ g = Encode(p) /\ Headed(g, p) /\ AllZero(g, 12 + n)
         /\ LoadLe16(g, 9) = p.sequence /\ g[12] = n
         /\ \A i \in 1..n : g[12 + i] = p.payload[i]
    <2>1. p \in PacketFields
        BY <1>6 DEF Sendable
    <2>2. QED  BY <1>6, <2>1, EncodedData
<1>8. \A i \in 1..9 : g[i] = f[i]
    <2>1. Headed(f, p)
        BY <1>6, HeaderOf
    <2>2. QED  BY <1>7, <2>1, SameHead
<1>9. \A i \in (9 + 1)..(9 + 2) : g[i] = f[i]
    <2>1. LoadLe16(g, 9) = LoadLe16(f, 9)
        BY <1>6, <1>7
    <2>2. QED  BY <2>1, NumberPlaces, Load16Is
<1>10. g[12] = f[12]
    BY <1>1, <1>7
<1>11. \A i \in 13..(12 + n) : g[i] = f[i]
    <2>1. ASSUME NEW j \in 1..n
          PROVE  g[12 + j] = f[12 + j]
        <3>1. j \in 1..Capacity /\ j <= n
            BY DEF Capacity
        <3>2. data[j] = body[j]
            BY <1>3, <3>1 DEF First
        <3>3. QED  BY <1>2, <1>6, <1>7, <3>1, <3>2
    <2>2. \A i \in 13..(12 + n) : i - 12 \in 1..n /\ 12 + (i - 12) = i
        OBVIOUS
    <2>3. QED  BY <2>1, <2>2
<1>12. \A i \in (12 + n + 1)..FrameSize : g[i] = f[i]
    BY <1>1, <1>7 DEF AllZero
<1>13. \A i \in 1..FrameSize :
          \/ i \in 1..9 \/ i \in (9 + 1)..(9 + 2) \/ i = 12 \/ i \in 13..(12 + n)
          \/ i \in (12 + n + 1)..FrameSize
    BY DEF FrameSize
<1>14. g = f
    <2>1. \A i \in 1..FrameSize : g[i] = f[i]
        BY <1>8, <1>9, <1>10, <1>11, <1>12, <1>13
    <2>2. QED  BY <2>1, SameFrame
<1>15. QED  BY <1>5, <1>6, <1>7, <1>14

LEMMA TypeIs ==
    ASSUME NEW t \in StartType..CancelType
    PROVE  \/ t = StartType \/ t = ReadyType \/ t = DataType \/ t = AckType
           \/ t = NackType \/ t = EndType \/ t = CompleteType \/ t = ErrorType
           \/ t = CancelType
BY TypesAre

\* A packet that encode accepts is read back from its frame.
LEMMA ReadBack ==
    ASSUME CodecAssumption, NEW p \in Sendable, FieldsValid(p)
    PROVE  Encode(p) \in Frames /\ Decode(Encode(p)) = p
<1>1. p \in PacketFields /\ p.type \in StartType..CancelType
    BY FieldsAre DEF Sendable
<1>2. p.type = DataType => p.payload_length \in 1..Capacity
    BY DEF FieldsValid
<1>3. \E f \in Frames :
         /\ f = Encode(p) /\ Headed(f, p) /\ Fields(f) = p /\ AllZero(f, Used(p))
         /\ p.type = ReadyType => f[14] <= 1
    <2>1. CASE p.type = StartType
        BY <2>1, ReadStart DEF StartType, ReadyType
    <2>2. CASE p.type = ReadyType
        BY <2>2, ReadReady
    <2>3. CASE p.type = DataType
        BY <1>2, <2>3, ReadData DEF DataType, ReadyType
    <2>4. CASE p.type = AckType
        BY <2>4, ReadAck DEF AckType, ReadyType
    <2>5. CASE p.type = NackType
        BY <2>5, ReadNack DEF NackType, ReadyType
    <2>6. CASE p.type = EndType
        BY <2>6, ReadEnd DEF EndType, ReadyType
    <2>7. CASE p.type = CompleteType
        BY <2>7, ReadComplete DEF CompleteType, ReadyType
    <2>8. CASE p.type = ErrorType
        BY <2>8, ReadError DEF ErrorType, ReadyType
    <2>9. CASE p.type = CancelType
        BY <2>9, ReadCancel DEF CancelType, ReadyType
    <2>10. QED  BY <1>1, <2>1, <2>2, <2>3, <2>4, <2>5, <2>6, <2>7, <2>8, <2>9, TypeIs
<1>4. PICK f \in Frames :
         /\ f = Encode(p) /\ Headed(f, p) /\ Fields(f) = p /\ AllZero(f, Used(p))
         /\ p.type = ReadyType => f[14] <= 1
    BY <1>3
<1>5. HasHeader(f)
    BY <1>1, <1>4, HeaderIs
<1>6. Acceptable(f, Fields(f))
    BY <1>4 DEF Acceptable
<1>7. QED  BY <1>4, <1>5, <1>6 DEF Decode

\* What is read has the type the frame says.
LEMMA FieldsType ==
    ASSUME NEW f, f[5] \in StartType..CancelType
    PROVE  Fields(f).type = f[5]
<1>1. CASE f[5] = StartType
    <2>1. Fields(f) = StartPacket(LoadLe32(f, 5), LoadLe32(f, 9), LoadLe32(f, 13),
                                  LoadLe32(f, 17), f[22],
                                  [i \in 1..ExtensionBytes |-> f[22 + i]])
        BY <1>1, TypesAre DEF Fields
    <2>2. QED  BY <1>1, <2>1 DEF StartPacket, EmptyPacket
<1>2. CASE f[5] = ReadyType
    <2>1. Fields(f) = ReadyPacket(LoadLe32(f, 5), LoadLe32(f, 9),
                                  IF f[14] # 0 THEN 1 ELSE 0, f[15])
        BY <1>2, TypesAre DEF Fields
    <2>2. QED  BY <1>2, <2>1 DEF ReadyPacket, EmptyPacket
<1>3. CASE f[5] = DataType
    <2>1. Fields(f) = DataPacket(LoadLe32(f, 5), LoadLe16(f, 9), f[12],
                                First(f[12], [i \in 1..Capacity |-> f[12 + i]]))
        BY <1>3, TypesAre DEF Fields
    <2>2. QED  BY <1>3, <2>1 DEF DataPacket, EmptyPacket
<1>4. CASE f[5] = AckType
    <2>1. Fields(f) = AckPacket(LoadLe32(f, 5), LoadLe16(f, 9))
        BY <1>4, TypesAre DEF Fields
    <2>2. QED  BY <1>4, <2>1 DEF AckPacket, EmptyPacket
<1>5. CASE f[5] = NackType
    <2>1. Fields(f) = NackPacket(LoadLe32(f, 5), LoadLe32(f, 9), f[14])
        BY <1>5, TypesAre DEF Fields
    <2>2. QED  BY <1>5, <2>1 DEF NackPacket, EmptyPacket
<1>6. CASE f[5] = EndType
    <2>1. Fields(f) = EndPacket(LoadLe32(f, 5), LoadLe32(f, 9), LoadLe32(f, 13),
                                LoadLe32(f, 17))
        BY <1>6, TypesAre DEF Fields
    <2>2. QED  BY <1>6, <2>1 DEF EndPacket, EmptyPacket
<1>7. CASE f[5] = CompleteType
    <2>1. Fields(f) = CompletePacket(LoadLe32(f, 5), LoadLe32(f, 9), LoadLe32(f, 13), f[18])
        BY <1>7, TypesAre DEF Fields
    <2>2. QED  BY <1>7, <2>1 DEF CompletePacket, EmptyPacket
<1>8. CASE f[5] = ErrorType
    <2>1. Fields(f) = ErrorPacket(LoadLe32(f, 5), f[10], LoadLe32(f, 10), f[15])
        BY <1>8, TypesAre DEF Fields
    <2>2. QED  BY <1>8, <2>1 DEF ErrorPacket, EmptyPacket
<1>9. CASE f[5] = CancelType
    <2>1. Fields(f) = CancelPacket(LoadLe32(f, 5), f[10])
        BY <1>9, TypesAre DEF Fields
    <2>2. QED  BY <1>9, <2>1 DEF CancelPacket, EmptyPacket
<1>10. QED  BY <1>1, <1>2, <1>3, <1>4, <1>5, <1>6, <1>7, <1>8, <1>9, TypeIs

\* A frame that decode accepts is the one that encode makes of what is read.
LEMMA MadeAgain ==
    ASSUME CodecAssumption, NEW f \in Frames, HasHeader(f), Acceptable(f, Fields(f))
    PROVE  Fields(f) \in Sendable /\ FieldsValid(Fields(f)) /\ Encode(Fields(f)) = f
<1>1. PICK p : p = Fields(f)
    OBVIOUS
<1>2. f[5] \in StartType..CancelType
    BY DEF HasHeader
<1>3. p.type = f[5]
    BY <1>1, <1>2, FieldsType
<1>4. /\ FieldsValid(p) /\ AllZero(f, Used(p))
      /\ p.type = ReadyType => f[14] <= 1
    BY <1>1 DEF Acceptable
<1>5. p \in Sendable /\ Encode(p) = f
    <2>1. CASE f[5] = StartType
        BY <1>1, <2>1, AgainStart
    <2>2. CASE f[5] = ReadyType
        <3>1. Used(p) = 15
            BY <1>3, <2>2, TypesAre DEF Used
        <3>2. QED  BY <1>1, <1>3, <1>4, <2>2, <3>1, AgainReady
    <2>3. CASE f[5] = DataType
        <3>1. Used(p) = 12 + p.payload_length
            BY <1>3, <2>3, TypesAre DEF Used
        <3>2. p.payload_length \in 1..Capacity
            BY <1>3, <1>4, <2>3 DEF FieldsValid
        <3>3. p.payload_length = f[12]
            <4>1. p = DataPacket(LoadLe32(f, 5), LoadLe16(f, 9), f[12],
                                 First(f[12], [i \in 1..Capacity |-> f[12 + i]]))
                BY <1>1, <2>3, TypesAre DEF Fields
            <4>2. QED  BY <4>1 DEF DataPacket, EmptyPacket
        <3>4. QED  BY <1>1, <1>4, <2>3, <3>1, <3>2, <3>3, AgainData
    <2>4. CASE f[5] = AckType
        <3>1. Used(p) = 11
            BY <1>3, <2>4, TypesAre DEF Used
        <3>2. QED  BY <1>1, <1>4, <2>4, <3>1, AgainAck
    <2>5. CASE f[5] = NackType
        <3>1. Used(p) = 14
            BY <1>3, <2>5, TypesAre DEF Used
        <3>2. QED  BY <1>1, <1>4, <2>5, <3>1, AgainNack
    <2>6. CASE f[5] = EndType
        <3>1. Used(p) = 21
            BY <1>3, <2>6, TypesAre DEF Used
        <3>2. QED  BY <1>1, <1>4, <2>6, <3>1, AgainEnd
    <2>7. CASE f[5] = CompleteType
        <3>1. Used(p) = 18
            BY <1>3, <2>7, TypesAre DEF Used
        <3>2. QED  BY <1>1, <1>4, <2>7, <3>1, AgainComplete
    <2>8. CASE f[5] = ErrorType
        <3>1. Used(p) = 15
            BY <1>3, <2>8, TypesAre DEF Used
        <3>2. QED  BY <1>1, <1>4, <2>8, <3>1, AgainError
    <2>9. CASE f[5] = CancelType
        <3>1. Used(p) = 10
            BY <1>3, <2>9, TypesAre DEF Used
        <3>2. QED  BY <1>1, <1>4, <2>9, <3>1, AgainCancel
    <2>10. QED  BY <1>2, <2>1, <2>2, <2>3, <2>4, <2>5, <2>6, <2>7, <2>8, <2>9, TypeIs
<1>6. QED  BY <1>1, <1>4, <1>5

-----------------------------------------------------------------------------
(* Names.                                                                  *)

LEMMA LettersAre ==
    /\ Nul = 0 /\ Dot = 1 /\ LetterP = 2 /\ LetterA = 3 /\ LetterR = 4 /\ LetterT = 5
    /\ CapitalP = 6 /\ Digit = 7 /\ Characters = 0..9 /\ ExtensionBytes = 10
    /\ LetterP..Digit = 2..7
BY DEF Nul, Dot, LetterP, LetterA, LetterR, LetterT, CapitalP, Digit, Space, Characters,
       ExtensionBytes

LEMMA SuffixIs ==
    /\ PartSuffix \in Seq(Int) /\ Len(PartSuffix) = 5
    /\ PartSuffix = [i \in 1..5 |-> PartSuffix[i]]
    /\ \A i \in 1..5 : PartSuffix[i] = i
<1>1. PartSuffix = <<1, 2, 3, 4, 5>>
    BY LettersAre DEF PartSuffix
<1>2. \A i \in 1..5 : i = 1 \/ i = 2 \/ i = 3 \/ i = 4 \/ i = 5
    OBVIOUS
<1>3. /\ PartSuffix \in Seq(Int) /\ Len(PartSuffix) = 5
      /\ PartSuffix[1] = 1 /\ PartSuffix[2] = 2 /\ PartSuffix[3] = 3
      /\ PartSuffix[4] = 4 /\ PartSuffix[5] = 5
    BY <1>1
<1>4. PartSuffix \in [1..5 -> Int]
    BY <1>3, LenProperties
<1>5. QED  BY <1>2, <1>3, <1>4

LEMMA SuffixEnds ==
    ASSUME NEW word, NEW m \in Nat, Len(word) = m
    PROVE  EndsWith(word, PartSuffix) <=> 5 <= m /\ \A i \in 1..5 : word[m - 5 + i] = i
<1>1. PICK k \in Nat : k = Len(PartSuffix) /\ k = 5
    BY SuffixIs
<1>2. EndsWith(word, PartSuffix)
         <=> k <= m /\ \A i \in 1..k : word[m - k + i] = PartSuffix[i]
    BY <1>1 DEF EndsWith
<1>3. QED  BY <1>1, <1>2, SuffixIs

\* The field ends where the extension does.
LEMMA ViewOf ==
    ASSUME NEW ext \in Seq(Characters), ValidExtension(ext)
    PROVE  View(Padded(ext)) = ext /\ Padded(ext) \in [1..ExtensionBytes -> Characters]
<1> DEFINE field == Padded(ext)
<1>1. PICK n \in 2..10 : n = Len(ext)
    BY LettersAre DEF ValidExtension
<1>2. ext \in [1..n -> Characters]
    BY <1>1, LenProperties
<1>3. \A i \in 1..n : ext[i] \in Characters /\ ext[i] # 0
    <2>1. ext[1] # 0 /\ \A i \in 2..n : ext[i] # 0
        BY <1>1, LettersAre DEF ValidExtension
    <2>2. QED  BY <1>2, <2>1
<1>4. /\ \A i \in 1..n : field[i] = ext[i]
      /\ \A i \in (n + 1)..10 : field[i] = 0
      /\ field \in [1..ExtensionBytes -> Characters]
    <2>1. field = [i \in 1..10 |-> IF i <= n THEN ext[i] ELSE 0]
        BY <1>1, LettersAre DEF Padded
    <2> HIDE DEF field
    <2>2. \A i \in 1..10 : (IF i <= n THEN ext[i] ELSE 0) \in Characters
        <3>1. \A i \in 1..10 : i <= n => i \in 1..n
            OBVIOUS
        <3>2. 0 \in Characters
            BY LettersAre
        <3>3. QED  BY <1>2, <3>1, <3>2
    <2>3. field \in [1..ExtensionBytes -> Characters]
        BY <2>1, <2>2, LettersAre
    <2>4. QED  BY <2>1, <2>3
<1> HIDE DEF field
<1>5. ViewLength(field) = n
    <2>1. /\ \A i \in 1..n : field[i] # Nul
          /\ n < ExtensionBytes => field[n + 1] = Nul
        BY <1>3, <1>4, LettersAre
    <2>2. ASSUME NEW m \in 0..ExtensionBytes,
                 \A i \in 1..m : field[i] # Nul,
                 m < ExtensionBytes => field[m + 1] = Nul
          PROVE  m = n
        <3>1. ~(m < n)
            BY <1>3, <1>4, <2>2, LettersAre
        <3>2. ~(n < m)
            BY <1>3, <1>4, <2>2, LettersAre
        <3>3. QED  BY <3>1, <3>2, LettersAre
    <2>3. n \in 0..ExtensionBytes
        BY LettersAre
    <2>4. QED  BY <2>1, <2>2, <2>3 DEF ViewLength
<1>6. SubSeq(field, 1, n) = ext
    <2>1. \A i \in 1..n : field[i] \in Characters
        BY <1>3, <1>4
    <2>2. /\ SubSeq(field, 1, n) \in Seq(Characters) /\ Len(SubSeq(field, 1, n)) = n
          /\ \A i \in 1..n : SubSeq(field, 1, n)[i] = field[i]
        <3>1. /\ SubSeq(field, 1, n) \in Seq(Characters)
              /\ Len(SubSeq(field, 1, n)) = IF 1 <= n THEN n - 1 + 1 ELSE 0
              /\ \A i \in 1..(n - 1 + 1) : SubSeq(field, 1, n)[i] = field[1 + i - 1]
            BY <2>1, SubSeqProperties
        <3>2. QED  BY <3>1
    <2>3. SubSeq(field, 1, n) \in [1..n -> Characters]
        BY <2>2, LenProperties
    <2>4. QED  BY <1>2, <1>4, <2>2, <2>3
<1>7. QED  BY <1>4, <1>5, <1>6 DEF View, field

LEMMA EmptyView == View(EmptyField) = <<>>
<1>1. /\ EmptyField[1] = 0 /\ ExtensionBytes = 10 /\ Nul = 0
      /\ \A i \in 1..10 : EmptyField[i] = 0
    BY LettersAre DEF EmptyField
<1>2. ViewLength(EmptyField) = 0
    <2>1. ASSUME NEW m \in 0..10, \A i \in 1..m : EmptyField[i] # Nul
          PROVE  m = 0
        <3>1. m >= 1 => 1 \in 1..m
            OBVIOUS
        <3>2. QED  BY <1>1, <2>1, <3>1
    <2>2. /\ \A i \in 1..0 : EmptyField[i] # Nul
          /\ 0 < 10 => EmptyField[0 + 1] = Nul
        BY <1>1
    <2>3. 0 \in 0..10
        OBVIOUS
    <2>4. QED  BY <1>1, <2>1, <2>2, <2>3 DEF ViewLength
<1>3. SubSeq(EmptyField, 1, 0) = <<>>
    BY SubSeqEmpty
<1>4. QED  BY <1>2, <1>3 DEF View

\* What is read of a field is a sequence.
LEMMA ViewIs ==
    ASSUME NEW field \in [1..ExtensionBytes -> Byte],
           \E n \in 0..ExtensionBytes :
              /\ \A i \in 1..n : field[i] # Nul
              /\ n < ExtensionBytes => field[n + 1] = Nul
    PROVE  View(field) \in Seq(Int)
<1>1. PICK n \in 0..ExtensionBytes : n = ViewLength(field)
    BY DEF ViewLength
<1>2. n \in Int /\ \A i \in 1..n : field[i] \in Int
    BY LettersAre DEF Byte
<1>3. SubSeq(field, 1, n) \in Seq(Int)
    BY <1>2, SubSeqProperties
<1>4. QED  BY <1>1, <1>3 DEF View

\* No name with a valid type ends like a temporary file of the board.
LEMMA ValidVisible ==
    ASSUME NEW ext \in Seq(Int), ValidExtension(ext)
    PROVE  LET name == <<LetterR, Digit>> \o ext
           IN  ~IsInternalTransferName(name) /\ ~ProtectedName(name)
<1>1. PICK n \in 2..10 : n = Len(ext)
    BY LettersAre DEF ValidExtension
<1>2. ext[1] = 1 /\ \A i \in 2..n : ext[i] \in 2..7
    BY <1>1, LettersAre DEF ValidExtension
<1>3. PICK name \in Seq(Int) :
         /\ name = <<LetterR, Digit>> \o ext /\ Len(name) = n + 2
         /\ name[1] = 4 /\ name[2] = 7 /\ \A i \in 1..n : name[i + 2] = ext[i]
    <2>1. PICK stem \in Seq(Int) : /\ stem = <<LetterR, Digit>> /\ Len(stem) = 2
                                   /\ stem[1] = 4 /\ stem[2] = 7
        <3>1. <<4, 7>> \in Seq(Int) /\ Len(<<4, 7>>) = 2 /\ <<4, 7>>[1] = 4 /\ <<4, 7>>[2] = 7
            OBVIOUS
        <3>2. <<LetterR, Digit>> = <<4, 7>>
            BY LettersAre
        <3>3. QED  BY <3>1, <3>2
    <2>2. /\ stem \o ext \in Seq(Int) /\ Len(stem \o ext) = Len(stem) + Len(ext)
          /\ \A i \in 1..(Len(stem) + Len(ext)) :
                (stem \o ext)[i] = IF i <= Len(stem) THEN stem[i] ELSE ext[i - Len(stem)]
        BY ConcatProperties
    <2>3. PICK name : name = stem \o ext
        OBVIOUS
    <2>4. /\ name \in Seq(Int) /\ Len(name) = n + 2
          /\ \A i \in 1..(2 + n) : name[i] = IF i <= 2 THEN stem[i] ELSE ext[i - 2]
        BY <1>1, <2>1, <2>2, <2>3
    <2>5. name[1] = 4 /\ name[2] = 7
        BY <2>1, <2>4
    <2>6. \A i \in 1..n : name[i + 2] = ext[i]
        <3>1. \A i \in 1..n : i + 2 \in 1..(2 + n) /\ ~(i + 2 <= 2) /\ (i + 2) - 2 = i
            OBVIOUS
        <3>2. QED  BY <2>4, <3>1
    <2>7. QED  BY <2>1, <2>3, <2>4, <2>5, <2>6
<1>4. PICK low : low = LowerAll(name)
    OBVIOUS
<1>5. /\ Len(low) = n + 2 /\ \A i \in 1..(n + 2) : low[i] = Lower(name[i])
    <2>1. low = [i \in 1..(n + 2) |-> Lower(name[i])]
        BY <1>3, <1>4 DEF LowerAll
    <2>2. \A i \in 1..(n + 2) : Lower(name[i]) \in Int
        BY <1>3, LettersAre, ElementOfSeq DEF Lower
    <2>3. low \in Seq(Int) /\ Len(low) = n + 2
        BY <2>1, <2>2
    <2>4. QED  BY <2>1, <2>3
<1>6. ~EndsWith(low, PartSuffix)
    <2>1. SUFFICES ASSUME EndsWith(low, PartSuffix)  PROVE FALSE
        OBVIOUS
    <2>2. 5 <= n + 2 /\ \A i \in 1..5 : low[n + 2 - 5 + i] = i
        <3>1. PICK m \in Nat : m = n + 2
            OBVIOUS
        <3>2. Len(low) = m
            BY <1>5, <3>1
        <3>3. 5 <= m /\ \A i \in 1..5 : low[m - 5 + i] = i
            BY <2>1, <3>2, SuffixEnds
        <3>4. QED  BY <3>1, <3>3
    <2>3. \A i \in 1..5 : low[n - 3 + i] = i
        <3>1. \A i \in 1..5 : n + 2 - 5 + i = n - 3 + i
            OBVIOUS
        <3>2. QED  BY <2>2, <3>1
    <2>4. n - 2 \in 1..(n + 2) /\ low[n - 2] = 1
        <3>1. 1 \in 1..5 /\ n - 3 + 1 = n - 2
            OBVIOUS
        <3>2. QED  BY <2>2, <2>3, <3>1
    <2>5. name[n - 2] = 1
        BY <1>5, <2>4, LettersAre DEF Lower
    <2>6. n = 5
        <3>1. n - 2 # 1 /\ n - 2 # 2
            BY <1>3, <2>5
        <3>2. ~(n - 2 >= 4)
            <4>1. SUFFICES ASSUME n - 2 >= 4  PROVE FALSE
                OBVIOUS
            <4>2. n - 4 \in 1..n /\ n - 4 \in 2..n /\ (n - 4) + 2 = n - 2
                BY <4>1
            <4>3. name[n - 2] = ext[n - 4]
                BY <1>3, <4>2
            <4>4. ext[n - 4] \in 2..7
                BY <1>2, <4>2
            <4>5. QED  BY <2>5, <4>3, <4>4
        <3>3. QED  BY <2>4, <3>1, <3>2
    <2>7. \A i \in 1..5 : Lower(ext[i]) = i
        <3>1. ASSUME NEW i \in 1..5
              PROVE  Lower(ext[i]) = i
            <4>1. low[n - 3 + i] = i /\ n - 3 + i = i + 2 /\ i + 2 \in 1..(n + 2) /\ i \in 1..n
                BY <2>3, <2>6
            <4>2. low[i + 2] = Lower(name[i + 2]) /\ name[i + 2] = ext[i]
                BY <1>3, <1>5, <4>1
            <4>3. QED  BY <4>1, <4>2
        <3>2. QED  BY <3>1
    <2>8. LowerAll(ext) = PartSuffix
        <3>1. LowerAll(ext) = [i \in 1..5 |-> Lower(ext[i])]
            BY <1>1, <2>6 DEF LowerAll
        <3>2. QED  BY <2>7, <3>1, SuffixIs
    <2>9. QED  BY <2>8 DEF ValidExtension
<1>7. ~EndsWith(name, PartSuffix)
    <2>1. SUFFICES ASSUME EndsWith(name, PartSuffix)  PROVE FALSE
        OBVIOUS
    <2>2. 5 <= n + 2 /\ \A i \in 1..5 : name[n + 2 - 5 + i] = i
        <3>1. PICK m \in Nat : m = n + 2
            OBVIOUS
        <3>2. Len(name) = m
            BY <1>3, <3>1
        <3>3. 5 <= m /\ \A i \in 1..5 : name[m - 5 + i] = i
            BY <2>1, <3>2, SuffixEnds
        <3>4. QED  BY <3>1, <3>3
    <2>3. \A i \in 1..5 : low[n + 2 - 5 + i] = i
        <3>1. \A i \in 1..5 : n + 2 - 5 + i \in 1..(n + 2) /\ Lower(i) = i
            BY <2>2, LettersAre DEF Lower
        <3>2. QED  BY <1>5, <2>2, <3>1
    <2>4. PICK m \in Nat : m = n + 2
        OBVIOUS
    <2>5. Len(low) = m /\ 5 <= m /\ \A i \in 1..5 : low[m - 5 + i] = i
        BY <1>5, <2>2, <2>3, <2>4
    <2>6. EndsWith(low, PartSuffix)
        BY <2>5, SuffixEnds
    <2>7. QED  BY <1>6, <2>6
<1>8. name # <<>> /\ Head(name) # Dot
    <2>1. Head(name) = name[1]
        BY <1>3
    <2>2. QED  BY <1>3, <2>1, LettersAre
<1>9. QED  BY <1>3, <1>4, <1>6, <1>7, <1>8 DEF IsInternalTransferName, ProtectedName

\* What START says of the type is nothing, or a valid type.
LEMMA AnnouncedVisible ==
    ASSUME CodecAssumption, NEW mark, NEW field \in [1..ExtensionBytes -> Byte],
           StartMetadataValid(mark, field)
    PROVE  LET name == ReceivedName(FALSE, View(field))
           IN  ~IsInternalTransferName(name) /\ ~ProtectedName(name)
<1>1. CASE mark = 0
    <2>1. View(field) = <<>>
        BY <1>1, EmptyView DEF StartMetadataValid
    <2>2. PICK ext \in Seq(Int) : ext = <<1, 3>> /\ Len(ext) = 2 /\ ext[1] = 1 /\ ext[2] = 3
        <3>1. /\ <<1, 3>> \in Seq(Int) /\ Len(<<1, 3>>) = 2
              /\ <<1, 3>>[1] = 1 /\ <<1, 3>>[2] = 3
            OBVIOUS
        <3>2. QED  BY <3>1
    <2>3. ReceivedName(FALSE, View(field)) = <<LetterR, Digit>> \o ext
        BY <2>1, <2>2, LettersAre DEF ReceivedName
    <2>4. ValidExtension(ext)
        <3>1. LowerAll(ext) # PartSuffix
            <4>1. LowerAll(ext) = [i \in 1..2 |-> Lower(ext[i])]
                BY <2>2 DEF LowerAll
            <4>2. DOMAIN LowerAll(ext) = 1..2 /\ DOMAIN PartSuffix = 1..5
                BY <4>1, SuffixIs
            <4>3. 5 \in 1..5 /\ 5 \notin 1..2
                OBVIOUS
            <4>4. QED  BY <4>2, <4>3
        <3>2. \A i \in 2..Len(ext) : ext[i] \in LetterP..Digit
            BY <2>2, LettersAre
        <3>3. QED  BY <2>2, <3>1, <3>2, LettersAre DEF ValidExtension
    <2>5. QED  BY <2>3, <2>4, ValidVisible
<1>2. CASE ~(mark = 0)
    <2>1. ValidExtension(View(field)) /\ field = Padded(View(field))
        BY <1>2 DEF StartMetadataValid, CanonicalField
    <2>2. View(field) \in Seq(Int) /\ View(field) # <<>>
        <3>1. PICK ext : ext = View(field)
            OBVIOUS
        <3>2. PICK n \in 2..10 : n = Len(ext)
            BY <2>1, <3>1, LettersAre DEF ValidExtension
        <3>3. \A i \in 1..n : ext[i] # 0
            <4>1. ext[1] = 1 /\ \A i \in 2..n : ext[i] \in 2..7
                BY <2>1, <3>1, <3>2, LettersAre DEF ValidExtension
            <4>2. \A i \in 1..n : i = 1 \/ i \in 2..n
                OBVIOUS
            <4>3. \A i \in 2..7 : i # 0
                OBVIOUS
            <4>4. QED  BY <4>1, <4>2, <4>3
        <3>4. \A i \in 1..10 : field[i] = IF i <= n THEN ext[i] ELSE 0
            BY <2>1, <3>1, <3>2, LettersAre DEF Padded
        <3>5. n \in 0..10 /\ \A i \in 1..n : i \in 1..10 /\ i <= n
            OBVIOUS
        <3>6. \A i \in 1..n : field[i] # 0
            BY <3>3, <3>4, <3>5
        <3>7. n < 10 => field[n + 1] = 0
            BY <3>4
        <3>8. View(field) \in Seq(Int)
            BY <3>5, <3>6, <3>7, LettersAre, ViewIs
        <3>9. ext # <<>>
            BY <3>2
        <3>10. QED  BY <3>1, <3>8, <3>9
    <2>3. ReceivedName(FALSE, View(field)) = <<LetterR, Digit>> \o View(field)
        BY <2>2 DEF ReceivedName
    <2>4. QED  BY <2>1, <2>2, <2>3, ValidVisible
<1>3. QED  BY <1>1, <1>2

\* The type derived from a name is none, or a valid one.
LEMMA DerivedIs ==
    ASSUME NEW n \in Seq(Characters), Derive(n) # NoField
    PROVE  \/ Derive(n) = EmptyField
           \/ \E ext \in Seq(Characters) : ValidExtension(ext) /\ Derive(n) = Padded(ext)
<1>1. CASE ~\E d \in 2..Len(n) : TypeBegins(n, d)
    BY <1>1 DEF Derive
<1>2. CASE \E d \in 2..Len(n) : TypeBegins(n, d)
    <2>1. ValidExtension(Extension(n)) /\ Derive(n) = Padded(Extension(n))
        BY <1>2 DEF Derive
    <2>2. PICK d \in 2..Len(n) : d = CHOOSE e \in 2..Len(n) : TypeBegins(n, e)
        BY <1>2
    <2>3. Len(n) \in Nat /\ n \in [1..Len(n) -> Characters]
        BY LenProperties
    <2>4. d \in Int /\ Len(n) \in Int /\ \A i \in d..Len(n) : n[i] \in Characters
        <3>1. PICK m \in Nat : m = Len(n)
            BY <2>3
        <3>2. d \in 2..m /\ n \in [1..m -> Characters]
            BY <2>2, <2>3, <3>1
        <3>3. \A i \in d..m : i \in 1..m
            BY <3>2
        <3>4. d \in Int /\ \A i \in d..m : n[i] \in Characters
            BY <3>2, <3>3
        <3>5. QED  BY <3>1, <3>4
    <2>5. SubSeq(n, d, Len(n)) \in Seq(Characters)
        BY <2>4, SubSeqProperties
    <2>6. Extension(n) \in Seq(Characters)
        BY <2>2, <2>5 DEF Extension
    <2>7. QED  BY <2>1, <2>6
<1>3. QED  BY <1>1, <1>2

\* The numbers of a small file.
LEMMA SmallNumbers ==
    ASSUME CodecAssumption
    PROVE  /\ 1 \in Word32 /\ 2 \in Word32 /\ Capacity + 1 \in Word32 /\ Base + 1 \in Word32
           /\ 0 \in Byte /\ 1 \in Byte /\ Characters \subseteq Byte
           /\ Sizes!Supported(Capacity + 1, 2)
<1>1. Base \in Nat /\ Base > 24 /\ MaxPacketCount = Base * Base
    BY Weights
<1>2. 0 \in Byte /\ 1 \in Byte /\ Characters \subseteq Byte
    BY <1>1, LettersAre DEF Byte
<1>3. PICK w \in Nat : w = MaxPacketCount /\ w >= 25 * Base /\ w >= 25
    <2>1. 25 * Base <= Base * Base
        BY <1>1, Monotone
    <2>2. 25 * Base \in Nat /\ 25 * Base >= 25 /\ Base * Base \in Nat
        BY <1>1
    <2>3. QED  BY <1>1, <2>1, <2>2
<1>4. w * w \in Nat /\ w * w >= 25 * w
    BY <1>3, Monotone
<1>5. 1 < w * w /\ 2 < w * w /\ 40 < w * w /\ Base + 1 < w * w
    BY <1>1, <1>3, <1>4
<1>6. /\ 1 \in Word32 /\ 2 \in Word32 /\ Capacity + 1 \in Word32 /\ Base + 1 \in Word32
    BY <1>1, <1>3, <1>4, <1>5 DEF Word32, Capacity
<1>7. Sizes!Supported(Capacity + 1, 2)
    <2>1. PICK word \in Nat : word = MaxPacketCount * MaxPacketCount /\ word > 40
        BY <1>3, <1>4, <1>5
    <2>2. Capacity = 20 /\ Capacity + 1 = 21 /\ w * 20 \in Nat /\ 21 <= w * 20 /\ 2 <= w
        BY <1>3 DEF Capacity
    <2>3. 40 % word = 40 /\ 40 \div 20 = 2
        BY <2>1
    <2>4. Sizes!MaxSize = w * 20
        BY <1>3, <2>2 DEF Sizes!MaxSize
    <2>5. Sizes!PacketCount(21) = 2
        <3>1. Sizes!PacketCount(21) = ((21 + 20 - 1) % word) \div 20
            BY <2>1, <2>2 DEF Sizes!PacketCount
        <3>2. 21 + 20 - 1 = 40
            OBVIOUS
        <3>3. QED  BY <2>3, <3>1, <3>2
    <2>6. QED  BY <1>3, <2>2, <2>4, <2>5 DEF Sizes!Supported
<1>8. QED  BY <1>2, <1>6, <1>7

\* A file that may be sent can be announced.
LEMMA StartForIs ==
    ASSUME CodecAssumption, NEW n \in Seq(Characters), Derive(n) # NoField
    PROVE  StartFor(n) \in Sendable /\ FieldsValid(StartFor(n))
<1>1. PICK field : field = Derive(n)
    OBVIOUS
<1>2. PICK mark : mark = IF field = EmptyField THEN 0 ELSE 1
    OBVIOUS
<1>3. field \in [1..ExtensionBytes -> Byte] /\ StartMetadataValid(mark, field)
    <2>1. CASE field = EmptyField
        BY <1>2, <2>1, ZeroFields DEF StartMetadataValid
    <2>2. CASE field # EmptyField
        <3>1. PICK ext \in Seq(Characters) : ValidExtension(ext) /\ field = Padded(ext)
            BY <1>1, <2>2, DerivedIs
        <3>2. View(field) = ext /\ field \in [1..ExtensionBytes -> Characters]
            BY <3>1, ViewOf
        <3>3. field \in [1..ExtensionBytes -> Byte]
            BY <3>2, SmallNumbers
        <3>4. QED  BY <1>2, <2>2, <3>1, <3>2, <3>3 DEF StartMetadataValid, CanonicalField
    <2>3. QED  BY <2>1, <2>2
<1>4. PICK size \in Word32 : size = Capacity + 1
    BY SmallNumbers
<1>5. PICK crc \in Word32 : crc = Base + 1
    BY SmallNumbers
<1>6. 1 \in Word32 /\ 2 \in Word32 /\ mark \in Byte
    BY <1>2, SmallNumbers
<1>7. PICK p : p = StartPacket(1, size, 2, crc, mark, field)
    OBVIOUS
<1>8. p = StartFor(n)
    BY <1>1, <1>2, <1>4, <1>5, <1>7 DEF StartFor
<1>9. /\ p \in Sendable /\ p.type = StartType /\ p.transfer_id = 1 /\ p.total_size = size
      /\ p.total_packets = 2 /\ p.flags = mark /\ p.extension = field
    BY <1>3, <1>6, <1>7, MadeStart
<1>10. FieldsValid(p)
    <2>1. Sizes!Supported(p.total_size, p.total_packets)
        BY <1>4, <1>9, SmallNumbers
    <2>2. p.type = 1
        BY <1>9 DEF StartType <2>3. QED BY <1>3, <1>9, <2>1, <2>2, TypesAre DEF FieldsValid
<1>11. QED  BY <1>8, <1>9, <1>10

-----------------------------------------------------------------------------
(* Every behaviour of the codec.                                           *)

\* An undamaged frame is what encode made of a packet it accepted, and what was
\* decoded is the reading of the frame.
CodecInv ==
    /\ packet \in Sendable
    /\ intact \in BOOLEAN
    /\ frame = Unsent \/ frame \in Frames
    /\ intact /\ frame # Unsent => FieldsValid(packet) /\ frame = Encode(packet)
    /\ decoded # NotYet => frame # Unsent /\ decoded = Decode(frame)

LEMMA CodecInitInv ==
    ASSUME CodecAssumption, CodecInit
    PROVE  CodecInv
<1>1. packet \in Sendable
    <2>1. CASE packet \in Inputs
        BY <2>1 DEF CodecAssumption
    <2>2. CASE \E n \in LogicalNames : Derive(n) # NoField /\ packet = StartFor(n)
        BY <2>2, StartForIs DEF CodecAssumption
    <2>3. QED  BY <2>1, <2>2 DEF CodecInit
<1>2. QED  BY <1>1 DEF CodecInit, CodecInv

LEMMA CodecNextInv ==
    ASSUME CodecAssumption, CodecInv, [CodecNext]_codecVars
    PROVE  CodecInv'
<1>1. CASE EncodePacket
    <2>1. frame' = Encode(packet) /\ FieldsValid(packet) /\ decoded = NotYet
        BY <1>1 DEF EncodePacket, CodecInv
    <2>2. Encode(packet) \in Frames
        BY <2>1, ReadBack DEF CodecInv
    <2>3. packet' = packet /\ intact' = intact /\ decoded' = decoded
        BY <1>1 DEF EncodePacket
    <2>4. QED  BY <2>1, <2>2, <2>3 DEF CodecInv
<1>2. CASE Damage
    <2>1. /\ frame \in Frames /\ decoded = NotYet /\ intact' = FALSE
          /\ packet' = packet /\ decoded' = decoded
        BY <1>2 DEF Damage, CodecInv
    <2>2. frame' \in Frames
        BY <1>2, <2>1 DEF Damage, Frames
    <2>3. QED  BY <2>1, <2>2 DEF CodecInv
<1>3. CASE DecodeFrame
    BY <1>3 DEF DecodeFrame, CodecInv
<1>4. CASE UNCHANGED codecVars
    BY <1>4 DEF codecVars, CodecInv
<1>5. QED  BY <1>1, <1>2, <1>3, <1>4 DEF CodecNext

LEMMA CodecInvTrue ==
    ASSUME CodecAssumption, CodecInv
    PROVE  CodecTrue
<1>1. frame # Unsent => frame \in Frames
    BY DEF CodecInv
<1>2. ASSUME Understood
      PROVE  /\ frame \in Frames /\ decoded \in Sendable /\ FieldsValid(decoded)
             /\ Encode(decoded) = frame
    <2>1. frame \in Frames /\ decoded = Decode(frame) /\ decoded # NoPacket
        BY <1>1, <1>2 DEF CodecInv, Understood
    <2>2. HasHeader(frame) /\ Acceptable(frame, Fields(frame)) /\ decoded = Fields(frame)
        BY <2>1 DEF Decode
    <2>3. QED  BY <2>1, <2>2, MadeAgain
<1>3. CodecTypeOK
    BY <1>1, <1>2 DEF CodecTypeOK, CodecInv, Frames, Sendable
<1>4. RoundTrip
    <2>1. SUFFICES ASSUME frame # Unsent, intact, decoded # NotYet
                   PROVE  decoded = packet
        BY DEF RoundTrip
    <2>2. /\ packet \in Sendable /\ FieldsValid(packet) /\ frame = Encode(packet)
          /\ decoded = Decode(frame)
        BY <2>1 DEF CodecInv
    <2>3. QED  BY <2>2, ReadBack
<1>5. Canonical
    BY <1>2 DEF Canonical
<1>6. NameIsSendable
    BY StartForIs DEF NameIsSendable, CodecAssumption
<1>7. PublishedIsVisible
    <2>1. SUFFICES ASSUME Understood, decoded.type = StartType
                   PROVE  LET name == ReceivedName(FALSE, View(decoded.extension))
                          IN  ~IsInternalTransferName(name) /\ ~ProtectedName(name)
        BY DEF PublishedIsVisible
    <2>2. PICK field \in [1..ExtensionBytes -> Byte] : field = decoded.extension
        BY <1>2, <2>1, FieldsAre DEF Sendable
    <2>3. StartMetadataValid(decoded.flags, field)
        BY <1>2, <2>1, <2>2 DEF FieldsValid
    <2>4. QED  BY <2>2, <2>3, AnnouncedVisible
<1>8. QED  BY <1>3, <1>4, <1>5, <1>6, <1>7 DEF CodecTrue

\* A frame that was not damaged is what encode made of a packet whose fields it
\* accepted, and what decode returned is its reading (protocol_v2.hpp).
THEOREM CodecInvariant == CodecAssumption => (CodecSpec => []CodecInv)
<1>1. SUFFICES ASSUME CodecAssumption  PROVE CodecSpec => []CodecInv
    OBVIOUS
<1>2. CodecInit => CodecInv
    BY <1>1, CodecInitInv
<1>3. CodecInv /\ [CodecNext]_codecVars => CodecInv'
    BY <1>1, CodecNextInv
<1>4. QED  BY <1>2, <1>3, PTL DEF CodecSpec

\* For every base of the bytes, every packet and every name: encode and decode are
\* inverse to each other, damage or not, a file that may be sent can be announced,
\* and no announced type leads to a name that the board hides.
THEOREM CodecAlwaysTrue == CodecAssumption => (CodecSpec => []CodecTrue)
<1>1. SUFFICES ASSUME CodecAssumption  PROVE CodecSpec => []CodecTrue
    OBVIOUS
<1>2. CodecSpec => []CodecInv
    BY <1>1, CodecInvariant
<1>3. CodecInv => CodecTrue
    BY <1>1, CodecInvTrue
<1>4. QED  BY <1>2, <1>3, PTL

==============================================================================
