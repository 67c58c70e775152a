-------------------------- MODULE RadioArbitration ---------------------------
(***************************************************************************)
(* One board: who may use its radio.                                       *)
(*                                                                         *)
(* Three tasks compete.  Commands of the operator run one at a time under  *)
(* command_mutex_; the loop worker sends files, carrier bursts and Morse   *)
(* on behalf of an earlier command; the RX task receives files.  They      *)
(* share radio_mutex_, loop_mutex_, the request to stop the loop, and      *)
(* three flags that pause the RX task: a command that must not meet an     *)
(* active receive reserves the receiver, a transfer with the PC and a      *)
(* queued loop keep it paused after their command has answered.            *)
(*                                                                         *)
(* Abstractions.  A section under a mutex is one step when nothing that    *)
(* the other tasks do without that mutex can change it; the sections that  *)
(* last (a pass of the worker, TEXT, a poll of the RX task, a command that *)
(* waits for the radio with loop_mutex_ held) are not.  A timed wait may   *)
(* fail whenever its mutex is held, except that worker and STATUS keep     *)
(* loop_mutex_ for less than 50 ms.  What the radio sends and receives is  *)
(* the subject of ReliableTransfer; here a pass just succeeds or fails and *)
(* a receive begins and ends.  Any operation of the radio may fail.        *)
(* Commands that fail to parse, and those that touch nothing here, are     *)
(* left out, and so is control by radio, which no shipped build enables.   *)
(***************************************************************************)
EXTENDS Integers

CONSTANTS
    MaxPasses,    \* bound: the largest count of a TX LOOP
    MaxMissed     \* bound: how often one loop finds loop_mutex_ taken for 50 ms

ASSUME ArbitrationAssumption ==
    /\ MaxPasses \in Nat \ {0}
    /\ MaxMissed \in Nat

VARIABLES
    radio,       \* RadioManager's state
    receiving,   \* hasActiveIncomingReceiveLocked()
    radioLock,   \* the task that holds radio_mutex_ for long
    loopLock,    \* likewise for loop_mutex_
    reserved,    \* receive_mutation_reserved_
    hostOwns,    \* host_session_owns_rx_
    loopOwns,    \* loop_owns_radio_
    upload,      \* host_upload_.active
    download,    \* host_download_.active
    testMode,    \* test_mode_
    loop,        \* loop_config_
    stopReq,     \* loop_stop_requested_
    cmd,         \* the command that runs, and where it is
    reply,       \* what the last command answered
    worker,      \* the iteration of loopTask that runs, and where it is
    asked,       \* history: a command asked this loop to stop
    owed,        \* history: passes asked of this loop, less the complete ones
    missed,      \* history: how often this loop found loop_mutex_ taken
    repeats      \* history: complete passes that were not counted because of that

flags   == <<reserved, hostOwns, loopOwns>>
locks   == <<radioLock, loopLock>>
host    == <<upload, download>>
looping == <<loop, stopReq, asked, owed, missed, repeats>>
passes  == <<owed, missed, repeats>>
vars    == <<radio, receiving, flags, locks, host, looping, testMode, cmd,
             reply, worker>>

-----------------------------------------------------------------------------
Tasks == {"none", "command", "worker", "rx"}
RadioStates == {"Standby", "RxListening", "CwTest", "Sleep", "Fault"}
Modes == {"Tx", "Cw", "Morse"}

Starters  == {"TX", "MORSE", "CWLOOP"}
Stored    == {"TXHEX", "SELECTHEX", "DELETE"}
Settlers  == {"STANDBY", "POWER", "SLEEP", "CW"}
Sessions  == {"UPLOAD", "DOWNLOAD", "UPLOADEND", "DOWNLOADEND"}
Cancels   == {"UPLOADCANCEL", "DOWNLOADCANCEL"}
Commands  == Starters \cup Stored \cup Settlers \cup Sessions \cup Cancels
             \cup {"STOP", "RX", "CHANNEL", "TEXT", "TESTON", "TESTOFF"}

Places  == {"reserve", "blocked", "stop", "stopPoll", "stopLast", "act",
            "radio", "send"}
Replies == {"none", "ok", "error", "standby", "deleted"}
Idle == [name |-> "none", pc |-> "idle"]

LoopConfigs == [active : BOOLEAN, mode : Modes \cup {"None"},
                infinite : BOOLEAN, remaining : 0 .. MaxPasses]
NoLoop == [active |-> FALSE, mode |-> "None", infinite |-> FALSE, remaining |-> 0]

Stages == {"idle", "take", "run", "load", "account", "off", "failed"}
Workers == [pc : Stages, mode : Modes \cup {"None"}, ok : BOOLEAN, stopped : BOOLEAN]
Resting == [pc |-> "idle", mode |-> "None", ok |-> FALSE, stopped |-> FALSE]

DataTypes ==
    /\ radio \in RadioStates
    /\ radioLock \in Tasks
    /\ loopLock \in {"none", "command"}
    /\ loop \in LoopConfigs
    /\ cmd \in [name : Commands, pc : Places] \cup {Idle}
    /\ reply \in Replies
    /\ worker \in Workers
FlagTypes ==
    /\ receiving \in BOOLEAN /\ testMode \in BOOLEAN
    /\ reserved \in BOOLEAN /\ hostOwns \in BOOLEAN /\ loopOwns \in BOOLEAN
    /\ upload \in BOOLEAN /\ download \in BOOLEAN
    /\ stopReq \in BOOLEAN /\ asked \in BOOLEAN
PassTypes ==
    /\ missed \in 0 .. MaxMissed /\ repeats \in 0 .. missed
    /\ owed \in (-1 - repeats) .. MaxPasses
TypeOK == DataTypes /\ FlagTypes /\ PassTypes

Init ==
    /\ radio \in {"Standby", "Fault"}
    /\ receiving = FALSE
    /\ reserved = FALSE /\ hostOwns = FALSE /\ loopOwns = FALSE
    /\ radioLock = "none" /\ loopLock = "none"
    /\ upload = FALSE /\ download = FALSE
    /\ testMode = FALSE
    /\ loop = NoLoop /\ stopReq = FALSE /\ asked = FALSE
    /\ owed = 0 /\ missed = 0 /\ repeats = 0
    /\ cmd = Idle /\ reply = "none"
    /\ worker = Resting

-----------------------------------------------------------------------------
(* Shared helpers.                                                         *)

RadioFree == radioLock = "none"
LoopFree  == loopLock = "none"
Paused    == reserved \/ hostOwns \/ loopOwns

\* ensureStandbyLocked: only what it finds in standby, or what it leaves by
\* stopCw, is sure to end in standby.  Leaving RX drops the receive.
Standbys == IF radio \in {"Standby", "CwTest"} THEN {"Standby"} ELSE {"Standby", "Fault"}
EnsureStandby(r) ==
    /\ r \in Standbys
    /\ receiving' = (receiving /\ ~ (radio = "RxListening" /\ r = "Standby"))

At(pc) == cmd.pc = pc
Goes(pc) == cmd' = [cmd EXCEPT !.pc = pc] /\ UNCHANGED <<reply, reserved>>

\* The command returns: handleCommand's Reservation releases the receiver.
Answer(r) == cmd' = Idle /\ reply' = r /\ reserved' = FALSE

NeedsReservation(c) == c \notin Cancels \cup {"RX", "STOP"}
\* Mutant: TESTMODE ON leaves the loop running.
StopsLoop_NotForTest(c) == c \in Starters \cup Settlers \cup {"STOP", "CHANNEL"}
StopsLoop(c) == c \in Starters \cup Settlers \cup {"STOP", "CHANNEL"}
                \/ (c = "TESTON" /\ ~ testMode)
Allowed(c) == ~ testMode \/ c \in Stored \cup Sessions \cup Cancels \cup {"TESTON", "TESTOFF"}

\* Where handleCommand goes once the reservation is settled.
Route(c) == IF ~ Allowed(c) THEN "blocked" ELSE IF StopsLoop(c) THEN "stop" ELSE "act"

\* Mutant: a request that timed out survives the start of the next loop.
StartLoop_KeepsRequest(mode, infinite, count) ==
    /\ UNCHANGED stopReq
    /\ loop' = [active |-> TRUE, mode |-> mode, infinite |-> infinite, remaining |-> count]
    /\ loopOwns' = TRUE
    /\ asked' = FALSE /\ owed' = count /\ missed' = 0 /\ repeats' = 0
\* A queued loop: stop request, configuration and flag are set under loop_mutex_.
StartLoop(mode, infinite, count) ==
    /\ stopReq' = FALSE
    /\ loop' = [active |-> TRUE, mode |-> mode, infinite |-> infinite, remaining |-> count]
    /\ loopOwns' = TRUE
    /\ asked' = FALSE /\ owed' = count /\ missed' = 0 /\ repeats' = 0
ClearLoop ==
    /\ loop' = NoLoop
    /\ loopOwns' = FALSE
    /\ UNCHANGED <<stopReq, asked, passes>>

-----------------------------------------------------------------------------
(* Commands: dispatch, reservation, and waiting for the loop to stop.      *)

Dispatch(c) ==
    /\ At("idle")
    /\ cmd' = [name |-> c, pc |-> IF NeedsReservation(c) THEN "reserve" ELSE Route(c)]
    /\ reply' = "none"
    /\ UNCHANGED <<radio, receiving, flags, locks, host, looping, testMode, worker>>

\* Mutant: the receiver is looked up without the radio mutex.
Reserve_Unlocked ==
    /\ At("reserve") /\ ~ receiving
    /\ reserved' = TRUE
    /\ cmd' = [cmd EXCEPT !.pc = Route(cmd.name)]
    /\ UNCHANGED <<radio, receiving, hostOwns, loopOwns, locks, host, looping, testMode,
                   reply, worker>>
\* beginReceiveMutation: looked up and set under the radio mutex.
Reserve ==
    /\ At("reserve") /\ RadioFree /\ ~ receiving
    /\ reserved' = TRUE
    /\ cmd' = [cmd EXCEPT !.pc = Route(cmd.name)]
    /\ UNCHANGED <<radio, receiving, hostOwns, loopOwns, locks, host, looping, testMode,
                   reply, worker>>

Refuse ==
    /\ \/ At("reserve") /\ (RadioFree => receiving)
       \/ At("blocked")
    /\ Answer("error")
    /\ UNCHANGED <<radio, receiving, hostOwns, loopOwns, locks, host, looping, testMode, worker>>

\* Mutant: the command asks and goes on.
StopAsk_DoesNotWait ==
    /\ At("stop") /\ LoopFree
    /\ stopReq' = loop.active
    /\ asked' = (asked \/ loop.active)
    /\ Goes("act")
    /\ UNCHANGED <<radio, receiving, hostOwns, loopOwns, locks, host, loop, passes,
                   testMode, worker>>
\* stopLoopAndWait: look, ask, poll, and look once more after the timeout.
StopAsk ==
    /\ At("stop") /\ LoopFree
    /\ stopReq' = loop.active
    /\ asked' = (asked \/ loop.active)
    /\ Goes(IF loop.active THEN "stopPoll" ELSE "act")
    /\ UNCHANGED <<radio, receiving, hostOwns, loopOwns, locks, host, loop, passes,
                   testMode, worker>>

StopSeen ==
    /\ At("stopPoll") /\ LoopFree /\ ~ loop.active
    /\ stopReq' = FALSE
    /\ Goes("act")
    /\ UNCHANGED <<radio, receiving, hostOwns, loopOwns, locks, host, loop, asked,
                   passes, testMode, worker>>

StopTimeout ==
    /\ At("stopPoll") /\ loop.active
    /\ Goes("stopLast")
    /\ UNCHANGED <<radio, receiving, hostOwns, loopOwns, locks, host, looping, testMode, worker>>

StopLast ==
    /\ At("stopLast") /\ LoopFree
    /\ IF loop.active THEN Answer("error") ELSE Goes("act")
    /\ UNCHANGED <<radio, receiving, hostOwns, loopOwns, locks, host, looping, testMode, worker>>

-----------------------------------------------------------------------------
(* Commands: the handlers.                                                 *)

Acts(c) == At("act") /\ cmd.name = c

CommandStop ==
    /\ Acts("STOP") /\ RadioFree
    /\ radio' \in Standbys
    /\ receiving' = FALSE
    /\ \E cleanupOk \in BOOLEAN :
          Answer(IF radio' = "Standby" /\ cleanupOk THEN "standby" ELSE "error")
    /\ UNCHANGED <<hostOwns, loopOwns, locks, host, looping, testMode, worker>>

\* STANDBY and WAKE; POWER; SLEEP and POWERDOWN; CW START.
CommandSettle ==
    /\ At("act") /\ cmd.name \in Settlers /\ RadioFree
    /\ \E r \in RadioStates :
          /\ EnsureStandby(r)
          /\ CASE r = "Fault"            -> radio' = "Fault"
               [] cmd.name = "STANDBY"   -> radio' = "Standby"
               [] cmd.name = "POWER"     -> radio' \in {"Standby", "Fault"}
               [] cmd.name = "SLEEP"     -> radio' \in {"Sleep", "Fault"}
               [] OTHER                  -> radio' \in {"CwTest", "Fault"}
    /\ Answer(IF radio' = "Fault" THEN "error"
              ELSE IF cmd.name = "STANDBY" THEN "standby" ELSE "ok")
    /\ UNCHANGED <<hostOwns, loopOwns, locks, host, looping, testMode, worker>>

CommandChannel ==
    /\ Acts("CHANNEL") /\ RadioFree
    /\ receiving' = FALSE
    /\ radio' \in {"Standby", "Fault"}
    /\ Answer(IF radio' = "Fault" THEN "error" ELSE "ok")
    /\ UNCHANGED <<hostOwns, loopOwns, locks, host, looping, testMode, worker>>

\* Mutant: RX always starts a new session.
CommandRx_Restarts ==
    /\ Acts("RX") /\ RadioFree
    /\ IF hostOwns \/ loopOwns
       THEN Answer("error") /\ UNCHANGED <<radio, receiving>>
       ELSE /\ receiving' = FALSE
            /\ radio' \in {"RxListening", "Fault"}
            /\ Answer(IF radio' = "Fault" THEN "error" ELSE "ok")
    /\ UNCHANGED <<hostOwns, loopOwns, locks, host, looping, testMode, worker>>
\* RX: repeated while listening it changes nothing.
CommandRx ==
    /\ Acts("RX") /\ RadioFree
    /\ IF hostOwns \/ loopOwns \/ (receiving /\ radio # "RxListening")
       THEN Answer("error") /\ UNCHANGED <<radio, receiving>>
       ELSE IF radio = "RxListening"
       THEN Answer("ok") /\ UNCHANGED <<radio, receiving>>
       ELSE /\ receiving' = FALSE
            /\ radio' \in {"RxListening", "Fault"}
            /\ Answer(IF radio' = "Fault" THEN "error" ELSE "ok")
    /\ UNCHANGED <<hostOwns, loopOwns, locks, host, looping, testMode, worker>>

CommandRxBusy ==
    /\ Acts("RX") /\ ~ RadioFree
    /\ Answer("error")
    /\ UNCHANGED <<radio, receiving, hostOwns, loopOwns, locks, host, looping, testMode, worker>>

\* TEXT does not stop a loop; it holds the radio while it sends.
CommandText ==
    /\ Acts("TEXT") /\ RadioFree
    /\ EnsureStandby(radio')
    /\ radioLock' = "command"
    /\ Goes("send")
    /\ UNCHANGED <<hostOwns, loopOwns, loopLock, host, looping, testMode, worker>>

\* Whatever the radio did before, it listens after a text.
TextSent ==
    /\ At("send")
    /\ \/ radio = "Standby" /\ radio' \in {"RxListening", "Fault"} /\ Answer("ok")
       \/ radio' = "Fault" /\ Answer("error")
    /\ radioLock' = "none"
    /\ UNCHANGED <<receiving, hostOwns, loopOwns, loopLock, host, looping, testMode, worker>>

\* MORSE and CW LOOP start their loop under loop_mutex_ alone; MORSE has looked
\* up the channel before.
CommandKey ==
    /\ At("act") /\ cmd.name \in {"MORSE", "CWLOOP"} /\ LoopFree
    /\ cmd.name = "MORSE" => RadioFree
    /\ IF cmd.name = "MORSE" THEN StartLoop("Morse", FALSE, 1) ELSE StartLoop("Cw", TRUE, 0)
    /\ Answer("ok")
    /\ UNCHANGED <<radio, receiving, hostOwns, locks, host, testMode, worker>>

\* TX and the encoded commands take loop_mutex_, then the radio.
TakeLoop ==
    /\ At("act") /\ cmd.name \in Stored \cup {"TX"} /\ LoopFree
    /\ loopLock' = "command"
    /\ Goes("radio")
    /\ UNCHANGED <<radio, receiving, hostOwns, loopOwns, radioLock, host, looping, testMode,
                   worker>>

RadioBusy ==
    /\ At("radio") /\ ~ RadioFree
    /\ loopLock' = "none"
    /\ Answer("error")
    /\ UNCHANGED <<radio, receiving, hostOwns, loopOwns, radioLock, host, looping, testMode,
                   worker>>

CommandTx ==
    /\ At("radio") /\ cmd.name = "TX" /\ RadioFree
    /\ \/ StartLoop("Tx", TRUE, 0)
       \/ \E count \in 1 .. MaxPasses : StartLoop("Tx", FALSE, count)
    /\ loopLock' = "none"
    /\ Answer("ok")
    /\ UNCHANGED <<radio, receiving, hostOwns, radioLock, host, testMode, worker>>

\* Mutant: a queued loop is not looked at.
StoredFree_DespiteLoop ==
    /\ ~ upload /\ ~ download /\ ~ receiving
    /\ radio # "CwTest"
    /\ cmd.name = "TXHEX" => ~ testMode /\ radio # "Fault"
    /\ cmd.name = "DELETE" => radio # "RxListening"
\* storedOperationError, deleteError: what the encoded commands insist on.
StoredFree ==
    /\ ~ upload /\ ~ download /\ ~ loop.active /\ ~ receiving
    /\ radio # "CwTest"
    /\ cmd.name = "TXHEX" => ~ testMode /\ radio # "Fault"
    /\ cmd.name = "DELETE" => radio # "RxListening"

CommandTxHex ==
    /\ At("radio") /\ cmd.name = "TXHEX" /\ RadioFree /\ StoredFree
    /\ EnsureStandby(radio')
    /\ IF radio' = "Standby"
       THEN StartLoop("Tx", FALSE, 1) /\ Answer("ok")
       ELSE UNCHANGED <<looping, loopOwns>> /\ Answer("error")
    /\ loopLock' = "none"
    /\ UNCHANGED <<hostOwns, radioLock, host, testMode, worker>>

\* SELECTHEX, STORAGE DELETE, and every refusal: no such file, a recovery pending.
CommandStored ==
    /\ At("radio") /\ cmd.name \in Stored /\ RadioFree
    /\ \/ Answer("error")
       \/ StoredFree /\ cmd.name = "SELECTHEX" /\ Answer("ok")
       \/ StoredFree /\ cmd.name = "DELETE" /\ Answer("deleted")
    /\ loopLock' = "none"
    /\ UNCHANGED <<radio, receiving, hostOwns, loopOwns, radioLock, host, looping, testMode,
                   worker>>

CommandTestOn ==
    /\ Acts("TESTON")
    /\ IF testMode
       THEN Answer("ok") /\ UNCHANGED <<radio, testMode>>
       ELSE /\ RadioFree
            /\ radio' \in CASE radio = "CwTest"      -> {"Standby"}
                            [] radio = "RxListening" -> {"Standby", "Fault"}
                            [] OTHER                 -> {radio}
            /\ testMode' = ~ (radio = "RxListening" /\ radio' = "Fault")
            /\ Answer(IF testMode' THEN "ok" ELSE "error")
    /\ UNCHANGED <<receiving, hostOwns, loopOwns, locks, host, looping, worker>>

CommandTestOff ==
    /\ Acts("TESTOFF")
    /\ testMode' = FALSE
    /\ Answer("ok")
    /\ UNCHANGED <<radio, receiving, hostOwns, loopOwns, locks, host, looping, worker>>

-----------------------------------------------------------------------------
(* Transfers with the PC: what their commands do to the flag.              *)

\* Mutant: the flag is not recomputed.
ResetUpload_KeepsFlag == upload' = FALSE /\ UNCHANGED <<hostOwns, download>>
\* resetHostUpload and resetHostDownload.
ResetUpload == upload' = FALSE /\ hostOwns' = download /\ UNCHANGED download
ResetDownload == download' = FALSE /\ hostOwns' = upload /\ UNCHANGED upload

Refused == UNCHANGED <<host, hostOwns>> /\ Answer("error")

\* BEGIN resets what its owner had, and may then fail to open the file.
CommandUploadBegin ==
    /\ Acts("UPLOAD")
    /\ \/ Refused
       \/ /\ ~ download
          /\ \/ ResetUpload /\ Answer("error")
             \/ upload' = TRUE /\ hostOwns' = TRUE /\ UNCHANGED download /\ Answer("ok")
    /\ UNCHANGED <<radio, receiving, loopOwns, locks, looping, testMode, worker>>

CommandDownloadBegin ==
    /\ Acts("DOWNLOAD")
    /\ \/ Refused
       \/ /\ ~ upload
          /\ \/ ResetDownload /\ Answer("error")
             \/ download' = TRUE /\ hostOwns' = TRUE /\ UNCHANGED upload /\ Answer("ok")
    /\ UNCHANGED <<radio, receiving, loopOwns, locks, looping, testMode, worker>>

\* END, a DATA that fails, and CANCEL; DATA that succeeds changes nothing here.
CommandUploadEnd ==
    /\ Acts("UPLOADEND") \/ Acts("UPLOADCANCEL")
    /\ \/ Refused
       \/ /\ ~ download
          /\ cmd.name = "UPLOADEND" => upload
          /\ ResetUpload
          /\ \E r \in {"ok", "error"} : Answer(r)
    /\ UNCHANGED <<radio, receiving, loopOwns, locks, looping, testMode, worker>>

CommandDownloadEnd ==
    /\ Acts("DOWNLOADEND") \/ Acts("DOWNLOADCANCEL")
    /\ \/ Refused
       \/ /\ ~ upload
          /\ cmd.name = "DOWNLOADEND" => download
          /\ ResetDownload
          /\ \E r \in {"ok", "error"} : Answer(r)
    /\ UNCHANGED <<radio, receiving, loopOwns, locks, looping, testMode, worker>>

\* expireHostSessions, by the maintenance task or as a command is dispatched.
Expire ==
    /\ At("idle")
    /\ (upload /\ ResetUpload) \/ (download /\ ResetDownload)
    /\ UNCHANGED <<radio, receiving, reserved, loopOwns, locks, looping, testMode, cmd, reply,
                   worker>>

-----------------------------------------------------------------------------
(* The loop worker.                                                        *)

WorkerAt(pc) == worker.pc = pc
Rests == worker' = Resting

\* takeLoop with 50 ms: fails only if a command keeps the mutex for longer,
\* which one loop meets at most MaxMissed times.
LoopUnavailable == ~ LoopFree /\ missed < MaxMissed

Snapshot ==
    /\ WorkerAt("idle") /\ LoopFree /\ loop.active
    /\ worker' = [Resting EXCEPT !.pc = "take", !.mode = loop.mode]
    /\ UNCHANGED <<radio, receiving, flags, locks, host, looping, testMode, cmd, reply>>

\* A TX pass and a Morse message hold the radio throughout.
PassBegins ==
    /\ WorkerAt("take") /\ worker.mode \in {"Tx", "Morse"} /\ RadioFree
    /\ EnsureStandby(radio')
    /\ IF radio' = "Standby"
       THEN radioLock' = "worker" /\ worker' = [worker EXCEPT !.pc = "run"]
       ELSE UNCHANGED radioLock /\ worker' = [worker EXCEPT !.pc = "load"]
    /\ UNCHANGED <<flags, loopLock, host, looping, testMode, cmd, reply>>

PassEnds ==
    /\ WorkerAt("run") /\ worker.mode \in {"Tx", "Morse"}
    /\ radio' \in {"Standby", "Fault"}
    /\ radioLock' = "none"
    /\ \E ok \in BOOLEAN :
          /\ ok /\ worker.mode = "Morse" => radio' = "Standby"
          /\ worker' = [worker EXCEPT !.pc = "load", !.ok = ok]
          /\ owed' = IF ok /\ ~ loop.infinite /\ owed + repeats >= 0 THEN owed - 1 ELSE owed
    /\ UNCHANGED <<receiving, flags, loopLock, host, loop, stopReq, asked, missed, repeats,
                   testMode, cmd, reply>>

\* A carrier burst keys the radio and lets it go.
BurstBegins ==
    /\ WorkerAt("take") /\ worker.mode = "Cw" /\ RadioFree
    /\ \E r \in RadioStates :
          /\ EnsureStandby(r)
          /\ radio' \in IF r = "Fault" THEN {"Fault"} ELSE {"CwTest", "Fault"}
    /\ worker' = [worker EXCEPT !.pc = IF radio' = "CwTest" THEN "run" ELSE "failed"]
    /\ UNCHANGED <<flags, locks, host, looping, testMode, cmd, reply>>

\* stopCurrentCwIfNeeded after the burst.
BurstEnds ==
    /\ WorkerAt("run") /\ worker.mode = "Cw" /\ RadioFree
    /\ radio' = IF radio = "CwTest" THEN "Standby" ELSE radio
    /\ worker' = [worker EXCEPT !.pc = "load"]
    /\ UNCHANGED <<receiving, flags, locks, host, looping, testMode, cmd, reply>>

BurstStuck ==
    /\ WorkerAt("run") /\ worker.mode = "Cw" /\ ~ RadioFree
    /\ Rests
    /\ UNCHANGED <<radio, receiving, flags, locks, host, looping, testMode, cmd, reply>>

LoadStop ==
    /\ WorkerAt("load")
    /\ worker' = [worker EXCEPT !.pc = "account", !.stopped = stopReq]
    /\ UNCHANGED <<radio, receiving, flags, locks, host, looping, testMode, cmd, reply>>

\* Mutant: never counts the last pass.
Remaining_OffByOne == IF worker.ok /\ ~ loop.infinite /\ loop.remaining > 1
                      THEN loop.remaining - 1 ELSE loop.remaining
Remaining == IF worker.ok /\ ~ loop.infinite /\ loop.remaining > 0
             THEN loop.remaining - 1 ELSE loop.remaining

\* Mutant: only failure and the count end a loop.
AccountPass_IgnoresStop ==
    /\ WorkerAt("account") /\ worker.mode \in {"Tx", "Morse"} /\ LoopFree
    /\ IF ~ (loop.active /\ loop.mode = worker.mode)
       THEN UNCHANGED <<looping, loopOwns>>
       ELSE IF worker.mode = "Morse" \/ ~ worker.ok \/ (~ loop.infinite /\ Remaining = 0)
       THEN ClearLoop
       ELSE /\ loop' = [loop EXCEPT !.remaining = Remaining]
            /\ UNCHANGED <<loopOwns, stopReq, asked, passes>>
    /\ Rests
    /\ UNCHANGED <<radio, receiving, reserved, hostOwns, locks, host, testMode, cmd, reply>>
AccountPass ==
    /\ WorkerAt("account") /\ worker.mode \in {"Tx", "Morse"} /\ LoopFree
    /\ IF ~ (loop.active /\ loop.mode = worker.mode)
       THEN UNCHANGED <<looping, loopOwns>>
       ELSE IF worker.mode = "Morse" \/ worker.stopped \/ ~ worker.ok
               \/ (~ loop.infinite /\ Remaining = 0)
       THEN ClearLoop
       ELSE /\ loop' = [loop EXCEPT !.remaining = Remaining]
            /\ UNCHANGED <<loopOwns, stopReq, asked, passes>>
    /\ Rests
    /\ UNCHANGED <<radio, receiving, reserved, hostOwns, locks, host, testMode, cmd, reply>>

AccountBurst ==
    /\ WorkerAt("account") /\ worker.mode = "Cw" /\ LoopFree
    /\ IF worker.stopped /\ loop.active /\ loop.mode = "Cw"
       THEN ClearLoop ELSE UNCHANGED <<looping, loopOwns>>
    /\ IF worker.stopped THEN Rests ELSE worker' = [worker EXCEPT !.pc = "off"]
    /\ UNCHANGED <<radio, receiving, reserved, hostOwns, locks, host, testMode, cmd, reply>>

\* The loop stays as it is, so the next iteration repeats this one.
NotAccounted ==
    /\ worker.pc \in {"account", "off", "failed"} /\ LoopUnavailable
    /\ WorkerAt("off") => stopReq
    /\ IF WorkerAt("account") /\ worker.mode = "Cw" /\ ~ worker.stopped
       THEN worker' = [worker EXCEPT !.pc = "off"] ELSE Rests
    /\ missed' = missed + 1
    /\ repeats' = IF worker.ok /\ ~ loop.infinite THEN repeats + 1 ELSE repeats
    /\ UNCHANGED <<radio, receiving, flags, locks, host, loop, stopReq, asked, owed, testMode,
                   cmd, reply>>

\* After the pause between bursts, or when the carrier could not be started.
BurstOver ==
    /\ worker.pc \in {"off", "failed"}
    /\ IF WorkerAt("off") /\ ~ stopReq
       THEN UNCHANGED <<looping, loopOwns>>
       ELSE /\ LoopFree
            /\ IF loop.active /\ loop.mode = "Cw" THEN ClearLoop
               ELSE UNCHANGED <<looping, loopOwns>>
    /\ Rests
    /\ UNCHANGED <<radio, receiving, reserved, hostOwns, locks, host, testMode, cmd, reply>>

-----------------------------------------------------------------------------
(* The RX task.                                                            *)

\* receiveWorkerPaused() is tested with the radio mutex held.
RxPoll ==
    /\ RadioFree /\ ~ Paused
    /\ radioLock' = "rx"
    /\ UNCHANGED <<radio, receiving, flags, loopLock, host, looping, testMode, cmd, reply, worker>>

\* Frames: a receive begins, goes on or ends, and answers are transmitted.
RxDrain ==
    /\ radioLock = "rx" /\ radio = "RxListening"
    /\ receiving' \in BOOLEAN
    /\ radio' \in {"RxListening", "Fault"}
    /\ UNCHANGED <<flags, locks, host, looping, testMode, cmd, reply, worker>>

\* ReceiverSession::tick runs in every state of the radio.
RxTimeout ==
    /\ radioLock = "rx" /\ receiving
    /\ receiving' = FALSE
    /\ radio' \in IF radio = "RxListening" THEN {"RxListening", "Fault"} ELSE {radio}
    /\ UNCHANGED <<flags, locks, host, looping, testMode, cmd, reply, worker>>

\* Mutant: the drain is unbounded and goes on as long as the radio listens.
RxLeave_DrainsForever ==
    /\ radioLock = "rx" /\ radio # "RxListening"
    /\ radioLock' = "none"
    /\ UNCHANGED <<radio, receiving, flags, loopLock, host, looping, testMode, cmd, reply, worker>>
\* drainPending is bounded: a poll ends, with frames pending or not.
RxLeave ==
    /\ radioLock = "rx"
    /\ radioLock' = "none"
    /\ UNCHANGED <<radio, receiving, flags, loopLock, host, looping, testMode, cmd, reply, worker>>

-----------------------------------------------------------------------------
Admission == Reserve \/ Refuse \/ StopAsk \/ StopSeen \/ StopTimeout \/ StopLast
RadioCommand ==
    \/ CommandStop \/ CommandSettle \/ CommandChannel \/ CommandRx \/ CommandRxBusy
    \/ CommandText \/ TextSent
LoopCommand ==
    CommandKey \/ TakeLoop \/ RadioBusy \/ CommandTx \/ CommandTxHex \/ CommandStored
ModeCommand == CommandTestOn \/ CommandTestOff
SessionCommand ==
    CommandUploadBegin \/ CommandDownloadBegin \/ CommandUploadEnd \/ CommandDownloadEnd
Command == Admission \/ RadioCommand \/ LoopCommand \/ ModeCommand \/ SessionCommand

Iteration ==
    \/ Snapshot \/ PassBegins \/ PassEnds \/ BurstBegins \/ BurstEnds \/ BurstStuck
    \/ LoadStop \/ NotAccounted
Accounting == AccountPass \/ AccountBurst \/ BurstOver
Worker == Iteration \/ Accounting

RxTask == RxPoll \/ RxDrain \/ RxTimeout \/ RxLeave

Next == (\E c \in Commands : Dispatch(c)) \/ Command \/ Expire \/ Worker \/ RxTask

Spec == Init /\ [][Next]_vars

\* Nobody has to give a command.  A task that waits for a mutex gets it in the
\* end, although others take it in between; a wait of 100 ms does not fail for
\* ever; a poll of the RX task ends.  What LoopsEnd adds to that is MaxMissed:
\* the worker does not miss every account of a loop.
FairSpec == Spec /\ SF_vars(Command) /\ SF_vars(Worker) /\ SF_vars(BurstEnds)
                 /\ WF_vars(RxLeave)

-----------------------------------------------------------------------------
(* Properties.                                                             *)

\* Nothing that could disturb a receive runs beside one: no command that
\* reserved the receiver, no transfer with the PC, no queued loop.
ReceiveExclusion == receiving => ~ Paused

\* A receive ends in the RX task or by STOP; no other command and no loop
\* drops it or takes the radio out of RX under it, a repeated RX least of all.
ReceiveUndisturbed ==
    [][ receiving /\ (~ receiving' \/ (radio = "RxListening" /\ radio' # radio))
        => radioLock = "rx" \/ cmd.name = "STOP" ]_vars

\* RX is not kept paused by a flag whose cause is gone, and not resumed while
\* a cause is left, however the commands, expiries and loops overlap.
PauseHasCause ==
    /\ reserved => cmd # Idle
    /\ hostOwns <=> upload \/ download
    /\ loopOwns <=> loop.active

\* The worker only ever runs the loop that is configured: none is cleared or
\* replaced while it is in an iteration, and its snapshot is never stale.
WorkerRunsItsLoop == worker.pc # "idle" => loop.active /\ loop.mode = worker.mode

\* When a command has said that the radio is in standby it stays there until
\* the next command: no loop, no burst and no receive comes after it.
StandbyIsFinal ==
    reply = "standby" =>
        radio = "Standby" /\ ~ receiving /\ ~ loop.active /\ worker.pc = "idle"

\* A stop request that a loop can see was made for this loop: one that timed
\* out never ends a loop that is started later.
StopWasMeant == loop.active /\ stopReq => asked

\* In test mode the radio neither listens nor transmits.
TestModeIsSilent ==
    testMode => radio \notin {"RxListening", "CwTest"} /\ ~ loop.active /\ ~ receiving

\* STORAGE DELETE answers DELETED only while nothing uses the files.
DeleteIsExclusive ==
    [][ reply' = "deleted" /\ reply # "deleted"
        => worker.pc = "idle" /\ ~ receiving /\ ~ upload /\ ~ download /\ radioLock # "rx" ]_vars

\* A file is sent completely, and a message keyed, at most as often as was asked
\* for, and once more for each complete pass after which a command kept
\* loop_mutex_ for 50 ms: runTxLoopIteration and its Morse and CW counterparts
\* then return without counting the pass.
PassesAsAsked == owed + repeats >= 0

\* Every command returns and lets the next one in, whatever the worker does.
CommandsReturn == cmd # Idle ~> cmd = Idle

\* A loop that has been asked to stop ends.
StopEndsLoop == loop.active /\ stopReq ~> ~ loop.active

\* A loop with a count ends by itself.
CountedLoopEnds == loop.active /\ ~ loop.infinite ~> ~ loop.active

\* A loop ends when it is told to, or by itself when it has a count: it waits
\* for no command that in turn waits for it.
LoopsEnd == StopEndsLoop /\ CountedLoopEnds

-----------------------------------------------------------------------------
(* The inductive invariant.                                                *)

\* Where a command is tells what it holds and what it has made sure of: past
\* "reserve" it has the receiver if it needs it, past the wait no loop is left.
CommandInv ==
    /\ cmd.pc = "reserve" => NeedsReservation(cmd.name)
    /\ reserved <=> cmd.pc \notin {"idle", "reserve"} /\ NeedsReservation(cmd.name)
    /\ cmd.pc \notin {"idle", "reserve", "blocked"} => Allowed(cmd.name)
    /\ cmd.pc \in {"stop", "stopPoll", "stopLast"} => StopsLoop(cmd.name)
    /\ cmd.pc = "act" /\ StopsLoop(cmd.name) => ~ loop.active
    /\ cmd.pc = "radio" => cmd.name \in Stored \cup {"TX"}
    /\ cmd.pc = "radio" /\ cmd.name = "TX" => ~ loop.active
    /\ cmd.pc = "send" => cmd.name = "TEXT"
    /\ reply # "none" => cmd.pc = "idle"

\* Who holds a mutex for long, and that the RX task holds the radio only while
\* nothing pauses it.
LockInv ==
    /\ radioLock = "command" <=> cmd.pc = "send"
    /\ radioLock = "worker" <=> worker.pc = "run" /\ worker.mode \in {"Tx", "Morse"}
    /\ loopLock = "command" <=> cmd.pc = "radio"
    /\ radioLock = "rx" => ~ Paused

WorkerInv ==
    /\ worker.pc \in {"off", "failed"} => worker.mode = "Cw"
    /\ loop.active => loop.mode \in Modes

ArbitrationInv ==
    /\ TypeOK /\ CommandInv /\ LockInv /\ WorkerInv
    /\ ReceiveExclusion /\ PauseHasCause /\ WorkerRunsItsLoop
    /\ StandbyIsFinal /\ StopWasMeant /\ TestModeIsSilent
====
