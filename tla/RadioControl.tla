---------------------------- MODULE RadioControl ----------------------------
(***************************************************************************)
(* The nRF24 chip, its driver Nrf24, the RadioManager that keeps the       *)
(* application's idea of the chip, and everything that changes either:     *)
(* the RF commands, the loop worker (file, carrier and Morse loops) and    *)
(* the receive worker.  The question is whether the chip does what the     *)
(* manager's state says, whatever the order of the calls.                  *)
(*                                                                         *)
(* The operators take the radio as a record and return it as the C++       *)
(* method leaves it, with the method's result in "ok".                     *)
(*                                                                         *)
(* Abstractions.  Of the chip: PWR_UP, PRIM_RX and CE, the CONT_WAVE bit,  *)
(* payload reuse, the channel, the power level, and "framed", which stands *)
(* for the packet set-up that a carrier changes (CRC, auto-ack, address).  *)
(* A faulty bus reads as all zeros or all ones and loses writes; it does   *)
(* not change within one call made under the radio mutex.  The loop mutex  *)
(* is always obtained and the host's sessions are left out: both are       *)
(* RadioArbitration.                                                       *)
(***************************************************************************)
EXTENDS Naturals

CONSTANTS
    Channels, Levels,   \* the channels and power levels asked for
    WirelessControl,    \* WIRELESS_CONTROL_ENABLED and WIRELESS_CONTROL_AUTO_RX
    MaxFaults           \* bound on losses of the chip's registers and bus failures

ASSUME ControlAssumption ==
    /\ Channels \subseteq 0..125 /\ 76 \in Channels
    /\ Levels \subseteq 0..3 /\ 3 \in Levels
    /\ WirelessControl \in BOOLEAN
    /\ MaxFaults \in Nat

VARIABLES
    radio,      \* the chip, the driver and the manager
    loop,       \* loop_config_ and loop_stop_requested_
    worker,     \* where the loop worker stands
    test,       \* test_mode_
    configured, \* the channel of the last CHANNEL command, for the properties
    sound,      \* the chip has answered and kept its registers since the last boot
    faults      \* resets and bus failures so far

vars == <<radio, loop, worker, test, configured, sound, faults>>

Outcomes == {"first", "second", "fail"}
States == {"Boot", "Standby", "RxListening", "Sleep", "PowerDown", "CwTest", "Fault"}
Registers == [power : BOOLEAN, prx : BOOLEAN, wave : BOOLEAN, framed : BOOLEAN,
              channel : 0..127, level : 0..3]

\* What a dead bus reads as, and what the chip holds after power-on.
Zeros == [power |-> FALSE, prx |-> FALSE, wave |-> FALSE, framed |-> FALSE,
          channel |-> 0, level |-> 0]
Ones == [power |-> TRUE, prx |-> TRUE, wave |-> TRUE, framed |-> FALSE,
         channel |-> 127, level |-> 3]
PowerOn == [power |-> FALSE, prx |-> FALSE, wave |-> FALSE, framed |-> FALSE,
            channel |-> 2, level |-> 3]

-----------------------------------------------------------------------------
(* The SPI bus and the CE pin. *)

Answers(r) == r.bus = "ok"
Read(r) == CASE r.bus = "ok" -> r.regs [] r.bus = "low" -> Zeros [] OTHER -> Ones
Write(r, regs) == IF Answers(r) THEN [r EXCEPT !.regs = regs] ELSE r
Ce(r, high) == [r EXCEPT !.ce = high]
FlushTx(r) == IF Answers(r) THEN [r EXCEPT !.reuse = FALSE] ELSE r
Returns(r, ok) == [r EXCEPT !.ok = ok]

\* An unmodulated carrier is on the air.
Radiates(r) == r.ce /\ r.regs.power /\ ~ r.regs.prx /\ (r.regs.wave \/ r.reuse)

(* The driver. *)

Probe(r) == Returns(r, Answers(r))

\* Mutant: the defaults leave RF_SETUP, and with it CONT_WAVE, as it is.
InitDefaults_KeepsSetup(r, c) ==
    LET s == Write(Ce(r, FALSE),
                   [r.regs EXCEPT !.power = TRUE, !.prx = FALSE, !.channel = c,
                                  !.framed = TRUE])
    IN Returns(FlushTx(s), Read(s).channel = c)

InitDefaults(r, c) ==
    LET s == Write(Ce(r, FALSE),
                   [power |-> TRUE, prx |-> FALSE, wave |-> FALSE, framed |-> TRUE,
                    channel |-> c, level |-> r.level])
    IN Returns(FlushTx(s), Read(s).channel = c)

PowerUp(r) == Returns(Write(r, [r.regs EXCEPT !.power = TRUE]), TRUE)
PowerDown(r) == Returns(Write(r, [r.regs EXCEPT !.power = FALSE]), TRUE)

StartRx(r) ==
    Returns(Ce(Write(r, [r.regs EXCEPT !.power = TRUE, !.prx = TRUE]), TRUE), TRUE)

\* Mutant: CE is left high.
StopRx_KeepsCe(r) == Returns(Write(r, [r.regs EXCEPT !.prx = FALSE]), TRUE)

StopRx(r) == Returns(Write(Ce(r, FALSE), [r.regs EXCEPT !.prx = FALSE]), TRUE)

SetRfPowerLevel(r, l) ==
    LET s == Write([r EXCEPT !.level = l], [r.regs EXCEPT !.wave = FALSE, !.level = l])
    IN Returns(s, Read(s).level = l)

\* transmitOnce: the datasheet pulse, then one attempt after re-priming.  The
\* first waits in vain for an acknowledgement when auto-ack is on.  All ones
\* look like TX_DS; all zeros never do.
CanEnd(r, o) == CASE r.bus = "ok" -> o = "first" => r.regs.framed
                  [] r.bus = "low" -> o = "fail"
                  [] OTHER -> o = "first"

Reprime(r) ==
    [power |-> TRUE, prx |-> FALSE, wave |-> FALSE, framed |-> TRUE,
     channel |-> Read(r).channel, level |-> r.level]

TransmitOnce(r, o) ==
    LET regs == IF o = "first" THEN [r.regs EXCEPT !.power = TRUE, !.prx = FALSE]
                               ELSE Reprime(r)
    IN Returns(FlushTx(Write(Ce(r, FALSE), regs)), o # "fail")

StopContinuousCarrier(r) ==
    LET s == FlushTx(Ce(r, FALSE))
    IN IF ~ r.saved.valid
       THEN [Write(s, [r.regs EXCEPT !.wave = FALSE, !.level = r.level]) EXCEPT
                !.carrier = "None"]
       ELSE [Write(s, r.saved.regs) EXCEPT
                !.saved = [valid |-> FALSE, regs |-> Zeros], !.carrier = "None"]

\* CONT_WAVE where the part keeps the bit, payload reuse where it does not; the
\* latter needs its first payload to go out ("sent").
StartContinuousCarrier(r, c, l, sent) ==
    LET old   == IF r.carrier = "None" THEN r ELSE StopContinuousCarrier(r)
        save  == [old EXCEPT !.saved = [valid |-> TRUE, regs |-> Read(old)]]
        wave  == [Read(old) EXCEPT !.power = TRUE, !.prx = FALSE, !.wave = old.genuine,
                                   !.channel = c, !.level = l]
        on    == FlushTx(Write(Ce(save, FALSE), wave))
        bare  == FlushTx(Write(on, [wave EXCEPT !.wave = FALSE, !.framed = FALSE]))
        reuse == IF Answers(r) THEN [bare EXCEPT !.reuse = TRUE] ELSE bare
    IN CASE Read(on).wave -> Returns(Ce([on EXCEPT !.carrier = "ContWave"], TRUE), TRUE)
         [] ~ Read(on).wave /\ sent /\ Answers(r) ->
                Returns(Ce([reuse EXCEPT !.carrier = "PayloadReuse"], TRUE), TRUE)
         [] OTHER -> Returns(StopContinuousCarrier(bare), FALSE)

-----------------------------------------------------------------------------
(* The manager.  "stale" is for the properties only: registers that were saved *)
(* before the last boot have been put back since.                             *)

Enters(r, s) == [r EXCEPT !.state = IF r.ok THEN s ELSE "Fault"]

Boot(r, c) ==
    LET s == Probe([r EXCEPT !.channel = c, !.before = c, !.restorable = FALSE])
    IN Enters(IF s.ok THEN [InitDefaults(s, c) EXCEPT !.stale = FALSE] ELSE s, "Standby")

EnterRx(r) == Enters(StartRx(r), "RxListening")
LeaveRx(r) == Enters(StopRx(r), "Standby")
SendPayload(r, o) == Enters(TransmitOnce(r, o), "Standby")
ReceivePayload(r, read) == Enters(Returns(r, read), "RxListening")
Sleep(r) == Enters(PowerDown(r), "Sleep")
Wake(r) == Enters(PowerUp(r), "Standby")
DeepSleep(r) == Enters(PowerDown(r), "PowerDown")

SetPowerLevel(r, l) ==
    LET s == SetRfPowerLevel(r, l)
    IN IF s.ok THEN s ELSE [s EXCEPT !.state = "Fault"]

StartCw(r, c, l, sent) ==
    LET s == [StartContinuousCarrier(r, c, l, sent) EXCEPT
                 !.stale = r.stale \/ r.carrier # "None"]
    IN IF s.ok
       THEN [s EXCEPT !.before = r.channel, !.restorable = TRUE, !.channel = c,
                      !.state = "CwTest"]
       ELSE [s EXCEPT !.state = "Fault"]

\* Mutant: the channel shown stays that of the carrier.
StopCw_KeepsChannel(r) ==
    [StopContinuousCarrier(r) EXCEPT !.restorable = FALSE, !.state = "Standby", !.ok = TRUE]

StopCw(r) ==
    [StopContinuousCarrier(r) EXCEPT
        !.channel = IF r.restorable THEN r.before ELSE r.channel,
        !.restorable = FALSE, !.state = "Standby", !.ok = TRUE]

-----------------------------------------------------------------------------
(* What the application calls while it holds the radio mutex. *)

\* Mutant: RX mode is taken for standby.
EnsureStandby_KeepsRx(r) ==
    CASE r.state \in {"Fault", "Boot"} -> Boot(r, r.channel)
      [] r.state = "CwTest" -> StopCw(r)
      [] r.state \in {"Sleep", "PowerDown"} -> Wake(r)
      [] OTHER -> [r EXCEPT !.ok = TRUE, !.state = "Standby"]

EnsureStandby(r) ==
    CASE r.state \in {"Fault", "Boot"} -> Boot(r, r.channel)
      [] r.state = "CwTest" -> StopCw(r)
      [] r.state = "RxListening" -> LeaveRx(r)
      [] r.state \in {"Sleep", "PowerDown"} -> Wake(r)
      [] r.state = "Standby" -> Returns(r, TRUE)

StartRxLocked(r) == LET s == EnsureStandby(r) IN IF s.ok THEN EnterRx(s) ELSE s

CarrierLocked(r, c, l, sent) ==
    LET s == EnsureStandby(r) IN IF s.ok THEN StartCw(s, c, l, sent) ELSE s

\* sendPayloadWithRetry: a failed attempt leaves what a re-primed one leaves.
SendLocked(r, o) ==
    LET s == EnsureStandby(r) IN IF s.ok THEN SendPayload(s, o) ELSE s

\* sendProtocolResponseLocked in RX mode: RX is resumed whatever became of the
\* response.
Respond(r, o) == EnterRx(SendPayload(LeaveRx(r), o))

\* One turn of sendDataFile: a frame is sent; the answer is awaited in RX mode.
FrameTurn(r, o, read) ==
    LET s == SendPayload(r, o)
        t == ReceivePayload(EnterRx(s), read)
    IN IF ~ s.ok THEN s ELSE IF t.state = "RxListening" THEN LeaveRx(t) ELSE t

-----------------------------------------------------------------------------
Idle == [kind |-> "none", asked |-> FALSE, channel |-> 76, level |-> 3]

TypeOK ==
    /\ radio \in [regs : Registers, ce : BOOLEAN, reuse : BOOLEAN, genuine : BOOLEAN,
                  bus : {"ok", "low", "high"},
                  carrier : {"None", "ContWave", "PayloadReuse"},
                  saved : [valid : BOOLEAN, regs : Registers],
                  level : 0..3,
                  state : States, channel : 0..125, before : 0..125,
                  restorable : BOOLEAN, stale : BOOLEAN, ok : BOOLEAN]
    /\ loop \in [kind : {"none", "cw", "tx", "morse"}, asked : BOOLEAN,
                 channel : 0..125, level : 0..3]
    /\ worker \in {"idle", "on", "report", "off", "pass", "key", "resume", "resuming"}
    /\ test \in BOOLEAN
    /\ configured \in 0..125
    /\ sound \in BOOLEAN
    /\ faults \in 0..MaxFaults

\* What initialize() finds: a chip after power-on and a manager in Boot.
Cold(genuine, bus) ==
    [regs |-> PowerOn, ce |-> FALSE, reuse |-> FALSE, genuine |-> genuine, bus |-> bus,
     carrier |-> "None", saved |-> [valid |-> FALSE, regs |-> Zeros],
     level |-> 3,
     state |-> "Boot", channel |-> 76, before |-> 76, restorable |-> FALSE, stale |-> FALSE,
     ok |-> FALSE]

Init ==
    /\ \E genuine \in BOOLEAN, bus \in {"ok", "low", "high"} :
          /\ radio = Boot(Cold(genuine, bus), 76)
          /\ sound = (bus = "ok")
          /\ faults = IF bus = "ok" THEN 0 ELSE 1
          /\ faults <= MaxFaults
    /\ loop = Idle /\ worker = "idle" /\ test = FALSE
    /\ configured = 76

(* The radio mutex is free: no file pass and no Morse message is under way. *)
Free == worker \notin {"pass", "key"}

\* The radio is left as r; a boot that succeeds makes it sound again.
Leaves(r) ==
    /\ radio' = r
    /\ sound' = (sound \/ (radio.state \in {"Fault", "Boot"} /\ r.state # "Fault"
                             /\ Answers(radio)))

-----------------------------------------------------------------------------
(* The commands.  Test mode refuses them; most first stop the loop. *)

\* stopLoopAndWait found no loop, or waited for its end.
LoopStopped == /\ ~ test /\ Free /\ loop.kind = "none"
               /\ loop' = [loop EXCEPT !.asked = FALSE]

\* A command, or TESTMODE ON, asks the loop to stop; it may give up waiting.
AskStop ==
    /\ ~ test /\ loop.kind # "none" /\ ~ loop.asked
    /\ loop' = [loop EXCEPT !.asked = TRUE]
    /\ UNCHANGED <<radio, worker, test, configured, sound, faults>>

Commanded(r) == Leaves(r) /\ UNCHANGED <<worker, test, configured, faults>>

CommandStop == LoopStopped /\ Commanded(EnsureStandby(radio))
CommandStandby == LoopStopped /\ Commanded(EnsureStandby(radio))
CommandWake == LoopStopped /\ Commanded(EnsureStandby(radio))

Then(r, s) == IF r.ok THEN s ELSE r

CommandSleep ==
    /\ LoopStopped
    /\ LET r == EnsureStandby(radio) IN Commanded(Then(r, Sleep(r)))

CommandPowerDown ==
    /\ LoopStopped
    /\ LET r == EnsureStandby(radio) IN Commanded(Then(r, DeepSleep(r)))

CommandPower(l) ==
    /\ LoopStopped
    /\ LET r == EnsureStandby(radio) IN Commanded(Then(r, SetPowerLevel(r, l)))

\* The channel is booted from whatever state the radio is in.
CommandChannel(c) ==
    /\ LoopStopped
    /\ radio' = Boot(radio, c)
    /\ sound' = (sound \/ Answers(radio))
    /\ configured' = c
    /\ UNCHANGED <<worker, test, faults>>

CommandCwStart(c, l, sent) ==
    /\ LoopStopped
    /\ Commanded(CarrierLocked(radio, c, l, sent))

\* RX is refused while a loop owns the radio and changes nothing when listening.
CommandRx ==
    /\ ~ test /\ Free /\ loop.kind = "none" /\ radio.state # "RxListening"
    /\ Commanded(StartRxLocked(radio))
    /\ UNCHANGED loop

\* TEXT and REMOTE do not stop a loop.
CommandText(o) ==
    /\ ~ test /\ Free /\ CanEnd(EnsureStandby(radio), o)
    /\ LET r == SendLocked(radio, o)
       IN Commanded(IF r.ok THEN EnterRx(r) ELSE r)
    /\ UNCHANGED loop

\* tryResumeWirelessRx leaves RX alone while a loop is active.
CommandRemote(o, resume) ==
    /\ WirelessControl /\ ~ test /\ Free /\ CanEnd(EnsureStandby(radio), o)
    /\ resume => loop.kind = "none"
    /\ LET r == SendLocked(radio, o)
       IN Commanded(IF r.ok /\ resume THEN EnterRx(r) ELSE r)
    /\ UNCHANGED loop

\* TX, CW LOOP and MORSE leave the work to the loop worker.
StartLoop(kind, c, l) ==
    /\ ~ test /\ Free /\ loop.kind = "none"
    /\ loop' = [kind |-> kind, asked |-> FALSE, channel |-> c, level |-> l]
    /\ UNCHANGED <<radio, worker, test, configured, sound, faults>>

\* STORAGE TXHEX refuses what TX would stop, and brings the radio to standby.
CommandStoredTx ==
    /\ ~ test /\ Free /\ loop.kind = "none" /\ Answers(radio)
    /\ radio.state \notin {"Boot", "Fault", "CwTest"}
    /\ loop' = [kind |-> "tx", asked |-> FALSE, channel |-> 76, level |-> 3]
    /\ Commanded(EnsureStandby(radio))

TestModeOn ==
    /\ LoopStopped
    /\ radio' = CASE radio.state = "CwTest" -> StopCw(radio)
                  [] radio.state = "RxListening" -> LeaveRx(radio)
                  [] OTHER -> radio
    /\ test' = TRUE
    /\ UNCHANGED <<worker, configured, sound, faults>>

TestModeOff ==
    /\ test /\ test' = FALSE
    /\ UNCHANGED <<radio, loop, worker, configured, sound, faults>>

-----------------------------------------------------------------------------
(* The loop worker. *)

ClearLoop == loop' = [loop EXCEPT !.kind = "none"]
AtWork(kind, place) == loop.kind = kind /\ worker = place
Elsewhere == UNCHANGED <<test, configured, faults>>

\* runCwLoopCycle: the carrier goes on, and the worker waits without the mutex.
CwOn(sent) ==
    /\ AtWork("cw", "idle")
    /\ LET r == CarrierLocked(radio, loop.channel, loop.level, sent)
       IN /\ Leaves(r)
          /\ worker' = IF r.ok THEN "on" ELSE "idle"
          /\ IF r.ok THEN UNCHANGED loop ELSE ClearLoop
    /\ Elsewhere

\* Mutant: a cycle that was stopped leaves the carrier to the command.
CwOff_LeavesCarrier ==
    /\ worker = "on"
    /\ Leaves(IF radio.state = "CwTest" /\ ~ loop.asked THEN StopCw(radio) ELSE radio)
    /\ IF loop.asked THEN ClearLoop /\ worker' = "idle"
                     ELSE UNCHANGED loop /\ worker' \in {"report", "off"}
    /\ Elsewhere

\* stopCurrentCwIfNeeded; TEXT or REMOTE may have stopped the carrier already.
CwOff ==
    /\ worker = "on"
    /\ Leaves(IF radio.state = "CwTest" THEN StopCw(radio) ELSE radio)
    /\ IF loop.asked THEN ClearLoop /\ worker' = "idle"
                     ELSE UNCHANGED loop /\ worker' \in {"report", "off"}
    /\ Elsewhere

\* The radio mutex was not free for 100 ms: the next cycle begins at once.
CwStopTimesOut ==
    /\ worker = "on" /\ worker' = "idle"
    /\ UNCHANGED <<radio, loop, sound>> /\ Elsewhere

\* printCwLoopReport prints the status.
CwReport ==
    /\ worker = "report" /\ worker' = "off"
    /\ UNCHANGED <<radio, loop, sound>> /\ Elsewhere

CwRest ==
    /\ worker = "off" /\ worker' = "idle"
    /\ IF loop.asked THEN ClearLoop ELSE UNCHANGED loop
    /\ UNCHANGED <<radio, sound>> /\ Elsewhere

\* runTxLoopIteration: the whole pass is made under the radio mutex.
TxBegin ==
    /\ AtWork("tx", "idle")
    /\ LET r == EnsureStandby(radio)
       IN /\ Leaves(r)
          /\ worker' = IF r.ok THEN "pass" ELSE "resume"
          /\ IF r.ok THEN UNCHANGED loop ELSE ClearLoop
    /\ Elsewhere

TxTurn(o, read) ==
    /\ worker = "pass" /\ CanEnd(radio, o)
    /\ radio' = FrameTurn(radio, o, read)
    /\ UNCHANGED <<loop, worker, sound>> /\ Elsewhere

\* The pass ends; the loop goes on unless it was stopped, failed or was the last.
TxEnd ==
    /\ worker = "pass"
    /\ \/ ClearLoop /\ worker' = "resume"
       \/ ~ loop.asked /\ UNCHANGED loop /\ worker' = "idle"
    /\ UNCHANGED <<radio, sound>> /\ Elsewhere

\* runMorseIteration and keyMorseEventsLocked, under the radio mutex as well.
MorseBegin ==
    /\ AtWork("morse", "idle")
    /\ LET r == EnsureStandby(radio)
       IN /\ Leaves(r)
          /\ worker' = IF r.ok THEN "key" ELSE "resume"
          /\ IF r.ok THEN UNCHANGED loop ELSE ClearLoop
    /\ Elsewhere

KeyDown(sent) ==
    /\ worker = "key" /\ radio.state = "Standby" /\ ~ loop.asked
    /\ LET r == StartCw(radio, loop.channel, loop.level, sent)
       IN /\ radio' = r
          /\ worker' = IF r.ok THEN "key" ELSE "resume"
          /\ IF r.ok THEN UNCHANGED loop ELSE ClearLoop
    /\ UNCHANGED sound /\ Elsewhere

KeyUp ==
    /\ worker = "key" /\ radio.state = "CwTest" /\ ~ loop.asked
    /\ radio' = StopCw(radio)
    /\ UNCHANGED <<loop, worker, sound>> /\ Elsewhere

MorseEnd ==
    /\ worker = "key"
    /\ radio' = IF radio.state = "CwTest" THEN StopCw(radio) ELSE radio
    /\ worker' = "resume" /\ ClearLoop
    /\ UNCHANGED sound /\ Elsewhere

\* tryResumeWirelessRx looks at test mode and at the loop before it takes the
\* radio mutex.  It is called for loops that a remote board asked for.
ResumeChecks ==
    /\ worker = "resume"
    /\ \/ WirelessControl /\ ~ test /\ loop.kind = "none" /\ worker' = "resuming"
       \/ worker' = "idle"
    /\ UNCHANGED <<radio, loop, sound>> /\ Elsewhere

Resume ==
    /\ worker = "resuming" /\ worker' = "idle"
    /\ radio' = IF radio.state = "Standby" THEN EnterRx(radio) ELSE radio
    /\ UNCHANGED <<loop, sound>> /\ Elsewhere

-----------------------------------------------------------------------------
(* The receive worker, which pauses while a loop owns the radio. *)

Polls == Free /\ loop.kind = "none" /\ radio.state = "RxListening"

RxResponds(o) ==
    /\ Polls /\ CanEnd(LeaveRx(radio), o)
    /\ Commanded(Respond(radio, o)) /\ UNCHANGED loop

RxFails ==
    /\ Polls
    /\ Commanded(ReceivePayload(radio, FALSE)) /\ UNCHANGED loop

(* The hardware. *)

\* A brown-out of the chip alone: registers and queues are lost.
ChipResets ==
    /\ faults < MaxFaults /\ faults' = faults + 1
    /\ radio' = [radio EXCEPT !.regs = PowerOn, !.reuse = FALSE]
    /\ sound' = FALSE
    /\ UNCHANGED <<loop, worker, test, configured>>

BusFails(how) ==
    /\ Answers(radio) /\ faults < MaxFaults /\ faults' = faults + 1
    /\ radio' = [radio EXCEPT !.bus = how]
    /\ sound' = FALSE
    /\ UNCHANGED <<loop, worker, test, configured>>

BusHeals ==
    /\ ~ Answers(radio)
    /\ radio' = [radio EXCEPT !.bus = "ok"]
    /\ UNCHANGED <<loop, worker, test, configured, sound, faults>>

Next ==
    \/ AskStop
    \/ CommandStop \/ CommandStandby \/ CommandWake \/ CommandSleep \/ CommandPowerDown
    \/ CommandRx
    \/ \E l \in Levels : CommandPower(l)
    \/ \E c \in Channels : CommandChannel(c)
    \/ \E c \in Channels, l \in Levels, sent \in BOOLEAN : CommandCwStart(c, l, sent)
    \/ \E o \in Outcomes : CommandText(o)
    \/ \E o \in Outcomes, resume \in BOOLEAN : CommandRemote(o, resume)
    \/ \E c \in Channels, l \in Levels : StartLoop("cw", c, l)
    \/ StartLoop("tx", 76, 3) \/ CommandStoredTx
    \/ StartLoop("morse", radio.channel, 3)
    \/ TestModeOn \/ TestModeOff
    \/ \E sent \in BOOLEAN : CwOn(sent)
    \/ CwOff \/ CwStopTimesOut \/ CwReport \/ CwRest
    \/ TxBegin \/ TxEnd
    \/ \E o \in Outcomes, read \in BOOLEAN : TxTurn(o, read)
    \/ MorseBegin \/ KeyUp \/ MorseEnd
    \/ \E sent \in BOOLEAN : KeyDown(sent)
    \/ ResumeChecks \/ Resume
    \/ \E o \in Outcomes : RxResponds(o)
    \/ RxFails
    \/ ChipResets \/ BusHeals
    \/ \E how \in {"low", "high"} : BusFails(how)

Spec == Init /\ [][Next]_vars

-----------------------------------------------------------------------------
(* Properties. *)

\* Packet mode; it uses the channel and the power level that were asked for.
Framed(r) == r.regs.framed /\ ~ r.regs.wave /\ ~ r.reuse
Tuned(r) == r.regs.channel = r.channel /\ r.regs.level = r.level
PacketMode(r) == Framed(r) /\ Tuned(r)

\* The power and reception bits of CONFIG are those of the manager's state.
ConfigFits(r) ==
    /\ r.regs.power <=> r.state \in {"Standby", "RxListening"}
    /\ r.regs.prx <=> r.state = "RxListening"

\* While the chip answers and keeps its registers it does what the manager's
\* state says: a carrier is on the air exactly in CwTest and on its channel, CE
\* is high exactly in RX, CONFIG fits the state, and packet mode is set up on the
\* channel and at the level that were asked for (nrf24.cpp:468-598 with
\* radio_manager.cpp:220-248).  One thing is not so in the code: CHANNEL during a
\* carrier leaves the driver with registers it saved before that boot, and the
\* next carrier puts them back (nrf24.cpp:474).  From then to the next boot
\* ("stale") the channel and the level are not claimed, nor, once the bus has
\* failed or the chip was reset, the rest of the registers it may have saved then.
Agrees ==
    sound =>
        /\ Radiates(radio) <=> radio.state = "CwTest"
        /\ radio.state = "CwTest" => radio.regs.channel = radio.channel
        /\ radio.state \in {"Standby", "RxListening", "Sleep", "PowerDown"} =>
               /\ radio.ce <=> radio.state = "RxListening"
               /\ ~ radio.stale => Tuned(radio)
               /\ faults = 0 \/ ~ radio.stale => Framed(radio) /\ ConfigFits(radio)

\* What nrf24.cpp:478-479 and main.cpp:4317-4319 say: a carrier that has stopped
\* leaves the normal packet settings, and CHANNEL a known baseline on the new
\* channel.  The code does not keep it when CHANNEL comes during a carrier and a
\* second carrier follows (nrf24.cpp:474).
CarrierRestoresPackets ==
    sound /\ radio.state \in {"Standby", "RxListening"} => PacketMode(radio)

\* A carrier and a fault leave the channel alone: outside CwTest the manager
\* works on the channel of the last CHANNEL command, and in CwTest it knows the
\* way back to it, even if the bus failed or the registers were lost.
ConfiguredChannelKept ==
    IF radio.state = "CwTest" THEN radio.restorable /\ radio.before = configured
                              ELSE radio.channel = configured

\* A loop that ends leaves no carrier on: neither its own, though the worker
\* waits without the radio mutex and TEXT, REMOTE or a mutex that is busy may
\* come in between, nor one that CW START began before it (main.cpp:2566, 4659).
LoopLeavesNoCarrier ==
    [][loop.kind # "none" /\ loop'.kind = "none" => radio'.state # "CwTest"]_vars

\* What the manager keeps of the radio is true, through carriers, faults and
\* losses of the chip's registers, but for the registers that Agrees exempts.
StateAgrees == TypeOK /\ Agrees /\ ConfiguredChannelKept

\* From a fault, one STOP or STANDBY on a bus that answers brings the chip back
\* to packet mode in standby, whatever happened before.
FaultHeals ==
    [][radio.state = "Fault" /\ Answers(radio) /\ CommandStop =>
           /\ PacketMode(radio') /\ radio'.regs.power /\ ~ radio'.regs.prx /\ ~ radio'.ce
           /\ radio'.state = "Standby"]_vars
=============================================================================
