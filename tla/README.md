# TLA+ models of the RF3 firmware

RF3 is firmware for an ESP32 with an nRF24L01+ radio, and a desktop program
that controls it.  Two boards exchange files over the radio; the desktop
stores files on a board, has them transmitted, and fetches what was received.
This directory models the parts of it that are hard to test, checks them with
TLC on small instances, and proves the main results with TLAPS for instances
of any size.

## 1. The system

| Part | State it keeps | Operations |
|---|---|---|
| Protocol v2 codec (`include/protocol_v2.hpp`) | none | encode, decode, packet counts, CRC32 |
| Sender session (`include/reliable_transfer_v2.hpp`, `SenderSession`) | state, transfer id, sequence, retries, outbound frame, deadlines | begin, onFrame, tick, onTransportFailure, cancel |
| Receiver session (`ReceiverSession`) | state, id, expected sequence, CRC, whether storage is open and present | onFrame, tick, reset, abort |
| Transfer service (`include/file_transfer_service.hpp`) | the sender session, status of the last send and the last receive | startTransfer, cancelTransfer, reportReceive* |
| Incoming storage (`src/main.cpp` 2316-2498) | the open `.part` file, its final name | prepare, write, close, publish, remove |
| Host upload publication (`include/host_upload_publish.hpp`) | journal, backup and partial on the flash | recover, publish |
| Host sessions (`src/main.cpp` 2973-3560) | one upload or download, its owner, epoch, sequence, last chunk | UPLOAD, DOWNLOAD, STORAGE, expiry |
| RX arbitration (`src/main.cpp` 4964-5380, `host_rx_command_guard.hpp`) | three flags that pause the RX task, active_api_receive_id_ | beginReceiveMutation, handleCommand, dispatchCommand, rxTask |
| RF loop worker (`src/main.cpp` 2517-2564, 3656-3785, 4587-4820) | loop_config_, loop_stop_requested_ | TX, CW, MORSE, STOP |
| Radio (`src/radio_manager.cpp`, `src/nrf24.cpp`) | RadioState, last fault, chip registers | boot, enterRx, leaveRx, sendPayload, receivePayload, ... |
| Bluetooth control (`src/main.cpp` 1339-1739, `bluetooth_tx_flow.hpp`) | client epoch, command queue, TX queue and congestion | SPP callbacks, TX task, command task |
| Legacy receiver (`file_receiver.hpp`, `stream_sync.hpp`, audio) | Protocol v1 streams, text reassembly | accept, reset |
| Desktop program (`host_gui/rf3_gui`) | connection, transfer and UI state | commands over USB or Bluetooth |
| Wi-Fi control, release tools | HTTP handlers, scripts | not part of the shipped control path |

Five FreeRTOS tasks share a board: the console, the Bluetooth command task,
the RX task, the loop worker and a maintenance task.  `command_mutex_` lets
one command run at a time, `radio_mutex_` guards the radio and the receiver
session, `loop_mutex_` the loop configuration.  Boards talk only through
32-byte frames on one half-duplex channel; the desktop talks to its board in
lines of text.

What is hard here: frames are lost, repeated by the driver and overtaken by
timers; the operator cancels at any moment; either board is reset in the middle
of a transfer; file operations fail; power fails between two renames; two
tasks compete for the radio.  `PROJECT.json` lists these hazards at their lines
with the properties that watch over them.

What makes each part correct:

- transfer: a file is published only complete and unaltered, at most once, and
  a sender that claims success is right; a confirmed cancellation is final; the
  endpoints never drift apart; every transfer ends;
- receiving board: no `.part` file is forgotten, the flag that blocks other
  commands is set exactly during a receive, and reports are true;
- upload publication: a name is replaced in one step or not at all, wherever
  power fails, and the answer to the host says which;
- arbitration: a command that changes what RX uses never runs while a receive
  is active, and RX is not paused for ever;
- loop worker: STOP stops, and a loop never outlives its configuration;
- host sessions: a chunk is stored once and in order, a session belongs to one
  client, and what a PC reports is what the board holds;
- Bluetooth: no command and no answer crosses from one client to the next, and
  nothing that was accepted for sending is lost without a disconnect;
- radio: the chip does what the manager's state says, a loop leaves no carrier,
  and a fault heals;
- codec: sizes, packet counts and packet numbers mean the same at both ends, up
  to the limits of their widths, and a frame means one packet;
- texts and the one-way stream: what is shown or published was sent, whole and
  in order; a partial file that is left is known of;
- PC: "complete, peer confirmed" is true of the PC's own transmission, and a
  listing names files that were there.

## 2. Modules

Each module models one component, or several whose hazards lie between them.
A module `MC...` gives small instances their values, a module `...Proofs` holds
theorems.  The header comment of each module states its abstractions.

| Modules | What they model | Source |
|---|---|---|
| `FileDelivery` | abstract: a file is stored at most once and unaltered, success is claimed only for a stored file | |
| `ReliableTransfer`, `MCReliableTransfer`, `ReliableTransferProofs` | sender and receiver sessions, radio, incoming storage, status | `reliable_transfer_v2.hpp`, `main.cpp` |
| `FileStore` | abstract: a name is replaced or removed in one step, answers are true | |
| `HostUploadPublish`, `MCHostUploadPublish`, `UploadAndTextProofs` | journalled publication, recovery, power loss | `host_upload_publish.hpp`, `main.cpp` |
| `RadioArbitration`, `ArbitrationAndCodecProofs` | commands, loop worker and RX task compete for the radio | `main.cpp`, `host_rx_command_guard.hpp` |
| `FileStaging` | abstract: one announced file at a time is staged chunk by chunk and published in one step | |
| `HostSessions`, `MCHostSessions`, `HostSessionsProofs` | UPLOAD and DOWNLOAD and the PCs that drive them | `main.cpp`, `serial_device.py` |
| `BluetoothLink`, `MCBluetoothLink`, `BluetoothLinkProofs` | SPP callbacks, command task, TX task | `main.cpp`, `bluetooth_tx_flow.hpp` |
| `RadioControl`, `MCRadioControl`, `RadioControlProofs` | chip, driver, manager, and who drives them | `nrf24.cpp`, `radio_manager.cpp`, `main.cpp` |
| `PacketSizes` (proofs in `ReliableTransferProofs`) | packet arithmetic at its limits | `protocol_v2.hpp` |
| `ProtocolCodec`, `ArbitrationAndCodecProofs` | the 32-byte frames, names in START | `protocol_v2.hpp`, `file_type_metadata.hpp` |
| `TransferService`, `FileStreamProofs` | both readings of a source, status of a send | `file_transfer_service.hpp` |
| `TextMessages`, `UploadAndTextProofs` | live text and commands by radio | `stream_sync.hpp`, `main.cpp` |
| `LegacyTransfer`, `FileStreamProofs` | the one-way file stream and the audio beside it | `file_segmenter.hpp`, `file_receiver.hpp`, `audio_reassembler.cpp` |
| `TransferMonitor`, `DesktopProofs` | what a PC concludes of a transmission | `serial_device.py`, `main.cpp` |
| `StorageListing`, `DesktopProofs` | pages of the file list, deletion, selection | `main.cpp`, `host_storage_protocol.hpp`, `serial_device.py` |
| `MCParts` | one instance of the last seven, which share no state; it extends them, so that the run checks the definitions that are proved | |

How the models meet: `ReliableTransfer` is the transfer while the radio is its
own, and `RadioArbitration` says when it is; the latter sees a receive as one
flag.  `HostSessions` publishes in one step, which `HostUploadPublish` justifies
through `FileStore`.  `HostSessions`, `StorageListing` and `TransferMonitor` use a
wireless link that loses everything when it breaks, which `BluetoothLink`
justifies (`ClientsApart`).  `RadioArbitration` takes the states of the radio
manager as given, `RadioControl` checks that the chip agrees with them.

### ReliableTransfer

`snd[s]` is the `SenderSession` of board `s` with the position of the loop of
`sendDataFile` (`phase`: a frame is outbound, `transmitOnce` is about to repeat
it, or the board listens).  `rcv` is the `ReceiverSession`: `exp` is
`expected_sequence_`, `data` what was written to the sink, `open` and
`present` are `storage_open_` and `storage_present_`.  `partials` and
`published` are the flash of the receiving board, `apiId` and `report` are
`active_api_receive_id_` and the status of the transfer service.  `air` and
`answers[s]` are the receive FIFOs of the radios.

An action is one round of the code under the radio mutex: for the sender a
transmission with the change to RX mode, one received frame, or one timer; for
the receiver one frame with its handler, its storage operations, its answer
(`sendProtocolResponseLocked` flushes the FIFO when it re-enters RX) and the
bookkeeping of `processRxPayload`.  Operators' STOP and RX, resets of both
boards, and every fault are actions or alternatives of actions.

Faults are named (`loss`, `noise`, `slow`, `radio`, `cancel`, `stop`,
`reboot`, `source`, `sink`, `cleanup`); an instance says which of them may
happen (`FaultKinds`) and how often in total (`MaxFaults`).  `slow` is a timer
that expires although the answer is still on its way: without it, timers are
assumed to be longer than a frame and its answer take, as 250 and 500 ms are.

Abstractions: payload `k` of transfer `i` is the pair `<<i, k>>`, so the
comparison of two CRC32 is the comparison of contents; a frame is a record and
one that does not decode is a frame of type `GARBLED`; the metadata of START
and END is the number of packets; transfer ids are never drawn twice; errors
that only change the wording are merged.  Frames of other protocol versions
and frame types that a sender never transmits do not occur.

### HostUploadPublish

The flash is `files`, `journal`, `backup` and `partial`; the content of a file is
the number of the upload that wrote it.  `pc` is the point the running command
or boot has reached, at the granularity of one file operation, and `caller`
is where `recover()` returns to.  Power may fail at every such point; then
memory is lost and boot runs `recover()` and the sweep of stale partials.
Writing the journal takes two steps, because the file exists from `fopen` on;
between them it is `Torn`.  Every operation may also fail without effect.
Commands do not interleave with each other, because `command_mutex_` excludes
that.

### RadioArbitration

The state is that of the members of `DemoConsoleApp` that the tasks share:
`reserved`, `hostOwns` and `loopOwns` are `receive_mutation_reserved_`,
`host_session_owns_rx_` and `loop_owns_radio_`, `loop` and `stopReq` are
`loop_config_` and `loop_stop_requested_`, `receiving` is
`hasActiveIncomingReceiveLocked()`, `radio` is the state of `RadioManager`.
`radioLock` and `loopLock` name the task that holds a mutex from one step to the
next; a section that takes a mutex, does what nobody else can observe and
gives the mutex back is one step with the guard that the mutex is free.

`cmd` is the command under `command_mutex_` and the point it has reached:
`reserve` is `beginReceiveMutation`, `blocked` the refusal of test mode, `stop`,
`stopPoll` and `stopLast` are the look, the polls and the last look of
`stopLoopAndWait`, `act` is the handler, `radio` the wait for the radio with
`loop_mutex_` held, `send` the transmission of TEXT.  `worker` is an iteration of
`loopTask`: `take` after the snapshot, `run` while the radio is used, `load`
before the stop request is read, `account` before the loop is updated, `off` in
the pause between two bursts, `failed` when a carrier could not be started.
`asked`, `owed` and `repeats` are history variables, which no guard reads; `missed` counts
how often the loop found `loop_mutex_` taken for 50 ms, and `MaxMissed` bounds it.

Commands that touch the same state in the same way are one name: `STANDBY`
includes WAKE, `SLEEP` includes POWERDOWN, `CWLOOP` is CW LOOP and `CW` CW START,
`TXHEX` and `SELECTHEX` are the encoded TX and SELECT, `UPLOADEND` is END or a DATA
that fails.  Successful DATA, queries and settings change nothing here and
are left out.  A timed wait may fail whenever its mutex is held, also when it
would have been given back in time.

### HostSessions

`up` and `down` are `host_upload_` and `host_download_`, `link` is the Bluetooth client
and the epoch that every connection and every loss starts anew, `job` the
command that holds the command mutex; a handler is one step after its dispatch,
and the link may change between the two.  `line[p]` and `answer[p]` are the lines
on their way from and to PC `p`, `pc[p]` is its session in `serial_device.py`.
A file is a sequence of chunks, there is one file name.  The board prints every
answer on the UART too, so a wired PC reads answers that are not for it.
Timeouts may come although an answer is on its way (mishap `late`); expiry
counts periods of silence (`SessionLife`).  `published` and `held` are history
variables: what uploads have stored under the name, and what the name has held,
since each PC began.  The desktop program does not number its operations: a PC
that begins while answers to an earlier one are still to be read may take a READY,
an ACK or a COMPLETE of that one for its own.  Both histories then go back to when
all that was sent had been read, and `ReportTrue` promises no more than that.

### BluetoothLink

`connected`, `handle` and `epoch` are the atomics, `flow` is `BluetoothTx::Flow`,
`commandQueue` and `txQueue` the two queues; `callback`, `command` and `tx` are the
three tasks, each step of which is one load or store that the others can see.
The stack is `peer` (the state of a client), `owed` (its completions), `events` (callbacks
to be delivered) and what a client sends.  `accepted`, `written` and `cause` are
history variables.  A client is its handle; handles grow in the order of connection.

### RadioControl

The operators take the radio as a record and return it as the C++ method leaves
it.  Of the chip there are `PWR_UP`, `PRIM_RX`, CE, `CONT_WAVE`, payload reuse,
channel, power level, and `framed`, which stands for the packet set-up that a
carrier changes.  A bus that fails reads as zeros or ones and loses writes; it
does not change within one call made under the mutex.  The instance has
`WirelessControl = TRUE`, the receive worker that resumes RX; REMOTE's resume is
merged into its command.  A failed `setPowerLevel` changes the driver's level all
the same, as in the code.  `stale` is a history variable: CHANNEL during a carrier leaves
the driver with the registers it saved before that boot, the next carrier restores them,
and from then to the next boot `StateAgrees` does not claim that the chip is on the
manager's channel and level, nor, once the bus has failed or the chip was reset, that
the packet set-up and the reception bits are right.  That the carrier follows CE, the state and, in
CwTest, the channel is claimed all the same.  `CarrierRestoresPackets` is the claim
without the exemption, which the code does not keep (see section 6).

### The parts of MCParts

- `PacketSizes`: numbers are 32 bits wide in the sessions and 16 on the air (`Word`,
  `Seqs`); sender and receiver walk through the packets by the code's arithmetic.
- `ProtocolCodec`: the layout of the frame is the code's, a byte has `Base` values
  (256 in the code, 32 in the run), one byte of a frame may be damaged.  A packet has
  the fields of its type and no others set (`Sendable`), as the programs make them.  CRC32 and `peekTransferId` are left out.
- `TransferService`: a source gives what it likes, fails, and may change between
  the readings; a file of SPIFFS may be replaced under an open `FILE*`.
  The application refreshes the status as `sendDataFile` does.  The peer completes a
  transfer when the packets are the pieces of what START announced: each has its
  length, all have the CRC.
- `TextMessages`: a packet is its message and the number of its chunk.  Ids tell
  senders apart (`IdsTell`).  Leaving RX keeps the assembler, entering it flushes
  the FIFO.  A text of one chunk and a REMOTE may be taken twice when they are
  repeated: the code has nothing to tell a repetition by.
- `LegacyTransfer`: a byte is its file and its place; `Waits` says that the next
  stream begins after the receiver gave up the last one.  No file is sent twice
  (`IsInjective(Streams)`), and a gap that is tolerated is shorter than the sequence
  numbers are many (8 against 65536).  Audio is exact only for one file at a time.
- `TransferMonitor`: ids of transfers are unique; a status that is unavailable says
  nothing; the progress timeout comes after a status made after TXHEX.
- `StorageListing`: a page is a snapshot, another host may change the storage
  between two pages, a late DELETE may still take effect; names are valid.

## 3. Runs

Deadlock is checked where nothing is used up: `arbitration` and `control`.  Elsewhere an instance stops when its transfers, its lines or its
faults are used up.

| Run | Instance | Properties |
|---|---|---|
| `one_sender` | 1 sender, 2 transfers of up to 2 packets, 1 retry, FIFO of 2, any 3 faults but noise; fair | `TypeOK`, `EndpointsAgree`, `BoardTruthful`, `CancelConfirmedIsFinal`, `NoOrphanedPartial`, `NotReopened`, `ImplementsDelivery`, `TransfersEnd` |
| `two_senders` | 2 senders, 2 packets, losses, late timers, cancel, stop, undetected noise, 2 faults; symmetric | `CompletedMeansPublished`, `PublishedIsIntact` |
| `cancelled_published` | 1 packet, cancel and one loss | `CancelledIsNotPublished`, violated, see section 6 |
| `upload_faults` | 2 names, 3 uploads, 5 faults of the file system or the power; symmetric | `FlashRecoverable`, `ImplementsStore` |
| `upload_torn` | 2 names, 2 uploads, 2 power failures | `RecoveryCompletes`, violated, see section 6 |
| `arbitration` | every command, counts up to 2, commands that may keep `loop_mutex_` for 50 ms once in a loop; fair | `ReceiveExclusion`, `PauseHasCause`, `StandbyIsFinal`, `StopWasMeant`, `TestModeIsSilent`, `PassesAsAsked`, `ReceiveUndisturbed`, `DeleteIsExclusive`, `CommandsReturn`, `LoopsEnd`, no deadlock |
| `sessions` | a wired and a wireless PC, files of 1 and 2 chunks, 1 mishap, failing file operations, 1 retry | `TransfersSteady`, `ReportTrue`, `ImplementsStaging` |
| `sessions_end` | two PCs that upload, 2 mishaps, answers never late; fair | `SessionsSettle` |
| `link` | 2 clients with a line each, queues of depth 1, messages of 2 pieces, 1 trouble; fair | `ClientsApart`, `FailureHasCause`, `LinkServes` |
| `control` | 2 channels, 2 levels, resuming receive worker, 1 chip or bus fault | `StateAgrees`, `LoopLeavesNoCarrier`, `FaultHeals`, no deadlock |
| `channel_after_carrier` | the same without faults | `CarrierRestoresPackets`, violated, see section 6 |
| `parts` | the seven parts, each from its own initial states | `SizesAgree`, `CodecTrue`, `ServiceTrue`, `TextsTrue`, `LegacyTrue`, `CompletedIsTrue`, `ReportGoesForward`, `ListingTrue` |

Why the bounds are enough to be interesting.  Two packets give a first and a last
DATA frame with a sequence number to confuse them; two transfers let frames and
partials of an earlier one meet a later one; three faults allow, for instance,
a lost COMPLETE, a cancellation and a reset in one behaviour; one retry is the
smallest number with which a frame is both repeated and given up.  Three
uploads over two names contain the replacement of a replaced file, and five
faults hit a recovery that is itself interrupted.  A loop count of 2 has a pass
that is not the last and one that is, and the number of commands is unbounded; with
`MaxMissed` 1 either of the two passes may go uncounted, or a burst or a failure.
In `sessions` a file of two chunks has a chunk to repeat and one to skip, and a
`SessionLife` of 2 lets a session be silent and live; two mishaps need shorter files,
which is why `sessions_end` has a run of its own.  A queue of depth 1 is full as
soon as it is used, and two pieces let a message be cut.  The words of `parts` are
as small as their limits allow: `Cap` 3 of `Word` 64 with `Seqs` 8 puts the largest
supported file, the first that is not, and both wraps into reach.  The seven parts
are one run because they share nothing: `part` selects one at the start and the
others stand still, so their states add up and do not multiply.  A PC asks for two
transmissions there only where nobody else transmits (`AsksTwiceAlone`): that is the case
in which `CompletedIsOwn` says that the verdict on the second is not about the first.

Some properties are conjunctions, because the parts need each other to say
something: `EndpointsAgree` is `SequenceAgreement` (while a DATA is outstanding the
receiver expects it or the next) and `NoProtocolBreakdown` (nobody accuses the
other); `BoardTruthful` joins the flag that blocks commands and the status;
`FlashRecoverable` says that a backup is never without its journal and that nothing
is left behind; `ClientsApart` says that nothing crosses between clients and what is
written to one is whole and in order; `TransfersSteady` adds that the file of an open
download stays.

Every property has a mutant in `PROJECT.json`: the change to the code that it
would catch, written beside the definition it replaces.

## 4. Fairness

`FairSpec` of `ReliableTransfer` asks for weak fairness of the loop of
`sendDataFile` on each board and of the RX task: both are endless loops of FreeRTOS
tasks with delays of 2 ms, and nothing in them waits for an operator.  Weak
fairness is asked of the disjunction of a task's steps, not of each handler,
since a task does whatever is next.  Nothing is asked of the environment or of
operators: `Begin`, `Cancel`, `ReceiverStop`, `ReceiverListen` and the resets may
never happen.

`FairSpec` of `RadioArbitration` asks nothing of the operator, who need not give
a command, nor of expiries.  The command that runs, and the worker, get strong
fairness of the disjunction of their steps: FreeRTOS hands a mutex to a task
that waits for it, so a task that finds it free again and again gets it, although
the others take it in between.  `BurstEnds` gets strong fairness of its own:
its alternative `BurstStuck` is a wait of 100 ms that fails, and repeats itself
only if another task holds the radio at the end of every burst.  `RxLeave` needs
no more than weak fairness, because the drain of a poll is bounded.  What this
leaves open is how FreeRTOS orders the waiters while an infinite TX loop gives
the radio back and takes it again at once: the hand-off above is an
assumption, of `CommandsReturn` for TEXT and CHANNEL in particular, which wait
without a timeout.  `LoopsEnd` rests on `MaxMissed` as well: a worker that found
`loop_mutex_` taken for 50 ms after every pass would never end its loop.

`FairSpec` of `HostSessions`: the command task handles its lines, the maintenance
task expires an abandoned session (it runs every second), and a PC reads its
answers and notices its timeouts.  Nobody has to begin anything, and no mishap
has to happen.

`FairSpec` of `BluetoothLink`: the three tasks run, and so does the stack's own
(`WF(Stack)`), which completes the writes it took and closes the connections it was
asked to close.  No client need connect, send or hang up.  No other run assumes
fairness.

## 5. Proofs

The theorems hold for every value of the constants that satisfies the named
assumption, which asks no more than that bounds are numbers, that queues have room
for one entry, that channels and power levels are those of the chip, with the
defaults among them, that a board has one UART and so one wired PC, that files are
sequences of chunks, that a page of a listing has room for one entry and the names
on a board are finitely many, and that the values that stand for "none" are none of
the things they stand beside.

| Theorem | Result | Assumption |
|---|---|---|
| `ReliableTransferProofs!DeliveryInvariant` | `Spec => []DeliveryInv` | `BoundsAssumption` |
| `...!TypeCorrectness` | `Spec => []TypeOK` | |
| `...!AtMostOnePublication` | `Spec => []PublishedOnce` | |
| `...!SuccessIsTrue` | `Spec => []CompletedMeansPublished` | |
| `...!PublicationIsIntact` | `Spec => []PublishedIsIntact` | |
| `...!DeliveryImplemented` | `Spec => ImplementsDelivery` | |
| `...!BoardIsTruthful` | `Spec => []BoardTruthful` | |
| `...!CancellationIsFinal` | `Spec => []CancelConfirmedIsFinal` | |
| `...!FinishedStaysFinished` | `Spec => NotReopened` | |
| `...!PartialsAreRemembered` | `Spec => NoOrphanedPartial` | |
| `...!EndpointsNeverDrift` | `Spec => []EndpointsAgree` | |
| `UploadAndTextProofs!FlashAlwaysRecoverable` | `Spec => []FlashRecoverable` | `NamesAssumption` |
| `...!StoreImplemented` | `Spec => ImplementsStore` | |
| `...!TextsInvariant` | `TextsSpec => []TextsInv` | `TextAssumption /\ IdsTell` |
| `...!BoardsTextsTrue` | `TextsSpec => []TextsTrue` | |
| `ArbitrationAndCodecProofs!ArbitrationInvariant` | `Spec => []ArbitrationInv` | `ArbitrationAssumption` |
| `...!ReceiveIsExclusive` | `Spec => []ReceiveExclusion` | |
| `...!PauseIsJustified` | `Spec => []PauseHasCause` | |
| `...!SnapshotIsCurrent` | `Spec => []WorkerRunsItsLoop` | |
| `...!StandbyHolds` | `Spec => []StandbyIsFinal` | |
| `...!StopIsMeant` | `Spec => []StopWasMeant` | |
| `...!TestModeHolds` | `Spec => []TestModeIsSilent` | |
| `...!ReceiveIsUndisturbed` | `Spec => ReceiveUndisturbed` | |
| `...!DeleteExcludesUse` | `Spec => DeleteIsExclusive` | |
| `...!PassesAreAsAsked` | `Spec => []PassesAsAsked` | |
| `...!CodecInvariant` | `CodecSpec => []CodecInv` | `CodecAssumption` |
| `...!CodecAlwaysTrue` | `CodecSpec => []CodecTrue` | |
| `HostSessionsProofs!SessionsInvariant` | `Spec => []SessionsInv` | `HostsAssumption` |
| `...!TransfersAreSteady` | `Spec => []TransfersSteady` | |
| `...!ReportsAreTrue` | `Spec => []ReportTrue` | |
| `...!StagingImplemented` | `Spec => ImplementsStaging` | |
| `BluetoothLinkProofs!ClientsAreApart` | `Spec => []ClientsApart` | `LinkAssumption` |
| `...!FailuresHaveCauses` | `Spec => []FailureHasCause` | |
| `RadioControlProofs!ManagerTellsTheTruth` | `Spec => []StateAgrees` | `ControlAssumption` |
| `...!LoopsLeaveNoCarrier` | `Spec => LoopLeavesNoCarrier` | |
| `...!FaultsHeal` | `Spec => FaultHeals` | |
| `ReliableTransferProofs!TypeCorrect` | `SizesSpec => []SizesTypeOK` | `SizeAssumption` |
| `...!NumbersAlwaysAgree` | `SizesSpec => []NumbersAgree` | |
| `...!NeverRefused` | `SizesSpec => []NothingRefused` | |
| `...!PiecesAlwaysAddUp` | `SizesSpec => []PiecesAddUp` | |
| `...!SizesAlwaysAgree` | `SizesSpec => []SizesAgree` | |
| `FileStreamProofs!ServiceInvariant` | `ServiceSpec => []ServiceInv` | `ServiceAssumption` |
| `...!TransferServiceTrue` | `ServiceSpec => ServiceTrue` | |
| `...!LegacyInvariant` | `LegacySpec => [](LegacyInv /\ WholeInv)` | `LegacyAssumption` |
| `...!LegacyStreamTrue` | `LegacySpec => []LegacyTrue` | `LegacyAssumption /\ Waits` |
| `...!StorageAndAudioTrue` | `LegacySpec => [](OrphanIsReported /\ AudioIsOrdered)` | `LegacyAssumption` |
| `DesktopProofs!MonitorInvariant` | `MonitorSpec => []MonitorInv` | `MonitorAssumption` |
| `...!MonitorCompletedIsTrue` | `MonitorSpec => []CompletedIsTrue` | |
| `...!MonitorReportGoesForward` | `MonitorSpec => ReportGoesForward` | |
| `...!ListingInvariant` | `ListingSpec => []ListingInv` | `ListingAssumption` |
| `...!StorageListingTrue` | `ListingSpec => []ListingTrue` | |

### ReliableTransferProofs

None of the safety properties is inductive.  "Published once" needs to know that
no START of a published transfer can still arrive, since a START reopens a
session that is no longer active.  That follows because END is transmitted only
after the last START of its transfer, and the channel keeps order:

- `IdsInv`: a live session has an id of its own, and only drawn ids are around;
- `OrderInv`: when END or CANCEL is on the air its sender has left
  `WaitingForReady` for ever;
- `PublishedInv`: no START of a published transfer is on the air or still to
  come (`NoMoreStart`), and the active receive is not of a published transfer;
- `ClaimInv`: who says COMPLETE (receiver, answer on the air, sender) can point
  to the file.

The proof has two layers.  Lemmas named `...Shape` show, action by action, that
every step of a sender is a `SenderShape`, of the receiver a `ReceiverShape`,
and that a board that begins or is reset `Draws` or `Resets`: these four
formulas keep only what the invariant depends on.  `StepShape` collects them;
the lemmas named `...Step` then prove each part of the invariant from the four
shapes alone.  The refinement uses the same shapes: a publication is `Store`, a
COMPLETE that is heard is `Claim`, the rest is `Offer`, `Forget` or a stutter.

### The two endpoints, in ReliableTransferProofs

The steps of the receiver are sorted by what they do to a receive: they keep it,
open one, accept a packet, finish it, end it, or clear what is left of it.  Two
facts make the properties inductive:

- `MetadataInv`: the session, and every START on the air, has the size that the
  sender of its transfer announced;
- `SettledInv`: a cancellation that the receiver confirmed was sent after the last
  START of its transfer, and the handler that confirms it empties the air, so
  no frame of that transfer that could publish or reopen it is left.

`NoOrphanedPartial` needs no more than types: it is a property of each step.

`EndpointsNeverDrift` has an invariant of its own.  `CalmInv` is the invariant for
radios that detect all noise (`"noise" \notin FaultKinds`).  A NACK, a wrong number, a wrong length or a frame that does not
decode needs noise; every answer empties the air; a READY means that no START
is left; and an ACK bears a number up to the sender's, and the sender's own
only if the receiver is past it.  `AirInv`, `SenderInv` and `AnswersInv` say this of
the three places where it can go wrong, `SessionShape` of the receiver.  The
lemmas named `...Fate` follow what becomes of a frame or an answer in a step.

### UploadAndTextProofs

*The publication of an upload.*  `UploadInv` says, for each place of a command, what journal, backup and partial
are there (`JournalInv`), that an upload is open exactly while the PC is told so
(`SessionInv`), and which file the last upload is: none before the rename of
`publish()`, the one under its name after it (`ContentInv`); `BackupIsJournaled`
and `TidyInv` are conjuncts.  The refinement maps the rename, and nothing else of
a publication, to the step of `FileStore`.

*Live text.*  `TextsTrue` compares what a board printed with all it ever read.  What a reader
of the packets puts together (`Reassembled`) is a choice of places in that history, so the
first lemmas say what one packet more does to it (`PickedAppend`, `DistinctAppend`,
`EndingsAppend`, `TextsOfAppend`): a text is added exactly when the packet is its last
chunk and the others are the last packets that were kept.  `TextsInv` is

- `Read`: each board is a `Reader` of the packets it read.  Its assembler has what the last
  of them begin a text with (`Following`): the first `n` chunks of one text, or nothing,
  and then no text of which they are the beginning; what it put together and ran, handed
  over or still in the pass, are the reader's texts and commands;
- `InOrder`: of one sender, what a board heard, read or not, comes in the order of the
  outbox and of the chunks, a packet of a message begun and not ahead of the chunk on
  the air (`Clear`); since a sender never goes back, what it sends next is behind all
  of it (`BehindAll`);
- `Sent`, `NothingLeft`: a sender transmits the message it began last, and outside a
  pass nothing is left in it.

`InOrder` is needed twice.  `Following` would break on a chunk that is older than the last
one of its text: the assembler ignores it, whereas for the reader it ends the text
(`FollowsNew`).  And it is why a text of several chunks is printed once: both its endings would have
all its chunks before them, the second one a first chunk behind the last chunk of the
first (`EndsOnce`).  `IdsTell` is needed where the assembler compares ids and numbers of chunks
(`NotTaken`); the ids are drawn at random, so it is an assumption about the run of a
board and not one of the model's constants.

### The arbitration, in ArbitrationAndCodecProofs

`ArbitrationInv` is the conjunction of the state properties with three parts
that make it inductive:

- `CommandInv`: the point a command has reached tells what it has made sure of.
  The receiver is reserved from `reserve` on, exactly by the commands that need
  it; after the wait no loop is left, and stays away because only commands start
  one and only one command runs;
- `LockInv`: who holds a mutex is where it says, and the RX task holds the radio
  only while nothing pauses it: the reservation is set, and the pause looked
  at, under the radio mutex.  This is what `ReceiveExclusion` needs: a receive
  begins in the RX task only, and a flag is raised by a command that holds the
  reservation, which it got when nothing was received;
- `WorkerInv`: carrier stages belong to a CW loop.

There is one lemma per conjunct, and in it one step per action that can disturb
the conjunct; the two action properties follow from the same invariant.

`PassesAsAsked` follows from `PassInv`: what a counted loop still has to do is what it owes,
plus the complete passes it could not count because a command kept `loop_mutex_` for 50 ms,
but for a pass that was made and is not counted yet.

### The codec, in ArbitrationAndCodecProofs

`CodecInv` is short: what is encoded is `Sendable`, an undamaged frame is what encode
made of it, and what was decoded is the reading of the frame.  The work is in what
encode and decode compute.  It is proved for every `Base` above 24, so that a byte
holds the error codes and some that are unknown, every set of packets and every set of names.

- *Numbers.*  A number below the limit of its width is the sum of its bytes, and bytes
  that have this sum are its bytes (`PairBytes`, `PairOf`, `FourBytes`, `FourOf`).  Hence
  loading is the inverse of storing at the same place and is not changed by a store beside
  it (`StoreLe32Is`, `ReadBeside`).
- *Packets.*  Each type has one lemma that says what its constructor sets (`Made...`),
  one that says which bytes its frame has, up to the zeros at the end (`Encoded...`),
  one that decode reads these as the packet (`Read...`), and one that a frame which decode
  accepts has the bytes that encode would write for what was read (`Again...`).  The last
  is where the checks of decode count: the flag of READY is compared with 1 and not only
  with 0, a payload ends in its length, and the reserved bytes are zero.  `ReadBack` and
  `MadeAgain` collect the types: a packet has one frame and a frame one packet.
- *Names.*  The field that `Derive` fills in for a name is canonical or empty
  (`DerivedIs`), so the START of a file that may be sent is one that encode accepts
  (`StartForIs`); and a type in a field that was accepted begins with its only dot and
  is not `.part` in any case of its letters, so no name made of it is one the board hides
  (`ValidVisible`, `AnnouncedVisible`).

### HostSessionsProofs

The three properties follow from one invariant, `SessionsInv`, whose parts follow
a byte from its source to the report:

- `LinesInv`: what a PC has written is of its own file, in the queue and in the
  command being handled (`Own`): a BEGIN announces its source, and a DATA has the
  chunk of its number unless bytes were damaged;
- `OwnersInv`: a connection, that is an epoch, is used by one PC, namely the one that
  is attached or has written a line over it that is still in the board, and an
  upload is of the file of whoever uses its connection.  This is why the epoch is
  part of the ownership: the name of the transport would not do for wireless PCs that
  follow each other;
- `BoardInv`: sessions are of their type, the partial is a beginning of the announced
  file, and the file of an open download stays;
- `AnswersInv`: an answer on its way is true of what was published and held (`Truthful`),
  and stays true, since these only grow until its reader has nothing left to read;
- `PcsInv`: the pending command of a PC agrees with its position (`Placed`) and what it
  has taken and reported is true (`Honest`);
- `HeldInv`, `LinkInv`: what the name holds is in every history, and epochs number the
  connections and their losses.

A step of a PC is reduced to `PcStep` (it goes on from an honest session and writes
at most a line of its own), a handler to `HandlerStep` (it answers the truth and
opens no session but its owner's), and silence, expiry and repetition to `Fades`.
The refinement maps BEGIN to `Open`, a chunk that is written to `Extend`, END to `Publish`,
and an upload that is cancelled, fails or expires to `Drop`.

The attempt found two properties that were true only within the bounds of the run:
`ReportTrue` had forgotten the answers still to be read, see section 2, and
`ReceivedInOrder` compared a download with one file, where late answers can mix
pieces of two; the CRC at its end is what detects that.

### BluetoothLinkProofs

The three tasks hold loaded values across steps, so the invariant relates their
locals to the link as it is now.

- `LinkInv`: a client is announced when handle, epoch and flow have been stored;
- `LineInv`: a line of the current epoch comes from the client that is connected;
- `AnswerInv`: an answer is for the client that its line came from, and bears the
  epoch of the connection if that client is still served;
- `FreshInv`: a client opens once, and nothing is queued for it or said to it before;
- `QueueInv`, `OrderInv`: what was written to a client, is being written and is queued
  for it are one sequence without a gap while the client is served;
- `PendingInv`, `CauseInv`: a claim of the TX task on the flow is its own or belongs to
  a link that has failed, so that a `begin` that fails has a cause.

### RadioControlProofs

The radio is one record, which the operators of driver and manager transform one
after the other.  `RadioInv` says what holds of it between two operations:

- the channel that was configured is known, also during a carrier, whose channel
  the manager forgets again;
- the driver has saved registers exactly while it has a carrier to stop;
- `Steady`: while the chip answers and keeps its registers, it is in packet mode,
  in a fault too, and what was saved under a carrier are the registers of a chip
  that is ready for packets.  This is more than `StateAgrees` says: stopping a
  carrier restores what starting it had saved, and recovering from a fault relies
  on what was left in the chip;
- `PlainSaved`: while nothing has failed, what the driver has saved is packet mode on
  some channel.  It is what is left of `Steady` once the driver has put back registers
  of before the last boot (`stale`), and why then only the channel and the level are
  wrong.

There is one lemma per driver call, which says what fields it leaves (`Same`,
`Alike`), and one per operation of the manager, which says that it keeps
`RadioInv`; the actions of the commands follow without a look into the chip.
`Quiet` and `Cycle` are about the loop worker: there is no carrier during a pass,
nor once the worker is about to rest, and only a CW loop has a carrier turn.  The
two action properties follow from the lemma about the steps.

### The arithmetic of packets, in ReliableTransferProofs

One invariant relates the numbers of the two sides to the bytes they stand for.
What is not linear arithmetic (`count * Cap`) is in lemmas of its own, instantiated
with constants.

### FileStreamProofs

*The transfer service.*  A source is read twice, in pieces it chooses itself.  `ServiceInv` is

- `Stages`: the source is held while it is inspected and by a session that has not
  ended, and never by both; a status that tells an end comes after it was released;
- `Told`: an end that the session or the status tells is what became of that id;
- `Places`: where the source stands.  In the first reading that is the length of
  what was read; in the second, the sequence number times the capacity plus what the
  packet has so far, and between packets the end of the packet (`PacketEnd`);
- `Sound`: as long as no fault has happened since the start, what was read in the first
  reading, the packets, and the packet being read are each the part of the contents
  between two of these places.

The lemmas before it are about packets: there is a packet after the first `n`
exactly when these do not hold all bytes (`CountOf`), two pieces that meet are one
(`Joined`), and a source that stands within its contents gives the bytes from there
on, whatever it does at its end (`ReadingShape`, `ReadShape`).  That a packet is
failed by an end that comes too early, and never by one that comes with its last byte,
is where the two readings could disagree.

*The one-way stream.*  `PublishedIsWhole` compares the published bytes with the file, but
the receiver compares numbers only.  `LegacyInv` says what a number stands for:

- `Flying`: each packet on the air is a piece of the file being sent (`Piece`); it was cut
  off before what the segmenter cuts off next (`Before`); two packets with one number are
  one piece, the piece behind it has the next number, and no two others overlap (`Agree`);
  they fly in the order of their numbers (`Rising`), also when one is repeated;
- `Segmenting`: what was read ahead is what follows the bytes cut off (`Cursor`);
- `Stored`: a partial file that is on the storage is known of;
- `Hearing`: what the reassembler heard of the file being sent is before each packet that
  it would still take.  Its counter wraps after the last number; that no old packet is
  taken then follows from `Rising` and from the gap it tolerates being shorter.

`WholeInv` adds what holds of the receiver under `Waits`: it has the bytes of the file being
sent up to the packet it expects (`Receives`).  `Agree` and `Before` give the step, since
the packet it expects next, on the air or still to be cut off, begins where the one it takes
ends.  Without `Waits` that fails, as section 6 says: two streams with the same numbers are
mixed.  The other two parts of `LegacyTrue` do not depend on it (`StorageAndAudioTrue`).

### DesktopProofs

*What a PC says of a transmission.*  The PC reads status lines that any command of
any PC may have printed, so `MonitorInv` says of each line on its way how old it can
be: a report that was true when it was copied (`sent` remembers them all), no older
than the request if it was copied after.  A PC takes a completion for its own only
when its id is not the one from before the request (the baseline) and the file is
its own.  STATUS works on a copy and writes back what it has read;
`ReportGoesForward` follows because the copy is taken and written back while no
worker changes the report.

*What a PC shows of the storage.*  `ListingInv` has seven parts beside the types:
`Link` (one operation at most is on its way over the present connection), `Deeds`
(a name was removed only by an operation that asked for it), `Watched` (what existed
and what stood since the listing began), `PagesTrue` (a page on its way names
files that were there), `ReadTrue` (so do the pages that were read, in order and
without one that stood), `ShownTrue`, and `SelectionExists`.  A page is an arbitrary
order-preserving window of a finite set of names; that it exists, and that a page
makes progress, uses the least element of a set of numbers, which is proved from the
well-foundedness of `<` (`LeastNumber`).

### Only model-checked

Liveness (`TransfersEnd`, `CommandsReturn`, `LoopsEnd`, `SessionsSettle`, `LinkServes`):
fairness is beyond the prover.  Every safety property of a passing run is stated by a
theorem above.

## 6. Findings

Three runs find what a comment, the documentation or the tests exclude:

- *A cancelled transfer may be published* (`cancelled_published`,
  `src/include/reliable_transfer_v2.hpp:621`).  When STOP comes after END was
  received, the receiver has published and ignores CANCEL; the sender repeats it
  until the retries are exhausted and reports `Cancelled`.
  `docs/protocol_v2.md:334` says that a cancelled transfer cannot appear as
  completed.  What does hold, and is proved, is `CancelConfirmedIsFinal`.
- *A torn journal blocks uploads for good* (`upload_torn`, `src/src/main.cpp:687`).
  If power fails between the `fopen` and the `fflush` of `writeJournal`,
  `readJournal` rejects the journal, `recover()` returns false at each boot, and
  every UPLOAD BEGIN and STORAGE DELETE is refused; no file is lost, but nothing
  removes the journal.  The test of interrupted publication
  (`tools/tests/host_transport_safety.cpp:82`) expects recovery at every step, and
  writes the journal in one.
- *A second carrier brings back the old channel* (`channel_after_carrier`,
  `src/src/nrf24.cpp:474`).  CHANNEL during CW START re-boots the radio, but neither
  `RadioManager::boot` nor `initDefaults` ends the driver's carrier mode or drops the
  registers it saved.  The next CW START first calls `stopContinuousCarrier`, which
  writes those registers back, and saves what it then reads: after STOP the
  chip listens and transmits on the channel it had before the first carrier, while the
  manager and STATUS name the new one.  The comments say that the registers are saved "so
  stopContinuousCarrier() can restore the normal packet settings" (`nrf24.cpp:478`) and that
  CHANNEL is a re-boot "so packet mode returns to a known baseline on the new channel"
  (`main.cpp:4317`).  `StateAgrees` says what holds beside it.

Other things were met while modelling.  They contradict no text of the repository,
so they are no findings; the properties are stated so that they say what holds
beside them.

- A pass of a loop is made again without being counted when `runTxLoopIteration`
  does not get `loop_mutex_` within 50 ms (`main.cpp:4622`): `PassesAsAsked` allows one
  more pass for each time that this happened after a complete one.
- A wired PC takes the answer to a wireless one for its own, since every answer
  goes to the UART too: a refused UPLOAD BEGIN fails its operation
  (`main.cpp:2975`), a READY overwrites its metadata.  `ReportTrue` holds all the same.
- `failBluetoothLink` may find the connection in the middle of being opened: the
  client stays connected and is never served (`main.cpp:1694`).
- STOP on a dead bus leaves CE high (`radio_manager.cpp:33`), the report of a carrier
  names the packet channel (`main.cpp:4573`), and a chip that was reset during payload
  reuse is primed again (`nrf24.cpp:288`).  In builds with wireless control, test mode
  races with the resuming of RX (`main.cpp:2640`); `TestModeIsSilent` is about the
  others.
- Streams of the one-way transfer are mixed when the next one begins before the
  receiver gave up the last (`file_receiver.hpp:156`); nothing in the code makes it wait, so
  `Waits` is an assumption of `PublishedIsWhole` about its users.
- A listing may miss a file that was there all the time when files both come and go
  between two pages (`serial_device.py:463`); a name with `..` in it makes LIST fail,
  and one that ends in `.PART` is hidden.
- A PC may adopt the pass of another operator for the same file
  (`serial_device.py:2092`); `CompletedIsOwn` is about PCs that are alone.

## 7. Not modelled, and the plan

Not modelled: the `ReceiverGate` of `stream_sync.hpp`, which only its tests use; the
Morse table and its unit lengths; the HTTP server of the Wi-Fi builds; in the
desktop program the opening of a port, the handshake, the parsing of status
lines, the controller and the widgets; the release scripts; CRC32 as an
algorithm, register bits that no property tells apart, and the wording of answers.
`RadioArbitration` has no file names, so it does not say whether an upload
replaces a file that is being transmitted; the code looks at that in UPLOAD
BEGIN only (`src/main.cpp:3091`).  In `TransferService` a source that changes
between or in its readings is a fault, after which `ServiceTrue` no longer compares the
packets with it: that a replaced file is refused is left to the receiver's CRC of the
whole file.

What is left is liveness, which the prover does not reach (section 5), and the parts above.
