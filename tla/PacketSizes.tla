------------------------------ MODULE PacketSizes ------------------------------
(***************************************************************************)
(* The arithmetic of protocol v2 (protocol_v2.hpp) at its limits: how many *)
(* packets a size takes, which START metadata is supported, how many bytes *)
(* packet number n carries, and what becomes of packet numbers that are 32 *)
(* bit wide in the sessions and 16 bit wide on the air.                    *)
(*                                                                         *)
(* A START carries any size and packet count.  If it is supported, sender  *)
(* and receiver walk through the packets by the same arithmetic; answers   *)
(* may be lost, so that a packet comes again (reliable_transfer_v2.hpp     *)
(* prepareNextDataOrEnd, handleData).  Sessions, retries and errors are those of   *)
(* ReliableTransfer; here only the numbers matter.                         *)
(***************************************************************************)
EXTENDS Integers

CONSTANTS
    Cap,   \* kDataPayloadCapacity: 20
    Seqs,  \* sequence numbers of a DATA frame, and kMaxPacketCount: 2^16
    Word   \* values of a uint32_t: 2^32

\* The static_asserts of protocol_v2.hpp: the largest file fits, with room to
\* round it up.
ASSUME SizeAssumption ==
    /\ Cap \in Nat \ {0} /\ Seqs \in Nat \ {0} /\ Word \in Nat
    /\ Seqs * Cap + Cap <= Word

VARIABLES
    size,      \* total_size of the START
    count,     \* total_packets of the START
    current,   \* the sender's current_sequence_
    expected,  \* the receiver's expected_sequence_
    bytes,     \* the receiver's byte count
    wire,      \* the DATA frame on the air, or NoFrame; number is a ghost
    refused    \* a session has failed, or answered NACK

sizesVars == <<size, count, current, expected, bytes, wire, refused>>

-----------------------------------------------------------------------------
MaxSize == Seqs * Cap

\* The addition is one of 32 bit words.
PacketCount(n) ==
    IF n = 0 THEN 0 ELSE ((n + Cap - 1) % Word) \div Cap

Supported(n, packets) ==
    /\ n <= MaxSize /\ packets <= Seqs
    /\ packets = PacketCount(n)

\* Faulty: the last packet is padded.
ExpectedPayload_Padded(n, packets, sequence) ==
    IF ~Supported(n, packets) \/ sequence >= packets THEN 0 ELSE Cap

ExpectedPayload(n, packets, sequence) ==
    IF ~Supported(n, packets) \/ sequence >= packets THEN 0
    ELSE IF sequence + 1 < packets THEN Cap
    ELSE n - (packets - 1) * Cap

\* Faulty: the number is cut to half its width.
OnWire_Narrow(number) == number % (Seqs \div 2)

\* static_cast<uint16_t> of a 32 bit packet number.
OnWire(number) == number % Seqs

\* Faulty: the packet just taken is not recognised when it comes again.
IsOld_NotLast(sequence, next) == sequence + 1 < next

IsOld(sequence, next) == sequence < next

-----------------------------------------------------------------------------
NoFrame == [number |-> -1, sequence |-> 0, length |-> 0]

SizesInit ==
    /\ size \in 0..(Word - 1) /\ count \in 0..(Word - 1)
    /\ current = 0 /\ expected = 0 /\ bytes = 0
    /\ wire = NoFrame /\ refused = FALSE

\* prepareNextDataOrEnd, and the same frame again.  A number or a length out of
\* range ends the session unsupported.
SendData ==
    /\ Supported(size, count) /\ current < count /\ wire = NoFrame /\ ~refused
    /\ LET length == ExpectedPayload(size, count, current)
       IN  IF length = 0 \/ current >= Seqs
           THEN refused' = TRUE /\ UNCHANGED wire
           ELSE /\ wire' = [number |-> current, sequence |-> OnWire(current),
                            length |-> length]
                /\ UNCHANGED refused
    /\ UNCHANGED <<size, count, current, expected, bytes>>

\* The ACK arrives, or is lost and the packet is sent again.
Acknowledge ==
    /\ wire' = NoFrame
    /\ current' \in {current, current + 1}

ReceiveOld ==
    /\ wire # NoFrame /\ IsOld(wire.sequence, expected)
    /\ Acknowledge
    /\ UNCHANGED <<size, count, expected, bytes, refused>>

\* The frame is the one that is due, or it is refused: early, behind the end,
\* or of the wrong length.
IsDue ==
    /\ wire.sequence = expected /\ expected < count
    /\ wire.length = ExpectedPayload(size, count, expected)

ReceiveNew ==
    /\ wire # NoFrame /\ ~IsOld(wire.sequence, expected)
    /\ IF IsDue
       THEN /\ expected' = expected + 1 /\ bytes' = bytes + wire.length
            /\ Acknowledge
            /\ UNCHANGED <<size, count, refused>>
       ELSE /\ refused' = TRUE /\ wire' = NoFrame
            /\ UNCHANGED <<size, count, current, expected, bytes>>

SizesNext == SendData \/ ReceiveOld \/ ReceiveNew

SizesSpec == SizesInit /\ [][SizesNext]_sizesVars

-----------------------------------------------------------------------------
(* Properties.                                                             *)

SizesTypeOK ==
    /\ size \in 0..(Word - 1) /\ count \in 0..(Word - 1)
    /\ current \in 0..count /\ expected \in 0..count
    /\ bytes \in 0..size
    /\ wire = NoFrame \/ wire \in [number : 0..(count - 1), sequence : 0..(Seqs - 1),
                                   length : 1..Cap]
    /\ refused \in BOOLEAN

\* No packet number is taken for another one: the sequence on the air is the
\* packet's number, up to the last packet of the largest file, although the
\* sessions count one further than 16 bits (reliable_transfer_v2.hpp:433).
NumbersAgree == wire # NoFrame => wire.sequence = wire.number

\* Sender and receiver cut a file in the same way: no packet of a supported file
\* is refused for its number or its length, in the first sending or a later one.
NothingRefused == ~refused

\* The pieces add up: when the last packet is in, the receiver has exactly the
\* bytes START announced, which is what END is checked against, and before that
\* each packet was full.
PiecesAddUp ==
    bytes = IF expected < count \/ count = 0 THEN expected * Cap ELSE size

\* Sender and receiver agree on numbers, lengths and sizes, however often packets
\* come again.
SizesAgree == NumbersAgree /\ NothingRefused /\ PiecesAddUp

=============================================================================
