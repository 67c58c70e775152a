----------------------------- MODULE ProtocolCodec -----------------------------
(***************************************************************************)
(* The 32 byte frames of protocol v2 (protocol_v2.hpp encode and decode)   *)
(* and the file type field a START carries (file_type_metadata.hpp): a     *)
(* packet is encoded, the frame may be damaged in one byte, and whatever   *)
(* it is then is decoded.                                                  *)
(*                                                                         *)
(* The layout of the frame is the code's.  A byte has Base values, 256 in  *)
(* the code; with fewer, the 32 bit words stay within the numbers of TLC,  *)
(* and the limits that are powers of 256 are the same powers of Base.  A   *)
(* character is one of a few: what the name checks tell apart.             *)
(***************************************************************************)
EXTENDS Integers, Sequences

CONSTANTS
    Base,         \* values of a byte
    Inputs,       \* packets that encode is given
    LogicalNames  \* names of the files that are sent

VARIABLES
    packet,   \* what is encoded
    frame,    \* the frame, or Unsent
    intact,   \* no byte of the frame was changed
    decoded   \* the packet decode returns, or NoPacket, NotYet

codecVars == <<packet, frame, intact, decoded>>

-----------------------------------------------------------------------------
(* Characters and names.                                                   *)

Nul == 0
Dot == 1
LetterP == 2
LetterA == 3
LetterR == 4
LetterT == 5
CapitalP == 6
Digit == 7
Slash == 8
Space == 9

Characters == Nul..Space
ExtensionBytes == 10

Lower(c) == IF c = CapitalP THEN LetterP ELSE c

PartSuffix == <<Dot, LetterP, LetterA, LetterR, LetterT>>

LowerAll(name) == [i \in 1..Len(name) |-> Lower(name[i])]

EndsWith(name, suffix) ==
    /\ Len(suffix) <= Len(name)
    /\ \A i \in 1..Len(suffix) : name[Len(name) - Len(suffix) + i] = suffix[i]

\* isInternalTransferName, and protectedName, which ignores case.
IsInternalTransferName(name) == EndsWith(name, PartSuffix)

ProtectedName(name) ==
    name = <<>> \/ Head(name) = Dot \/ EndsWith(LowerAll(name), PartSuffix)

\* Faulty: .PART is an extension like any other.
ValidExtension_Case(ext) ==
    /\ Len(ext) \in 2..ExtensionBytes /\ ext[1] = Dot
    /\ \A i \in 2..Len(ext) : ext[i] \in LetterP..Digit
    /\ ext # PartSuffix

ValidExtension(ext) ==
    /\ Len(ext) \in 2..ExtensionBytes /\ ext[1] = Dot
    /\ \A i \in 2..Len(ext) : ext[i] \in LetterP..Digit
    /\ LowerAll(ext) # PartSuffix

\* The field: the extension, filled up with zeros.
Padded(ext) == [i \in 1..ExtensionBytes |-> IF i <= Len(ext) THEN ext[i] ELSE Nul]

EmptyField == [i \in 1..ExtensionBytes |-> Nul]

\* The field up to its first zero.
ViewLength(field) ==
    CHOOSE n \in 0..ExtensionBytes :
        /\ \A i \in 1..n : field[i] # Nul
        /\ n < ExtensionBytes => field[n + 1] = Nul

View(field) == SubSeq(field, 1, ViewLength(field))

\* canonical, for a field that must not be empty.
CanonicalField(field) == ValidExtension(View(field)) /\ field = Padded(View(field))

\* The type begins with the last dot, unless a separator follows it or it is
\* the first character of the name proper.
TypeBegins(name, d) ==
    /\ name[d] = Dot /\ name[d - 1] # Slash
    /\ \A i \in (d + 1)..Len(name) : name[i] \notin {Dot, Slash}

Extension(name) ==
    SubSeq(name, CHOOSE d \in 2..Len(name) : TypeBegins(name, d), Len(name))

NoField == <<>>

\* Faulty: the type is not looked at before it is announced.
Derive_Unchecked(name) ==
    IF ~\E d \in 2..Len(name) : TypeBegins(name, d) THEN EmptyField
    ELSE Padded(Extension(name))

\* derive: the field for a name, or NoField; the dot of a hidden file is none.
Derive(name) ==
    IF ~\E d \in 2..Len(name) : TypeBegins(name, d) THEN EmptyField
    ELSE IF ValidExtension(Extension(name)) THEN Padded(Extension(name)) ELSE NoField

\* receivedName: a stem that names the transfer, and the type or .bin.
ReceivedName(partial, ext) ==
    <<LetterR, Digit>> \o
    (IF partial THEN PartSuffix ELSE IF ext = <<>> THEN <<Dot, LetterA>> ELSE ext)

StartMetadataValid(flags, field) ==
    IF flags = 0 THEN field = EmptyField ELSE flags = 1 /\ CanonicalField(field)

-----------------------------------------------------------------------------
(* Packets and numbers.                                                    *)

FrameSize == 32
Capacity == 20
Version == 2
Magic == <<18, 6, 19>>
MaxPacketCount == Base * Base

StartType == 1
ReadyType == 2
DataType == 3
AckType == 4
NackType == 5
EndType == 6
CompleteType == 7
ErrorType == 8
CancelType == 9

ErrorNone == 0
KnownErrors == 0..22

Sizes == INSTANCE PacketSizes WITH
            Cap <- Capacity, Seqs <- MaxPacketCount,
            Word <- MaxPacketCount * MaxPacketCount,
            size <- 0, count <- 0, current <- 0, expected <- 0, bytes <- 0,
            wire <- 0, refused <- FALSE

\* uint8_t, uint16_t and uint32_t.
Byte == 0..(Base - 1)
HalfWord == 0..(MaxPacketCount - 1)
Word32 == 0..(MaxPacketCount * MaxPacketCount - 1)

\* The flag accepted is 0 or 1.
PacketFields ==
    [type : StartType..CancelType, transfer_id : Word32, total_size : Word32,
     total_packets : Word32, crc32 : Word32, flags : Byte,
     extension : [1..ExtensionBytes -> Byte], sequence : HalfWord,
     expected_sequence : Word32, payload_length : Byte, payload : [1..Capacity -> Byte],
     accepted : {0, 1}, error : Byte, relevant_sequence : Word32, state : Byte]

\* Packet{}
EmptyPacket ==
    [type |-> ErrorType, transfer_id |-> 0, total_size |-> 0, total_packets |-> 0,
     crc32 |-> 0, flags |-> 0, extension |-> EmptyField, sequence |-> 0,
     expected_sequence |-> 0, payload_length |-> 0,
     payload |-> [i \in 1..Capacity |-> 0], accepted |-> 0, error |-> ErrorNone,
     relevant_sequence |-> 0, state |-> 0]

\* A packet of each type, with what its frame carries.
StartPacket(id, size, count, crc, flags, extension) ==
    [EmptyPacket EXCEPT !.type = StartType, !.transfer_id = id, !.total_size = size,
        !.total_packets = count, !.crc32 = crc, !.flags = flags, !.extension = extension]
ReadyPacket(id, next, accepted, error) ==
    [EmptyPacket EXCEPT !.type = ReadyType, !.transfer_id = id, !.expected_sequence = next,
        !.accepted = accepted, !.error = error]
DataPacket(id, number, length, payload) ==
    [EmptyPacket EXCEPT !.type = DataType, !.transfer_id = id, !.sequence = number,
        !.payload_length = length, !.payload = payload]
AckPacket(id, number) ==
    [EmptyPacket EXCEPT !.type = AckType, !.transfer_id = id, !.sequence = number]
NackPacket(id, next, error) ==
    [EmptyPacket EXCEPT !.type = NackType, !.transfer_id = id, !.expected_sequence = next,
        !.error = error]
EndPacket(id, size, count, crc) ==
    [EmptyPacket EXCEPT !.type = EndType, !.transfer_id = id, !.total_size = size,
        !.total_packets = count, !.crc32 = crc]
CompletePacket(id, size, crc, error) ==
    [EmptyPacket EXCEPT !.type = CompleteType, !.transfer_id = id, !.total_size = size,
        !.crc32 = crc, !.error = error]
ErrorPacket(id, error, relevant, state) ==
    [EmptyPacket EXCEPT !.type = ErrorType, !.transfer_id = id, !.error = error,
        !.relevant_sequence = relevant, !.state = state]
CancelPacket(id, error) ==
    [EmptyPacket EXCEPT !.type = CancelType, !.transfer_id = id, !.error = error]

\* The first bytes, and zeros.
First(n, bytes) == [i \in 1..Capacity |-> IF i <= n THEN bytes[i] ELSE 0]

\* What is left of a packet on the air: the fields of its type.
Carried(p) ==
    CASE p.type = StartType -> StartPacket(p.transfer_id, p.total_size, p.total_packets,
                                           p.crc32, p.flags, p.extension)
      [] p.type = ReadyType -> ReadyPacket(p.transfer_id, p.expected_sequence, p.accepted,
                                           p.error)
      [] p.type = DataType -> DataPacket(p.transfer_id, p.sequence, p.payload_length,
                                         First(p.payload_length, p.payload))
      [] p.type = AckType -> AckPacket(p.transfer_id, p.sequence)
      [] p.type = NackType -> NackPacket(p.transfer_id, p.expected_sequence, p.error)
      [] p.type = EndType -> EndPacket(p.transfer_id, p.total_size, p.total_packets, p.crc32)
      [] p.type = CompleteType -> CompletePacket(p.transfer_id, p.total_size, p.crc32, p.error)
      [] p.type = ErrorType -> ErrorPacket(p.transfer_id, p.error, p.relevant_sequence, p.state)
      [] p.type = CancelType -> CancelPacket(p.transfer_id, p.error)

\* Programs set the fields of a packet's type and no other.
Sendable == {p \in PacketFields : p = Carried(p)}

\* A START as SenderSession::begin makes it for a file of this name.
StartFor(name) ==
    StartPacket(1, Capacity + 1, 2, Base + 1,
                IF Derive(name) = EmptyField THEN 0 ELSE 1, Derive(name))

CodecAssumption ==
    /\ Base \in Nat /\ Base > 24
    /\ Inputs \subseteq Sendable
    /\ LogicalNames \subseteq Seq(Characters)

-----------------------------------------------------------------------------
(* encode                                                                  *)

\* n bytes are copied to a place in the frame.
Put(f, offset, n, bytes) ==
    [i \in 1..FrameSize |-> IF i \in (offset + 1)..(offset + n) THEN bytes[i - offset] ELSE f[i]]

StoreByte(f, offset, value) == Put(f, offset, 1, <<value>>)

\* storeLe16 and storeLe32: the bytes of a number, the lowest first.
StoreLe16(f, offset, value) == Put(f, offset, 2, <<value % Base, (value \div Base) % Base>>)

\* Faulty: the third byte is shifted as the second one is.
StoreLe32_Shift(f, offset, value) ==
    Put(f, offset, 4, <<value % Base, (value \div Base) % Base, (value \div Base) % Base,
                        (value \div (Base * Base * Base)) % Base>>)

StoreLe32(f, offset, value) ==
    Put(f, offset, 4, <<value % Base, (value \div Base) % Base,
                        (value \div (Base * Base)) % Base,
                        (value \div (Base * Base * Base)) % Base>>)

\* The fields of a packet that both directions check.
FieldsValid(p) ==
    /\ p.transfer_id # 0
    /\ p.type = StartType => StartMetadataValid(p.flags, p.extension)
    /\ p.type \in {StartType, EndType} => Sizes!Supported(p.total_size, p.total_packets)
    /\ p.type \in {ReadyType, NackType} => p.expected_sequence <= MaxPacketCount
    /\ p.type = ReadyType => p.error \in KnownErrors /\ (p.accepted = 1 <=> p.error = ErrorNone)
    /\ p.type = DataType => p.payload_length \in 1..Capacity
    /\ p.type = CompleteType => p.total_size <= Sizes!MaxSize /\ p.error = ErrorNone
    /\ p.type \in {NackType, ErrorType, CancelType} => p.error \in KnownErrors \ {ErrorNone}

WriteCommon(p) ==
    StoreLe32(Put([i \in 1..FrameSize |-> 0], 0, 5, Magic \o <<Version, p.type>>),
              5, p.transfer_id)

\* The size, the number of packets and the CRC of START and END.
WriteSizes(f, p) ==
    StoreLe32(StoreLe32(StoreLe32(f, 9, p.total_size), 13, p.total_packets), 17, p.crc32)

\* Faulty: the expected sequence is cut to 16 bits.
WriteNext_Short(f, p) == StoreLe16(f, 9, p.expected_sequence)

\* The expected sequence of READY and NACK.
WriteNext(f, p) == StoreLe32(f, 9, p.expected_sequence)

\* The bytes behind the common header, up to the reserved ones.
WriteBody(f, p) ==
    CASE p.type = StartType -> Put(StoreByte(WriteSizes(f, p), 21, p.flags),
                                   22, ExtensionBytes, p.extension)
      [] p.type = ReadyType -> StoreByte(StoreByte(WriteNext(f, p), 13, p.accepted),
                                         14, p.error)
      [] p.type = DataType -> Put(StoreByte(StoreLe16(f, 9, p.sequence), 11, p.payload_length),
                                  12, p.payload_length, p.payload)
      [] p.type = AckType -> StoreLe16(f, 9, p.sequence)
      [] p.type = NackType -> StoreByte(WriteNext(f, p), 13, p.error)
      [] p.type = EndType -> WriteSizes(f, p)
      [] p.type = CompleteType -> StoreByte(StoreLe32(StoreLe32(f, 9, p.total_size),
                                                      13, p.crc32), 17, p.error)
      [] p.type = ErrorType -> StoreByte(StoreLe32(StoreByte(f, 9, p.error),
                                                   10, p.relevant_sequence), 14, p.state)
      [] p.type = CancelType -> StoreByte(f, 9, p.error)

Encode(p) == WriteBody(WriteCommon(p), p)

-----------------------------------------------------------------------------
(* decode                                                                  *)

\* loadLe16 and loadLe32
LoadLe16(f, offset) == f[offset + 1] + f[offset + 2] * Base

LoadLe32(f, offset) ==
    f[offset + 1] + f[offset + 2] * Base + f[offset + 3] * (Base * Base)
        + f[offset + 4] * (Base * Base * Base)

AllZero(f, begin) == \A i \in (begin + 1)..FrameSize : f[i] = 0

HasHeader(f) ==
    /\ \A i \in 1..3 : f[i] = Magic[i]
    /\ f[4] = Version /\ f[5] \in StartType..CancelType

\* The fields decode fills in.
Fields(f) ==
    LET id == LoadLe32(f, 5)
    IN
    CASE f[5] = StartType -> StartPacket(id, LoadLe32(f, 9), LoadLe32(f, 13), LoadLe32(f, 17),
                                         f[22], [i \in 1..ExtensionBytes |-> f[22 + i]])
      [] f[5] = ReadyType -> ReadyPacket(id, LoadLe32(f, 9), IF f[14] # 0 THEN 1 ELSE 0, f[15])
      [] f[5] = DataType -> DataPacket(id, LoadLe16(f, 9), f[12],
                                       First(f[12], [i \in 1..Capacity |-> f[12 + i]]))
      [] f[5] = AckType -> AckPacket(id, LoadLe16(f, 9))
      [] f[5] = NackType -> NackPacket(id, LoadLe32(f, 9), f[14])
      [] f[5] = EndType -> EndPacket(id, LoadLe32(f, 9), LoadLe32(f, 13), LoadLe32(f, 17))
      [] f[5] = CompleteType -> CompletePacket(id, LoadLe32(f, 9), LoadLe32(f, 13), f[18])
      [] f[5] = ErrorType -> ErrorPacket(id, f[10], LoadLe32(f, 10), f[15])
      [] f[5] = CancelType -> CancelPacket(id, f[10])

\* Where the reserved bytes of a frame begin.
Used(p) ==
    CASE p.type = StartType -> FrameSize
      [] p.type = DataType -> 12 + p.payload_length
      [] p.type = AckType -> 11
      [] p.type = NackType -> 14
      [] p.type = EndType -> 21
      [] p.type = CompleteType -> 18
      [] p.type \in {ReadyType, ErrorType} -> 15
      [] p.type = CancelType -> 10

\* Faulty: any value that is not zero means accepted.
Acceptable_AnyFlag(f, p) == FieldsValid(p) /\ AllZero(f, Used(p))

\* The fields, the one flag of READY, and the reserved bytes.
Acceptable(f, p) ==
    /\ FieldsValid(p) /\ AllZero(f, Used(p))
    /\ p.type = ReadyType => f[14] <= 1

NoPacket == [type |-> 0]

Decode(f) == IF HasHeader(f) /\ Acceptable(f, Fields(f)) THEN Fields(f) ELSE NoPacket

-----------------------------------------------------------------------------
NotYet == [type |-> -1]
Unsent == <<>>

CodecInit ==
    /\ packet \in Inputs \cup {StartFor(n) : n \in {m \in LogicalNames : Derive(m) # NoField}}
    /\ frame = Unsent /\ intact = TRUE /\ decoded = NotYet

EncodePacket ==
    /\ frame = Unsent /\ FieldsValid(packet)
    /\ frame' = Encode(packet)
    /\ UNCHANGED <<packet, intact, decoded>>

\* What the radio's CRC lets through once in a while, or another sender's frame.
Damage ==
    /\ frame # Unsent /\ intact /\ decoded = NotYet
    /\ intact' = FALSE
    /\ \E i \in 1..FrameSize, b \in Byte :
          b # frame[i] /\ frame' = [frame EXCEPT ![i] = b]
    /\ UNCHANGED <<packet, decoded>>

DecodeFrame ==
    /\ frame # Unsent /\ decoded = NotYet
    /\ decoded' = Decode(frame)
    /\ UNCHANGED <<packet, frame, intact>>

CodecNext == EncodePacket \/ Damage \/ DecodeFrame

CodecSpec == CodecInit /\ [][CodecNext]_codecVars

-----------------------------------------------------------------------------
(* Properties.                                                             *)

Understood == decoded # NotYet /\ decoded # NoPacket

\* Every frame is 32 bytes, and a packet has the fields of its type, in their widths.
CodecTypeOK ==
    /\ frame = Unsent \/ frame \in [1..FrameSize -> Byte]
    /\ intact \in BOOLEAN
    /\ Understood => decoded \in PacketFields /\ decoded = Carried(decoded)

\* A packet that encode accepts is read back as it was, field by field.
RoundTrip == frame # Unsent /\ intact /\ decoded # NotYet => decoded = packet

\* A frame has one reading and a packet one frame: what decode accepts, damaged
\* or not, encode would have produced, down to the reserved bytes.
Canonical == Understood => FieldsValid(decoded) /\ Encode(decoded) = frame

\* A file that may be sent can be announced: the type derived from its name
\* passes the checks of encode and of the receiver.
NameIsSendable ==
    ~FieldsValid(packet) =>
        \A n \in LogicalNames : Derive(n) # NoField => packet # StartFor(n)

\* The published name of a received file is never one of those that the board
\* keeps to itself, sweeps at boot or hides from the host, whatever START says.
PublishedIsVisible ==
    Understood /\ decoded.type = StartType =>
        LET name == ReceivedName(FALSE, View(decoded.extension))
        IN  ~IsInternalTransferName(name) /\ ~ProtectedName(name)

\* A packet that encode accepts is read back as it was, every frame that decode
\* accepts is the one encode makes, a file that may be sent can be announced, and
\* no name that START leads to is one the board hides (protocol_v2.hpp encode and
\* decode, file_type_metadata.hpp).
CodecTrue == CodecTypeOK /\ RoundTrip /\ Canonical /\ NameIsSendable /\ PublishedIsVisible

=============================================================================
