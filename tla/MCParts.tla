------------------------------- MODULE MCParts -------------------------------
(***************************************************************************)
(* Instances of the parts that share no state with any other: the          *)
(* arithmetic of packets (PacketSizes), the frames (ProtocolCodec), what a *)
(* transmission reads (TransferService), live text (TextMessages), the     *)
(* one-way file stream (LegacyTransfer), and what a PC concludes about a   *)
(* transmission (TransferMonitor) and about the storage (StorageListing).  *)
(* The parts are extended, so that a run checks the definitions that are   *)
(* proved about.  A behaviour is one of one part, and `part` says which;   *)
(* the variables of the others stay as they began.                         *)
(***************************************************************************)
EXTENDS PacketSizes, ProtocolCodec, TransferService, LegacyTransfer, TextMessages,
        TransferMonitor, StorageListing, TLC

VARIABLE part

ASSUME Assumptions ==
    /\ CodecAssumption /\ TextAssumption /\ IdsTell
    /\ LegacyAssumption
    /\ ServiceAssumption /\ MonitorAssumption /\ ListingAssumption

boardVars == <<sizesVars, codecVars, serviceVars, textVars, legacyVars>>
pcVars == <<monitorVars, listingVars>>
allVars == <<part, boardVars, pcVars>>

-----------------------------------------------------------------------------
\* The parts that have many initial states have one where another is looked at.
MCInit ==
    /\ part \in {"sizes", "codec", "service", "texts", "legacy", "monitor", "listing"}
    /\ part # "codec" => packet = CHOOSE p \in Inputs : FieldsValid(p)
    /\ part # "sizes" => size = 0 /\ count = 0
    /\ part # "texts" => outbox = CHOOSE box \in Outboxes : TRUE
    /\ CodecInit /\ SizesInit /\ TextsInit
    /\ ServiceInit /\ LegacyInit
    /\ MonitorInit /\ ListingInit
    /\ part # "listing" => Present(files) = {}

OnBoard ==
    \/ /\ part = "sizes" /\ SizesNext
       /\ UNCHANGED <<codecVars, serviceVars, textVars, legacyVars>>
    \/ /\ part = "codec" /\ CodecNext
       /\ UNCHANGED <<sizesVars, serviceVars, textVars, legacyVars>>
    \/ /\ part = "service" /\ ServiceNext
       /\ UNCHANGED <<sizesVars, codecVars, textVars, legacyVars>>
    \/ /\ part = "texts" /\ TextsNext
       /\ UNCHANGED <<sizesVars, codecVars, serviceVars, legacyVars>>
    \/ /\ part = "legacy" /\ LegacyNext
       /\ UNCHANGED <<sizesVars, codecVars, serviceVars, textVars>>

\* Bound: this PC asks a second time only where nobody else transmits.
AsksTwiceAlone == spent.requests <= 1 \/ spent.others = 0

OnPc ==
    \/ part = "monitor" /\ MonitorNext /\ AsksTwiceAlone' /\ UNCHANGED listingVars
    \/ part = "listing" /\ ListingNext /\ UNCHANGED monitorVars

MCNext ==
    \/ OnBoard /\ UNCHANGED <<part, pcVars>>
    \/ OnPc /\ UNCHANGED <<part, boardVars>>

MCSpec == MCInit /\ [][MCNext]_allVars

-----------------------------------------------------------------------------
(* Values for the constants.                                               *)

CONSTANTS west, east, mid, long, same, short, order, fileA, fileB

\* The monitor compares names of files and nothing else, and no other part has
\* any of these two; every property of this run is a safety property.
FileNames == Permutations({fileA, fileB})

\* Two texts with one id and different lengths, a short one, and a command.
AllIds == long :> 1 @@ same :> 1 @@ short :> 5 @@ order :> 7
AllChunks == long :> 2 @@ same :> 3 @@ short :> 1 @@ order :> 1

\* Two senders that do not hear each other, and a listener that hears both.
HiddenSenders == west :> {mid} @@ east :> {mid} @@ mid :> {}
TwoOutboxes ==
    {west :> <<long, order>> @@ east :> <<same>> @@ mid :> <<>>,
     west :> <<long, short>> @@ east :> <<order>> @@ mid :> <<>>}

\* A file too long for the sequence numbers, an empty one, and one that fits.
EdgeFiles == <<"nine", "none", "four">>
FileSizes == "nine" :> 9 @@ "none" :> 0 @@ "four" :> 4

\* Packets at the limits of each type, also such as encode must refuse: one below,
\* at and one above a number, and a file whose last byte is zero, like the reserved
\* bytes behind it.
Around(n) == {n - 1, n, n + 1}
Largest == Base^4 - 1
Mixed == [i \in 1..Capacity |-> (i * 7) % Base]
Blank == [i \in 1..Capacity |-> 0]

EdgePackets ==
    {StartPacket(1, s, n, Largest, 0, EmptyField) :
        s \in {0, 1} \cup Around(Capacity) \cup Around(Capacity * MaxPacketCount),
        n \in {0, 1, 2} \cup Around(MaxPacketCount)}
    \cup {EndPacket(1, s, n, Largest) :
        s \in {0, 1} \cup Around(Capacity) \cup Around(Capacity * MaxPacketCount),
        n \in {0, 1, 2} \cup Around(MaxPacketCount)}
    \cup {ReadyPacket(Largest, n, a, e) :
        n \in {0} \cup Around(MaxPacketCount), a \in {0, 1}, e \in {0, 22, 23}}
    \cup {DataPacket(5, n, l, First(l, c)) :
        n \in {0, MaxPacketCount - 1}, l \in {0, 1, Capacity}, c \in {Mixed, Blank}}
    \cup {AckPacket(5, n) : n \in {0, Base, MaxPacketCount - 1}}
    \cup {NackPacket(5, n, e) : n \in {0} \cup Around(MaxPacketCount), e \in {0, 8}}
    \cup {CompletePacket(5, n, 77, e) :
        n \in {0} \cup Around(Capacity * MaxPacketCount), e \in {0, 16}}
    \cup {ErrorPacket(id, e, 0, 0) : id \in {0, 5}, e \in {0, 1, 22, 23}}
    \cup {CancelPacket(id, e) : id \in {0, 5}, e \in {0, 1, 22, 23}}
    \cup {ErrorPacket(5, 9, Base^3, 3)}

\* Names whose type is announced, without one, and with one that must not be sent.
EdgeNames ==
    {<<LetterP>> \o t : t \in
        {<<>>, <<Dot>>, <<Dot, LetterA>>, PartSuffix,
         <<Dot, CapitalP, LetterA, LetterR, LetterT>>,
         <<Dot, LetterA, Dot, Digit>>, <<Dot, LetterA, Slash, Digit>>,
         <<Dot, Space>>, <<Dot, LetterA, Nul, Digit>>,
         <<Dot>> \o [i \in 1..(ExtensionBytes - 1) |-> Digit],
         <<Dot>> \o [i \in 1..ExtensionBytes |-> Digit],
         PartSuffix \o <<Dot, LetterA>>}}
    \cup {<<Dot, LetterA>>, <<LetterA, Slash, Dot, LetterP>>}

=============================================================================
